---------------------------- MODULE MCTileQuery -----------------------------
(***************************************************************************)
(* An instance of TileQuery for TLC: every kind of parameter, keys, filters *)
(* and answers with and without an OR.  A plugin that answers the empty text   *)
(* leaves a request as one that raises an error does.                      *)
(***************************************************************************)
EXTENDS TileQuery

CONSTANTS r1, r2,           \* requests
          f1, f2, f3, f4,   \* fields of parameters, with their operator
          a, b,             \* conditions of admins and of keys
          v1, v2, v3,       \* values
          tile              \* a bind of the template

Param(field, logic, values) ==
    [field |-> field, logic |-> logic, known |-> TRUE, valid |-> TRUE, values |-> values,
     also |-> <<>>, either |-> <<>>]

Says(x) == [field |-> x, slots |-> <<>>]

Eq == Param(f1, "and", <<v1>>)             \* f1 = v1
OrIn == Param(f2, "or", <<v2, v3>>)         \* or__f2__in = v2,v3
Or == Param(f3, "or", <<v1>>)               \* or__f3 = v1
Not == Param(f1, "not", <<v3>>)             \* not__f1 = v3
InNothing == Param(f2, "and", <<>>)         \* f2__in = ,
Unknown == [Param(f4, "and", <<v1>>) EXCEPT !.known = FALSE]
Refused == [Param(f4, "and", <<v1>>) EXCEPT !.valid = FALSE]
\* Keys that are more than a field, in each logic.
KeyAnd == [Eq EXCEPT !.also = <<Says(b)>>]
KeyOr == [Eq EXCEPT !.either = << <<Says(b)>> >>]
KeyInOr == [Or EXCEPT !.either = << <<Says(a)>> >>, !.also = <<Says(b)>>]
KeyInNot == [Not EXCEPT !.either = << <<Says(a), Says(b)>> >>]
KeyBorrows == [Eq EXCEPT !.also = << [field |-> f3, slots |-> <<9>>] >>]
OrNothing == [InNothing EXCEPT !.either = << <<Says(a)>> >>, !.valid = FALSE]

MCParams == {Eq, OrIn, Or, Not, InNothing, Unknown, Refused,
             KeyAnd, KeyOr, KeyInOr, KeyInNot, KeyBorrows, OrNothing}

\* The first request has up to three parameters, the second none.
MCUrls == [r \in Requests |->
             IF r = r1
             THEN { {}, {Unknown}, {Refused, Eq}, {InNothing}, {Or, Unknown},
                    {Eq, OrIn, Or}, {OrIn, Or, Not}, {Eq, OrIn, Not}, {Or, InNothing, Not},
                    {KeyAnd, OrIn}, {KeyOr, Or}, {KeyInOr, OrIn}, {KeyInNot, KeyAnd},
                    {KeyBorrows, Or}, {OrNothing} }
             ELSE {{}}]

Text(text) == [text |-> text, valid |-> TRUE]
Unrestricted == Text(<<>>)
OnlyA == Text(<< <<Says(a)>> >>)
OnlyB == Text(<< <<Says(b)>> >>)
AOrB == Text(<< <<Says(a)>>, <<Says(b)>> >>)

MCFilters == {Unrestricted, OnlyA, AOrB, [OnlyA EXCEPT !.valid = FALSE]}
MCAnswers == {OnlyB, AOrB, [OnlyB EXCEPT !.valid = FALSE]}

\* Without an OR in any filter or plugin.
PlainFilters == {OnlyA}
PlainAnswers == {OnlyB}

Fact(field, values) == [field |-> field, values |-> values]
Here == Fact(inside, <<tile, tile, tile, tile>>)
SomeFacts == {Fact(f1, <<v1>>), Fact(a, <<>>), Fact(b, <<>>)}
\* Rows of the tile with any facts, and some that are elsewhere.
MCRows ==
    {row \cup {Here} : row \in SUBSET ({Fact(f1, <<v3>>), Fact(f2, <<v2, v3>>), Fact(f3, <<v1>>)}
                                        \cup SomeFacts)}
    \cup SUBSET SomeFacts

MCFixed == [i \in 1..8 |-> tile]

=============================================================================
