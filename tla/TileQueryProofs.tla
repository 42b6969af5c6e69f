-------------------------- MODULE TileQueryProofs ---------------------------
(***************************************************************************)
(* TileQuery for any number of requests and any parameters, keys, filters  *)
(* and plugin answers: the types, the numbering of the placeholders, that  *)
(* what is kept for others is unfiltered, and what the clause means.       *)
(***************************************************************************)
EXTENDS TileQuery, TLAPS

\* The conditions, and the entries of `built`, that a build can make.
Conditions == {Condition(bindings, p) : bindings \in Seq(Values), p \in Params}
Entries == [param : Params, condition : Conditions]

\* All conditions there may be, and the texts and literals made of them.
Pieces ==
    Conditions \cup (UNION {ConditionsOf(p.either) \cup Range(p.also) : p \in Params})
               \cup (UNION {ConditionsOf(t.text) : t \in Filters \cup Answers})

SqlTexts == Seq(Seq(Pieces))
Literals == {Literal(kind, text) : kind \in {"plain", "not"}, text \in SqlTexts}
Clauses == Seq(Seq(Literals))

Fields == {"pc", "params", "rest", "built", "bindings", "ands", "ors", "nots", "clause", "texts"}

\* x is a record with the fields of a request, whatever its clause and texts.
RequestShape(x) == x = [f \in Fields |-> x[f]]

RequestType(x) ==
    /\ RequestShape(x)
    /\ x.pc \in Pcs
    /\ x.params \subseteq Params
    /\ x.rest \subseteq x.params
    /\ x.built \in Seq(Entries)
    /\ x.bindings \in Seq(Values)
    /\ x.ands \in Clauses
    /\ x.ors \in SqlTexts
    /\ x.nots \in Clauses

\* Each parameter with a condition was read from the URL and has an operator.
RequestRead(x) ==
    \A n \in DOMAIN x.built :
        x.built[n].param \in x.params \ x.rest /\ x.built[n].param.known

\* The placeholders of the conditions, in terms of the bindings alone.
Bound(built, bindings) ==
    \A n \in DOMAIN built : \A i \in DOMAIN built[n].param.values :
        /\ built[n].condition.slots[i] \in 9..(8 + Len(bindings))
        /\ bindings[built[n].condition.slots[i] - 8] = built[n].param.values[i]

RequestBound(x) == Bound(x.built, x.bindings)

\* Nothing has become part of a clause.
NoClause(x) == x.ands = <<>> /\ x.ors = <<>> /\ x.nots = <<>>

\* Without parameters there is no clause, and without a clause no binding.
RequestUnbound(x) ==
    /\ x.params = {} => NoClause(x)
    /\ NoClause(x) => x.bindings = <<>>

\* Without a clause of the user and of plugins, the clause is the layer's.
RequestPlain(x) ==
    /\ x.pc = "plugins" /\ FilterClause(x) = <<>> => x.clause = Bare(filter.text)
    /\ x.pc \in {"query", "answer"} /\ FilterClause(x) = <<>> /\ ~HasPlugin
        => x.clause = Bare(filter.text)

RequestOK(x) == RequestType(x) /\ RequestRead(x) /\ RequestBound(x) /\ RequestUnbound(x)

IInv ==
    /\ plugins \subseteq {"category", "layer"}
    /\ filter \in Filters
    /\ request = [r \in Requests |-> request[r]]
    /\ \A r \in Requests : RequestOK(request[r]) /\ RequestPlain(request[r])
    /\ SharedTilesAreUnfiltered

-----------------------------------------------------------------------------
(***************************************************************************)
(* Texts and clauses are well-formed.                                      *)
(***************************************************************************)

\* Joining an empty text leaves the other as it is.
LEMMA AndEmpty == ASSUME NEW x PROVE And(x, <<>>) = x /\ And(<<>>, x) = x
BY DEF And

\* What is made of a sequence, entry by entry, is a sequence as long.
LEMMA Mapped ==
    ASSUME NEW S, NEW T, NEW s \in Seq(S), NEW f, f = [i \in DOMAIN s |-> f[i]],
           \A i \in DOMAIN s : f[i] \in T
    PROVE  f \in Seq(T) /\ Len(f) = Len(s)
<1>1. DOMAIN s = 1..Len(s) /\ Len(s) \in Nat
  OBVIOUS
<1>2. f \in [1..Len(s) -> T]
  BY <1>1
<1> QED
  BY <1>1, <1>2

LEMMA Concatenated ==
    ASSUME NEW T, NEW s \in Seq(T), NEW t \in Seq(T)
    PROVE  s \o t \in Seq(T) /\ Len(s \o t) = Len(s) + Len(t)
<1>1. s \o t \in Seq(T)
  OBVIOUS
<1>2. Len(s \o t) = Len(s) + Len(t)
  OBVIOUS
<1> QED
  BY <1>1, <1>2

LEMMA Appended ==
    ASSUME NEW T, NEW s \in Seq(T), NEW e \in T
    PROVE  Append(s, e) \in Seq(T) /\ Append(s, e) # <<>>
<1>1. Append(s, e) \in Seq(T)
  OBVIOUS
<1>2. Len(Append(s, e)) = Len(s) + 1 /\ Len(s) \in Nat
  OBVIOUS
<1> QED
  BY <1>1, <1>2

\* Two clauses are joined to a clause, which is empty only if both are.
LEMMA AndTyped ==
    ASSUME NEW S, NEW a \in Seq(Seq(S)), NEW b \in Seq(Seq(S))
    PROVE  And(a, b) \in Seq(Seq(S)) /\ (And(a, b) = <<>> <=> a = <<>> /\ b = <<>>)
<1>1. CASE a = <<>> \/ b = <<>>
  BY <1>1, AndEmpty
<1>2. CASE a # <<>> /\ b # <<>>
  <2>1. Len(a) \in Nat \ {0} /\ Len(b) \in Nat \ {0}
    BY <1>2
  <2>2. Last(a) \in Seq(S) /\ Head(b) \in Seq(S)
    BY <1>2, <2>1 DEF Last
  <2>3. Front(a) \in Seq(Seq(S)) /\ Tail(b) \in Seq(Seq(S))
    BY <1>2, <2>1 DEF Front
  <2> DEFINE middle == << Last(a) \o Head(b) >>
  <2>4. middle \in Seq(Seq(S)) /\ Len(middle) = 1
    BY <2>2
  <2>5. And(a, b) = (Front(a) \o middle) \o Tail(b)
    BY <1>2 DEF And
  <2> HIDE DEF middle
  <2>6. Len(Front(a)) \in Nat /\ Len(Tail(b)) \in Nat
    BY <2>3
  <2>7. /\ Front(a) \o middle \in Seq(Seq(S))
        /\ Len(Front(a) \o middle) = Len(Front(a)) + 1
    BY <2>3, <2>4, Concatenated
  <2>8. /\ And(a, b) \in Seq(Seq(S))
        /\ Len(And(a, b)) = Len(Front(a)) + 1 + Len(Tail(b))
    BY <2>3, <2>5, <2>7, Concatenated
  <2> QED
    BY <1>2, <2>6, <2>8
<1> QED
  BY <1>1, <1>2

LEMMA WiderClause ==
    ASSUME NEW A, NEW B, A \subseteq B, NEW clause \in Seq(Seq(A))
    PROVE  clause \in Seq(Seq(B))
<1>1. ASSUME NEW s \in Seq(A) PROVE s \in Seq(B)
  OBVIOUS
<1>2. \A n \in 1..Len(clause) : clause[n] \in Seq(B)
  BY <1>1
<1>3. clause \in [1..Len(clause) -> Seq(B)] /\ Len(clause) \in Nat
  BY <1>2
<1> QED
  BY <1>3

\* The texts of filters, of plugins and of keys, and the text of a condition.
LEMMA TextsTyped ==
    /\ \A t \in Filters \cup Answers : t.text \in SqlTexts
    /\ \A p \in Params : p.either \in SqlTexts /\ p.also \in Seq(Pieces)
<1>1. ASSUME NEW t \in Filters \cup Answers PROVE t.text \in SqlTexts
  <2>1. ConditionsOf(t.text) \subseteq Pieces
    BY DEF Pieces
  <2> QED
    BY <2>1, TileQueryAssumption, WiderClause DEF SqlTexts
<1>2. ASSUME NEW p \in Params PROVE p.either \in SqlTexts /\ p.also \in Seq(Pieces)
  <2>1. ConditionsOf(p.either) \subseteq Pieces /\ Range(p.also) \subseteq Pieces
    BY DEF Pieces
  <2>2. p.either \in SqlTexts
    BY <2>1, TileQueryAssumption, WiderClause DEF SqlTexts
  <2>3. p.also \in Seq(Range(p.also))
    BY TileQueryAssumption
  <2>4. \A i \in DOMAIN p.also : p.also[i] \in Pieces
    BY <2>1, <2>3
  <2>5. p.also \in Seq(Pieces)
    BY <2>3, <2>4
  <2> QED
    BY <2>2, <2>5
<1> QED
  BY <1>1, <1>2

LEMMA ConditionTextTyped ==
    ASSUME NEW p \in Params, NEW c \in Conditions
    PROVE  ConditionText(p, c) \in SqlTexts /\ ConditionText(p, c) # <<>>
<1>1. c \in Pieces
  BY DEF Pieces
<1>2. << c >> \in Seq(Pieces) /\ << <<c>> >> \in SqlTexts /\ << <<c>> >> # <<>>
  BY <1>1 DEF SqlTexts
<1>3. p.either \in Seq(Seq(Pieces)) /\ p.also \in Seq(Pieces)
  BY TextsTyped DEF SqlTexts
<1>4. Append(p.also, c) \in Seq(Pieces)
  BY <1>1, <1>3
<1>5. /\ Append(p.either, Append(p.also, c)) \in SqlTexts
      /\ Append(p.either, Append(p.also, c)) # <<>>
  BY <1>3, <1>4, Appended DEF SqlTexts
<1> QED
  BY <1>2, <1>5 DEF ConditionText

LEMMA BareTyped ==
    ASSUME NEW text \in SqlTexts
    PROVE  Bare(text) \in Clauses /\ Len(Bare(text)) = Len(text) /\ (Bare(text) = <<>> <=> text = <<>>)
<1>1. ASSUME NEW n \in DOMAIN text PROVE Bare(text)[n] \in Seq(Literals)
  <2> DEFINE s == text[n]
             f == [i \in DOMAIN s |-> Literal("plain", << <<s[i]>> >>)]
  <2>1. s \in Seq(Pieces)
    BY DEF SqlTexts
  <2> HIDE DEF s
  <2>2. ASSUME NEW i \in DOMAIN s PROVE f[i] \in Literals
    <3>1. s[i] \in Pieces
      BY <2>1
    <3>2. << s[i] >> \in Seq(Pieces)
      BY <3>1
    <3>3. << <<s[i]>> >> \in SqlTexts
      BY <3>2 DEF SqlTexts
    <3> QED
      BY <3>3 DEF Literals
  <2>3. f = [i \in DOMAIN s |-> f[i]]
    OBVIOUS
  <2>4. f \in Seq(Literals)
    <3> HIDE DEF f
    <3> QED
      BY <2>1, <2>2, <2>3, Mapped
  <2> QED
    BY <2>4 DEF Bare, s
<1>2. Bare(text) = [n \in DOMAIN text |-> Bare(text)[n]]
  BY DEF Bare
<1>3. Bare(text) \in Clauses /\ Len(Bare(text)) = Len(text)
  <2>1. text \in Seq(Seq(Pieces))
    BY DEF SqlTexts
  <2> QED
    BY <1>1, <1>2, <2>1, Mapped DEF Clauses
<1>4. text = <<>> <=> Len(text) = 0
  BY DEF SqlTexts
<1>5. Bare(text) = <<>> <=> Len(Bare(text)) = 0
  BY <1>3 DEF Clauses
<1> QED
  BY <1>3, <1>4, <1>5

LEMMA BareEmpty == Bare(<<>>) = <<>>
BY DEF Bare

LEMMA BracketsTyped ==
    ASSUME NEW text \in SqlTexts
    PROVE  /\ Bracketed(text) \in Clauses /\ (Bracketed(text) = <<>> <=> text = <<>>)
           /\ Negated(text) \in Clauses /\ Negated(text) # <<>>
<1>1. Literal("plain", text) \in Literals /\ Literal("not", text) \in Literals
  BY DEF Literals
<1>2. \A l \in Literals : << <<l>> >> \in Clauses /\ << <<l>> >> # <<>>
  BY DEF Clauses
<1>3. <<>> \in Clauses
  BY DEF Clauses
<1> QED
  BY <1>1, <1>2, <1>3 DEF Bracketed, Negated

\* The user's clause is empty only when no parameter became a condition.
LEMMA FilterClauseTyped ==
    ASSUME NEW x, x.ands \in Clauses, x.ors \in SqlTexts, x.nots \in Clauses
    PROVE  FilterClause(x) \in Clauses /\ (FilterClause(x) = <<>> <=> NoClause(x))
<1> DEFINE front == And(x.ands, Bracketed(x.ors))
<1>1. Bracketed(x.ors) \in Clauses /\ (Bracketed(x.ors) = <<>> <=> x.ors = <<>>)
  BY BracketsTyped
<1>2. front \in Clauses /\ (front = <<>> <=> x.ands = <<>> /\ x.ors = <<>>)
  BY <1>1, AndTyped DEF Clauses
<1> HIDE DEF front
<1>3. /\ And(front, x.nots) \in Clauses
      /\ And(front, x.nots) = <<>> <=> front = <<>> /\ x.nots = <<>>
  BY <1>2, AndTyped DEF Clauses
<1> QED
  BY <1>2, <1>3 DEF FilterClause, NoClause, front

-----------------------------------------------------------------------------
(***************************************************************************)
(* The invariant is inductive.                                             *)
(***************************************************************************)

\* Without parameters there is no clause of the user.
LEMMA NoParameters ==
    ASSUME NEW x, RequestOK(x), x.params = {}
    PROVE  FilterClause(x) = <<>>
<1>1. NoClause(x)
  BY DEF RequestOK, RequestUnbound
<1> QED
  BY <1>1, FilterClauseTyped DEF RequestOK, RequestType

\* The tile of a request without a clause of the user and of plugins.
LEMMA PlainTile ==
    ASSUME NEW x, RequestOK(x), RequestPlain(x), x.pc = "answer",
           FilterClause(x) = <<>>, ~HasPlugin
    PROVE  Tile(x.clause, x.bindings) = Tile(Bare(filter.text), <<>>)
<1>1. NoClause(x)
  BY FilterClauseTyped DEF RequestOK, RequestType
<1>2. x.bindings = <<>>
  BY <1>1 DEF RequestOK, RequestUnbound
<1> QED
  BY <1>2 DEF RequestPlain

\* A request that has not begun.
LEMMA IdleOK == RequestOK(idle) /\ RequestPlain(idle)
BY DEF idle, Fields, RequestOK, RequestType, RequestShape, RequestRead, RequestBound, RequestUnbound,
       RequestPlain, Bound, Pcs, NoClause, Clauses, SqlTexts

LEMMA InitInv == Init => IInv
BY IdleOK DEF Init, IInv, SharedTilesAreUnfiltered

\* A step of r that keeps what all requests share only has to account for r.
LEMMA OneRequest ==
    ASSUME IInv, NEW r \in Requests, NEW x,
           request' = [request EXCEPT ![r] = x],
           UNCHANGED <<plugins, filter>>,
           RequestOK(x), RequestPlain(x), SharedTilesAreUnfiltered'
    PROVE  IInv'
<1>1. \A q \in Requests : RequestOK(request'[q]) /\ RequestPlain(request'[q])
  BY DEF IInv
<1>2. \A q \in Requests : (RequestPlain(request[q]))'
  BY <1>1 DEF RequestPlain, HasPlugin
<1>3. \A q \in Requests : (RequestOK(request[q]))'
  BY <1>1 DEF RequestOK, RequestType, RequestShape, RequestRead, RequestBound, RequestUnbound
<1>4. request' = [q \in Requests |-> request'[q]]
  BY DEF IInv
<1> QED
  BY <1>2, <1>3, <1>4 DEF IInv

\* A request that fails, or that has its answer, is idle again.
LEMMA FailsOK ==
    ASSUME IInv, NEW r \in Requests, Fails(r), UNCHANGED <<plugins, filter, cached>>
    PROVE  IInv'
<1>1. SharedTilesAreUnfiltered'
  BY DEF IInv, Fails, SharedTilesAreUnfiltered, Tile
<1> QED
  BY <1>1, OneRequest, IdleOK DEF Fails

LEMMA AskOK ==
    ASSUME IInv, NEW r \in Requests, NEW params \in Urls[r], Ask(r, params)
    PROVE  IInv'
<1> DEFINE x == [idle EXCEPT !.pc = "build", !.params = params, !.rest = params]
<1>1. params \subseteq Params
  BY TileQueryAssumption
<1>2. /\ x.pc = "build" /\ x.params = params /\ x.rest = params
      /\ x.built = <<>> /\ x.bindings = <<>> /\ x.ands = <<>> /\ x.ors = <<>> /\ x.nots = <<>>
      /\ RequestShape(x)
  BY DEF idle, RequestShape, Fields
<1>4. RequestOK(x) /\ RequestPlain(x)
  <2> HIDE DEF x
  <2> QED
    BY <1>1, <1>2 DEF RequestOK, RequestType, RequestRead, RequestBound, RequestUnbound,
                      RequestPlain, Bound, Pcs, NoClause, Clauses, SqlTexts
<1>3. SharedTilesAreUnfiltered'
  BY DEF IInv, Ask, SharedTilesAreUnfiltered, Tile
<1> HIDE DEF x
<1> QED
  BY <1>3, <1>4, OneRequest DEF Ask, x

\* The placeholders that p is given are those of its values.
LEMMA SlotsBound ==
    ASSUME NEW bindings \in Seq(Values), NEW p \in Params,
           NEW i \in DOMAIN p.values
    PROVE  /\ Slots(bindings, p)[i] \in 9..(8 + Len(bindings \o p.values))
           /\ (bindings \o p.values)[Slots(bindings, p)[i] - 8] = p.values[i]
<1>1. p.values \in Seq(Values)
  BY TileQueryAssumption
<1>2. i \in 1..Len(p.values) /\ Len(p.values) \in Nat /\ Len(bindings) \in Nat
  BY <1>1
<1>3. Slots(bindings, p)[i] = 9 + Len(bindings) + i - 1
  BY DEF Slots
<1>4. Len(bindings \o p.values) = Len(bindings) + Len(p.values)
  BY <1>1
<1>5. (bindings \o p.values)[Len(bindings) + i] = p.values[i]
  BY <1>1, <1>2
<1>6. Slots(bindings, p)[i] - 8 = Len(bindings) + i
  BY <1>2, <1>3
<1>7. Slots(bindings, p)[i] \in 9..(8 + Len(bindings \o p.values))
  BY <1>2, <1>3, <1>4
<1> QED
  BY <1>5, <1>6, <1>7

\* What was bound stays bound when bindings are added.
LEMMA StillBound ==
    ASSUME NEW bindings \in Seq(Values), NEW more \in Seq(Values),
           NEW n \in 9..(8 + Len(bindings))
    PROVE  /\ n \in 9..(8 + Len(bindings \o more))
           /\ (bindings \o more)[n - 8] = bindings[n - 8]
<1>1. Len(bindings \o more) = Len(bindings) + Len(more) /\ Len(bindings) \in Nat /\ Len(more) \in Nat
  OBVIOUS
<1>2. n - 8 \in 1..Len(bindings)
  BY <1>1
<1> QED
  BY <1>1, <1>2

\* A part with one entry more.
LEMMA OneMore ==
    ASSUME NEW S, NEW s \in Seq(S), NEW e \in S
    PROVE  /\ DOMAIN Append(s, e) = DOMAIN s \cup {Len(s) + 1}
           /\ Append(s, e)[Len(s) + 1] = e
           /\ \A n \in DOMAIN s : Append(s, e)[n] = s[n]
OBVIOUS

\* The conditions and parts of a request after p.
LEMMA ExtendedIs ==
    ASSUME NEW x, RequestType(x), NEW p \in x.rest
    PROVE  LET condition == Condition(x.bindings, p)
               text == ConditionText(p, condition)
               y == Extended(x, p)
           IN  /\ y.pc = x.pc /\ y.params = x.params /\ y.rest = x.rest \ {p}
               /\ y.built = Append(x.built, [param |-> p, condition |-> condition])
               /\ y.bindings = x.bindings \o p.values
               /\ y.ands = IF p.logic = "and" THEN And(x.ands, Bare(text)) ELSE x.ands
               /\ y.ors = IF p.logic = "or" THEN x.ors \o text ELSE x.ors
               /\ y.nots = IF p.logic = "not" THEN And(x.nots, Negated(text)) ELSE x.nots
               /\ RequestShape(y)
<1> DEFINE condition == Condition(x.bindings, p)
           text == ConditionText(p, condition)
           built == Append(x.built, [param |-> p, condition |-> condition])
           bindings == x.bindings \o p.values
           ands == IF p.logic = "and" THEN And(x.ands, Bare(text)) ELSE x.ands
           ors == IF p.logic = "or" THEN x.ors \o text ELSE x.ors
           nots == IF p.logic = "not" THEN And(x.nots, Negated(text)) ELSE x.nots
           y == [x EXCEPT !.rest = x.rest \ {p}, !.built = built, !.bindings = bindings,
                          !.ands = ands, !.ors = ors, !.nots = nots]
<1>1. Extended(x, p) = y
  BY DEF Extended
<1>2. x = [f \in Fields |-> x[f]]
  BY DEF RequestType, RequestShape
<1> HIDE DEF built, bindings, ands, ors, nots
<1>3. /\ y.pc = x.pc /\ y.params = x.params /\ y.rest = x.rest \ {p} /\ y.built = built
      /\ y.bindings = bindings /\ y.ands = ands /\ y.ors = ors /\ y.nots = nots
      /\ RequestShape(y)
  BY <1>2 DEF Fields, RequestShape
<1> QED
  BY <1>1, <1>3 DEF built, bindings, ands, ors, nots

LEMMA BuildOK ==
    ASSUME IInv, NEW r \in Requests, NEW p \in request[r].rest, Build(r, p)
    PROVE  IInv'
<1> DEFINE x == request[r]
           condition == Condition(x.bindings, p)
           entry == [param |-> p, condition |-> condition]
           text == ConditionText(p, condition)
           read == Extended(x, p)
           skipped == Skipped(x, p)
<1>1. RequestOK(x) /\ x.pc = "build"
  BY DEF IInv, Build
<1>2. p \in Params /\ p.values \in Seq(Values) /\ p.logic \in Logics /\ p \in x.params
  BY <1>1, TileQueryAssumption DEF RequestOK, RequestType
<1>3. SharedTilesAreUnfiltered'
  BY DEF IInv, Build, SharedTilesAreUnfiltered, Tile
<1>4. CASE HasOperator(p)
  <2>1. request' = [request EXCEPT ![r] = read]
    BY <1>4 DEF Build
  <2>2. /\ x.built \in Seq(Entries) /\ x.bindings \in Seq(Values)
        /\ x.ands \in Clauses /\ x.ors \in SqlTexts /\ x.nots \in Clauses
    BY <1>1 DEF RequestOK, RequestType
  <2>3. condition \in Conditions /\ entry \in Entries
    BY <1>2, <2>2 DEF Entries, Conditions
  <2>4. text \in SqlTexts /\ text # <<>>
    BY <1>2, <2>3, ConditionTextTyped
  <2>5. /\ read.pc = "build" /\ read.params = x.params /\ read.rest = x.rest \ {p}
        /\ read.built = Append(x.built, entry)
        /\ read.bindings = x.bindings \o p.values
        /\ read.ands = IF p.logic = "and" THEN And(x.ands, Bare(text)) ELSE x.ands
        /\ read.ors = IF p.logic = "or" THEN x.ors \o text ELSE x.ors
        /\ read.nots = IF p.logic = "not" THEN And(x.nots, Negated(text)) ELSE x.nots
        /\ RequestShape(read)
    BY <1>1, ExtendedIs DEF RequestOK
  <2> HIDE DEF read, condition, text
  <2>6. read.ands \in Clauses /\ (p.logic = "and" => read.ands # <<>>)
    <3>1. Bare(text) \in Clauses /\ Bare(text) # <<>>
      BY <2>4, BareTyped
    <3>2. And(x.ands, Bare(text)) \in Clauses /\ And(x.ands, Bare(text)) # <<>>
      BY <2>2, <3>1, AndTyped DEF Clauses
    <3> QED
      BY <2>2, <2>5, <3>2
  <2>7. read.nots \in Clauses /\ (p.logic = "not" => read.nots # <<>>)
    <3>1. Negated(text) \in Clauses /\ Negated(text) # <<>>
      BY <2>4, BracketsTyped
    <3>2. And(x.nots, Negated(text)) \in Clauses /\ And(x.nots, Negated(text)) # <<>>
      BY <2>2, <3>1, AndTyped DEF Clauses
    <3> QED
      BY <2>2, <2>5, <3>2
  <2>8. read.ors \in SqlTexts /\ (p.logic = "or" => read.ors # <<>>)
    <3>1. x.ors \o text \in SqlTexts /\ x.ors \o text # <<>>
      BY <2>2, <2>4 DEF SqlTexts
    <3> QED
      BY <2>2, <2>5, <3>1
  <2>9. /\ DOMAIN read.built = DOMAIN x.built \cup {Len(x.built) + 1}
        /\ read.built[Len(x.built) + 1] = entry
        /\ \A n \in DOMAIN x.built : read.built[n] = x.built[n]
        /\ read.built \in Seq(Entries)
    <3> HIDE DEF entry, x
    <3> QED
      BY <2>2, <2>3, <2>5, OneMore
  <2>10. RequestType(read)
    <3>1. read.bindings \in Seq(Values)
      BY <1>2, <2>2, <2>5
    <3>2. x.params \subseteq Params /\ x.rest \subseteq x.params
      BY <1>1 DEF RequestOK, RequestType
    <3> HIDE DEF x
    <3> QED
      BY <2>5, <2>6, <2>7, <2>8, <2>9, <3>1, <3>2 DEF RequestType, Pcs
  <2>11. RequestRead(read)
    <3>1. p \in x.params /\ p.known
      BY <1>2, <1>4 DEF HasOperator
    <3>2. ASSUME NEW n \in DOMAIN x.built
          PROVE  x.built[n].param \in x.params \ x.rest /\ x.built[n].param.known
      BY <1>1 DEF RequestOK, RequestRead
    <3> HIDE DEF x
    <3> QED
      BY <2>5, <2>9, <3>1, <3>2 DEF RequestRead
  <2> DEFINE bindings == x.bindings \o p.values
  <2>12. ASSUME NEW n \in DOMAIN read.built, NEW i \in DOMAIN read.built[n].param.values
         PROVE  /\ read.built[n].condition.slots[i] \in 9..(8 + Len(bindings))
                /\ bindings[read.built[n].condition.slots[i] - 8] = read.built[n].param.values[i]
    <3>1. CASE read.built[n] = entry
      <4>1. read.built[n].param = p /\ read.built[n].condition.slots = Slots(x.bindings, p)
        BY <3>1 DEF Condition, condition
      <4>2. i \in DOMAIN p.values
        BY <4>1
      <4> HIDE DEF x
      <4>3. /\ Slots(x.bindings, p)[i] \in 9..(8 + Len(bindings))
            /\ bindings[Slots(x.bindings, p)[i] - 8] = p.values[i]
        BY <1>2, <2>2, <4>2, SlotsBound
      <4> QED
        BY <4>1, <4>3
    <3>2. CASE n \in DOMAIN x.built /\ read.built[n] = x.built[n]
      <4> DEFINE slot == x.built[n].condition.slots[i]
      <4>1. /\ slot \in 9..(8 + Len(x.bindings))
            /\ x.bindings[slot - 8] = x.built[n].param.values[i]
        BY <1>1, <3>2 DEF RequestOK, RequestBound, Bound
      <4> HIDE DEF x
      <4> QED
        BY <1>2, <2>2, <3>2, <4>1, StillBound, ZenonT(30)
    <3> QED
      BY <2>9, <3>1, <3>2
  <2>13. RequestBound(read)
    <3> HIDE DEF bindings
    <3>1. Bound(read.built, bindings)
      BY <2>12 DEF Bound
    <3> QED
      BY <2>5, <3>1 DEF RequestBound, bindings
  <2>14. RequestUnbound(read)
    <3>1. ~NoClause(read)
      BY <1>2, <2>6, <2>7, <2>8 DEF NoClause, Logics
    <3>2. read.params # {}
      BY <1>2, <2>5
    <3> QED
      BY <3>1, <3>2 DEF RequestUnbound
  <2>15. RequestOK(read) /\ RequestPlain(read)
    BY <2>5, <2>10, <2>11, <2>13, <2>14 DEF RequestOK, RequestPlain
  <2> QED
    BY <1>3, <2>1, <2>15, OneRequest DEF Build
<1>5. CASE ~HasOperator(p)
  <2>1. request' = [request EXCEPT ![r] = skipped]
    BY <1>5 DEF Build
  <2>3. /\ skipped.pc = "build" /\ skipped.params = x.params /\ skipped.rest = x.rest \ {p}
        /\ skipped.built = x.built /\ skipped.bindings = x.bindings
        /\ skipped.ands = x.ands /\ skipped.ors = x.ors /\ skipped.nots = x.nots
        /\ RequestShape(skipped)
    BY <1>1 DEF RequestOK, RequestType, RequestShape, Fields, Skipped
  <2>2. RequestOK(skipped) /\ RequestPlain(skipped)
    <3> HIDE DEF skipped
    <3>1. RequestType(skipped)
      BY <1>1, <2>3 DEF RequestOK, RequestType, Pcs
    <3>2. RequestRead(skipped)
      BY <1>1, <1>5, <2>3 DEF RequestOK, RequestRead, HasOperator
    <3>3. RequestBound(skipped) /\ RequestUnbound(skipped)
      BY <1>1, <2>3 DEF RequestOK, RequestBound, RequestUnbound, NoClause
    <3>4. RequestPlain(skipped)
      BY <2>3 DEF RequestPlain
    <3> QED
      BY <3>1, <3>2, <3>3, <3>4 DEF RequestOK
  <2> HIDE DEF skipped
  <2> QED
    BY <1>3, <2>1, <2>2, OneRequest DEF Build
<1> QED
  BY <1>4, <1>5

\* A step that only changes the clause, the texts and the place of a request
\* keeps what was parsed.
LEMMA Further ==
    ASSUME NEW x, RequestOK(x), NEW y, RequestShape(y), y.pc \in Pcs,
           y.params = x.params, y.rest = x.rest, y.built = x.built, y.bindings = x.bindings,
           y.ands = x.ands, y.ors = x.ors, y.nots = x.nots
    PROVE  RequestOK(y) /\ FilterClause(y) = FilterClause(x)
BY DEF RequestOK, RequestType, RequestRead, RequestBound, RequestUnbound, NoClause, FilterClause

\* The tile of a plain request goes out, and into the cache.
LEMMA RespondOK ==
    ASSUME IInv, NEW r \in Requests, NEW x, Respond(r, x), UNCHANGED <<plugins, filter>>,
           HasEtag(r) => x = Tile(Bare(filter.text), <<>>),
           cached' \subseteq cached \cup {Tile(Bare(filter.text), <<>>)}
    PROVE  IInv'
<1>1. SharedTilesAreUnfiltered'
  <2>1. kept' \subseteq kept \cup {Tile(Bare(filter.text), <<>>)}
    BY DEF Respond
  <2> QED
    BY <2>1 DEF IInv, SharedTilesAreUnfiltered, Tile
<1> QED
  BY <1>1, OneRequest, IdleOK DEF Respond

LEMMA HitOK ==
    ASSUME IInv, NEW r \in Requests, Hit(r)
    PROVE  IInv'
<1>1. PICK x \in cached : Respond(r, x)
  BY DEF Hit
<1>2. x = Tile(Bare(filter.text), <<>>)
  BY DEF IInv, SharedTilesAreUnfiltered
<1> QED
  BY <1>1, <1>2, RespondOK DEF Hit

LEMMA AddLayerFilterOK ==
    ASSUME IInv, NEW r \in Requests, AddLayerFilter(r)
    PROVE  IInv'
<1> DEFINE x == request[r]
           y == [x EXCEPT !.pc = "plugins",
                          !.clause = And(FilterClause(x), Bare(filter.text)),
                          !.texts = << filter.text >>]
<1>1. CASE filter.valid
  <2>1. request' = [request EXCEPT ![r] = y]
    BY <1>1 DEF AddLayerFilter
  <2>2. RequestOK(x)
    BY DEF IInv
  <2>3. /\ RequestShape(y) /\ y.pc = "plugins" /\ y.params = x.params /\ y.rest = x.rest
        /\ y.built = x.built /\ y.bindings = x.bindings
        /\ y.ands = x.ands /\ y.ors = x.ors /\ y.nots = x.nots
        /\ y.clause = And(FilterClause(x), Bare(filter.text))
    BY <2>2 DEF RequestOK, RequestType, RequestShape, Fields
  <2> HIDE DEF x, y
  <2>4. RequestOK(y) /\ FilterClause(y) = FilterClause(x)
    BY <2>2, <2>3, Further DEF Pcs
  <2>5. RequestPlain(y)
    BY <2>3, <2>4, AndEmpty DEF RequestPlain
  <2>6. SharedTilesAreUnfiltered'
    BY <1>1 DEF IInv, AddLayerFilter, SharedTilesAreUnfiltered, Tile
  <2> QED
    BY <2>1, <2>4, <2>5, <2>6, OneRequest DEF AddLayerFilter
<1>2. CASE ~filter.valid
  BY <1>2, FailsOK DEF AddLayerFilter
<1> QED
  BY <1>1, <1>2

LEMMA CallPluginsOK ==
    ASSUME IInv, NEW r \in Requests, NEW category \in Outcomes("category"),
           NEW layer \in Outcomes("layer"), CallPlugins(r, category, layer)
    PROVE  IInv'
<1> DEFINE x == request[r]
           clause == And(Bare(TextOf(category)), Bare(TextOf(layer)))
           y == [x EXCEPT !.pc = "query", !.clause = And(@, clause),
                          !.texts = @ \o << TextOf(category), TextOf(layer) >>]
           accepted == \A o \in {category, layer} : o = <<>> \/ o[1].text = <<>> \/ o[1].valid
<1>1. CASE accepted
  <2>1. request' = [request EXCEPT ![r] = y] /\ UNCHANGED kept
    BY <1>1 DEF CallPlugins
  <2>2. RequestOK(x) /\ RequestPlain(x) /\ x.pc = "plugins"
    BY DEF IInv, CallPlugins
  <2>3. /\ RequestShape(y) /\ y.pc = "query" /\ y.params = x.params /\ y.rest = x.rest
        /\ y.built = x.built /\ y.bindings = x.bindings
        /\ y.ands = x.ands /\ y.ors = x.ors /\ y.nots = x.nots
        /\ y.clause = And(x.clause, clause)
    BY <2>2 DEF RequestOK, RequestType, RequestShape, Fields
  <2>4. ~HasPlugin => clause = <<>>
    <3>1. ~HasPlugin => category = <<>> /\ layer = <<>>
      BY DEF HasPlugin, Outcomes
    <3> QED
      BY <3>1, AndEmpty, BareEmpty DEF TextOf
  <2> HIDE DEF x, y, clause
  <2>5. RequestOK(y) /\ FilterClause(y) = FilterClause(x)
    BY <2>2, <2>3, Further DEF Pcs
  <2>6. RequestPlain(y)
    BY <2>2, <2>3, <2>4, <2>5, AndEmpty DEF RequestPlain
  <2>7. SharedTilesAreUnfiltered'
    BY <2>1 DEF IInv, CallPlugins, SharedTilesAreUnfiltered, Tile
  <2> QED
    BY <2>1, <2>5, <2>6, <2>7, OneRequest DEF CallPlugins
<1>2. CASE ~accepted
  BY <1>2, FailsOK DEF CallPlugins
<1> QED
  BY <1>1, <1>2

LEMMA QueryOK ==
    ASSUME IInv, NEW r \in Requests, Query(r)
    PROVE  IInv'
<1> DEFINE x == request[r]
           y == [x EXCEPT !.pc = "answer"]
           accepted == \A p \in request[r].params : HasOperator(p) /\ p.values # <<>> => p.valid
<1>1. CASE accepted
  <2>1. request' = [request EXCEPT ![r] = y] /\ UNCHANGED kept
    BY <1>1 DEF Query
  <2>2. RequestOK(x) /\ RequestPlain(x) /\ x.pc = "query"
    BY DEF IInv, Query
  <2>3. /\ RequestShape(y) /\ y.pc = "answer" /\ y.params = x.params /\ y.rest = x.rest
        /\ y.built = x.built /\ y.bindings = x.bindings
        /\ y.ands = x.ands /\ y.ors = x.ors /\ y.nots = x.nots /\ y.clause = x.clause
    BY <2>2 DEF RequestOK, RequestType, RequestShape, Fields
  <2> HIDE DEF x, y
  <2>4. RequestOK(y) /\ FilterClause(y) = FilterClause(x)
    BY <2>2, <2>3, Further DEF Pcs
  <2>5. RequestPlain(y)
    BY <2>2, <2>3, <2>4 DEF RequestPlain
  <2>6. SharedTilesAreUnfiltered'
    BY <2>1 DEF IInv, Query, SharedTilesAreUnfiltered, Tile
  <2> QED
    BY <2>1, <2>4, <2>5, <2>6, OneRequest DEF Query
<1>2. CASE ~accepted
  BY <1>2, FailsOK DEF Query
<1> QED
  BY <1>1, <1>2

LEMMA AnswerOK ==
    ASSUME IInv, NEW r \in Requests, Answer(r)
    PROVE  IInv'
<1> DEFINE x == Tile(request[r].clause, request[r].bindings)
<1>1. RequestOK(request[r]) /\ RequestPlain(request[r]) /\ request[r].pc = "answer"
  BY DEF IInv, Answer
<1>2. UsesCache(r) => x = Tile(Bare(filter.text), <<>>)
  BY <1>1, PlainTile DEF UsesCache
<1>3. HasEtag(r) => UsesCache(r)
  BY <1>1, NoParameters DEF HasEtag, UsesCache
<1>4. cached' \subseteq cached \cup {Tile(Bare(filter.text), <<>>)}
  BY <1>2 DEF Answer
<1> QED
  BY <1>2, <1>3, <1>4, RespondOK DEF Answer

\* A restart forgets the requests and keeps the cache.
LEMMA RestartOK ==
    ASSUME IInv, NEW loaded \in SUBSET {"category", "layer"}, Restart(loaded)
    PROVE  IInv'
<1>1. request' = [r \in Requests |-> idle] /\ \A r \in Requests : request'[r] = idle
  BY DEF Restart
<1>2. \A r \in Requests : (RequestOK(request[r]))'
  BY <1>1, IdleOK DEF RequestOK, RequestType, RequestShape, RequestRead, RequestBound, RequestUnbound
<1>3. \A r \in Requests : (RequestPlain(request[r]))'
  BY <1>1 DEF RequestPlain, idle
<1>4. SharedTilesAreUnfiltered'
  BY DEF IInv, Restart, SharedTilesAreUnfiltered, Tile
<1>5. request' = [r \in Requests |-> request'[r]]
  BY <1>1
<1> QED
  BY <1>2, <1>3, <1>4, <1>5 DEF IInv, Restart

LEMMA ForgetOK == IInv /\ Forget => IInv'
<1> SUFFICES ASSUME IInv, Forget PROVE IInv'
  OBVIOUS
<1>1. \A r \in Requests : (RequestOK(request[r]) /\ RequestPlain(request[r]))'
  BY DEF IInv, Forget, RequestOK, RequestType, RequestShape, RequestRead, RequestBound,
         RequestUnbound, RequestPlain, HasPlugin
<1>2. SharedTilesAreUnfiltered'
  BY DEF IInv, Forget, SharedTilesAreUnfiltered, Tile
<1> QED
  BY <1>1, <1>2 DEF IInv, Forget

LEMMA StutterOK == IInv /\ UNCHANGED vars => IInv'
<1> SUFFICES ASSUME IInv, UNCHANGED vars PROVE IInv'
  OBVIOUS
<1>1. \A r \in Requests : (RequestOK(request[r]) /\ RequestPlain(request[r]))'
  BY DEF IInv, vars, RequestOK, RequestType, RequestShape, RequestRead, RequestBound,
         RequestUnbound, RequestPlain, HasPlugin
<1>2. SharedTilesAreUnfiltered'
  BY DEF IInv, vars, SharedTilesAreUnfiltered, Tile
<1> QED
  BY <1>1, <1>2 DEF IInv, vars

\* The invariant is inductive: every step of the specification keeps it.
THEOREM InductiveInvariant == Spec => []IInv
<1>1. IInv /\ [Next]_vars => IInv'
  <2> SUFFICES ASSUME IInv, [Next]_vars PROVE IInv'
    OBVIOUS
  <2>1. ASSUME NEW r \in Requests, RequestStep(r) PROVE IInv'
    BY <2>1, AskOK, BuildOK, HitOK, AddLayerFilterOK, CallPluginsOK, QueryOK, AnswerOK, FailsOK
       DEF RequestStep, QueryFails
  <2>2. CASE Forget
    BY <2>2, ForgetOK
  <2>3. ASSUME NEW loaded \in SUBSET {"category", "layer"}, Restart(loaded) PROVE IInv'
    BY <2>3, RestartOK
  <2>4. CASE UNCHANGED vars
    BY <2>4, StutterOK
  <2> QED
    BY <2>1, <2>2, <2>3, <2>4 DEF Next
<1> QED
  BY InitInv, <1>1, PTL DEF Spec

\* A bind behind those of the template.
LEMMA BehindFixed ==
    ASSUME NEW b \in Seq(Values), NEW n \in 9..(8 + Len(b))
    PROVE  n \in (Len(Fixed) + 1)..Len(Fixed \o b) /\ (Fixed \o b)[n] = b[n - 8]
<1>1. Fixed \in Seq(Values) /\ Len(Fixed) = 8
  BY TileQueryAssumption
<1>2. Len(Fixed \o b) = Len(Fixed) + Len(b) /\ Len(b) \in Nat
  <2>1. Len(b) \in Nat
    OBVIOUS
  <2>2. Fixed \in Seq(Values)
    BY <1>1
  <2>3. Len(Fixed \o b) = Len(Fixed) + Len(b)
    BY <2>2
  <2> QED
    BY <2>1, <2>3
<1>3. n \in (Len(Fixed) + 1)..(Len(Fixed) + Len(b))
  BY <1>1, <1>2
<1> QED
  BY <1>1, <1>2, <1>3

\* Every variable keeps its type, for any parameters, filters and plugins.
THEOREM TypeCorrect == Spec => []TypeOK
<1>1. IInv => TypeOK
  <2> SUFFICES ASSUME IInv PROVE TypeOK
    OBVIOUS
  <2>1. DOMAIN request = Requests
    BY DEF IInv
  <2> QED
    BY <2>1 DEF IInv, RequestOK, RequestType, RequestRead, TypeOK
<1> QED
  BY InductiveInvariant, <1>1, PTL

\* The placeholders of every request are bound to the values they stand for,
\* whatever the parameters and their order (SqlQueryBuilder, query_database).
THEOREM PlaceholdersAreAlwaysBound == Spec => []PlaceholdersAreBound
<1>1. IInv => PlaceholdersAreBound
  <2> SUFFICES ASSUME IInv, NEW r \in Requests, NEW n \in DOMAIN request[r].built,
                      NEW i \in DOMAIN request[r].built[n].param.values
               PROVE  LET slot == request[r].built[n].condition.slots[i]
                          binds == Fixed \o request[r].bindings
                      IN  /\ slot \in (Len(Fixed) + 1)..Len(binds)
                          /\ binds[slot] = request[r].built[n].param.values[i]
    BY DEF PlaceholdersAreBound
  <2> DEFINE slot == request[r].built[n].condition.slots[i]
             bindings == request[r].bindings
             value == request[r].built[n].param.values[i]
  <2>1. bindings \in Seq(Values) /\ slot \in 9..(8 + Len(bindings)) /\ bindings[slot - 8] = value
    BY DEF IInv, RequestOK, RequestType, RequestBound, Bound
  <2> HIDE DEF slot, bindings, value
  <2>5. slot \in (Len(Fixed) + 1)..Len(Fixed \o bindings) /\ (Fixed \o bindings)[slot] = value
    BY <2>1, BehindFixed
  <2> QED
    BY <2>5 DEF slot, bindings, value
<1> QED
  BY InductiveInvariant, <1>1, PTL

\* What the cache and browsers keep is never narrowed by a request or a plugin
\* (get_tile, get_single_layer_tile).
THEOREM SharedTilesAreAlwaysUnfiltered == Spec => []SharedTilesAreUnfiltered
<1>1. IInv => SharedTilesAreUnfiltered
  BY DEF IInv
<1> QED
  BY InductiveInvariant, <1>1, PTL


-----------------------------------------------------------------------------
(***************************************************************************)
(* What texts and clauses mean.                                            *)
(***************************************************************************)

\* The rows that a clause leaves: all of them, if there is none.
Selects(clause, binds, row) == clause = <<>> \/ ClauseHolds(clause, binds, row)

\* All conditions, or all literals, of a conjunction hold.
AllMet(conjunction, binds, row) ==
    \A i \in DOMAIN conjunction : ConditionHolds(conjunction[i], binds, row)

AllHold(conjunction, binds, row) ==
    \A l \in Range(conjunction) : LiteralHolds(l, binds, row)

LEMMA ClauseMeans ==
    ASSUME NEW clause, NEW binds, NEW row
    PROVE  ClauseHolds(clause, binds, row) <=>
                \E n \in DOMAIN clause : AllHold(clause[n], binds, row)
BY DEF ClauseHolds, AllHold, Range

LEMMA RangeJoined ==
    ASSUME NEW S, NEW a \in Seq(S), NEW b \in Seq(S)
    PROVE  a \o b \in Seq(S) /\ Range(a \o b) = Range(a) \cup Range(b)
<1>1. /\ DOMAIN a = 1..Len(a) /\ DOMAIN b = 1..Len(b)
      /\ Len(a) \in Nat /\ Len(b) \in Nat
      /\ a \o b \in Seq(S) /\ DOMAIN (a \o b) = 1..(Len(a) + Len(b))
  OBVIOUS
<1>2. ASSUME NEW i \in DOMAIN (a \o b)
      PROVE  (a \o b)[i] \in Range(a) \cup Range(b)
  <2>1. CASE i <= Len(a)
    BY <1>1, <2>1 DEF Range
  <2>2. CASE i > Len(a)
    <3>1. (a \o b)[i] = b[i - Len(a)] /\ i - Len(a) \in DOMAIN b
      BY <1>1, <2>2
    <3> QED
      BY <3>1 DEF Range
  <2> QED
    BY <1>1, <2>1, <2>2
<1>3. ASSUME NEW i \in DOMAIN a
      PROVE  a[i] \in Range(a \o b)
  <2>1. (a \o b)[i] = a[i] /\ i \in DOMAIN (a \o b)
    BY <1>1
  <2> QED
    BY <2>1 DEF Range
<1>4. ASSUME NEW i \in DOMAIN b
      PROVE  b[i] \in Range(a \o b)
  <2>1. (a \o b)[Len(a) + i] = b[i] /\ Len(a) + i \in DOMAIN (a \o b)
    BY <1>1
  <2> QED
    BY <2>1 DEF Range
<1> QED
  BY <1>1, <1>2, <1>3, <1>4 DEF Range

\* A clause of one conjunction.
LEMMA OneConjunction ==
    ASSUME NEW v, NEW binds, NEW row
    PROVE  ClauseHolds(<< v >>, binds, row) <=> AllHold(v, binds, row)
<1>1. DOMAIN << v >> = {1} /\ << v >>[1] = v
  OBVIOUS
<1> QED
  BY <1>1, ClauseMeans

\* Two conjunctions, or empty texts, are joined to one conjunction of both.
LEMMA JoinMeans ==
    ASSUME NEW S, NEW a \in Seq(Seq(S)), NEW b \in Seq(Seq(S)), Len(a) <= 1, Len(b) <= 1
    PROVE  /\ And(a, b) \in Seq(Seq(S)) /\ Len(And(a, b)) <= 1
           /\ And(a, b) = <<>> <=> a = <<>> /\ b = <<>>
           /\ \A binds, row : Selects(And(a, b), binds, row) <=>
                    Selects(a, binds, row) /\ Selects(b, binds, row)
<1>1. CASE a = <<>> \/ b = <<>>
  <2>1. \A binds, row : Selects(<<>>, binds, row)
    BY DEF Selects
  <2> QED
    BY <1>1, <2>1, AndEmpty
<1>2. CASE a # <<>> /\ b # <<>>
  <2>1. PICK s \in Seq(S), u \in Seq(S) : a = << s >> /\ b = << u >>
    <3>1. Len(a) = 1 /\ Len(b) = 1
      <4>1. Len(a) \in Nat /\ Len(b) \in Nat
        OBVIOUS
      <4>2. Len(a) # 0 /\ Len(b) # 0
        BY <1>2
      <4>3. \A n \in Nat : n # 0 /\ n <= 1 => n = 1
        OBVIOUS
      <4> QED
        BY <4>1, <4>2, <4>3
    <3>2. a[1] \in Seq(S) /\ b[1] \in Seq(S) /\ a = << a[1] >> /\ b = << b[1] >>
      BY <3>1
    <3> QED
      BY <3>2
  <2>2. Front(<< s >>) = <<>> /\ Last(<< s >>) = s /\ Head(<< u >>) = u /\ Tail(<< u >>) = <<>>
    BY DEF Front, Last
  <2>3. s \o u \in Seq(S) /\ Range(s \o u) = Range(s) \cup Range(u)
    BY RangeJoined
  <2>4. And(a, b) = << s \o u >>
    <3>1. And(a, b) = Front(<< s >>) \o << Last(<< s >>) \o Head(<< u >>) >> \o Tail(<< u >>)
      BY <1>2, <2>1 DEF And
    <3>2. << s \o u >> \in Seq(Seq(S))
      BY <2>3
    <3>3. <<>> \o << s \o u >> \o <<>> = << s \o u >>
      BY <3>2
    <3> QED
      BY <2>2, <3>1, <3>3
  <2>5. ASSUME NEW v, NEW binds, NEW row
        PROVE  Selects(<< v >>, binds, row) <=> AllHold(v, binds, row)
    <3>1. << v >> # <<>>
      OBVIOUS
    <3> QED
      BY <3>1, OneConjunction DEF Selects
  <2>6. \A binds, row : AllHold(s \o u, binds, row) <=>
            AllHold(s, binds, row) /\ AllHold(u, binds, row)
    BY <2>3 DEF AllHold
  <2>7. << s \o u >> \in Seq(Seq(S)) /\ Len(<< s \o u >>) = 1 /\ << s \o u >> # <<>>
    BY <2>3
  <2> QED
    BY <1>2, <2>1, <2>4, <2>5, <2>6, <2>7
<1> QED
  BY <1>1, <1>2

\* A text of one condition, and the literal of a text.
LEMMA LiteralMeans ==
    ASSUME NEW c, NEW text, NEW binds, NEW row
    PROVE  /\ TextHolds(<< << c >> >>, binds, row) <=> ConditionHolds(c, binds, row)
           /\ LiteralHolds(Literal("plain", text), binds, row) <=> TextHolds(text, binds, row)
           /\ LiteralHolds(Literal("not", text), binds, row) <=> ~TextHolds(text, binds, row)
<1>1. /\ DOMAIN << << c >> >> = {1} /\ << << c >> >>[1] = << c >>
      /\ DOMAIN << c >> = {1} /\ << c >>[1] = c
  OBVIOUS
<1>2. TextHolds(<< << c >> >>, binds, row) <=> ConditionHolds(c, binds, row)
  BY <1>1 DEF TextHolds
<1>3. /\ LiteralHolds(Literal("plain", text), binds, row) <=> TextHolds(text, binds, row)
      /\ LiteralHolds(Literal("not", text), binds, row) <=> ~TextHolds(text, binds, row)
  BY DEF LiteralHolds, Literal
<1> QED
  BY <1>2, <1>3

\* The clause of a text without brackets of its own means what the text does.
LEMMA BareMeans ==
    ASSUME NEW text, NEW binds, NEW row
    PROVE  ClauseHolds(Bare(text), binds, row) <=> TextHolds(text, binds, row)
<1>1. ASSUME NEW n \in DOMAIN text, NEW i \in DOMAIN text[n]
      PROVE  LiteralHolds(Bare(text)[n][i], binds, row) <=> ConditionHolds(text[n][i], binds, row)
  <2>1. Bare(text)[n][i] = Literal("plain", << <<text[n][i]>> >>)
    BY DEF Bare
  <2> QED
    BY <2>1, LiteralMeans
<1>2. DOMAIN Bare(text) = DOMAIN text /\ \A n \in DOMAIN text : DOMAIN Bare(text)[n] = DOMAIN text[n]
  BY DEF Bare
<1> QED
  BY <1>1, <1>2 DEF ClauseHolds, TextHolds

\* A text in brackets, and NOT of it, is one conjunction.
LEMMA BracketsMean ==
    ASSUME NEW text \in SqlTexts
    PROVE  /\ Len(Bracketed(text)) <= 1
           /\ Len(Negated(text)) <= 1
           /\ \A binds, row : Selects(Bracketed(text), binds, row) <=>
                                text = <<>> \/ TextHolds(text, binds, row)
           /\ \A binds, row : Selects(Negated(text), binds, row) <=> ~TextHolds(text, binds, row)
<1>1. ASSUME NEW l, NEW binds, NEW row
      PROVE  ClauseHolds(<< << l >> >>, binds, row) <=> LiteralHolds(l, binds, row)
  <2>1. Range(<< l >>) = {l}
    BY DEF Range
  <2> QED
    BY <2>1, OneConjunction DEF AllHold
<1>2. Len(Bracketed(text)) <= 1 /\ Len(Negated(text)) = 1
  BY DEF Bracketed, Negated
<1>3. ASSUME NEW binds, NEW row
      PROVE  Selects(Negated(text), binds, row) <=> ~TextHolds(text, binds, row)
  <2>1. Negated(text) # <<>>
    BY BracketsTyped
  <2> QED
    BY <1>1, <2>1, LiteralMeans DEF Selects, Negated
<1>4. ASSUME NEW binds, NEW row
      PROVE  Selects(Bracketed(text), binds, row) <=> text = <<>> \/ TextHolds(text, binds, row)
  <2>1. Bracketed(text) = <<>> <=> text = <<>>
    BY BracketsTyped
  <2> QED
    BY <1>1, <2>1, LiteralMeans DEF Selects, Bracketed
<1> QED
  BY <1>2, <1>3, <1>4

\* One text OR the other.
LEMMA OrMeans ==
    ASSUME NEW S, NEW a \in Seq(S), NEW b \in Seq(S), NEW binds, NEW row
    PROVE  TextHolds(a \o b, binds, row) <=> TextHolds(a, binds, row) \/ TextHolds(b, binds, row)
<1>1. \A t : TextHolds(t, binds, row) <=> \E s \in Range(t) : AllMet(s, binds, row)
  BY DEF TextHolds, AllMet, Range
<1>2. Range(a \o b) = Range(a) \cup Range(b)
  BY RangeJoined
<1> QED
  BY <1>1, <1>2

\* A condition that names only placeholders of the template means the same
\* whatever is bound behind them.
LEMMA ClosedCondition ==
    ASSUME NEW c, Range(c.slots) \subseteq DOMAIN Fixed, NEW bindings \in Seq(Values), NEW row
    PROVE  ConditionHolds(c, Fixed \o bindings, row) <=> ConditionHolds(c, Fixed, row)
<1> DEFINE binds == Fixed \o bindings
<1>1. \A k \in DOMAIN Fixed : binds[k] = Fixed[k]
  <2>1. Fixed \in Seq(Values)
    BY TileQueryAssumption
  <2> QED
    BY <2>1
<1>2. \A m \in DOMAIN c.slots : binds[c.slots[m]] = Fixed[c.slots[m]]
  BY <1>1 DEF Range
<1> HIDE DEF binds
<1>3. [m \in DOMAIN c.slots |-> binds[c.slots[m]]] = [m \in DOMAIN c.slots |-> Fixed[c.slots[m]]]
  BY <1>2
<1>4. ConditionHolds(c, binds, row) <=> ConditionHolds(c, Fixed, row)
  BY <1>3 DEF ConditionHolds
<1> QED
  BY <1>4 DEF binds

LEMMA ClosedMeans ==
    ASSUME NEW text, Closed(text), NEW bindings \in Seq(Values), NEW row
    PROVE  TextHolds(text, Fixed \o bindings, row) <=> TextHolds(text, Fixed, row)
<1>1. ASSUME NEW n \in DOMAIN text, NEW i \in DOMAIN text[n]
      PROVE  ConditionHolds(text[n][i], Fixed \o bindings, row)
                <=> ConditionHolds(text[n][i], Fixed, row)
  <2>1. text[n][i] \in ConditionsOf(text)
    BY DEF ConditionsOf, Range
  <2>2. Range(text[n][i].slots) \subseteq DOMAIN Fixed
    BY <2>1 DEF Closed
  <2> QED
    BY <2>2, ClosedCondition
<1> QED
  BY <1>1 DEF TextHolds

-----------------------------------------------------------------------------
(***************************************************************************)
(* How the clause of a request came about.                                 *)
(***************************************************************************)

\* An entry of `built` is what create_condition makes of its parameter.
EntryOf(entry) ==
    /\ entry.condition.field = IF entry.param.values = <<>> THEN never ELSE entry.param.field
    /\ DOMAIN entry.condition.slots = DOMAIN entry.param.values

EntryText(entry) == ConditionText(entry.param, entry.condition)

\* Of the entries that are sorted under AND, none has an OR in its key.
NoBareOr(built) ==
    \A n \in DOMAIN built : built[n].param.logic = "and" => Len(EntryText(built[n])) <= 1

\* What each of the three parts means, for the conditions that were built.
AndsMean(built, ands) ==
    NoBareOr(built) =>
        /\ Len(ands) <= 1
        /\ \A binds, row : Selects(ands, binds, row) <=>
            \A n \in DOMAIN built :
                built[n].param.logic = "and" => TextHolds(EntryText(built[n]), binds, row)

OrsMean(built, ors) ==
    /\ ors = <<>> <=> \A n \in DOMAIN built : built[n].param.logic # "or"
    /\ \A binds, row : TextHolds(ors, binds, row) <=>
        \E n \in DOMAIN built :
            built[n].param.logic = "or" /\ TextHolds(EntryText(built[n]), binds, row)

NotsMean(built, nots) ==
    /\ Len(nots) <= 1
    /\ \A binds, row : Selects(nots, binds, row) <=>
        \A n \in DOMAIN built :
            built[n].param.logic = "not" => ~TextHolds(EntryText(built[n]), binds, row)

\* Each parameter that was read and is known has a condition, and the parts mean
\* what the conditions do.
RequestWhole(x) ==
    /\ \A p \in x.params \ x.rest : p.known => \E n \in DOMAIN x.built : x.built[n].param = p
    /\ \A n \in DOMAIN x.built : EntryOf(x.built[n])
    /\ x.pc \in {"plugins", "query", "answer"} => x.rest = {}
    /\ AndsMean(x.built, x.ands)
    /\ OrsMean(x.built, x.ors)
    /\ NotsMean(x.built, x.nots)

\* What a plugin adds: nothing, or the text of an answer.
Texts == {<<>>} \cup {t.text : t \in Answers}

\* The clause is made of the user's, the layer's and the plugins', in this order.
RequestJoined(x) ==
    /\ x.pc = "plugins" =>
        /\ x.texts = << filter.text >>
        /\ x.clause = And(FilterClause(x), Bare(filter.text))
    /\ x.pc = "query" =>
        \E a, b \in Texts :
            /\ x.texts = << filter.text, a, b >>
            /\ x.clause = And(And(FilterClause(x), Bare(filter.text)), And(Bare(a), Bare(b)))

ClauseInv == \A r \in Requests : RequestWhole(request[r]) /\ RequestJoined(request[r])

\* Nothing built, and nothing in the parts.
LEMMA NothingMeans == AndsMean(<<>>, <<>>) /\ OrsMean(<<>>, <<>>) /\ NotsMean(<<>>, <<>>)
BY DEF AndsMean, OrsMean, NotsMean, Selects, TextHolds

LEMMA IdleWhole == RequestWhole(idle) /\ RequestJoined(idle)
BY NothingMeans DEF idle, RequestWhole, RequestJoined

\* A step of r only has to account for r.
LEMMA OneWhole ==
    ASSUME IInv, ClauseInv, NEW r \in Requests, NEW x,
           request' = [request EXCEPT ![r] = x], UNCHANGED filter,
           RequestWhole(x), RequestJoined(x)
    PROVE  ClauseInv'
<1>1. \A q \in Requests : RequestWhole(request'[q]) /\ RequestJoined(request'[q])
  BY DEF IInv, ClauseInv
<1>2. \A q \in Requests : (RequestWhole(request[q]))'
  BY <1>1 DEF RequestWhole
<1>3. \A q \in Requests : (RequestJoined(request[q]))'
  BY <1>1 DEF RequestJoined
<1> QED
  BY <1>2, <1>3 DEF ClauseInv

\* What the parts mean after one condition more.
LEMMA AndsMore ==
    ASSUME NEW built \in Seq(Entries), NEW ands \in Clauses, AndsMean(built, ands),
           NEW e \in Entries, EntryText(e) \in SqlTexts, EntryText(e) # <<>>
    PROVE  AndsMean(Append(built, e),
                    IF e.param.logic = "and" THEN And(ands, Bare(EntryText(e))) ELSE ands)
<1> DEFINE more == Append(built, e)
<1>1. /\ DOMAIN more = DOMAIN built \cup {Len(built) + 1} /\ more[Len(built) + 1] = e
      /\ \A n \in DOMAIN built : more[n] = built[n]
  BY OneMore
<1> HIDE DEF more
<1> SUFFICES ASSUME NoBareOr(more)
             PROVE  LET s == IF e.param.logic = "and" THEN And(ands, Bare(EntryText(e))) ELSE ands
                    IN  /\ Len(s) <= 1
                        /\ \A binds, row : Selects(s, binds, row) <=>
                            \A n \in DOMAIN more : more[n].param.logic = "and"
                                => TextHolds(EntryText(more[n]), binds, row)
  BY DEF AndsMean, more
<1>2. NoBareOr(built)
  BY <1>1 DEF NoBareOr
<1>3. /\ Len(ands) <= 1
      /\ \A binds, row : Selects(ands, binds, row) <=>
            \A n \in DOMAIN built :
                built[n].param.logic = "and" => TextHolds(EntryText(built[n]), binds, row)
  BY <1>2 DEF AndsMean
<1>4. CASE e.param.logic # "and"
  BY <1>1, <1>3, <1>4
<1>5. CASE e.param.logic = "and"
  <2>1. Bare(EntryText(e)) \in Clauses /\ Len(Bare(EntryText(e))) <= 1 /\ Bare(EntryText(e)) # <<>>
    <3>1. Len(EntryText(e)) <= 1
      BY <1>1, <1>5 DEF NoBareOr
    <3> QED
      BY <3>1, BareTyped
  <2>2. \A binds, row : Selects(Bare(EntryText(e)), binds, row)
            <=> TextHolds(EntryText(e), binds, row)
    BY <2>1, BareMeans DEF Selects
  <2>3. /\ Len(And(ands, Bare(EntryText(e)))) <= 1
        /\ \A binds, row : Selects(And(ands, Bare(EntryText(e))), binds, row) <=>
                Selects(ands, binds, row) /\ Selects(Bare(EntryText(e)), binds, row)
    <3> DEFINE bare == Bare(EntryText(e))
    <3>1. bare \in Seq(Seq(Literals)) /\ Len(bare) <= 1 /\ ands \in Seq(Seq(Literals))
      BY <2>1 DEF Clauses
    <3> HIDE DEF bare
    <3>2. /\ Len(And(ands, bare)) <= 1
          /\ \A binds, row : Selects(And(ands, bare), binds, row) <=>
                Selects(ands, binds, row) /\ Selects(bare, binds, row)
      BY <1>3, <3>1, JoinMeans
    <3> QED
      BY <3>2 DEF bare
  <2> QED
    BY <1>1, <1>3, <1>5, <2>2, <2>3
<1> QED
  BY <1>4, <1>5

LEMMA OrsMore ==
    ASSUME NEW built \in Seq(Entries), NEW ors \in SqlTexts, OrsMean(built, ors),
           NEW e \in Entries, EntryText(e) \in SqlTexts, EntryText(e) # <<>>
    PROVE  OrsMean(Append(built, e), IF e.param.logic = "or" THEN ors \o EntryText(e) ELSE ors)
<1> DEFINE more == Append(built, e)
<1>1. /\ DOMAIN more = DOMAIN built \cup {Len(built) + 1} /\ more[Len(built) + 1] = e
      /\ \A n \in DOMAIN built : more[n] = built[n]
  BY OneMore
<1> HIDE DEF more
<1>2. CASE e.param.logic # "or"
  <2>1. OrsMean(more, ors)
    BY <1>1, <1>2 DEF OrsMean
  <2> QED
    BY <1>2, <2>1 DEF more
<1>3. CASE e.param.logic = "or"
  <2> DEFINE text == EntryText(e)
  <2>1. ors \o text # <<>>
    <3>1. Len(ors \o text) = Len(ors) + Len(text) /\ Len(text) # 0 /\ Len(text) \in Nat /\ Len(ors) \in Nat
      <4> HIDE DEF text
      <4> QED
        BY Concatenated DEF SqlTexts, text
    <3> QED
      BY <3>1
  <2>2. \A binds, row : TextHolds(ors \o text, binds, row) <=>
            TextHolds(ors, binds, row) \/ TextHolds(text, binds, row)
    BY OrMeans DEF SqlTexts
  <2>3. OrsMean(more, ors \o text)
    BY <1>1, <1>3, <2>1, <2>2 DEF OrsMean
  <2> QED
    BY <1>3, <2>3 DEF more
<1> QED
  BY <1>2, <1>3

LEMMA NotsMore ==
    ASSUME NEW built \in Seq(Entries), NEW nots \in Clauses, NotsMean(built, nots),
           NEW e \in Entries, EntryText(e) \in SqlTexts
    PROVE  NotsMean(Append(built, e),
                    IF e.param.logic = "not" THEN And(nots, Negated(EntryText(e))) ELSE nots)
<1> DEFINE more == Append(built, e)
           negated == Negated(EntryText(e))
<1>1. /\ DOMAIN more = DOMAIN built \cup {Len(built) + 1} /\ more[Len(built) + 1] = e
      /\ \A n \in DOMAIN built : more[n] = built[n]
  BY OneMore
<1> HIDE DEF more
<1>2. CASE e.param.logic # "not"
  <2>1. NotsMean(more, nots)
    BY <1>1, <1>2 DEF NotsMean
  <2> QED
    BY <1>2, <2>1 DEF more
<1>3. CASE e.param.logic = "not"
  <2>1. /\ negated \in Seq(Seq(Literals)) /\ Len(negated) <= 1 /\ nots \in Seq(Seq(Literals))
        /\ \A binds, row : Selects(negated, binds, row) <=> ~TextHolds(EntryText(e), binds, row)
    BY BracketsTyped, BracketsMean DEF Clauses
  <2> HIDE DEF negated
  <2>2. /\ Len(And(nots, negated)) <= 1
        /\ \A binds, row : Selects(And(nots, negated), binds, row) <=>
                Selects(nots, binds, row) /\ Selects(negated, binds, row)
    BY <2>1, JoinMeans DEF NotsMean
  <2>3. NotsMean(more, And(nots, negated))
    BY <1>1, <1>3, <2>1, <2>2 DEF NotsMean
  <2> QED
    BY <1>3, <2>3 DEF more, negated
<1> QED
  BY <1>2, <1>3

LEMMA BuildWhole ==
    ASSUME IInv, ClauseInv, NEW r \in Requests, NEW p \in request[r].rest, Build(r, p)
    PROVE  ClauseInv'
<1> DEFINE x == request[r]
           condition == Condition(x.bindings, p)
           entry == [param |-> p, condition |-> condition]
           read == Extended(x, p)
           skipped == Skipped(x, p)
<1>1. RequestOK(x) /\ RequestWhole(x) /\ x.pc = "build" /\ RequestType(x)
  BY DEF IInv, ClauseInv, Build, RequestOK
<1>2. p \in Params /\ p \in x.params
  BY <1>1 DEF RequestType
<1>3. CASE HasOperator(p)
  <2>1. request' = [request EXCEPT ![r] = read] /\ UNCHANGED filter
    BY <1>3 DEF Build
  <2>2. /\ read.pc = "build" /\ read.params = x.params /\ read.rest = x.rest \ {p}
        /\ read.built = Append(x.built, entry)
        /\ read.ands = IF p.logic = "and" THEN And(x.ands, Bare(EntryText(entry))) ELSE x.ands
        /\ read.ors = IF p.logic = "or" THEN x.ors \o EntryText(entry) ELSE x.ors
        /\ read.nots = IF p.logic = "not" THEN And(x.nots, Negated(EntryText(entry))) ELSE x.nots
    <3> DEFINE text == ConditionText(p, condition)
    <3>1. /\ read.pc = x.pc /\ read.params = x.params /\ read.rest = x.rest \ {p}
          /\ read.built = Append(x.built, entry)
          /\ read.ands = IF p.logic = "and" THEN And(x.ands, Bare(text)) ELSE x.ands
          /\ read.ors = IF p.logic = "or" THEN x.ors \o text ELSE x.ors
          /\ read.nots = IF p.logic = "not" THEN And(x.nots, Negated(text)) ELSE x.nots
      BY <1>1, ExtendedIs
    <3>2. EntryText(entry) = text
      BY DEF EntryText
    <3> HIDE DEF read, text, entry, x
    <3> QED
      BY <1>1, <3>1, <3>2
  <2>3. /\ entry \in Entries /\ entry.param = p /\ EntryOf(entry)
        /\ EntryText(entry) \in SqlTexts /\ EntryText(entry) # <<>>
    <3>1. condition \in Conditions
      BY <1>1, <1>2 DEF Conditions, RequestType
    <3>2. /\ condition.field = IF p.values = <<>> THEN never ELSE p.field
          /\ DOMAIN condition.slots = DOMAIN p.values
      BY DEF Condition, Slots
    <3> HIDE DEF condition
    <3> QED
      BY <1>2, <3>1, <3>2, ConditionTextTyped DEF Entries, EntryOf, EntryText
  <2>4. /\ x.built \in Seq(Entries) /\ x.ands \in Clauses /\ x.ors \in SqlTexts /\ x.nots \in Clauses
        /\ AndsMean(x.built, x.ands) /\ OrsMean(x.built, x.ors) /\ NotsMean(x.built, x.nots)
    BY <1>1 DEF RequestType, RequestWhole
  <2> HIDE DEF entry, x, read
  <2>5. /\ DOMAIN read.built = DOMAIN x.built \cup {Len(x.built) + 1}
        /\ read.built[Len(x.built) + 1] = entry
        /\ \A n \in DOMAIN x.built : read.built[n] = x.built[n]
    BY <2>2, <2>3, <2>4, OneMore
  <2>6. AndsMean(read.built, read.ands)
    BY <2>2, <2>3, <2>4, AndsMore
  <2>7. OrsMean(read.built, read.ors)
    BY <2>2, <2>3, <2>4, OrsMore
  <2>8. NotsMean(read.built, read.nots)
    BY <2>2, <2>3, <2>4, NotsMore
  <2>9. \A q \in read.params \ read.rest :
            q.known => \E n \in DOMAIN read.built : read.built[n].param = q
    <3> SUFFICES ASSUME NEW q \in x.params \ (x.rest \ {p}), q.known
                 PROVE  \E n \in DOMAIN read.built : read.built[n].param = q
      BY <2>2
    <3>1. CASE q = p
      BY <2>3, <2>5, <3>1
    <3>2. CASE q # p
      <4>1. PICK n \in DOMAIN x.built : x.built[n].param = q
        BY <1>1, <3>2 DEF RequestWhole
      <4> QED
        BY <2>5, <4>1
    <3> QED
      BY <3>1, <3>2
  <2>10. \A n \in DOMAIN read.built : EntryOf(read.built[n])
    BY <1>1, <2>3, <2>5 DEF RequestWhole
  <2>11. RequestWhole(read) /\ RequestJoined(read)
    BY <2>2, <2>6, <2>7, <2>8, <2>9, <2>10 DEF RequestWhole, RequestJoined
  <2> QED
    BY <2>1, <2>11, OneWhole DEF x
<1>4. CASE ~HasOperator(p)
  <2>1. request' = [request EXCEPT ![r] = skipped] /\ UNCHANGED filter
    BY <1>4 DEF Build
  <2>2. /\ skipped.pc = "build" /\ skipped.params = x.params /\ skipped.rest = x.rest \ {p}
        /\ skipped.built = x.built /\ skipped.ands = x.ands /\ skipped.ors = x.ors
        /\ skipped.nots = x.nots
    BY <1>1 DEF RequestType, RequestShape, Fields, Skipped
  <2> HIDE DEF skipped, x
  <2>3. RequestWhole(skipped) /\ RequestJoined(skipped)
    BY <1>1, <1>4, <2>2 DEF RequestWhole, RequestJoined, HasOperator
  <2> QED
    BY <2>1, <2>3, OneWhole DEF x
<1> QED
  BY <1>3, <1>4

\* A step that only changes the clause, the texts and the place of a request.
LEMMA FurtherWhole ==
    ASSUME NEW x, RequestWhole(x), NEW y, x.rest = {},
           y.params = x.params, y.rest = x.rest, y.built = x.built,
           y.ands = x.ands, y.ors = x.ors, y.nots = x.nots
    PROVE  RequestWhole(y) /\ FilterClause(y) = FilterClause(x)
BY DEF RequestWhole, FilterClause

LEMMA AddLayerFilterWhole ==
    ASSUME IInv, ClauseInv, NEW r \in Requests, AddLayerFilter(r), filter.valid
    PROVE  ClauseInv'
<1> DEFINE x == request[r]
           y == [x EXCEPT !.pc = "plugins",
                          !.clause = And(FilterClause(x), Bare(filter.text)),
                          !.texts = << filter.text >>]
<1>1. request' = [request EXCEPT ![r] = y] /\ UNCHANGED filter
  BY DEF AddLayerFilter
<1>2. RequestOK(x) /\ RequestWhole(x) /\ x.rest = {}
  BY DEF IInv, ClauseInv, AddLayerFilter, Built
<1>3. /\ y.pc = "plugins" /\ y.params = x.params /\ y.rest = x.rest /\ y.built = x.built
      /\ y.ands = x.ands /\ y.ors = x.ors /\ y.nots = x.nots
      /\ y.clause = And(FilterClause(x), Bare(filter.text)) /\ y.texts = << filter.text >>
  BY <1>2 DEF RequestOK, RequestType, RequestShape, Fields
<1> HIDE DEF x, y
<1>4. RequestWhole(y) /\ FilterClause(y) = FilterClause(x)
  BY <1>2, <1>3, FurtherWhole
<1>5. RequestJoined(y)
  BY <1>3, <1>4 DEF RequestJoined
<1> QED
  BY <1>1, <1>4, <1>5, OneWhole

LEMMA ThreeTexts == ASSUME NEW c, NEW a, NEW b PROVE << c >> \o << a, b >> = << c, a, b >>
<1> DEFINE S == {c, a, b}
           w == << c >> \o << a, b >>
<1>1. << c >> \in Seq(S) /\ << a, b >> \in Seq(S)
  OBVIOUS
<1>2. w \in Seq(S) /\ Len(w) = 3 /\ w[1] = c /\ w[2] = a /\ w[3] = b
  BY <1>1
<1> HIDE DEF w
<1>3. w = << w[1], w[2], w[3] >>
  BY <1>2
<1> QED
  BY <1>2, <1>3 DEF w

LEMMA CallPluginsWhole ==
    ASSUME IInv, ClauseInv, NEW r \in Requests, NEW category \in Outcomes("category"),
           NEW layer \in Outcomes("layer"), CallPlugins(r, category, layer), ~Fails(r)
    PROVE  ClauseInv'
<1> DEFINE x == request[r]
           a == TextOf(category)
           b == TextOf(layer)
           y == [x EXCEPT !.pc = "query", !.clause = And(@, And(Bare(a), Bare(b))),
                          !.texts = @ \o << a, b >>]
<1>1. request' = [request EXCEPT ![r] = y] /\ UNCHANGED filter
  BY DEF CallPlugins
<1>2. RequestOK(x) /\ RequestWhole(x) /\ RequestJoined(x) /\ x.pc = "plugins"
  BY DEF IInv, ClauseInv, CallPlugins
<1>3. /\ y.pc = "query" /\ y.params = x.params /\ y.rest = x.rest /\ y.built = x.built
      /\ y.ands = x.ands /\ y.ors = x.ors /\ y.nots = x.nots
      /\ y.clause = And(x.clause, And(Bare(a), Bare(b))) /\ y.texts = x.texts \o << a, b >>
  BY <1>2 DEF RequestOK, RequestType, RequestShape, Fields
<1>4. a \in Texts /\ b \in Texts
  BY DEF Texts, TextOf, Outcomes
<1> HIDE DEF x, y, a, b
<1>5. << filter.text >> \o << a, b >> = << filter.text, a, b >>
  BY ThreeTexts
<1>6. RequestWhole(y) /\ FilterClause(y) = FilterClause(x)
  <2>1. x.rest = {}
    BY <1>2 DEF RequestWhole
  <2> QED
    BY <1>2, <1>3, <2>1, FurtherWhole
<1>7. RequestJoined(y)
  <2>1. /\ y.texts = << filter.text, a, b >>
        /\ y.clause = And(And(FilterClause(y), Bare(filter.text)), And(Bare(a), Bare(b)))
    BY <1>2, <1>3, <1>5, <1>6 DEF RequestJoined
  <2> QED
    BY <1>3, <1>4, <2>1 DEF RequestJoined
<1> QED
  BY <1>1, <1>6, <1>7, OneWhole

LEMMA QueryWhole ==
    ASSUME IInv, ClauseInv, NEW r \in Requests, Query(r), ~Fails(r)
    PROVE  ClauseInv'
<1> DEFINE x == request[r]
           y == [x EXCEPT !.pc = "answer"]
<1>1. request' = [request EXCEPT ![r] = y] /\ UNCHANGED filter
  BY DEF Query
<1>2. RequestOK(x) /\ RequestWhole(x) /\ x.pc = "query"
  BY DEF IInv, ClauseInv, Query
<1>3. /\ y.pc = "answer" /\ y.params = x.params /\ y.rest = x.rest /\ y.built = x.built
      /\ y.ands = x.ands /\ y.ors = x.ors /\ y.nots = x.nots
  BY <1>2 DEF RequestOK, RequestType, RequestShape, Fields
<1> HIDE DEF x, y
<1>4. RequestWhole(y)
  <2>1. x.rest = {}
    BY <1>2 DEF RequestWhole
  <2> QED
    BY <1>2, <1>3, <2>1, FurtherWhole
<1>5. RequestJoined(y)
  BY <1>3 DEF RequestJoined
<1> QED
  BY <1>1, <1>4, <1>5, OneWhole

\* A request that ends is idle again.
LEMMA EndWhole ==
    ASSUME IInv, ClauseInv, NEW r \in Requests,
           request' = [request EXCEPT ![r] = idle], UNCHANGED filter
    PROVE  ClauseInv'
BY IdleWhole, OneWhole

LEMMA RequestStepWhole ==
    ASSUME IInv, ClauseInv, NEW r \in Requests, RequestStep(r)
    PROVE  ClauseInv'
<1>1. ASSUME NEW params \in Urls[r], Ask(r, params) PROVE ClauseInv'
  <2> DEFINE x == [idle EXCEPT !.pc = "build", !.params = params, !.rest = params]
  <2>1. /\ x.pc = "build" /\ x.params = params /\ x.rest = params
        /\ x.built = <<>> /\ x.ands = <<>> /\ x.ors = <<>> /\ x.nots = <<>>
    BY DEF idle
  <2>2. RequestWhole(x) /\ RequestJoined(x)
    <3> HIDE DEF x
    <3> QED
      BY <2>1, NothingMeans DEF RequestWhole, RequestJoined
  <2>3. request' = [request EXCEPT ![r] = x] /\ UNCHANGED filter
    BY <1>1 DEF Ask
  <2> HIDE DEF x
  <2> QED
    BY <2>2, <2>3, OneWhole
<1>2. CASE Fails(r) /\ UNCHANGED filter
  BY <1>2, EndWhole DEF Fails
<1>3. CASE Hit(r) \/ Answer(r)
  BY <1>3, EndWhole DEF Hit, Answer, Respond
<1>4. CASE QueryFails(r)
  BY <1>4, <1>2 DEF QueryFails
<1>5. CASE AddLayerFilter(r)
  <2>1. CASE filter.valid
    BY <1>5, <2>1, AddLayerFilterWhole
  <2>2. CASE ~filter.valid
    BY <1>2, <1>5, <2>2 DEF AddLayerFilter
  <2> QED
    BY <2>1, <2>2
<1>6. ASSUME NEW category \in Outcomes("category"), NEW layer \in Outcomes("layer"),
             CallPlugins(r, category, layer)
      PROVE  ClauseInv'
  BY <1>2, <1>6, CallPluginsWhole DEF CallPlugins
<1>7. CASE Query(r)
  BY <1>2, <1>7, QueryWhole DEF Query
<1> QED
  BY <1>1, <1>3, <1>4, <1>5, <1>6, <1>7, BuildWhole DEF RequestStep

\* How the clause came about is an invariant, given the one above.
LEMMA ClauseInvariant == Spec => []ClauseInv
<1>1. Init => ClauseInv
  BY IdleWhole DEF Init, ClauseInv
<1>2. IInv /\ ClauseInv /\ [Next]_vars => ClauseInv'
  <2> SUFFICES ASSUME IInv, ClauseInv, [Next]_vars PROVE ClauseInv'
    OBVIOUS
  <2>1. ASSUME request' = request, filter' = filter PROVE ClauseInv'
    BY <2>1 DEF ClauseInv, RequestWhole, RequestJoined
  <2>2. ASSUME NEW loaded \in SUBSET {"category", "layer"}, Restart(loaded) PROVE ClauseInv'
    <3>1. \A r \in Requests : request'[r] = idle
      BY <2>2 DEF Restart
    <3> QED
      BY <2>2, <3>1, IdleWhole DEF Restart, ClauseInv, RequestWhole, RequestJoined
  <2> QED
    BY <2>1, <2>2, RequestStepWhole DEF Next, Forget, vars
<1> QED
  BY InductiveInvariant, <1>1, <1>2, PTL DEF Spec

-----------------------------------------------------------------------------
(***************************************************************************)
(* The tile has what was asked for.                                        *)
(***************************************************************************)

\* What the text of a parameter selects, its placeholders bound.
LEMMA EntryMeans ==
    ASSUME NEW entry, EntryOf(entry), entry.param \in Params,
           Closed(entry.param.either), Closed(<< entry.param.also >>),
           NEW bindings \in Seq(Values), NEW row,
           \A i \in DOMAIN entry.param.values :
            /\ entry.condition.slots[i] \in 9..(8 + Len(bindings))
            /\ bindings[entry.condition.slots[i] - 8] = entry.param.values[i]
    PROVE  TextHolds(EntryText(entry), Fixed \o bindings, row) <=> Meets(row, entry.param)
<1> DEFINE p == entry.param
           c == entry.condition
           binds == Fixed \o bindings
           read == [i \in DOMAIN c.slots |-> binds[c.slots[i]]]
<1>1. p.field # never /\ p.values \in Seq(Values)
  BY TileQueryAssumption
<1>2. DOMAIN c.slots = DOMAIN p.values /\ c.field = IF p.values = <<>> THEN never ELSE p.field
  BY DEF EntryOf
<1>3. \A i \in DOMAIN p.values : binds[c.slots[i]] = p.values[i]
  BY BehindFixed
<1>4. read = p.values
  <2>1. p.values = [i \in DOMAIN p.values |-> p.values[i]]
    BY <1>1
  <2> HIDE DEF binds, p, c
  <2> QED
    BY <1>2, <1>3, <2>1
<1>5. ConditionHolds(c, binds, row) <=>
        c.field # never /\ [field |-> c.field, values |-> p.values] \in row
  <2>1. ConditionHolds(c, binds, row) <=>
            c.field # never /\ [field |-> c.field, values |-> read] \in row
    BY DEF ConditionHolds
  <2> HIDE DEF read, binds, p, c
  <2> QED
    BY <1>4, <2>1
<1>6. CASE p.values = <<>>
  <2>1. EntryText(entry) = << << c >> >>
    BY <1>6 DEF EntryText, ConditionText
  <2>2. ~ConditionHolds(c, binds, row)
    BY <1>2, <1>6 DEF ConditionHolds
  <2> QED
    BY <1>6, <2>1, <2>2, LiteralMeans DEF Meets
<1>7. CASE p.values # <<>>
  <2>1. EntryText(entry) = Append(p.either, Append(p.also, c))
    BY <1>7 DEF EntryText, ConditionText
  <2>2. p.either \in Seq(Seq(Pieces)) /\ p.also \in Seq(Pieces)
    BY TextsTyped DEF SqlTexts
  <2>3. AllMet(Append(p.also, c), binds, row) <=>
            AllMet(p.also, binds, row) /\ ConditionHolds(c, binds, row)
    <3> DEFINE S == Pieces \cup {c}
               more == Append(p.also, c)
    <3>1. p.also \in Seq(S)
      BY <2>2
    <3>2. /\ DOMAIN more = DOMAIN p.also \cup {Len(p.also) + 1} /\ more[Len(p.also) + 1] = c
          /\ \A n \in DOMAIN p.also : more[n] = p.also[n]
      <4> HIDE DEF p, c
      <4>1. c \in S
        OBVIOUS
      <4> HIDE DEF S
      <4> QED
        BY <3>1, <4>1, OneMore
    <3> HIDE DEF more, binds, p, c
    <3> QED
      BY <3>2 DEF AllMet, more
  <2>4. TextHolds(EntryText(entry), binds, row) <=>
            TextHolds(p.either, binds, row) \/ AllMet(Append(p.also, c), binds, row)
    <3> DEFINE last == Append(p.also, c)
               S == Seq(Pieces) \cup {last}
               more == Append(p.either, last)
    <3>1. p.either \in Seq(S)
      BY <2>2
    <3>2. /\ DOMAIN more = DOMAIN p.either \cup {Len(p.either) + 1} /\ more[Len(p.either) + 1] = last
          /\ \A n \in DOMAIN p.either : more[n] = p.either[n]
      <4> HIDE DEF p, last
      <4>1. last \in S
        OBVIOUS
      <4> HIDE DEF S
      <4> QED
        BY <3>1, <4>1, OneMore
    <3>3. EntryText(entry) = more
      BY <2>1
    <3> HIDE DEF more, last, binds, p
    <3>4. TextHolds(more, binds, row) <=> TextHolds(p.either, binds, row) \/ AllMet(last, binds, row)
      BY <3>2 DEF TextHolds, AllMet
    <3> QED
      BY <3>3, <3>4 DEF last
  <2>5. TextHolds(p.either, binds, row) <=> TextHolds(p.either, Fixed, row)
    BY ClosedMeans
  <2>6. AllMet(p.also, binds, row) <=> \A i \in DOMAIN p.also : ConditionHolds(p.also[i], Fixed, row)
    <3>1. ASSUME NEW i \in DOMAIN p.also
          PROVE  ConditionHolds(p.also[i], binds, row) <=> ConditionHolds(p.also[i], Fixed, row)
      <4>1. p.also[i] \in ConditionsOf(<< p.also >>)
        <5>1. DOMAIN << p.also >> = {1} /\ << p.also >>[1] = p.also
          OBVIOUS
        <5> QED
          BY <5>1 DEF ConditionsOf, Range
      <4>2. Range(p.also[i].slots) \subseteq DOMAIN Fixed
        BY <4>1 DEF Closed
      <4> QED
        BY <4>2, ClosedCondition
    <3> QED
      BY <3>1 DEF AllMet
  <2>7. c.field = p.field /\ c.field # never
    BY <1>1, <1>2, <1>7
  <2> HIDE DEF p, c, binds
  <2>8. TextHolds(EntryText(entry), binds, row) <=> Meets(row, p)
    BY <1>5, <1>7, <2>3, <2>4, <2>5, <2>6, <2>7 DEF Meets
  <2> QED
    BY <2>8 DEF p, binds
<1> QED
  BY <1>6, <1>7

\* No key of the request names a placeholder of another.
OwnSlots(x) == \A p \in x.params : p.known => Closed(p.either) /\ Closed(<< p.also >>)

\* The parameters of a request that was read to its end are those of its entries.
LEMMA BuiltMeans ==
    ASSUME NEW x, RequestOK(x), RequestWhole(x), x.rest = {}, OwnSlots(x), NEW row
    PROVE  /\ \A n \in DOMAIN x.built :
                /\ TextHolds(EntryText(x.built[n]), Fixed \o x.bindings, row)
                        <=> Meets(row, x.built[n].param)
                /\ x.built[n].param \in {p \in x.params : p.known}
           /\ \A p \in x.params : p.known => \E n \in DOMAIN x.built : x.built[n].param = p
<1>1. ASSUME NEW n \in DOMAIN x.built
      PROVE  /\ EntryOf(x.built[n])
             /\ x.built[n].param \in x.params /\ x.built[n].param.known
  BY DEF RequestOK, RequestRead, RequestWhole
<1>2. ASSUME NEW n \in DOMAIN x.built
      PROVE  TextHolds(EntryText(x.built[n]), Fixed \o x.bindings, row)
                <=> Meets(row, x.built[n].param)
  <2> DEFINE entry == x.built[n]
             bindings == x.bindings
  <2>1. /\ EntryOf(entry) /\ entry.param \in Params /\ bindings \in Seq(Values)
        /\ Closed(entry.param.either) /\ Closed(<< entry.param.also >>)
    BY <1>1 DEF RequestOK, RequestType, OwnSlots
  <2>2. \A i \in DOMAIN entry.param.values :
            /\ entry.condition.slots[i] \in 9..(8 + Len(bindings))
            /\ bindings[entry.condition.slots[i] - 8] = entry.param.values[i]
    BY DEF RequestOK, RequestBound, Bound
  <2> HIDE DEF entry, bindings
  <2>3. TextHolds(EntryText(entry), Fixed \o bindings, row) <=> Meets(row, entry.param)
    BY <2>1, <2>2, EntryMeans
  <2> QED
    BY <2>3 DEF entry, bindings
<1>3. \A p \in x.params : p.known => \E n \in DOMAIN x.built : x.built[n].param = p
  BY DEF RequestWhole
<1> QED
  BY <1>1, <1>2, <1>3

\* Of the parameters under AND none has an OR in its key.
PlainKeys(x) ==
    \A p \in x.params : p.known /\ p.logic = "and" /\ p.values # <<>> => p.either = <<>>

LEMMA PlainKeysBuilt ==
    ASSUME NEW x, RequestOK(x), PlainKeys(x)
    PROVE  NoBareOr(x.built)
<1> SUFFICES ASSUME NEW n \in DOMAIN x.built, x.built[n].param.logic = "and"
             PROVE  Len(EntryText(x.built[n])) <= 1
  BY DEF NoBareOr
<1> DEFINE p == x.built[n].param
           c == x.built[n].condition
<1>1. p \in x.params /\ p.known
  BY DEF RequestOK, RequestRead
<1>2. Len(<< << c >> >>) = 1
  OBVIOUS
<1>3. Len(Append(<<>>, Append(p.also, c))) = 1
  OBVIOUS
<1>4. EntryText(x.built[n])
        = IF p.values = <<>> THEN << << c >> >> ELSE Append(p.either, Append(p.also, c))
  BY DEF EntryText, ConditionText
<1>5. p.values # <<>> => p.either = <<>>
  BY <1>1 DEF PlainKeys
<1> HIDE DEF p, c
<1> QED
  BY <1>2, <1>3, <1>4, <1>5

\* FilterClause is one conjunction, or empty, and selects what Wanted says.
LEMMA FilterMeans ==
    ASSUME NEW x, RequestOK(x), RequestWhole(x), x.rest = {}, OwnSlots(x), PlainKeys(x), NEW row
    PROVE  /\ FilterClause(x) \in Clauses /\ Len(FilterClause(x)) <= 1
           /\ Selects(FilterClause(x), Fixed \o x.bindings, row) <=> Wanted(x.params, row)
<1> DEFINE binds == Fixed \o x.bindings
           Of(logic) == {p \in x.params : p.known /\ p.logic = logic}
           brackets == Bracketed(x.ors)
           front == And(x.ands, brackets)
<1>1. x.ands \in Clauses /\ x.ors \in SqlTexts /\ x.nots \in Clauses
  BY DEF RequestOK, RequestType
<1>2. /\ \A n \in DOMAIN x.built :
            /\ TextHolds(EntryText(x.built[n]), binds, row) <=> Meets(row, x.built[n].param)
            /\ x.built[n].param \in {p \in x.params : p.known}
      /\ \A p \in x.params : p.known => \E n \in DOMAIN x.built : x.built[n].param = p
  BY BuiltMeans
<1>3. AndsMean(x.built, x.ands) /\ OrsMean(x.built, x.ors) /\ NotsMean(x.built, x.nots)
  BY DEF RequestWhole
<1> HIDE DEF binds
<1>4. Len(x.ands) <= 1 /\ (Selects(x.ands, binds, row) <=> \A p \in Of("and") : Meets(row, p))
  <2>1. /\ Len(x.ands) <= 1
        /\ Selects(x.ands, binds, row) <=> \A n \in DOMAIN x.built :
            x.built[n].param.logic = "and" => TextHolds(EntryText(x.built[n]), binds, row)
    BY <1>3, PlainKeysBuilt DEF AndsMean
  <2> QED
    BY <1>2, <2>1
<1>5. /\ brackets \in Clauses /\ Len(brackets) <= 1
      /\ Selects(brackets, binds, row) <=>
            (Of("or") # {} => \E p \in Of("or") : Meets(row, p))
  <2>1. /\ brackets \in Clauses /\ Len(brackets) <= 1
        /\ Selects(brackets, binds, row) <=> x.ors = <<>> \/ TextHolds(x.ors, binds, row)
    BY <1>1, BracketsTyped, BracketsMean
  <2>2. x.ors = <<>> <=> Of("or") = {}
    BY <1>2, <1>3 DEF OrsMean
  <2>3. TextHolds(x.ors, binds, row) <=> \E p \in Of("or") : Meets(row, p)
    BY <1>2, <1>3 DEF OrsMean
  <2> HIDE DEF brackets, Of
  <2> QED
    BY <2>1, <2>2, <2>3
<1>6. Len(x.nots) <= 1 /\ (Selects(x.nots, binds, row) <=> \A p \in Of("not") : ~Meets(row, p))
  BY <1>2, <1>3 DEF NotsMean
<1> HIDE DEF brackets, Of
<1>7. /\ front \in Seq(Seq(Literals)) /\ Len(front) <= 1
      /\ Selects(front, binds, row) <=>
            Selects(x.ands, binds, row) /\ Selects(brackets, binds, row)
  BY <1>1, <1>4, <1>5, JoinMeans DEF Clauses
<1> HIDE DEF front
<1>8. /\ And(front, x.nots) \in Clauses /\ Len(And(front, x.nots)) <= 1
      /\ Selects(And(front, x.nots), binds, row) <=>
            Selects(front, binds, row) /\ Selects(x.nots, binds, row)
  BY <1>1, <1>6, <1>7, JoinMeans DEF Clauses
<1>9. FilterClause(x) = And(front, x.nots)
  BY DEF FilterClause, front, brackets
<1>10. Wanted(x.params, row) <=>
        /\ \A p \in Of("and") : Meets(row, p)
        /\ Of("or") # {} => \E p \in Of("or") : Meets(row, p)
        /\ \A p \in Of("not") : ~Meets(row, p)
  BY DEF Wanted, Of
<1>11. Selects(FilterClause(x), binds, row) <=> Wanted(x.params, row)
  BY <1>4, <1>5, <1>6, <1>7, <1>8, <1>9, <1>10
<1> QED
  BY <1>8, <1>9, <1>11 DEF binds

-----------------------------------------------------------------------------
(***************************************************************************)
(* The texts joined.                                                       *)
(***************************************************************************)

\* Without a bare OR, the text of the layer's filter or of a plugin is one
\* conjunction, or empty, and means the same behind the bindings of a user.
LEMMA RestrictionMeans ==
    ASSUME NEW text \in Texts \cup {t.text : t \in Filters}, ~(Len(text) > 1),
           NEW bindings \in Seq(Values), NEW row
    PROVE  /\ Bare(text) \in Clauses /\ Len(Bare(text)) <= 1
           /\ Selects(Bare(text), Fixed \o bindings, row) <=> Allowed(text, row)
<1>1. text \in SqlTexts /\ Closed(text)
  <2>1. CASE text = <<>>
    BY <2>1 DEF SqlTexts, Closed, ConditionsOf
  <2>2. CASE \E t \in Filters \cup Answers : text = t.text
    BY <2>2, TextsTyped, TileQueryAssumption
  <2> QED
    BY <2>1, <2>2 DEF Texts
<1>2. Bare(text) \in Clauses /\ Len(Bare(text)) = Len(text) /\ (Bare(text) = <<>> <=> text = <<>>)
  BY <1>1, BareTyped
<1>3. Len(text) <= 1
  <2>1. Len(text) \in Nat
    BY <1>1 DEF SqlTexts
  <2>2. \A n \in Nat : ~(n > 1) => n <= 1
    OBVIOUS
  <2> QED
    BY <2>1, <2>2
<1>4. ClauseHolds(Bare(text), Fixed \o bindings, row) <=> TextHolds(text, Fixed, row)
  BY <1>1, BareMeans, ClosedMeans
<1> QED
  BY <1>2, <1>3, <1>4 DEF Selects, Allowed

\* The template's own condition, behind whatever bindings.
LEMMA TemplateMeans ==
    ASSUME NEW bindings \in Seq(Values), NEW row
    PROVE  /\ Template \in Seq(Seq(Range(Template[1]))) /\ Len(Template) = 1
           /\ Selects(Template, Fixed \o bindings, row) <=> InTile(row)
<1> DEFINE c == [field |-> inside, slots |-> << 1, 2, 3, 7 >>]
           l == Literal("plain", << << c >> >>)
           binds == Fixed \o bindings
<1>1. Template = << << l >> >>
  BY DEF Template
<1>2. Template \in Seq(Seq(Range(Template[1]))) /\ Len(Template) = 1
  <2> HIDE DEF l
  <2>1. << << l >> >>[1] = << l >> /\ Range(<< l >>) = {l}
    BY DEF Range
  <2>2. << << l >> >> \in Seq(Seq({l})) /\ Len(<< << l >> >>) = 1
    OBVIOUS
  <2> QED
    BY <1>1, <2>1, <2>2
<1>3. binds[1] = Fixed[1] /\ binds[2] = Fixed[2] /\ binds[3] = Fixed[3] /\ binds[7] = Fixed[7]
  <2>1. Fixed \in Seq(Values) /\ Len(Fixed) = 8
    BY TileQueryAssumption
  <2>2. 1 \in DOMAIN Fixed /\ 2 \in DOMAIN Fixed /\ 3 \in DOMAIN Fixed /\ 7 \in DOMAIN Fixed
    BY <2>1
  <2>3. \A k \in DOMAIN Fixed : binds[k] = Fixed[k]
    <3>1. Fixed \in Seq(Values)
      BY <2>1
    <3> QED
      BY <3>1
  <2> QED
    BY <2>2, <2>3
<1>4. [i \in DOMAIN c.slots |-> binds[c.slots[i]]] = << Fixed[1], Fixed[2], Fixed[3], Fixed[7] >>
  <2>1. DOMAIN c.slots = {1, 2, 3, 4} /\ c.slots[1] = 1 /\ c.slots[2] = 2 /\ c.slots[3] = 3
        /\ c.slots[4] = 7
    OBVIOUS
  <2>2. [i \in DOMAIN c.slots |-> binds[c.slots[i]]]
            = << binds[1], binds[2], binds[3], binds[7] >>
    <3> HIDE DEF binds
    <3> QED
      OBVIOUS
  <2> HIDE DEF binds, c
  <2> QED
    BY <1>3, <2>2
<1>5. ConditionHolds(c, binds, row) <=> InTile(row)
  <2>1. c.field = inside /\ inside # never
    BY TileQueryAssumption
  <2> HIDE DEF binds, c
  <2> QED
    BY <1>4, <2>1 DEF ConditionHolds, InTile
<1>6. Selects(Template, binds, row) <=> ConditionHolds(c, binds, row)
  <2> HIDE DEF c, binds
  <2>1. Range(<< l >>) = {l} /\ << << l >> >> # <<>>
    BY DEF Range
  <2> HIDE DEF l
  <2>2. Selects(Template, binds, row) <=> LiteralHolds(l, binds, row)
    BY <1>1, <2>1, OneConjunction DEF Selects, AllHold
  <2>3. LiteralHolds(l, binds, row) <=> ConditionHolds(c, binds, row)
    BY LiteralMeans DEF l
  <2> QED
    BY <2>2, <2>3
<1> QED
  BY <1>2, <1>5, <1>6 DEF binds

\* Four clauses, each of one conjunction or empty, joined behind the template's.
LEMMA AllConjoined ==
    ASSUME NEW S, NEW t \in Seq(Seq(S)), Len(t) = 1,
           NEW c \in Seq(Seq(S)), NEW f \in Seq(Seq(S)), NEW a \in Seq(Seq(S)), NEW b \in Seq(Seq(S)),
           Len(c) <= 1, Len(f) <= 1, Len(a) <= 1, Len(b) <= 1
    PROVE  LET clause == And(And(c, f), And(a, b))
           IN  /\ clause = <<>> => c = <<>>
               /\ \A binds, row : ClauseHolds(And(t, clause), binds, row) <=>
                    /\ Selects(t, binds, row) /\ Selects(c, binds, row) /\ Selects(f, binds, row)
                    /\ Selects(a, binds, row) /\ Selects(b, binds, row)
<1> DEFINE cf == And(c, f)
           ab == And(a, b)
           clause == And(cf, ab)
<1>1. /\ cf \in Seq(Seq(S)) /\ Len(cf) <= 1 /\ (cf = <<>> <=> c = <<>> /\ f = <<>>)
      /\ \A binds, row : Selects(cf, binds, row) <=>
            Selects(c, binds, row) /\ Selects(f, binds, row)
  BY JoinMeans
<1>2. /\ ab \in Seq(Seq(S)) /\ Len(ab) <= 1
      /\ \A binds, row : Selects(ab, binds, row) <=>
            Selects(a, binds, row) /\ Selects(b, binds, row)
  BY JoinMeans
<1> HIDE DEF cf, ab
<1>3. /\ clause \in Seq(Seq(S)) /\ Len(clause) <= 1 /\ (clause = <<>> <=> cf = <<>> /\ ab = <<>>)
      /\ \A binds, row : Selects(clause, binds, row) <=>
            Selects(cf, binds, row) /\ Selects(ab, binds, row)
  BY <1>1, <1>2, JoinMeans
<1> HIDE DEF clause
<1>4. t # <<>> /\ Len(t) <= 1
  <2>1. Len(<<>>) = 0
    OBVIOUS
  <2>2. Len(t) # 0 /\ Len(t) <= 1
    <3>1. \A n : n = 1 => n # 0 /\ n <= 1
      OBVIOUS
    <3> QED
      BY <3>1
  <2> QED
    BY <2>1, <2>2
<1>5. /\ And(t, clause) # <<>>
      /\ \A binds, row : Selects(And(t, clause), binds, row) <=>
            Selects(t, binds, row) /\ Selects(clause, binds, row)
  <2>1. /\ And(t, clause) = <<>> <=> t = <<>> /\ clause = <<>>
        /\ \A binds, row : Selects(And(t, clause), binds, row) <=>
            Selects(t, binds, row) /\ Selects(clause, binds, row)
    <3>1. /\ t \in Seq(Seq(S)) /\ clause \in Seq(Seq(S))
          /\ Len(t) <= 1 /\ Len(clause) <= 1
      BY <1>3, <1>4
    <3> QED
      BY <3>1, JoinMeans, ZenonT(30)
  <2> QED
    BY <1>4, <2>1
<1>6. \A binds, row : ClauseHolds(And(t, clause), binds, row) <=>
            Selects(t, binds, row) /\ Selects(clause, binds, row)
  BY <1>5 DEF Selects
<1>7. clause = <<>> => c = <<>>
  BY <1>1, <1>3
<1>8. \A binds, row : ClauseHolds(And(t, clause), binds, row) <=>
        /\ Selects(t, binds, row) /\ Selects(c, binds, row) /\ Selects(f, binds, row)
        /\ Selects(a, binds, row) /\ Selects(b, binds, row)
  BY <1>1, <1>2, <1>3, <1>6
<1> QED
  BY <1>7, <1>8 DEF clause, cf, ab

LEMMA QueryConjoined ==
    ASSUME IInv, ClauseInv, NEW r \in Requests, request[r].pc = "query",
           ~HasBareOr(r), ~Borrows(r), NEW row
    PROVE  LET texts == request[r].texts
               x == Tile(request[r].clause, request[r].bindings)
           IN  ClauseHolds(x.clause, x.binds, row) <=>
                    /\ InTile(row)
                    /\ Wanted(request[r].params, row)
                    /\ \A n \in DOMAIN texts : Allowed(texts[n], row)
<1> DEFINE x == request[r]
           c == FilterClause(x)
           f == filter.text
           binds == Fixed \o x.bindings
<1>1. /\ RequestOK(x) /\ RequestWhole(x) /\ RequestJoined(x) /\ x.rest = {}
      /\ x.bindings \in Seq(Values) /\ f \in {t.text : t \in Filters}
  BY DEF IInv, ClauseInv, RequestWhole, RequestOK, RequestType
<1>2. PICK a \in Texts, b \in Texts :
        /\ x.texts = << f, a, b >>
        /\ x.clause = And(And(c, Bare(f)), And(Bare(a), Bare(b)))
  BY <1>1 DEF RequestJoined
<1>3. OwnSlots(x) /\ PlainKeys(x)
  BY DEF OwnSlots, PlainKeys, Borrows, HasBareOr
<1>4. /\ c \in Clauses /\ Len(c) <= 1
      /\ Selects(c, binds, row) <=> Wanted(x.params, row)
  BY <1>1, <1>3, FilterMeans
<1>5. ~(Len(f) > 1) /\ ~(Len(a) > 1) /\ ~(Len(b) > 1)
  <2> HIDE DEF f
  <2>1. DOMAIN x.texts = 1..3 /\ x.texts[1] = f /\ x.texts[2] = a /\ x.texts[3] = b
    BY <1>2
  <2>2. \A n \in 1..3 : ~(Len(x.texts[n]) > 1)
    BY <2>1 DEF HasBareOr
  <2> QED
    BY <2>1, <2>2
<1>6. ASSUME NEW text \in {f, a, b}
      PROVE  /\ Bare(text) \in Clauses /\ Len(Bare(text)) <= 1
             /\ Selects(Bare(text), binds, row) <=> Allowed(text, row)
  <2>1. text \in Texts \cup {t.text : t \in Filters} /\ ~(Len(text) > 1)
    BY <1>1, <1>2, <1>5
  <2> HIDE DEF x
  <2> QED
    BY <1>1, <2>1, RestrictionMeans
<1>7. /\ Template \in Seq(Seq(Range(Template[1]))) /\ Len(Template) = 1
      /\ Selects(Template, binds, row) <=> InTile(row)
  BY <1>1, TemplateMeans
<1>8. /\ x.clause = <<>> => c = <<>>
      /\ ClauseHolds(And(Template, x.clause), binds, row) <=>
            /\ Selects(Template, binds, row) /\ Selects(c, binds, row)
            /\ Selects(Bare(f), binds, row)
            /\ Selects(Bare(a), binds, row) /\ Selects(Bare(b), binds, row)
  <2> DEFINE S == Literals \cup Range(Template[1])
  <2>1. Literals \subseteq S /\ Range(Template[1]) \subseteq S
    OBVIOUS
  <2> HIDE DEF S, c, f, binds, x
  <2>2. Template \in Seq(Seq(S))
    BY <1>7, <2>1, WiderClause
  <2>3. \A clause \in Clauses : clause \in Seq(Seq(S))
    BY <2>1, WiderClause DEF Clauses
  <2>4. c \in Seq(Seq(S)) /\ Bare(f) \in Seq(Seq(S)) /\ Bare(a) \in Seq(Seq(S)) /\ Bare(b) \in Seq(Seq(S))
    BY <1>4, <1>6, <2>3
  <2>5. Len(c) <= 1 /\ Len(Bare(f)) <= 1 /\ Len(Bare(a)) <= 1 /\ Len(Bare(b)) <= 1
    BY <1>4, <1>6
  <2> QED
    BY <1>2, <1>7, <2>2, <2>4, <2>5, AllConjoined
<1>9. /\ Tile(x.clause, x.bindings).clause = And(Template, x.clause)
      /\ Tile(x.clause, x.bindings).binds = binds
  <2>1. c = <<>> => x.bindings = <<>>
    <3>1. c = <<>> => NoClause(x)
      BY <1>1, FilterClauseTyped DEF RequestOK, RequestType
    <3> QED
      BY <1>1, <3>1 DEF RequestOK, RequestUnbound
  <2> QED
    BY <1>8, <2>1 DEF Tile
<1>10. (\A n \in DOMAIN x.texts : Allowed(x.texts[n], row)) <=>
        /\ Selects(Bare(f), binds, row)
        /\ Selects(Bare(a), binds, row) /\ Selects(Bare(b), binds, row)
  <2>1. DOMAIN x.texts = 1..3 /\ x.texts[1] = f /\ x.texts[2] = a /\ x.texts[3] = b
    BY <1>2
  <2>2. \A n : n \in 1..3 <=> n = 1 \/ n = 2 \/ n = 3
    OBVIOUS
  <2> HIDE DEF x, f, binds
  <2> QED
    BY <1>6, <2>1, <2>2
<1> HIDE DEF c, f, binds
<1> QED
  BY <1>4, <1>7, <1>8, <1>9, <1>10

\* The rows of a tile are those of the envelope that were asked for and that meet
\* the filter of the layer and the text of each plugin, unless an OR stands in the
\* query without brackets of its own, in a filter, an answer or a key, or a key
\* names a placeholder (SqlQueryBuilder::build, get_tile, call_filter,
\* query_database).
THEOREM FiltersAreAlwaysConjoined == Spec => []FiltersAreConjoined
<1>1. IInv /\ ClauseInv => FiltersAreConjoined
  BY QueryConjoined DEF FiltersAreConjoined
<1> QED
  BY InductiveInvariant, ClauseInvariant, <1>1, PTL

=============================================================================
