----------------------------- MODULE TileQuery ------------------------------
(***************************************************************************)
(* From the query string of a tile request to the rows of the tile: the    *)
(* parameters are parsed and numbered (filters/parser.rs, builder.rs), the *)
(* cache is asked, the filter of the layer and the clauses of the Lua      *)
(* plugins are added as text, and the whole is sent with its bindings      *)
(* (services/tiles/builder.rs).  Requests for one layer run side by side   *)
(* and meet in its cached tile; what edits do to that tile is the subject  *)
(* of TileCache and LayerTiles.                                            *)
(*                                                                         *)
(* SQL is modelled as SQL reads it: AND binds tighter than OR, so a text is *)
(* a sequence of conjunctions, joined by OR, and a conjunction a sequence  *)
(* of conditions; the empty sequence is the empty text.  What is inside of *)
(* brackets in a text, a NOT included, counts as one condition.  A clause  *)
(* is put together from texts: its conjunctions are of literals, which are *)
(* a text in brackets, or NOT of it; a condition alone needs no brackets.  *)
(* A condition compares a field, with its operator, to values; a row is    *)
(* the set of the comparisons that hold of it.  A tile is the query that   *)
(* produced it.                                                            *)
(***************************************************************************)
EXTENDS Naturals, SequencesExt

CONSTANTS
    Requests,
    Values,
    Params,    \* the filter parameters a query string may have
    Urls,      \* Urls[r]: the sets of parameters r may ask with
    Filters,   \* the filters the layer may have
    Answers,   \* what the filter() of a plugin may return
    Rows,      \* the rows the table may have, to tell queries apart
    Fixed,     \* the binds of the tile itself: z, x, y, extent, .., srid, name
    inside,    \* the geometry is there and meets the tile
    never      \* the condition 1=0

Logics == {"and", "or", "not"}

\* The conditions of a text.
ConditionsOf(text) == UNION {Range(text[n]) : n \in DOMAIN text}

\* The text names no placeholder, but for those of the template.
Closed(text) == \A c \in ConditionsOf(text) : Range(c.slots) \subseteq DOMAIN Fixed

\* `known`: the key has at most one operator, and a known one.  `valid`: what
\* validate_filter says of a text.  The key of a parameter is SQL like any other:
\* its last piece is `field`, which is compared to the value, `also` has the
\* conditions it joins to that by AND, `either` what it puts before an OR.  A
\* filter's and a plugin's text names no placeholder but those of the template.
ASSUME TileQueryAssumption ==
    /\ Fixed \in Seq(Values)
    /\ Len(Fixed) = 8
    /\ inside # never
    /\ \A p \in Params :
        /\ p.logic \in Logics
        /\ {p.known, p.valid} \subseteq BOOLEAN
        /\ p.field # never
        /\ p.values \in Seq(Values)
        /\ p.also \in Seq(Range(p.also))
        /\ p.either \in Seq(Seq(ConditionsOf(p.either)))
    /\ \A r \in Requests : Urls[r] \subseteq SUBSET Params
    /\ \A t \in Filters \cup Answers :
        /\ t.valid \in BOOLEAN
        /\ t.text \in Seq(Seq(ConditionsOf(t.text)))
        /\ Closed(t.text)

VARIABLES
    plugins,   \* which plugins were loaded: a subset of {"category", "layer"}
    filter,    \* the layer's filter
    cached,    \* the cached tile, if there is one
    request,   \* request[r]: how far r has come
    kept       \* the tiles that went out with an ETag

vars == <<plugins, filter, cached, request, kept>>

\* `built` has the conditions made so far; `ands`, `ors` and `nots` are the three
\* parts of the user's clause as they will be joined.
idle == [pc |-> "idle", params |-> {}, rest |-> {}, built |-> <<>>, bindings |-> <<>>,
         ands |-> <<>>, ors |-> <<>>, nots |-> <<>>, clause |-> <<>>, texts |-> <<>>]

Init ==
    /\ plugins \in SUBSET {"category", "layer"}
    /\ filter \in Filters
    /\ cached = {}
    /\ request = [r \in Requests |-> idle]
    /\ kept = {}

HasPlugin == plugins # {}

-----------------------------------------------------------------------------
(***************************************************************************)
(* Texts and clauses.                                                      *)
(***************************************************************************)

\* push_str(" AND ") and push_str of the other: no brackets, so the AND is between
\* the last conjunction of the one and the first of the other.
And(a, b) ==
    IF a = <<>> THEN b
    ELSE IF b = <<>> THEN a
    ELSE Front(a) \o << Last(a) \o Head(b) >> \o Tail(b)

Literal(kind, text) == [kind |-> kind, text |-> text]

\* The clause of a text that is joined as it is: every condition a literal.
Bare(text) ==
    [n \in DOMAIN text |->
        [i \in DOMAIN text[n] |-> Literal("plain", << <<text[n][i]>> >>)]]

\* The clause of a text in brackets, and of NOT (..).
Bracketed(text) == IF text = <<>> THEN <<>> ELSE << << Literal("plain", text) >> >>
Negated(text) == << << Literal("not", text) >> >>

\* A build that leaves the brackets around the OR parts out.
BareOr(x) == And(And(x.ands, Bare(x.ors)), x.nots)

\* SqlQueryBuilder::build: the AND parts as they are, the OR parts in brackets, and
\* NOT (..) of each of the others.
FilterClause(x) == And(And(x.ands, Bracketed(x.ors)), x.nots)

\* What PostgreSQL makes of a condition, a text, a literal and a clause.
ConditionHolds(c, binds, row) ==
    /\ c.field # never
    /\ [field |-> c.field, values |-> [i \in DOMAIN c.slots |-> binds[c.slots[i]]]] \in row

TextHolds(text, binds, row) ==
    \E n \in DOMAIN text : \A i \in DOMAIN text[n] : ConditionHolds(text[n][i], binds, row)

LiteralHolds(l, binds, row) ==
    IF l.kind = "not" THEN ~TextHolds(l.text, binds, row) ELSE TextHolds(l.text, binds, row)

ClauseHolds(clause, binds, row) ==
    \E n \in DOMAIN clause : \A i \in DOMAIN clause[n] : LiteralHolds(clause[n][i], binds, row)

\* The WHERE of the template, in both of its modes: the envelope, made of z, x, y
\* and srid, and IS NOT NULL count as one condition.
Template == << << Literal("plain", << <<[field |-> inside, slots |-> <<1, 2, 3, 7>>]>> >>) >> >>

\* query_database puts the clause behind the template's by AND, if there is one,
\* and then the bindings behind the eight values of the template.
Tile(clause, bindings) ==
    [clause |-> And(Template, clause),
     binds |-> Fixed \o (IF clause = <<>> THEN <<>> ELSE bindings)]

-----------------------------------------------------------------------------
(***************************************************************************)
(* One request.                                                            *)
(***************************************************************************)

Fails(r) ==
    /\ request' = [request EXCEPT ![r] = idle]
    /\ UNCHANGED kept

\* get_single_layer_tile: a tile has an ETag, and may be kept, when the request
\* had no parameters and the layer has no plugin.
HasEtag(r) == request[r].params = {} /\ ~HasPlugin

Respond(r, x) ==
    /\ request' = [request EXCEPT ![r] = idle]
    /\ kept' = IF HasEtag(r) THEN kept \cup {x} ELSE kept

\* The handler collects the parameters in a HashMap.
Ask(r, params) ==
    /\ request[r].pc = "idle"
    /\ request' = [request EXCEPT ![r] = [idle EXCEPT !.pc = "build", !.params = params,
                                                      !.rest = params]]
    /\ UNCHANGED <<plugins, filter, cached, kept>>

\* The placeholders of a builder that numbers conditions, not values.
OnePerCondition(bindings, p) ==
    [i \in DOMAIN p.values |-> 9 + Len(bindings)]

\* The placeholders of p: the builder starts at 9 and counts its bindings.
Slots(bindings, p) ==
    [i \in DOMAIN p.values |-> 9 + Len(bindings) + i - 1]

\* The comparison create_condition makes; an IN without values is 1=0 and binds
\* nothing.
Condition(bindings, p) ==
    [field |-> IF p.values = <<>> THEN never ELSE p.field, slots |-> Slots(bindings, p)]

\* Its text: the key stands in front of the operator as it came, 1=0 without it.
ConditionText(p, condition) ==
    IF p.values = <<>> THEN << <<condition>> >>
    ELSE Append(p.either, Append(p.also, condition))

\* A parser for which every operator it does not know is an equality.
AnyOperator(p) == TRUE

\* Operator::from_str, of a key that splits into at most a field and an operator.
HasOperator(p) == p.known

\* x without p, which stays out of its clause.
Skipped(x, p) == [x EXCEPT !.rest = @ \ {p}]

\* x with the condition of p, in the part of its logic.
Extended(x, p) ==
    LET condition == Condition(x.bindings, p)
        text == ConditionText(p, condition)
    IN  [x EXCEPT !.rest = @ \ {p},
                  !.built = Append(@, [param |-> p, condition |-> condition]),
                  !.bindings = @ \o p.values,
                  !.ands = IF p.logic = "and" THEN And(@, Bare(text)) ELSE @,
                  !.ors = IF p.logic = "or" THEN @ \o text ELSE @,
                  !.nots = IF p.logic = "not" THEN And(@, Negated(text)) ELSE @]

\* The next parameter, in the order of the HashMap: skipped when its operator is
\* not known, otherwise turned into a condition.
Build(r, p) ==
    /\ request[r].pc = "build"
    /\ p \in request[r].rest
    /\ request' = [request EXCEPT ![r] =
                    IF HasOperator(p) THEN Extended(@, p) ELSE Skipped(@, p)]
    /\ UNCHANGED <<plugins, filter, cached, kept>>

Built(r) == request[r].pc = "build" /\ request[r].rest = {}

\* Served from the cache, and stored there, whatever plugins there are.
IgnorePlugins(r) == FilterClause(request[r]) = <<>>

\* get_tile uses the cache, to read and to write, without a clause of the user
\* and without a plugin.
UsesCache(r) == FilterClause(request[r]) = <<>> /\ ~HasPlugin

Hit(r) ==
    /\ Built(r)
    /\ UsesCache(r)
    /\ \E x \in cached : Respond(r, x)
    /\ UNCHANGED <<plugins, filter, cached>>

\* The layer's filter goes behind the clause of the user.  It is refused when
\* validate_filter does not like it.
AddLayerFilter(r) ==
    /\ Built(r)
    /\ UsesCache(r) => cached = {}
    /\ IF filter.valid
       THEN /\ request' = [request EXCEPT
                ![r].pc = "plugins",
                ![r].clause = And(FilterClause(request[r]), Bare(filter.text)),
                ![r].texts = << filter.text >>]
            /\ UNCHANGED kept
       ELSE Fails(r)
    /\ UNCHANGED <<plugins, filter, cached>>

\* call_single_filter: nothing when there is no plugin or it raises an error.
Outcomes(plugin) == {<<>>} \cup (IF plugin \in plugins THEN {<<t>> : t \in Answers} ELSE {})

TextOf(outcome) == IF outcome = <<>> THEN <<>> ELSE outcome[1].text

\* call_filter: the category's plugin, then the layer's, joined by AND.
CallPlugins(r, category, layer) ==
    LET clause == And(Bare(TextOf(category)), Bare(TextOf(layer))) IN
    /\ request[r].pc = "plugins"
    /\ IF \A o \in {category, layer} : o = <<>> \/ o[1].text = <<>> \/ o[1].valid
       THEN /\ request' = [request EXCEPT
                ![r].pc = "query",
                ![r].clause = And(@, clause),
                ![r].texts = @ \o << TextOf(category), TextOf(layer) >>]
            /\ UNCHANGED kept
       ELSE Fails(r)
    /\ UNCHANGED <<plugins, filter, cached>>

\* query_database, which validates the clause as a whole again, and with it the keys
\* that are part of it.
Query(r) ==
    /\ request[r].pc = "query"
    /\ IF \A p \in request[r].params : HasOperator(p) /\ p.values # <<>> => p.valid
       THEN /\ request' = [request EXCEPT ![r].pc = "answer"]
            /\ UNCHANGED kept
       ELSE Fails(r)
    /\ UNCHANGED <<plugins, filter, cached>>

\* The tile is stored, or not meant to be, and goes out.
Answer(r) ==
    LET x == Tile(request[r].clause, request[r].bindings) IN
    /\ request[r].pc = "answer"
    /\ cached' = IF UsesCache(r) THEN {x} ELSE cached
    /\ Respond(r, x)
    /\ UNCHANGED <<plugins, filter>>

\* The database fails, or write_tile does: 400.  A key that names a placeholder
\* that does not exist ends here, too.
QueryFails(r) ==
    /\ request[r].pc \in {"query", "answer"}
    /\ Fails(r)
    /\ UNCHANGED <<plugins, filter, cached>>

\* The tile expires, or the layer's cache is cleared.
Forget ==
    /\ cached # {}
    /\ cached' = {}
    /\ UNCHANGED <<plugins, filter, request, kept>>

\* The process starts again, with the plugins that are in the directory now.
Restart(loaded) ==
    /\ plugins' = loaded
    /\ request' = [r \in Requests |-> idle]
    /\ UNCHANGED <<filter, cached, kept>>

RequestStep(r) ==
    \/ \E params \in Urls[r] : Ask(r, params)
    \/ \E p \in request[r].rest : Build(r, p)
    \/ Hit(r)
    \/ AddLayerFilter(r)
    \/ \E category \in Outcomes("category"), layer \in Outcomes("layer") :
        CallPlugins(r, category, layer)
    \/ Query(r)
    \/ Answer(r)
    \/ QueryFails(r)

Next ==
    \/ \E r \in Requests : RequestStep(r)
    \/ Forget
    \/ \E loaded \in SUBSET {"category", "layer"} : Restart(loaded)

Spec == Init /\ [][Next]_vars

-----------------------------------------------------------------------------
(***************************************************************************)
(* Properties.                                                             *)
(***************************************************************************)

Pcs == {"idle", "build", "plugins", "query", "answer"}

\* Every variable stays in the set of values its Rust counterpart can take.
TypeOK ==
    /\ plugins \subseteq {"category", "layer"}
    /\ filter \in Filters
    /\ DOMAIN request = Requests
    /\ \A r \in Requests :
        /\ request[r].pc \in Pcs
        /\ request[r].rest \subseteq request[r].params
        /\ request[r].params \subseteq Params
        /\ \A n \in DOMAIN request[r].built :
            LET p == request[r].built[n].param
            IN  p \in request[r].params \ request[r].rest /\ p.known

\* However the HashMap orders the parameters, however many values each has, and
\* however the conditions are regrouped into AND, OR and NOT parts: a placeholder
\* of a condition is the number of the bind that carries that value, and never
\* one of the eight of the template (SqlQueryBuilder::create_condition,
\* query_database).
PlaceholdersAreBound ==
    \A r \in Requests : \A n \in DOMAIN request[r].built :
        LET p == request[r].built[n].param
            slots == request[r].built[n].condition.slots
            binds == Fixed \o request[r].bindings
        IN  \A i \in DOMAIN p.values :
                /\ slots[i] \in (Len(Fixed) + 1)..Len(binds)
                /\ binds[slots[i]] = p.values[i]

\* The row has what p, alone, asks for: the comparison with its values, and what
\* its key says beside and instead of it.  An IN of nothing matches nothing.
Meets(row, p) ==
    /\ p.values # <<>>
    /\ \/ TextHolds(p.either, Fixed, row)
       \/ /\ [field |-> p.field, values |-> p.values] \in row
          /\ \A i \in DOMAIN p.also : ConditionHolds(p.also[i], Fixed, row)

\* What the user asked for: every AND parameter, one of the OR parameters if
\* there are any, none of the NOT parameters.
Wanted(params, row) ==
    LET Of(logic) == {p \in params : p.known /\ p.logic = logic}
    IN  /\ \A p \in Of("and") : Meets(row, p)
        /\ Of("or") # {} => \E p \in Of("or") : Meets(row, p)
        /\ \A p \in Of("not") : ~Meets(row, p)

\* The row is one of the tile: where the template's own condition holds.
InTile(row) ==
    [field |-> inside, values |-> << Fixed[1], Fixed[2], Fixed[3], Fixed[7] >>] \in row

\* The row meets a filter's or plugin's text, which is no restriction if it is empty.
Allowed(text, row) == text = <<>> \/ TextHolds(text, Fixed, row)

\* An OR that stands in the query without brackets of its own: in a filter, in what
\* a plugin answers, or in the key of a parameter that is not sorted under OR or
\* NOT, which have brackets.
HasBareOr(r) ==
    \/ \E n \in DOMAIN request[r].texts : Len(request[r].texts[n]) > 1
    \/ \E p \in request[r].params :
        p.known /\ p.logic = "and" /\ p.values # <<>> /\ p.either # <<>>

\* A key that names the placeholder of another parameter.
Borrows(r) ==
    \E p \in request[r].params :
        p.known /\ ~(Closed(p.either) /\ Closed(<< p.also >>))

\* A tile has the rows of the envelope that the user asked for and that meet the
\* layer's filter and the text of each plugin: whatever is between them is AND, and
\* nothing gets lost or in between (SqlQueryBuilder::build, get_tile, call_filter,
\* query_database).  It is not claimed of a query with a bare OR in a text or key,
\* since none of these sets brackets; see RestrictionsHold for what follows.
FiltersAreConjoined ==
    \A r \in Requests :
        LET texts == request[r].texts
            x == Tile(request[r].clause, request[r].bindings)
        IN  request[r].pc = "query" =>
                \/ HasBareOr(r)
                \/ Borrows(r)
                \/ \A row \in Rows :
                    ClauseHolds(x.clause, x.binds, row) <=>
                        /\ InTile(row)
                        /\ Wanted(request[r].params, row)
                        /\ \A n \in DOMAIN texts : Allowed(texts[n], row)

\* What the layer's filter and the plugins restrict stays restricted: every row of a
\* tile meets the filter and each plugin's text, whatever the keys of the parameters
\* are.  The documentation says that they are "combined with AND".
RestrictionsHold ==
    \A r \in Requests :
        LET x == Tile(request[r].clause, request[r].bindings)
        IN  request[r].pc = "query" /\ ~Borrows(r) =>
                \A row \in Rows : ClauseHolds(x.clause, x.binds, row) =>
                    \A n \in DOMAIN request[r].texts : Allowed(request[r].texts[n], row)

\* What is kept for others is the same for everyone: a cached tile, and a tile
\* with an ETag, is that of the layer with its own filter, narrowed neither by
\* the parameters of a request nor by a plugin; whatever requests overlap, and
\* whatever plugins were added or taken away by a restart while the cache stayed
\* (get_tile, get_single_layer_tile).
SharedTilesAreUnfiltered == cached \cup kept \subseteq {Tile(Bare(filter.text), <<>>)}

=============================================================================
