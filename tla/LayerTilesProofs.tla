-------------------------- MODULE LayerTilesProofs --------------------------
(***************************************************************************)
(* Proofs about LayerTiles, for any number of layers, categories, names,   *)
(* browsers, invalidations, edits and faults.                              *)
(***************************************************************************)
EXTENDS LayerTiles, FiniteSetTheorems, SequenceTheorems, TLAPS

\* A layer of the catalog is found under key and has what produced body.
Held(key, body) ==
    \E p \in DOMAIN catalog :
        /\ LayerKey(catalog[p]) = key
        /\ catalog[p].id = body.layer
        /\ catalog[p].gen = body.gen

\* An invalidation of key is under way; it has not incremented the version yet.
Busy(key) == \E j \in Jobs : job[j].pc # "idle" /\ job[j].key = key
Bumping(key) == \E j \in Jobs : job[j].pc = "bump" /\ job[j].key = key

\* Every cached tile, whether or not a layer has its key now, is a holder's own,
\* or about to go, or one of the exceptions.
TilesAreHeld ==
    \A key \in DOMAIN tiles :
        Held(key, tiles[key]) \/ Busy(key) \/ key \in stragglers \/ key \in unswept

\* As long as the version is the one in e, what produced body holds the key in e.
Vouched(e, body) ==
    /\ e[2] <= version[e[1]]
    /\ e[2] = version[e[1]] =>
        Held(e[1], body) \/ e[1] \in unbumped \/ Bumping(e[1])

\* A request reads one version after the other; then it has one part a layer.
RequestsFit ==
    \A b \in Browsers : request[b].pc # "idle" =>
        LET r == request[b] IN
        /\ Len(r.sound) = Len(r.etag)
        /\ Len(r.etag) <= Len(r.layers)
        /\ r.pc = "tiles" => Len(r.etag) = Len(r.layers) /\ Len(r.parts) = Len(r.layers)

Typed == TypeOK /\ RequestsFit

\* A version in an ETag under construction was read behind the clone of its layer.
VouchedRequest(r) ==
    \A n \in 1..Len(r.etag) :
        /\ r.etag[n][1] = r.layers[n].key
        /\ r.sound[n] => Vouched(r.etag[n], [layer |-> r.layers[n].id, gen |-> r.layers[n].gen])

RequestsAreVouched ==
    \A b \in Browsers : request[b].pc # "idle" => VouchedRequest(request[b])

\* So it is in the ETag of a response.
CopiesAreVouched ==
    \A b \in Browsers : \A e \in copy[b].etag :
        /\ Len(copy[b].parts) = Len(e)
        /\ Len(copy[b].sound) = Len(e)
        /\ \A n \in 1..Len(e) : copy[b].sound[n] =>
            \E body \in Body : copy[b].parts[n] = Tile(body) /\ Vouched(e[n], body)

IInv == Typed /\ TilesAreHeld /\ RequestsAreVouched /\ CopiesAreVouched

-----------------------------------------------------------------------------
(***************************************************************************)
(* The layers a URL selects.                                               *)
(***************************************************************************)

\* A set of naturals that is not empty has a least element.
LEMMA LeastNatural ==
    ASSUME NEW S \in SUBSET Nat, S # {}
    PROVE  \E m \in S : \A n \in S : m <= n
<1>1. PICK m \in S : \A n \in S : ~(<<n, m>> \in OpToRel(<, Nat))
  BY NatLessThanWellFounded, WFMin
<1>2. \A n \in S : ~(n < m)
  BY <1>1 DEF OpToRel
<1>3. QED
  BY <1>2

\* Numbers that are bounded can be listed from the least to the greatest: by the
\* least bound for which they cannot.
LEMMA BoundedSetsAreListed ==
    ASSUME NEW n \in Nat, NEW S \in SUBSET (1..n)
    PROVE  \E f \in [1..Cardinality(S) -> S] :
               \A i, j \in 1..Cardinality(S) : i < j => f[i] < f[j]
<1> DEFINE Listed(T) == \E f \in [1..Cardinality(T) -> T] :
                            \A i, j \in 1..Cardinality(T) : i < j => f[i] < f[j]
           Bad == {m \in Nat : \E T \in SUBSET (1..m) : ~Listed(T)}
<1> HIDE DEF Listed
<1>1. ASSUME Bad # {}
      PROVE  FALSE
  <2>1. PICK m \in Bad : \A k \in Bad : m <= k
    BY <1>1, LeastNatural, Bad \subseteq Nat
  <2>2. PICK T \in SUBSET (1..m) : ~Listed(T)
    BY <2>1
  <2>3. m \in Nat /\ IsFiniteSet(T) /\ Cardinality(T) \in Nat
    <3>1. m \in Nat /\ 1 \in Int /\ m \in Int
      BY <2>1
    <3>2. IsFiniteSet(1..m)
      BY <3>1, FS_Interval
    <3>3. QED
      BY <3>1, <3>2, FS_Subset, FS_CardinalityType
  <2>4. CASE m = 0
    <3>1. T = {} /\ Cardinality(T) = 0
      <4>1. 1..m = {}
        BY <2>4
      <4>2. T = {}
        BY <4>1
      <4>3. QED
        BY <4>2, FS_EmptySet
    <3>2. [i \in 1..0 |-> i] \in [1..Cardinality(T) -> T]
      BY <3>1
    <3>3. Listed(T)
      BY <3>1, <3>2 DEF Listed
    <3>4. QED
      BY <2>2, <3>3
  <2>5. CASE m > 0 /\ m \notin T
    <3>1. m - 1 \in Nat /\ T \in SUBSET (1..(m - 1))
      BY <2>3, <2>5
    <3>2. m - 1 \in Bad
      BY <3>1, <2>2
    <3>3. m <= m - 1
      BY <2>1, <3>2
    <3>4. QED
      BY <2>3, <3>3
  <2>6. CASE m > 0 /\ m \in T
    <3> DEFINE U == T \ {m}
               k == Cardinality(U)
    <3>1. m - 1 \in Nat /\ U \in SUBSET (1..(m - 1))
      BY <2>3, <2>6
    <3>2. Listed(U)
      <4>1. m - 1 \notin Bad
        BY <2>1, <2>3
      <4>2. QED
        BY <3>1, <4>1
    <3>3. IsFiniteSet(U) /\ k \in Nat /\ Cardinality(T) = k + 1
      <4>1. IsFiniteSet(U) /\ k = Cardinality(T) - 1
        BY <2>3, <2>6, FS_RemoveElement
      <4>2. k \in Nat
        BY <4>1, FS_CardinalityType
      <4> HIDE DEF k
      <4>3. QED
        BY <4>1, <4>2, <2>3
    <3> HIDE DEF k
    <3>4. PICK g \in [1..k -> U] : \A i, j \in 1..k : i < j => g[i] < g[j]
      BY <3>2 DEF Listed, k
    <3> DEFINE f == [i \in 1..(k + 1) |-> IF i = k + 1 THEN m ELSE g[i]]
    <3>5. f \in [1..Cardinality(T) -> T]
      BY <3>3, <3>4, <2>6
    <3>6. ASSUME NEW i \in 1..(k + 1), NEW j \in 1..(k + 1), i < j
          PROVE  f[i] < f[j]
      <4>1. i \in 1..k /\ f[i] = g[i]
        BY <3>3, <3>6
      <4>5. g[i] \in 1..(m - 1)
        BY <4>1, <3>4, <3>1
      <4>2. CASE j = k + 1
        BY <4>1, <4>5, <4>2, <2>3, <3>3
      <4>3. CASE j # k + 1
        BY <4>1, <4>3, <3>3, <3>4, <3>6
      <4>4. QED
        BY <4>2, <4>3
    <3>7. Listed(T)
      <4> HIDE DEF f
      <4>1. QED
        BY <3>5, <3>6, <3>3 DEF Listed
    <3>8. QED
      BY <2>2, <3>7
  <2>7. QED
    BY <2>3, <2>4, <2>5, <2>6
<1>2. Listed(S)
  BY <1>1
<1>3. QED
  BY <1>2 DEF Listed

LEMMA InOrderType ==
    ASSUME NEW n \in Nat, NEW S \in SUBSET (1..n)
    PROVE  InOrder(S) \in Seq(S)
<1>1. Cardinality(S) \in Nat
  <2>1. 1 \in Int /\ n \in Int
    OBVIOUS
  <2>2. IsFiniteSet(1..n)
    BY <2>1, FS_Interval
  <2>3. QED
    BY <2>2, FS_Subset, FS_CardinalityType
<1>2. InOrder(S) \in [1..Cardinality(S) -> S]
  BY BoundedSetsAreListed DEF InOrder
<1>3. QED
  BY <1>1, <1>2, SeqDef

LEMMA CatalogDomain ==
    ASSUME TypeOK
    PROVE  /\ Len(catalog) \in Nat
           /\ DOMAIN catalog = 1..Len(catalog)
           /\ \A p \in DOMAIN catalog : catalog[p] \in Layer /\ LayerKey(catalog[p]) \in Keys
<1>1. catalog \in Seq(Layer) /\ names \in [Categories -> CategoryNames]
  BY DEF TypeOK
<1>2. Len(catalog) \in Nat /\ DOMAIN catalog = 1..Len(catalog)
  BY <1>1, LenProperties
<1>3. ASSUME NEW p \in DOMAIN catalog
      PROVE  catalog[p] \in Layer
  BY <1>1, <1>2, ElementOfSeq
<1>4. ASSUME NEW l \in Layer
      PROVE  LayerKey(l) \in Keys
  BY <1>1, SMTT(20) DEF LayerKey, Key, Keys, Layer
<1>5. QED
  BY <1>2, <1>3, <1>4

\* A URL selects positions of the catalog.
LEMMA PositionsType ==
    ASSUME TypeOK, NEW u \in Url
    PROVE  Positions(u) \in Seq(DOMAIN catalog)
<1>1. Len(catalog) \in Nat /\ DOMAIN catalog = 1..Len(catalog)
  BY CatalogDomain
<1>2. CASE u.kind = "category"
  <2>1. Members(u.category) \in SUBSET (1..Len(catalog))
    BY <1>1 DEF Members
  <2>2. InOrder(Members(u.category)) \in Seq(Members(u.category))
    BY <2>1, <1>1, InOrderType
  <2>3. Members(u.category) \subseteq DOMAIN catalog
    BY DEF Members
  <2>4. QED
    BY <2>2, <2>3, <1>2, SeqMonotonic DEF Positions
<1>3. CASE u.kind # "category"
  <2> DEFINE P == {n \in DOMAIN u.places : Matches(u.places[n]) # {}}
             found == InOrder(P)
  <2>1. u.places \in Seq(Place)
    BY <1>3 DEF Url
  <2>2. Len(u.places) \in Nat /\ P \in SUBSET (1..Len(u.places))
    BY <2>1, LenProperties
  <2>3. found \in Seq(P)
    BY <2>2, InOrderType
  <2> HIDE DEF found
  <2>4. Len(found) \in Nat /\ DOMAIN found = 1..Len(found)
    BY <2>3, LenProperties
  <2>5. ASSUME NEW n \in 1..Len(found)
        PROVE  FindPublished(u.places[found[n]]) \in DOMAIN catalog
    <3> DEFINE place == u.places[found[n]]
    <3>1. Matches(place) # {}
      BY <2>3, ElementOfSeq
    <3> HIDE DEF place
    <3>2. Matches(place) \subseteq DOMAIN catalog /\ Matches(place) \subseteq Nat
      BY <1>1 DEF Matches
    <3>3. FindPublished(place) \in Matches(place)
      BY <3>1, <3>2, LeastNatural DEF FindPublished
    <3>4. QED
      BY <3>2, <3>3 DEF place
  <2> DEFINE positions == [n \in DOMAIN found |-> FindPublished(u.places[found[n]])]
  <2>6. positions \in [1..Len(found) -> DOMAIN catalog]
    BY <2>4, <2>5
  <2>7. positions \in Seq(DOMAIN catalog)
    BY <2>4, <2>6, SeqDef
  <2>8. Positions(u) = positions
    BY <1>3 DEF Positions, found
  <2>9. QED
    BY <2>7, <2>8
<1>4. QED
  BY <1>2, <1>3

\* What a request clones are layers of the catalog.
LEMMA CandidatesType ==
    ASSUME TypeOK, NEW u \in Url
    PROVE  /\ Candidates(u) \in Seq(Clone)
           /\ Len(Candidates(u)) = Len(Positions(u))
           /\ \A n \in 1..Len(Candidates(u)) :
                /\ Positions(u)[n] \in DOMAIN catalog
                /\ Candidates(u)[n] = CloneOf(catalog[Positions(u)[n]])
<1> DEFINE k == Len(Positions(u))
<1>1. k \in Nat /\ DOMAIN Positions(u) = 1..k /\ Positions(u) \in [1..k -> DOMAIN catalog]
  BY PositionsType, LenProperties
<1> HIDE DEF k
<1>2. ASSUME NEW n \in 1..k
      PROVE  CloneOf(catalog[Positions(u)[n]]) \in Clone
  BY <1>1, CatalogDomain DEF CloneOf, Clone, Layer
<1>3. Candidates(u) = [n \in 1..k |-> CloneOf(catalog[Positions(u)[n]])]
  BY <1>1 DEF Candidates
<1>4. Candidates(u) \in [1..k -> Clone]
  BY <1>2, <1>3
<1>5. Candidates(u) \in Seq(Clone) /\ Len(Candidates(u)) = k
  BY <1>1, <1>4, SeqDef, LenProperties
<1>6. QED
  BY <1>1, <1>3, <1>5 DEF k

-----------------------------------------------------------------------------
(***************************************************************************)
(* What the edits of the catalog keep of it.                               *)
(***************************************************************************)

\* A catalog without one position has the layers of the others.
LEMMA Removed ==
    ASSUME TypeOK, NEW p \in DOMAIN catalog
    PROVE  /\ RemoveAt(catalog, p) \in Seq(Layer)
           /\ \A q \in DOMAIN catalog \ {p} : \E r \in DOMAIN RemoveAt(catalog, p) :
                RemoveAt(catalog, p)[r] = catalog[q]
<1> DEFINE n == Len(catalog)
           a == SubSeq(catalog, 1, p - 1)
           b == SubSeq(catalog, p + 1, n)
<1>1. catalog \in Seq(Layer) /\ n \in Nat /\ DOMAIN catalog = 1..n /\ p \in 1..n
  BY CatalogDomain DEF TypeOK
<1>2. a \in Seq(Layer) /\ Len(a) = p - 1 /\ \A i \in 1..(p - 1) : a[i] = catalog[i]
  BY <1>1, SubSeqProperties
<1>3. b \in Seq(Layer) /\ Len(b) = n - p /\ \A i \in 1..(n - p) : b[i] = catalog[p + i]
  BY <1>1, SubSeqProperties
<1>4. RemoveAt(catalog, p) = a \o b
  BY DEF RemoveAt
<1> HIDE DEF a, b, n
<1>5. a \o b \in Seq(Layer) /\ Len(a \o b) = n - 1
  <2>1. a \o b \in Seq(Layer) /\ Len(a \o b) = Len(a) + Len(b)
    BY <1>2, <1>3, ConcatProperties
  <2>2. (p - 1) + (n - p) = n - 1
    BY <1>1
  <2>3. QED
    BY <2>1, <2>2, <1>2, <1>3
<1>6. ASSUME NEW q \in 1..n, q # p
      PROVE  \E r \in 1..(n - 1) : (a \o b)[r] = catalog[q]
  <2>1. CASE q < p
    <3>1. q \in 1..(n - 1) /\ q \in 1..(p - 1)
      BY <1>1, <2>1
    <3>2. (a \o b)[q] = a[q]
      BY <1>2, <1>3, <3>1, <1>1, ConcatProperties
    <3>3. QED
      BY <3>1, <3>2, <1>2
  <2>2. CASE q > p
    <3>1. q - 1 \in 1..(n - 1) /\ q - p \in 1..(n - p)
      BY <1>1, <2>2
    <3>2. (a \o b)[q - 1] = b[(q - 1) - (p - 1)]
      BY <1>1, <1>2, <1>3, <2>2, <3>1, ConcatProperties, SMTT(20)
    <3>3. b[(q - 1) - (p - 1)] = catalog[q]
      <4>1. (q - 1) - (p - 1) = q - p /\ p + (q - p) = q
        BY <1>1
      <4>2. QED
        BY <1>3, <3>1, <4>1
    <3>4. QED
      BY <3>1, <3>2, <3>3
  <2>3. q < p \/ q > p
    BY <1>1, <1>6
  <2>4. QED
    BY <2>1, <2>2, <2>3
<1>7. DOMAIN (a \o b) = 1..(n - 1)
  BY <1>5, LenProperties
<1>8. QED
  BY <1>1, <1>4, <1>5, <1>6, <1>7

\* A catalog that is read again has the same layers, in another order.
LEMMA Reordered ==
    ASSUME TypeOK,
           NEW c \in SetToSeqs({catalog[p] : p \in DOMAIN catalog})
    PROVE  /\ c \in Seq(Layer)
           /\ {c[p] : p \in DOMAIN c} = {catalog[p] : p \in DOMAIN catalog}
<1> DEFINE S == {catalog[p] : p \in DOMAIN catalog}
           n == Len(catalog)
           D == 1..Cardinality(S)
<1>1. n \in Nat /\ DOMAIN catalog = 1..n /\ S \subseteq Layer
  BY CatalogDomain
<1>2. IsFiniteSet(S) /\ Cardinality(S) \in Nat
  <2>1. catalog \in Surjection(1..n, S)
    <3>1. catalog \in [1..n -> Layer]
      BY <1>1, LenProperties DEF TypeOK
    <3>2. catalog \in [1..n -> S]
      BY <1>1, <3>1
    <3>3. QED
      BY <3>2, <1>1 DEF Surjection
  <2>2. IsFiniteSet(1..n)
    <3>1. 1 \in Int /\ n \in Int
      BY <1>1
    <3>2. QED
      BY <3>1, FS_Interval
  <2> HIDE DEF S, n
  <2>3. QED
    BY <2>1, <2>2, FS_Surjection, FS_CardinalityType
<1>3. c \in [D -> S] /\ \A i, j \in D : i # j => c[i] # c[j]
  BY DEF SetToSeqs
<1> HIDE DEF S
<1>4. c \in Injection(D, S)
  BY <1>3 DEF Injection, IsInjective
<1>5. IsFiniteSet(D) /\ Cardinality(D) = Cardinality(S)
  <2>1. 1 \in Int /\ Cardinality(S) \in Int
    BY <1>2
  <2>2. IsFiniteSet(D) /\ Cardinality(D) = IF 1 > Cardinality(S) THEN 0 ELSE Cardinality(S) - 1 + 1
    BY <2>1, FS_Interval
  <2> HIDE DEF D
  <2>3. QED
    BY <2>2, <1>2
<1>6. c \in Surjection(D, S)
  <2> HIDE DEF D
  <2>1. QED
    BY <1>2, <1>4, <1>5, FS_Injection
<1>7. {c[p] : p \in DOMAIN c} = S
  BY <1>3, <1>6 DEF Surjection
<1>8. c \in Seq(Layer)
  <2>1. c \in Seq(S)
    BY <1>2, <1>3, SeqDef
  <2>2. QED
    BY <2>1, <1>1, SeqMonotonic
<1>9. QED
  BY <1>7, <1>8 DEF S

-----------------------------------------------------------------------------
(***************************************************************************)
(* The type invariant.                                                     *)
(***************************************************************************)

LEMMA InitTyped == Init => Typed
<1> SUFFICES ASSUME Init
             PROVE  Typed
  OBVIOUS
<1> USE LayerTilesAssumption
<1>1. mode \in {"redis", "disk"} /\ url \in [Browsers -> Url] /\ catalog \in Seq(Layer)
  BY DEF Init
<1>2. unborn \subseteq Layers
  BY DEF Init
<1>3. copy \in [Browsers -> Copy]
  <2>1. nothing \in Copy
    BY EmptySeq DEF nothing, Copy
  <2>2. QED
    BY <2>1 DEF Init
<1>4. tiles \in [DOMAIN tiles -> Body] /\ DOMAIN tiles = {}
  BY DEF Init
<1>5. TypeOK
  BY <1>1, <1>2, <1>3, <1>4 DEF Init, TypeOK
<1>6. RequestsFit
  BY DEF Init, RequestsFit, idle
<1>7. QED
  BY <1>5, <1>6 DEF Typed

\* The parts of an ETag are a key and its version.
LEMMA EtagPartTyped ==
    ASSUME TypeOK, NEW key \in Keys
    PROVE  EtagPart(key) \in EtagParts
  BY DEF TypeOK, EtagPart, EtagParts

\* What a browser's step makes of its request, and nobody else's.
LEMMA RequestTyped ==
    ASSUME Typed, NEW b \in Browsers, NEW r \in {idle} \cup Request,
           r.pc # "idle" =>
               /\ Len(r.sound) = Len(r.etag)
               /\ Len(r.etag) <= Len(r.layers)
               /\ r.pc = "tiles" => Len(r.etag) = Len(r.layers) /\ Len(r.parts) = Len(r.layers),
           request' = [request EXCEPT ![b] = r]
    PROVE  request' \in [Browsers -> {idle} \cup Request] /\ RequestsFit'
<1>1. request \in [Browsers -> {idle} \cup Request]
  BY DEF Typed, TypeOK
<1>2. request'[b] = r /\ \A c \in Browsers \ {b} : request'[c] = request[c]
  BY <1>1
<1>3. RequestsFit'
  BY <1>2 DEF Typed, RequestsFit
<1>4. QED
  BY <1>1, <1>3

LEMMA BrowserStepTyped ==
    ASSUME Typed, NEW b \in Browsers, BrowserStep(b)
    PROVE  Typed'
<1> USE DEF Typed, configVars, cacheVars, clientVars, history, bounds
<1> DEFINE r == request[b]
<1>1. request \in [Browsers -> {idle} \cup Request] /\ r \in {idle} \cup Request
  BY DEF TypeOK
<1>2. url[b] \in Url
  BY DEF TypeOK
<1>3. r.pc # "idle" =>
        /\ r \in Request
        /\ Len(r.layers) \in Nat /\ DOMAIN r.layers = 1..Len(r.layers)
        /\ Len(r.parts) \in Nat /\ DOMAIN r.parts = 1..Len(r.parts)
        /\ Len(r.etag) \in Nat
        /\ Len(r.sound) = Len(r.etag)
        /\ Len(r.etag) <= Len(r.layers)
        /\ r.pc = "tiles" => Len(r.etag) = Len(r.layers) /\ Len(r.parts) = Len(r.layers)
  <2>1. r.pc # "idle" => r \in Request
    BY <1>1 DEF idle
  <2>2. QED
    BY <2>1, LenProperties DEF RequestsFit, Request
<1>4. CASE Ask(b)
  <2> DEFINE new == [pc |-> "versions", layers |-> Candidates(url[b]), etag |-> <<>>,
                     parts |-> <<>>, sound |-> <<>>]
  <2>1. new \in Request
    BY <1>2, CandidatesType, EmptySeq DEF Request
  <2>2. Len(new.sound) = Len(new.etag) /\ Len(new.etag) <= Len(new.layers)
    BY <2>1, LenProperties, EmptySeq DEF Request
  <2>3. request' = [request EXCEPT ![b] = new] /\ new.pc = "versions"
    BY <1>4 DEF Ask
  <2> HIDE DEF new
  <2>4. request' \in [Browsers -> {idle} \cup Request] /\ RequestsFit'
    BY <2>1, <2>2, <2>3, RequestTyped
  <2>5. QED
    BY <1>4, <2>4 DEF Ask, TypeOK
<1>5. CASE ReadVersion(b)
  <2> DEFINE n == Len(r.etag) + 1
             new == [r EXCEPT !.etag = Append(r.etag, EtagPart(r.layers[n].key)),
                              !.sound = Append(r.sound, IsCurrent(r.layers[n]))]
  <2>1. r \in Request /\ n \in 1..Len(r.layers) /\ r.pc = "versions"
    BY <1>3, <1>5 DEF ReadVersion
  <2>2. r.layers[n] \in Clone
    BY <2>1, ElementOfSeq DEF Request
  <2>3. EtagPart(r.layers[n].key) \in EtagParts
    BY <2>2, EtagPartTyped DEF Clone
  <2>4. IsCurrent(r.layers[n]) \in BOOLEAN
    BY DEF IsCurrent
  <2>5. /\ Append(r.etag, EtagPart(r.layers[n].key)) \in Seq(EtagParts)
        /\ Append(r.sound, IsCurrent(r.layers[n])) \in Seq(BOOLEAN)
        /\ Len(Append(r.etag, EtagPart(r.layers[n].key))) = Len(r.etag) + 1
        /\ Len(Append(r.sound, IsCurrent(r.layers[n]))) = Len(r.sound) + 1
    BY <2>1, <2>3, <2>4, AppendProperties DEF Request
  <2>6. request' = [request EXCEPT ![b] = new]
    BY <1>5, <1>1 DEF ReadVersion
  <2>7. /\ new \in Request /\ new.pc = "versions" /\ new.layers = r.layers
        /\ Len(new.etag) = Len(r.etag) + 1 /\ Len(new.sound) = Len(r.sound) + 1
    BY <2>1, <2>5 DEF Request
  <2> HIDE DEF new
  <2>8. request' \in [Browsers -> {idle} \cup Request] /\ RequestsFit'
    <3>1. Len(r.layers) \in Nat /\ Len(r.etag) \in Nat /\ Len(r.sound) = Len(r.etag)
      BY <1>3, <2>1
    <3>2. Len(new.sound) = Len(new.etag) /\ Len(new.etag) <= Len(new.layers)
      BY <2>1, <2>7, <3>1
    <3>3. new \in {idle} \cup Request /\ new.pc # "tiles"
      BY <2>7
    <3> HIDE DEF n, r
    <3>4. QED
      BY <2>6, <3>2, <3>3, RequestTyped
  <2>9. QED
    BY <1>5, <2>8 DEF ReadVersion, TypeOK
<1>6. CASE NotModified(b)
  <2>1. request' \in [Browsers -> {idle} \cup Request] /\ RequestsFit'
    BY <1>6, RequestTyped DEF NotModified, idle
  <2>2. QED
    BY <1>6, <2>1 DEF NotModified, TypeOK
<1>7. CASE FetchTiles(b)
  <2> DEFINE parts == [n \in DOMAIN r.layers |-> wait]
             new == [r EXCEPT !.pc = "tiles", !.parts = parts]
  <2>1. r \in Request /\ Len(r.etag) = Len(r.layers)
    BY <1>3, <1>7 DEF FetchTiles, VersionsRead
  <2>2. parts \in Seq(Part) /\ Len(parts) = Len(r.layers)
    <3>1. Len(r.layers) \in Nat /\ DOMAIN r.layers = 1..Len(r.layers)
      BY <2>1, LenProperties DEF Request
    <3>2. parts \in [1..Len(r.layers) -> Part]
      BY <3>1 DEF Part
    <3>3. QED
      BY <3>1, <3>2, SeqDef, LenProperties
  <2>3. request' = [request EXCEPT ![b] = new]
    BY <1>7, <1>1 DEF FetchTiles
  <2>4. /\ new \in Request /\ new.layers = r.layers /\ new.etag = r.etag
        /\ new.sound = r.sound /\ new.parts = parts
    BY <2>1, <2>2 DEF Request
  <2> HIDE DEF new, parts
  <2>5. request' \in [Browsers -> {idle} \cup Request] /\ RequestsFit'
    <3>1. r.pc # "idle" /\ Len(r.etag) \in Nat
      BY <1>3, <1>7 DEF FetchTiles, VersionsRead
    <3>2. QED
      BY <1>3, <2>1, <2>2, <2>3, <2>4, <3>1, RequestTyped
  <2>6. QED
    BY <1>7, <2>5 DEF FetchTiles, TypeOK
<1>8. ASSUME NEW n \in At(b, "wait") \cup At(b, "query"), NEW part \in Part,
             request' = [request EXCEPT ![b].parts[n] = part]
      PROVE  request' \in [Browsers -> {idle} \cup Request] /\ RequestsFit'
  <2> DEFINE new == [r EXCEPT !.parts = [r.parts EXCEPT ![n] = part]]
  <2>1. r.pc = "tiles" /\ n \in DOMAIN r.parts
    BY <1>8 DEF At
  <2>2. r.parts \in Seq(Part) /\ n \in 1..Len(r.parts) /\ r \in Request
    BY <2>1, <1>3 DEF Request
  <2>3. /\ [r.parts EXCEPT ![n] = part] \in Seq(Part)
        /\ Len([r.parts EXCEPT ![n] = part]) = Len(r.parts)
    BY <2>2, ExceptSeq
  <2>4. request' = [request EXCEPT ![b] = new]
    BY <1>8, <1>1
  <2>5. /\ new \in Request /\ new.layers = r.layers /\ new.etag = r.etag
        /\ new.sound = r.sound /\ Len(new.parts) = Len(r.parts)
    BY <2>2, <2>3 DEF Request
  <2> HIDE DEF new
  <2>6. QED
    BY <1>3, <2>1, <2>4, <2>5, RequestTyped
<1>9. \A n \in At(b, "wait") \cup At(b, "query") :
        /\ n \in 1..Len(r.layers) /\ r.layers[n] \in Clone
        /\ Tile([layer |-> r.layers[n].id, gen |-> r.layers[n].gen]) \in Part
        /\ [layer |-> r.layers[n].id, gen |-> r.layers[n].gen] \in Body
  <2>1. ASSUME NEW n \in At(b, "wait") \cup At(b, "query")
        PROVE  n \in 1..Len(r.layers) /\ r.layers[n] \in Clone
    <3>1. r.pc = "tiles" /\ n \in DOMAIN r.parts
      BY <2>1 DEF At
    <3>2. r \in Request /\ n \in 1..Len(r.layers)
      BY <1>3, <3>1
    <3>3. QED
      BY <3>2, ElementOfSeq DEF Request
  <2>2. QED
    BY <2>1 DEF Clone, Body, Part
<1>10. ASSUME NEW n \in At(b, "wait"), LookUp(b, n)
       PROVE  Typed'
  <2>1. \E part \in Part : request' = [request EXCEPT ![b].parts[n] = part]
    BY <1>10 DEF LookUp, Part, TypeOK
  <2>2. request' \in [Browsers -> {idle} \cup Request] /\ RequestsFit'
    BY <1>8, <2>1
  <2>3. QED
    BY <1>10, <2>2 DEF LookUp, TypeOK
<1>11. ASSUME NEW n \in At(b, "query"), Store(b, n)
       PROVE  Typed'
  <2> DEFINE x == r.layers[n]
             body == [layer |-> x.id, gen |-> x.gen]
  <2>1. x \in Clone /\ body \in Body /\ Tile(body) \in Part /\ x.key \in Keys
    BY <1>9 DEF Clone
  <2>2. request' \in [Browsers -> {idle} \cup Request] /\ RequestsFit'
    BY <1>8, <1>11, <2>1 DEF Store
  <2>3. tiles' = [k \in DOMAIN tiles \cup {x.key} |-> IF k = x.key THEN body ELSE tiles[k]]
    BY <1>11 DEF Store
  <2>4. /\ DOMAIN tiles' = DOMAIN tiles \cup {x.key}
        /\ tiles' \in [DOMAIN tiles' -> Body]
    BY <2>1, <2>3 DEF TypeOK
  <2>5. stragglers' \subseteq DOMAIN tiles'
    BY <1>11, <2>4 DEF Store, TypeOK
  <2>6. QED
    BY <1>11, <2>1, <2>2, <2>4, <2>5 DEF Store, TypeOK
<1>12. ASSUME NEW n \in At(b, "wait") \cup At(b, "query"), LayerFails(b, n)
       PROVE  Typed'
  <2>1. request' \in [Browsers -> {idle} \cup Request] /\ RequestsFit'
    BY <1>8, <1>12 DEF LayerFails, Part
  <2>2. faults' \in 0..MaxFaults
    BY <1>12, LayerTilesAssumption DEF LayerFails, Fault, TypeOK
  <2>3. QED
    BY <1>12, <2>1, <2>2 DEF LayerFails, TypeOK
<1>13. CASE Respond(b)
  <2> DEFINE sound == [n \in DOMAIN r.parts |->
                        /\ r.sound[n]
                        /\ r.parts[n] = Tile([layer |-> r.layers[n].id,
                                              gen |-> r.layers[n].gen])]
  <2>1. r \in Request /\ Len(r.parts) \in Nat /\ DOMAIN r.parts = 1..Len(r.parts)
    BY <1>3, <1>13 DEF Respond
  <2>2. sound \in Seq(BOOLEAN)
    <3>1. sound \in [1..Len(r.parts) -> BOOLEAN]
      BY <2>1
    <3>2. QED
      BY <2>1, <3>1, SeqDef
  <2> HIDE DEF sound
  <2>3. [etag |-> {r.etag}, parts |-> r.parts, sound |-> sound] \in Copy
    BY <2>1, <2>2 DEF Request, Copy
  <2>4. copy' = [copy EXCEPT ![b] = [etag |-> {r.etag}, parts |-> r.parts, sound |-> sound]]
    BY <1>13 DEF Respond, sound
  <2>5. request' \in [Browsers -> {idle} \cup Request] /\ RequestsFit'
    BY <1>13, RequestTyped DEF Respond, idle
  <2>6. QED
    BY <1>13, <2>3, <2>4, <2>5 DEF Respond, TypeOK
<1>14. QED
  BY <1>4, <1>5, <1>6, <1>7, <1>10, <1>11, <1>12, <1>13 DEF BrowserStep

LEMMA InvalidateTyped ==
    ASSUME TypeOK, NEW j \in Jobs, NEW key \in Keys, Invalidate(j, key)
    PROVE  job' \in [Jobs -> {idle} \cup Job]
  BY DEF TypeOK, Invalidate, Job

LEMMA EditStepTyped ==
    ASSUME Typed, EditStep
    PROVE  Typed'
<1> USE DEF configVars, cacheVars, clientVars, history, bounds, Edit
<1>1. TypeOK /\ RequestsFit
  BY DEF Typed
<1>2. request' = request /\ edits + 1 \in Gen
  <2>1. request' = request /\ edits < MaxEdits
    BY ZenonT(30)
       DEF EditStep, AddLayer, UpdateLayer, DeleteLayer, SwitchPublished, RenameCategory,
           ClearCache
  <2>2. QED
    BY <1>1, <2>1, LayerTilesAssumption DEF TypeOK, Gen
<1>3. RequestsFit'
  BY <1>1, <1>2 DEF RequestsFit
<1>4. \A p \in DOMAIN catalog : catalog[p] \in Layer /\ LayerKey(catalog[p]) \in Keys
  BY <1>1, CatalogDomain
<1>5. ASSUME NEW c \in Categories, NEW n \in LayerNames
      PROVE  Key(names[c], n) \in Keys
  <2>1. names[c] \in CategoryNames
    BY <1>1 DEF TypeOK
  <2>2. QED
    BY <2>1 DEF Keys
<1>6. ASSUME NEW l \in Layers, NEW c \in Categories, NEW n \in LayerNames,
             NEW published \in Flags, AddLayer(l, c, n, published)
      PROVE  TypeOK'
  <2> DEFINE x == [id |-> l, category |-> c, name |-> n, published |-> published,
                   gen |-> edits + 1]
  <2>1. x \in Layer
    BY <1>2, LayerTilesAssumption DEF Layer
  <2>2. catalog' = Append(catalog, x)
    BY <1>6 DEF AddLayer
  <2>3. catalog' \in Seq(Layer)
    BY <1>1, <2>1, <2>2, AppendProperties DEF TypeOK
  <2>4. QED
    BY <1>1, <1>2, <1>6, <2>3 DEF AddLayer, TypeOK, Gen
<1>7. ASSUME NEW l \in Layers, NEW c \in Categories, NEW n \in LayerNames,
             NEW published \in Flags, NEW j \in Jobs, UpdateLayer(j, l, c, n, published)
      PROVE  TypeOK'
  <2> DEFINE x == [id |-> l, category |-> c, name |-> n, published |-> published,
                   gen |-> edits + 1]
  <2>1. x \in Layer
    BY <1>2, LayerTilesAssumption DEF Layer
  <2>2. catalog' = [p \in DOMAIN catalog |-> IF catalog[p].id # l THEN catalog[p] ELSE x]
    BY <1>7 DEF UpdateLayer
  <2>3. Len(catalog) \in Nat /\ DOMAIN catalog = 1..Len(catalog)
    BY <1>1, CatalogDomain
  <2>4. catalog' \in [1..Len(catalog) -> Layer]
    BY <1>4, <2>1, <2>2, <2>3
  <2>5. catalog' \in Seq(Layer)
    BY <2>3, <2>4, SeqDef
  <2>6. EditedKey(l, c, n) \in Keys
    BY <1>5 DEF EditedKey
  <2>7. job' \in [Jobs -> {idle} \cup Job]
    BY <1>1, <1>7, <2>6, InvalidateTyped DEF UpdateLayer
  <2>8. unswept' \subseteq Keys /\ unbumped' \subseteq Keys
    BY <1>1, <1>4, <1>7 DEF UpdateLayer, Account, TypeOK
  <2>9. QED
    BY <1>1, <1>2, <1>7, <2>5, <2>7, <2>8 DEF UpdateLayer, TypeOK, Gen
<1>8. ASSUME NEW p \in DOMAIN catalog, DeleteLayer(p)
      PROVE  TypeOK'
  <2>1. catalog' \in Seq(Layer)
    BY <1>1, <1>8, Removed DEF DeleteLayer
  <2>2. unswept' \subseteq Keys /\ unbumped' \subseteq Keys
    BY <1>1, <1>4, <1>8 DEF DeleteLayer, Account, TypeOK
  <2>3. QED
    BY <1>1, <1>2, <1>8, <2>1, <2>2 DEF DeleteLayer, TypeOK, Gen
<1>9. ASSUME NEW p \in DOMAIN catalog, SwitchPublished(p)
      PROVE  TypeOK'
  <2>1. p \in 1..Len(catalog) /\ catalog \in Seq(Layer)
    BY <1>1, CatalogDomain DEF TypeOK
  <2>2. [catalog[p] EXCEPT !.published = ~@] \in Layer
    BY <1>4 DEF Layer
  <2>3. catalog' = [catalog EXCEPT ![p] = [catalog[p] EXCEPT !.published = ~@]]
    BY <1>9 DEF SwitchPublished
  <2>4. catalog' \in Seq(Layer)
    BY <2>1, <2>2, <2>3, ExceptSeq
  <2>5. QED
    BY <1>1, <1>2, <1>9, <2>4 DEF SwitchPublished, TypeOK, Gen
<1>10. ASSUME NEW c \in Categories, NEW name \in CategoryNames, RenameCategory(c, name)
       PROVE  TypeOK'
  <2>1. unswept' \subseteq Keys /\ unbumped' \subseteq Keys
    BY <1>1, <1>4, <1>10 DEF RenameCategory, Account, TypeOK
  <2>2. QED
    BY <1>1, <1>2, <1>10, <2>1 DEF RenameCategory, TypeOK, Gen
<1>11. ASSUME NEW p \in DOMAIN catalog, NEW j \in Jobs, ClearCache(j, p)
       PROVE  TypeOK'
  <2>1. job' \in [Jobs -> {idle} \cup Job]
    BY <1>1, <1>4, <1>11, InvalidateTyped DEF ClearCache
  <2>2. unswept' \subseteq Keys /\ unbumped' \subseteq Keys
    BY <1>1, <1>4, <1>11 DEF ClearCache, Account, TypeOK
  <2>3. QED
    BY <1>1, <1>2, <1>11, <2>1, <2>2 DEF ClearCache, TypeOK, Gen
<1>12. QED
  BY <1>3, <1>6, <1>7, <1>8, <1>9, <1>10, <1>11 DEF EditStep, Typed

LEMMA InvalidationTyped ==
    ASSUME Typed, NEW j \in Jobs, IncrementVersion(j) \/ DeleteTiles(j)
    PROVE  Typed'
<1> USE DEF configVars, cacheVars, clientVars, history, bounds
<1>1. TypeOK /\ RequestsFit
  BY DEF Typed
<1>2. RequestsFit'
  BY <1>1 DEF RequestsFit, IncrementVersion, DeleteTiles
<1>3. job[j] \in {idle} \cup Job
  BY <1>1 DEF TypeOK
<1>4. CASE IncrementVersion(j)
  <2>1. job[j] \in Job /\ job[j].key \in Keys
    BY <1>3, <1>4 DEF IncrementVersion, idle, Job
  <2>2. job' \in [Jobs -> {idle} \cup Job]
    BY <1>1, <1>4, <2>1 DEF IncrementVersion, TypeOK, Job
  <2>3. version' \in [Keys -> Nat]
    BY <1>1, <1>4, <2>1 DEF IncrementVersion, NextVersion, TypeOK
  <2>4. QED
    BY <1>1, <1>2, <1>4, <2>2, <2>3 DEF Typed, IncrementVersion, TypeOK
<1>5. CASE DeleteTiles(j)
  <2>1. /\ DOMAIN tiles' \subseteq DOMAIN tiles
        /\ tiles' \in [DOMAIN tiles' -> Body]
        /\ stragglers' \subseteq DOMAIN tiles'
    BY <1>1, <1>5 DEF DeleteTiles, TypeOK
  <2>2. job' \in [Jobs -> {idle} \cup Job]
    BY <1>1, <1>5 DEF DeleteTiles, TypeOK
  <2>3. QED
    BY <1>1, <1>2, <1>5, <2>1, <2>2 DEF Typed, DeleteTiles, TypeOK
<1>6. QED
  BY <1>4, <1>5

LEMMA RestartTyped ==
    ASSUME Typed, Restart
    PROVE  Typed'
<1> USE DEF configVars, cacheVars, clientVars, history, bounds
<1>1. TypeOK
  BY DEF Typed
<1>2. RequestsFit'
  BY DEF RequestsFit, Restart, idle
<1>3. catalog' \in Seq(Layer)
  BY <1>1, Reordered DEF Restart
<1>4. \A j \in Jobs : job[j].pc # "idle" => job[j].key \in Keys
  BY <1>1 DEF TypeOK, idle, Job
<1>5. unswept' \subseteq Keys /\ unbumped' \subseteq Keys
  BY <1>1, <1>4 DEF Restart, TypeOK
<1>6. /\ DOMAIN tiles' \subseteq DOMAIN tiles
      /\ tiles' \in [DOMAIN tiles' -> Body]
      /\ stragglers' \subseteq DOMAIN tiles'
  BY <1>1 DEF Restart, TypeOK
<1>7. faults' \in 0..MaxFaults
  BY <1>1, LayerTilesAssumption DEF Restart, Fault, TypeOK
<1>8. TypeOK'
  BY <1>1, <1>3, <1>5, <1>6, <1>7 DEF Restart, TypeOK
<1>9. QED
  BY <1>2, <1>8 DEF Typed

LEMMA StepTyped == Typed /\ [Next]_vars => Typed'
<1>1. ASSUME Typed, UNCHANGED vars
      PROVE  Typed'
  BY <1>1 DEF Typed, TypeOK, RequestsFit, vars, configVars, cacheVars, clientVars, history, bounds
<1>2. QED
  BY <1>1, BrowserStepTyped, EditStepTyped, InvalidationTyped, RestartTyped DEF Next

\* Every variable stays in the set of values its Rust counterpart can take; a
\* request reads one version for each layer and ends with one part for each
\* (get_composite_layers_tile).
THEOREM TypeCorrect == Spec => []TypeOK
<1>1. Init => Typed
  BY InitTyped
<1>2. Typed /\ [Next]_vars => Typed'
  BY StepTyped
<1>3. Typed => TypeOK
  BY DEF Typed
<1>4. QED
  BY <1>1, <1>2, <1>3, PTL DEF Spec

-----------------------------------------------------------------------------
(***************************************************************************)
(* What an edit does to the holders of the keys: one that leaves a key is  *)
(* remembered, or an invalidation of that key begins.                      *)
(***************************************************************************)

LEMMA InvalidateKeeps ==
    ASSUME TypeOK, NEW j \in Jobs, NEW given \in Keys, Invalidate(j, given)
    PROVE  /\ \A key : Busy(key) => Busy(key)'
           /\ \A key : Bumping(key) => Bumping(key)'
           /\ Bumping(given)'
<1>1. job[j].pc = "idle" /\ job' = [job EXCEPT ![j] = [pc |-> "bump", key |-> given]]
  BY DEF Invalidate
<1>2. /\ job'[j].pc = "bump" /\ job'[j].key = given
      /\ \A i \in Jobs \ {j} : job'[i] = job[i]
  BY <1>1 DEF TypeOK
<1>3. QED
  BY <1>1, <1>2 DEF Busy, Bumping

HoldersAreKept ==
    /\ tiles' = tiles /\ version' = version /\ stragglers' = stragglers
    /\ request' = request /\ copy' = copy
    /\ \A key : Busy(key) => Busy(key)'
    /\ \A key : Bumping(key) => Bumping(key)'
    /\ \A key : key \in unswept => key \in unswept' \/ Bumping(key)'
    /\ \A key : key \in unbumped => key \in unbumped' \/ Bumping(key)'
    /\ \A key, body : Held(key, body) =>
         \/ Held(key, body)'
         \/ key \in unswept' /\ key \in unbumped'
         \/ Bumping(key)'

LEMMA EditKeepsHolders ==
    ASSUME Typed, EditStep
    PROVE  HoldersAreKept
<1> USE DEF configVars, cacheVars, clientVars, history, bounds
<1>1. TypeOK
  BY DEF Typed
<1>2. Len(catalog) \in Nat /\ DOMAIN catalog = 1..Len(catalog)
  BY <1>1, CatalogDomain
<1>3. \A p \in DOMAIN catalog : catalog[p] \in Layer /\ LayerKey(catalog[p]) \in Keys
  BY <1>1, CatalogDomain
<1>4. ASSUME NEW l \in Layers, NEW c \in Categories, NEW n \in LayerNames,
             NEW published \in Flags, AddLayer(l, c, n, published)
      PROVE  \A key, body : Held(key, body) => Held(key, body)'
  <2> DEFINE x == [id |-> l, category |-> c, name |-> n, published |-> published,
                   gen |-> edits + 1]
  <2>1. x \in Layer
    <3>1. edits + 1 \in Gen
      BY <1>1, <1>4, LayerTilesAssumption DEF AddLayer, Edit, TypeOK, Gen
    <3>2. QED
      BY <3>1, LayerTilesAssumption DEF Layer
  <2>2. catalog' = Append(catalog, x) /\ names' = names
    BY <1>4 DEF AddLayer
  <2> HIDE DEF x
  <2>3. DOMAIN catalog' = 1..(Len(catalog) + 1)
    BY <1>1, <1>2, <2>1, <2>2, AppendProperties, LenProperties DEF TypeOK
  <2>4. \A p \in DOMAIN catalog : p \in DOMAIN catalog' /\ catalog'[p] = catalog[p]
    BY <1>1, <1>2, <2>1, <2>2, <2>3, AppendProperties DEF TypeOK
  <2>5. QED
    BY <2>2, <2>4 DEF Held, LayerKey
<1>5. ASSUME NEW l \in Layers, NEW c \in Categories, NEW n \in LayerNames,
             NEW published \in Flags, NEW j \in Jobs, UpdateLayer(j, l, c, n, published),
             NEW key, NEW body, Held(key, body), key # EditedKey(l, c, n)
      PROVE  Held(key, body)' \/ (key \in unswept' /\ key \in unbumped')
  <2>1. PICK p \in DOMAIN catalog : LayerKey(catalog[p]) = key /\ catalog[p].id = body.layer
                                    /\ catalog[p].gen = body.gen
    BY <1>5 DEF Held
  <2>2. CASE catalog[p].id = l
    BY <1>5, <2>1, <2>2 DEF UpdateLayer, Account, EditedKey
  <2>3. CASE catalog[p].id # l
    <3>1. p \in DOMAIN catalog' /\ catalog'[p] = catalog[p] /\ names' = names
      BY <1>5, <2>3 DEF UpdateLayer
    <3>2. QED
      BY <2>1, <3>1 DEF Held, LayerKey
  <2>4. QED
    BY <2>2, <2>3
<1>6. ASSUME NEW p \in DOMAIN catalog, DeleteLayer(p), NEW key, NEW body, Held(key, body)
      PROVE  Held(key, body)' \/ (key \in unswept' /\ key \in unbumped')
  <2>1. PICK q \in DOMAIN catalog : LayerKey(catalog[q]) = key /\ catalog[q].id = body.layer
                                    /\ catalog[q].gen = body.gen
    BY <1>6 DEF Held
  <2>2. CASE q = p
    BY <1>6, <2>1, <2>2 DEF DeleteLayer, Account
  <2>3. CASE q # p
    <3>1. PICK r \in DOMAIN catalog' : catalog'[r] = catalog[q]
      BY <1>1, <1>6, <2>3, Removed DEF DeleteLayer
    <3>2. names' = names
      BY <1>6 DEF DeleteLayer
    <3>3. QED
      BY <2>1, <3>1, <3>2 DEF Held, LayerKey
  <2>4. QED
    BY <2>2, <2>3
<1>7. ASSUME NEW p \in DOMAIN catalog, SwitchPublished(p), NEW key, NEW body, Held(key, body)
      PROVE  Held(key, body)'
  <2>1. PICK q \in DOMAIN catalog : LayerKey(catalog[q]) = key /\ catalog[q].id = body.layer
                                    /\ catalog[q].gen = body.gen
    BY <1>7 DEF Held
  <2>2. /\ q \in DOMAIN catalog' /\ names' = names
        /\ catalog'[q].id = catalog[q].id /\ catalog'[q].gen = catalog[q].gen
        /\ catalog'[q].category = catalog[q].category /\ catalog'[q].name = catalog[q].name
    <3>1. catalog' = [catalog EXCEPT ![p] = [catalog[p] EXCEPT !.published = ~@]] /\ names' = names
      BY <1>7 DEF SwitchPublished
    <3>2. catalog[p] \in Layer
      BY <1>3
    <3>3. CASE q = p
      BY <3>1, <3>2, <3>3 DEF Layer
    <3>4. CASE q # p
      BY <3>1, <3>4
    <3>5. QED
      BY <3>3, <3>4
  <2>3. QED
    BY <2>1, <2>2 DEF Held, LayerKey
<1>8. ASSUME NEW c \in Categories, NEW name \in CategoryNames, RenameCategory(c, name),
             NEW key, NEW body, Held(key, body)
      PROVE  Held(key, body)' \/ (key \in unswept' /\ key \in unbumped')
  <2>1. PICK p \in DOMAIN catalog : LayerKey(catalog[p]) = key /\ catalog[p].id = body.layer
                                    /\ catalog[p].gen = body.gen
    BY <1>8 DEF Held
  <2>2. CASE catalog[p].category = c
    BY <1>8, <2>1, <2>2 DEF RenameCategory, Account
  <2>3. CASE catalog[p].category # c
    <3>1. catalog[p].category \in Categories
      BY <1>3 DEF Layer
    <3>2. catalog' = catalog /\ LayerKey(catalog[p])' = LayerKey(catalog[p])
      BY <1>1, <1>8, <2>3, <3>1 DEF RenameCategory, LayerKey, TypeOK
    <3>3. QED
      BY <2>1, <3>2 DEF Held
  <2>4. QED
    BY <2>2, <2>3
<1>9. ASSUME NEW p \in DOMAIN catalog, NEW j \in Jobs, ClearCache(j, p), NEW key, NEW body,
             Held(key, body)
      PROVE  Held(key, body)'
  BY <1>9 DEF ClearCache, Held, LayerKey
<1>10. ASSUME NEW l \in Layers, NEW c \in Categories, NEW n \in LayerNames
       PROVE  EditedKey(l, c, n) \in Keys
  BY <1>1 DEF EditedKey, Keys, TypeOK
<1>11. job' = job => \A key : (Busy(key) => Busy(key)') /\ (Bumping(key) => Bumping(key)')
  BY DEF Busy, Bumping
<1>12. ASSUME NEW l \in Layers, NEW c \in Categories, NEW n \in LayerNames,
              NEW published \in Flags, AddLayer(l, c, n, published)
       PROVE  HoldersAreKept
  <2>1. job' = job /\ unswept' = unswept /\ unbumped' = unbumped
    BY <1>12 DEF AddLayer
  <2>2. QED
    BY <1>4, <1>11, <1>12, <2>1 DEF HoldersAreKept, AddLayer
<1>13. ASSUME NEW l \in Layers, NEW c \in Categories, NEW n \in LayerNames,
              NEW published \in Flags, NEW j \in Jobs, UpdateLayer(j, l, c, n, published)
       PROVE  HoldersAreKept
  <2>1. PICK given \in Keys : given = EditedKey(l, c, n) /\ Invalidate(j, given)
    BY <1>10, <1>13 DEF UpdateLayer
  <2>2. \A key : key # given =>
            (key \in unswept => key \in unswept') /\ (key \in unbumped => key \in unbumped')
    BY <1>13, <2>1 DEF UpdateLayer, Account, EditedKey
  <2>3. /\ \A key : Busy(key) => Busy(key)'
        /\ \A key : Bumping(key) => Bumping(key)'
        /\ Bumping(given)'
    BY <1>1, <2>1, InvalidateKeeps
  <2>4. ASSUME NEW key, NEW body, Held(key, body)
        PROVE  Held(key, body)' \/ (key \in unswept' /\ key \in unbumped') \/ Bumping(key)'
    <3>1. CASE key = given
      BY <2>3, <3>1
    <3>2. CASE key # given
      BY <1>5, <1>13, <2>1, <2>4, <3>2
    <3>3. QED
      BY <3>1, <3>2
  <2>5. UNCHANGED <<tiles, version, stragglers, request, copy>>
    BY <1>13 DEF UpdateLayer
  <2>6. QED
    BY <2>2, <2>3, <2>4, <2>5 DEF HoldersAreKept
<1>14. ASSUME NEW p \in DOMAIN catalog, DeleteLayer(p)
       PROVE  HoldersAreKept
  <2>1. job' = job /\ unswept \subseteq unswept' /\ unbumped \subseteq unbumped'
    BY <1>14 DEF DeleteLayer, Account
  <2>2. UNCHANGED <<tiles, version, stragglers, request, copy>>
    BY <1>14 DEF DeleteLayer
  <2>3. QED
    BY <1>6, <1>11, <1>14, <2>1, <2>2 DEF HoldersAreKept
<1>15. ASSUME NEW p \in DOMAIN catalog, SwitchPublished(p)
       PROVE  HoldersAreKept
  <2>1. job' = job /\ unswept' = unswept /\ unbumped' = unbumped
    BY <1>15 DEF SwitchPublished
  <2>2. UNCHANGED <<tiles, version, stragglers, request, copy>>
    BY <1>15 DEF SwitchPublished
  <2>3. QED
    BY <1>7, <1>11, <1>15, <2>1, <2>2 DEF HoldersAreKept
<1>16. ASSUME NEW c \in Categories, NEW name \in CategoryNames, RenameCategory(c, name)
       PROVE  HoldersAreKept
  <2>1. job' = job /\ unswept \subseteq unswept' /\ unbumped \subseteq unbumped'
    BY <1>16 DEF RenameCategory, Account
  <2>2. UNCHANGED <<tiles, version, stragglers, request, copy>>
    BY <1>16 DEF RenameCategory
  <2>3. QED
    BY <1>8, <1>11, <1>16, <2>1, <2>2 DEF HoldersAreKept
<1>17. ASSUME NEW p \in DOMAIN catalog, NEW j \in Jobs, ClearCache(j, p)
       PROVE  HoldersAreKept
  <2>1. PICK given \in Keys : given = LayerKey(catalog[p]) /\ Invalidate(j, given)
    BY <1>3, <1>17 DEF ClearCache
  <2>2. \A key : key # given =>
            (key \in unswept => key \in unswept') /\ (key \in unbumped => key \in unbumped')
    BY <1>17, <2>1 DEF ClearCache, Account
  <2>3. UNCHANGED <<tiles, version, stragglers, request, copy>>
    BY <1>17 DEF ClearCache
  <2>4. /\ \A key : Busy(key) => Busy(key)'
        /\ \A key : Bumping(key) => Bumping(key)'
        /\ Bumping(given)'
    BY <1>1, <2>1, InvalidateKeeps
  <2>5. QED
    BY <1>9, <1>17, <2>2, <2>3, <2>4 DEF HoldersAreKept
<1>18. QED
  BY <1>12, <1>13, <1>14, <1>15, <1>16, <1>17 DEF EditStep

\* Every invariant follows.
LEMMA EditInductive ==
    ASSUME IInv, EditStep
    PROVE  TilesAreHeld' /\ RequestsAreVouched' /\ CopiesAreVouched'
<1>1. HoldersAreKept
  BY EditKeepsHolders DEF IInv
<1>2. TilesAreHeld'
  <2>1. ASSUME NEW key \in DOMAIN tiles
        PROVE  (Held(key, tiles[key]) \/ Busy(key) \/ key \in stragglers \/ key \in unswept)'
    <3>1. Held(key, tiles[key]) \/ Busy(key) \/ key \in stragglers \/ key \in unswept
      BY DEF IInv, TilesAreHeld
    <3>2. \A k : Bumping(k)' => Busy(k)'
      BY DEF Bumping, Busy
    <3>3. \A body : body = tiles[key] /\ Held(key, body)' => Held(key, tiles[key])'
      BY <1>1 DEF HoldersAreKept, Held
    <3>4. QED
      BY <1>1, <3>1, <3>2, <3>3 DEF HoldersAreKept
  <2>2. QED
    BY <1>1, <2>1 DEF HoldersAreKept, TilesAreHeld
<1>3. ASSUME NEW e, NEW body, Vouched(e, body)
      PROVE  Vouched(e, body)'
  BY <1>1, <1>3 DEF HoldersAreKept, Vouched
<1>4. RequestsAreVouched'
  BY <1>1, <1>3 DEF IInv, RequestsAreVouched, VouchedRequest, HoldersAreKept
<1>5. CopiesAreVouched'
  BY <1>1, <1>3 DEF IInv, CopiesAreVouched, HoldersAreKept
<1>6. QED
  BY <1>2, <1>4, <1>5

LEMMA InvalidationInductive ==
    ASSUME IInv, NEW j \in Jobs, IncrementVersion(j) \/ DeleteTiles(j)
    PROVE  TilesAreHeld' /\ RequestsAreVouched' /\ CopiesAreVouched'
<1> USE DEF configVars, cacheVars, clientVars, history, bounds
<1>1. TypeOK
  BY DEF IInv, Typed
<1>2. PICK key \in Keys : key = job[j].key
  BY <1>1 DEF IncrementVersion, DeleteTiles, TypeOK, idle, Job
<1>3. \A k, body : Held(k, body) <=> Held(k, body)'
  BY DEF IncrementVersion, DeleteTiles, Held, LayerKey
<1>4. request' = request /\ copy' = copy
  BY DEF IncrementVersion, DeleteTiles
<1>5. ASSUME NEW e \in EtagParts, NEW body, Vouched(e, body)
      PROVE  Vouched(e, body)'
  <2>1. CASE IncrementVersion(j)
    <3>1. version' = [version EXCEPT ![key] = version[key] + 1] /\ unbumped' = unbumped \ {key}
      BY <1>2, <2>1 DEF IncrementVersion, NextVersion
    <3>2. version \in [Keys -> Nat]
      BY <1>1 DEF TypeOK
    <3>3. e[1] \in Keys /\ e[2] \in Nat /\ e[2] <= version[e[1]]
      BY <1>5 DEF EtagParts, Vouched
    <3>4. CASE e[1] = key
      BY <3>1, <3>2, <3>3, <3>4 DEF Vouched
    <3>5. CASE e[1] # key
      <4>1. Bumping(e[1]) => Bumping(e[1])'
        BY <1>1, <1>2, <2>1, <3>5 DEF Bumping, IncrementVersion, TypeOK
      <4>2. QED
        BY <1>3, <1>5, <3>1, <3>2, <3>3, <3>5, <4>1 DEF Vouched
    <3>6. QED
      BY <3>4, <3>5
  <2>2. CASE DeleteTiles(j)
    <3>1. Bumping(e[1]) => Bumping(e[1])'
      BY <1>1, <2>2 DEF Bumping, DeleteTiles, TypeOK
    <3>2. version' = version /\ unbumped' = unbumped
      BY <2>2 DEF DeleteTiles
    <3>3. QED
      BY <1>3, <1>5, <3>1, <3>2 DEF Vouched
  <2>3. QED
    BY <2>1, <2>2
<1>6. TilesAreHeld'
  <2>1. CASE IncrementVersion(j)
    <3>1. tiles' = tiles /\ stragglers' = stragglers /\ unswept' = unswept
      BY <2>1 DEF IncrementVersion
    <3>2. \A k : Busy(k) => Busy(k)'
      BY <1>1, <2>1 DEF Busy, IncrementVersion, TypeOK
    <3>3. names' = names /\ catalog' = catalog
      BY <2>1 DEF IncrementVersion
    <3>4. QED
      BY <3>1, <3>2, <3>3 DEF IInv, TilesAreHeld, Held, LayerKey
  <2>2. CASE DeleteTiles(j)
    <3>1. /\ DOMAIN tiles' = DOMAIN tiles \ {key}
          /\ \A k \in DOMAIN tiles' : tiles'[k] = tiles[k]
          /\ stragglers' = stragglers \ {key} /\ unswept' = unswept \ {key}
      BY <1>2, <2>2 DEF DeleteTiles
    <3>2. \A k : Busy(k) /\ k # key => Busy(k)'
      BY <1>1, <1>2, <2>2 DEF Busy, DeleteTiles, TypeOK
    <3>3. names' = names /\ catalog' = catalog
      BY <2>2 DEF DeleteTiles
    <3>4. QED
      BY <3>1, <3>2, <3>3 DEF IInv, TilesAreHeld, Held, LayerKey
  <2>3. QED
    BY <2>1, <2>2
<1>7. RequestsAreVouched'
  <2>1. ASSUME NEW b \in Browsers, request[b].pc # "idle", NEW n \in 1..Len(request[b].etag)
        PROVE  request[b].etag[n] \in EtagParts
    <3>1. request[b].etag \in Seq(EtagParts)
      BY <1>1, <2>1 DEF TypeOK, idle, Request
    <3>2. QED
      BY <3>1, <2>1, ElementOfSeq
  <2>2. QED
    BY <1>4, <1>5, <2>1 DEF IInv, RequestsAreVouched, VouchedRequest
<1>8. CopiesAreVouched'
  <2>1. ASSUME NEW b \in Browsers, NEW e \in copy[b].etag, NEW n \in 1..Len(e)
        PROVE  e[n] \in EtagParts
    <3>1. e \in Seq(EtagParts)
      BY <1>1, <2>1 DEF TypeOK, Copy
    <3>2. QED
      BY <3>1, <2>1, ElementOfSeq
  <2>2. QED
    BY <1>4, <1>5, <2>1 DEF IInv, CopiesAreVouched
<1>9. QED
  BY <1>6, <1>7, <1>8

LEMMA RestartInductive ==
    ASSUME IInv, Restart
    PROVE  TilesAreHeld' /\ RequestsAreVouched' /\ CopiesAreVouched'
<1> USE DEF configVars, cacheVars, clientVars, history, bounds
<1>1. TypeOK
  BY DEF IInv, Typed
<1>2. ASSUME NEW key, NEW body, Held(key, body)
      PROVE  Held(key, body)'
  <2>1. PICK p \in DOMAIN catalog : LayerKey(catalog[p]) = key /\ catalog[p].id = body.layer
                                    /\ catalog[p].gen = body.gen
    BY <1>2 DEF Held
  <2>2. {catalog'[q] : q \in DOMAIN catalog'} = {catalog[q] : q \in DOMAIN catalog}
    BY <1>1, Reordered DEF Restart
  <2>3. PICK q \in DOMAIN catalog' : catalog'[q] = catalog[p]
    BY <2>2
  <2>4. names' = names
    BY DEF Restart
  <2>5. QED
    BY <2>1, <2>3, <2>4 DEF Held, LayerKey
<1>3. \A key : Busy(key) => key \in unswept'
  BY <1>1 DEF Busy, Restart, TypeOK, idle, Job
<1>4. \A key : Bumping(key) => key \in unbumped'
  BY DEF Bumping, Restart
<1>5. TilesAreHeld'
  <2>1. /\ \A key \in DOMAIN tiles' : key \in DOMAIN tiles /\ tiles'[key] = tiles[key]
        /\ \A key \in DOMAIN tiles' : key \in stragglers => key \in stragglers'
        /\ unswept \subseteq unswept'
    BY DEF Restart
  <2>2. ASSUME NEW key \in DOMAIN tiles'
        PROVE  (Held(key, tiles[key]) \/ Busy(key) \/ key \in stragglers \/ key \in unswept)'
    <3>1. PICK body : body = tiles[key]
      OBVIOUS
    <3>2. Held(key, body) \/ Busy(key) \/ key \in stragglers \/ key \in unswept
      BY <2>1, <2>2, <3>1 DEF IInv, TilesAreHeld
    <3>3. Held(key, body)' \/ (key \in stragglers)' \/ (key \in unswept)'
      BY <1>2, <1>3, <2>1, <2>2, <3>2
    <3>4. tiles'[key] = body
      BY <2>1, <2>2, <3>1
    <3>5. QED
      BY <3>3, <3>4 DEF Held
  <2>3. QED
    BY <2>2 DEF TilesAreHeld
<1>6. RequestsAreVouched'
  BY DEF Restart, RequestsAreVouched, idle
<1>7. ASSUME NEW e, NEW body, Vouched(e, body)
      PROVE  Vouched(e, body)'
  <2>1. version' = version /\ unbumped \subseteq unbumped'
    BY DEF Restart
  <2>2. QED
    BY <1>2, <1>4, <1>7, <2>1 DEF Vouched
<1>8. CopiesAreVouched'
  BY <1>7 DEF IInv, CopiesAreVouched, Restart
<1>9. QED
  BY <1>5, <1>6, <1>8

\* A browser's step changes no holder, invalidation or version.
LEMMA BrowserStepKeeps ==
    ASSUME NEW b \in Browsers, BrowserStep(b)
    PROVE  /\ catalog' = catalog /\ names' = names /\ job' = job /\ version' = version
           /\ unswept' = unswept /\ unbumped' = unbumped
           /\ \A key, body : Held(key, body) => Held(key, body)'
           /\ \A e, body : Vouched(e, body) => Vouched(e, body)'
<1> USE DEF configVars, cacheVars, clientVars, history, bounds
<1>1. /\ catalog' = catalog /\ names' = names /\ job' = job /\ version' = version
      /\ unswept' = unswept /\ unbumped' = unbumped
  BY DEF BrowserStep, Ask, ReadVersion, NotModified, FetchTiles, LookUp, Store, LayerFails, Respond
<1>2. \A key, body : Held(key, body) => Held(key, body)'
  BY <1>1 DEF Held, LayerKey
<1>3. \A e, body : Vouched(e, body) => Vouched(e, body)'
  BY <1>1 DEF Vouched, Held, LayerKey, Bumping
<1>4. QED
  BY <1>1, <1>2, <1>3

\* What a request stores is its layer's own, or the request is a straggler.
LEMMA BrowserKeepsTilesHeld ==
    ASSUME IInv, NEW b \in Browsers, BrowserStep(b)
    PROVE  TilesAreHeld'
<1> USE DEF configVars, cacheVars, clientVars, history, bounds
<1>1. TypeOK
  BY DEF IInv, Typed
<1>2. /\ catalog' = catalog /\ names' = names /\ job' = job /\ unswept' = unswept
      /\ \A key, body : Held(key, body) => Held(key, body)'
      /\ \A key : Busy(key) => Busy(key)'
  BY BrowserStepKeeps DEF Busy
<1>3. ASSUME NEW n \in At(b, "query"), Store(b, n)
      PROVE  TilesAreHeld'
  <2> DEFINE x == request[b].layers[n]
             body == [layer |-> x.id, gen |-> x.gen]
  <2>1. tiles' = [k \in DOMAIN tiles \cup {x.key} |-> IF k = x.key THEN body ELSE tiles[k]]
    BY <1>3 DEF Store
  <2>2. stragglers' = IF IsCurrent(x) THEN stragglers \ {x.key} ELSE stragglers \cup {x.key}
    BY <1>3 DEF Store
  <2>3. ASSUME NEW key \in DOMAIN tiles'
        PROVE  (Held(key, tiles[key]) \/ Busy(key) \/ key \in stragglers \/ key \in unswept)'
    <3>1. CASE key = x.key
      <4>1. tiles'[key] = body
        BY <2>1, <3>1
      <4>2. CASE IsCurrent(x)
        <5>1. PICK p \in DOMAIN catalog :
                catalog[p].id = x.id /\ catalog[p].gen = x.gen /\ LayerKey(catalog[p]) = x.key
          BY <4>2 DEF IsCurrent
        <5>2. QED
          BY <1>2, <3>1, <4>1, <5>1 DEF Held, LayerKey
      <4>3. CASE ~IsCurrent(x)
        BY <2>2, <3>1, <4>3
      <4>4. QED
        BY <4>2, <4>3
    <3>2. CASE key # x.key
      <4>1. key \in DOMAIN tiles /\ tiles'[key] = tiles[key]
        BY <2>1, <3>2
      <4>2. Held(key, tiles[key]) \/ Busy(key) \/ key \in stragglers \/ key \in unswept
        BY <4>1 DEF IInv, TilesAreHeld
      <4>3. key \in stragglers => key \in stragglers'
        BY <2>2, <3>2
      <4>4. QED
        BY <1>2, <4>1, <4>2, <4>3 DEF Held, LayerKey
    <3>3. QED
      BY <3>1, <3>2
  <2>4. QED
    BY <2>3 DEF TilesAreHeld
<1>4. ASSUME ~ \E n \in At(b, "query") : Store(b, n)
      PROVE  TilesAreHeld'
  <2>1. tiles' = tiles /\ stragglers' = stragglers
    BY <1>4 DEF BrowserStep, Ask, ReadVersion, NotModified, FetchTiles, LookUp, LayerFails, Respond
  <2>2. QED
    BY <1>2, <2>1 DEF IInv, TilesAreHeld, Held, LayerKey
<1>5. QED
  BY <1>3, <1>4

LEMMA BrowserKeepsRequestsVouched ==
    ASSUME IInv, NEW b \in Browsers, BrowserStep(b)
    PROVE  RequestsAreVouched'
<1> USE DEF configVars, cacheVars, clientVars, history, bounds
<1>1. TypeOK /\ RequestsFit /\ request \in [Browsers -> {idle} \cup Request]
  BY DEF IInv, Typed, TypeOK
<1>2. ASSUME NEW q, VouchedRequest(q)
      PROVE  VouchedRequest(q)'
  BY <1>2, BrowserStepKeeps DEF VouchedRequest
<1>3. PICK r : r = request[b]
  OBVIOUS
<1>4. r.pc # "idle" => VouchedRequest(r)
  BY <1>3 DEF IInv, RequestsAreVouched
<1>5. ASSUME NEW new, request' = [request EXCEPT ![b] = new],
             new.pc # "idle" => VouchedRequest(new)
      PROVE  RequestsAreVouched'
  <2>1. ASSUME NEW c \in Browsers, NEW q, q = request'[c], q.pc # "idle"
        PROVE  VouchedRequest(q)'
    <3>1. CASE c = b
      BY <1>1, <1>2, <1>5, <2>1, <3>1
    <3>2. CASE c # b
      <4>1. q = request[c]
        BY <1>1, <1>5, <2>1, <3>2
      <4>2. VouchedRequest(q)
        BY <2>1, <4>1 DEF IInv, RequestsAreVouched
      <4>3. QED
        BY <1>2, <4>2
    <3>3. QED
      BY <3>1, <3>2
  <2>2. QED
    BY <2>1 DEF RequestsAreVouched
<1>6. CASE Ask(b)
  <2>1. PICK new : new = [pc |-> "versions", layers |-> Candidates(url[b]), etag |-> <<>>,
                          parts |-> <<>>, sound |-> <<>>]
    OBVIOUS
  <2>2. new.etag = <<>> /\ request' = [request EXCEPT ![b] = new]
    BY <1>6, <2>1 DEF Ask
  <2>3. VouchedRequest(new)
    BY <2>2, EmptySeq DEF VouchedRequest
  <2>4. QED
    BY <1>5, <2>2, <2>3
<1>7. CASE ReadVersion(b)
  <2>1. r \in Request /\ Len(r.etag) \in Nat /\ Len(r.sound) = Len(r.etag)
    <3>1. r \in Request /\ r.pc # "idle"
      BY <1>1, <1>3, <1>7 DEF ReadVersion, idle
    <3>2. Len(r.sound) = Len(r.etag)
      BY <1>1, <1>3, <3>1 DEF RequestsFit
    <3>3. QED
      BY <3>1, <3>2, LenProperties DEF Request
  <2> DEFINE k == Len(r.etag) + 1
             x == r.layers[k]
             body == [layer |-> x.id, gen |-> x.gen]
  <2>2. PICK new : new = [r EXCEPT !.etag = Append(r.etag, EtagPart(x.key)),
                                   !.sound = Append(r.sound, IsCurrent(x))]
    OBVIOUS
  <2>3. request' = [request EXCEPT ![b] = new]
    BY <1>1, <1>3, <1>7, <2>2 DEF ReadVersion
  <2>4. x.key \in Keys
    <3>1. k \in 1..Len(r.layers)
      BY <1>3, <1>7, <2>1 DEF ReadVersion
    <3>2. r.layers \in Seq(Clone)
      BY <2>1 DEF Request
    <3>3. x \in Clone
      BY <3>1, <3>2, ElementOfSeq
    <3>4. QED
      BY <3>3 DEF Clone
  <2>5. EtagPart(x.key) \in EtagParts /\ IsCurrent(x) \in BOOLEAN
    BY <1>1, <2>4, EtagPartTyped DEF IsCurrent
  <2>6. /\ new.layers = r.layers
        /\ new.etag = Append(r.etag, EtagPart(x.key))
        /\ new.sound = Append(r.sound, IsCurrent(x))
    BY <2>1, <2>2 DEF Request
  <2>7. /\ Len(new.etag) = k
        /\ \A n \in 1..Len(r.etag) : new.etag[n] = r.etag[n]
        /\ new.etag[k] = EtagPart(x.key)
    BY <2>1, <2>5, <2>6, AppendProperties DEF Request
  <2>8. /\ \A n \in 1..Len(r.etag) : new.sound[n] = r.sound[n]
        /\ new.sound[k] = IsCurrent(x)
    <3>1. /\ \A n \in 1..Len(r.sound) : Append(r.sound, IsCurrent(x))[n] = r.sound[n]
          /\ Append(r.sound, IsCurrent(x))[Len(r.sound) + 1] = IsCurrent(x)
      BY <2>1, <2>5, AppendProperties DEF Request
    <3>2. QED
      BY <2>1, <2>6, <3>1
  <2>9. IsCurrent(x) => Vouched(EtagPart(x.key), body)
    <3>1. IsCurrent(x) => Held(x.key, body)
      BY DEF IsCurrent, Held
    <3>2. version[x.key] \in Nat
      BY <1>1, <2>4 DEF TypeOK
    <3>3. QED
      BY <3>1, <3>2 DEF Vouched, EtagPart
  <2>10. EtagPart(x.key)[1] = x.key
    BY DEF EtagPart
  <2>11. VouchedRequest(r)
    BY <1>3, <1>4, <1>7 DEF ReadVersion
  <2> HIDE DEF x, body
  <2>12. ASSUME NEW n \in 1..Len(new.etag)
         PROVE  /\ new.etag[n][1] = new.layers[n].key
                /\ new.sound[n] => Vouched(new.etag[n], [layer |-> new.layers[n].id,
                                                         gen |-> new.layers[n].gen])
    <3>1. CASE n = k
      <4>1. new.layers[n] = x
        BY <2>6, <3>1 DEF x
      <4>2. new.etag[n] = EtagPart(x.key) /\ (new.sound[n] = IsCurrent(x))
        BY <2>7, <2>8, <3>1
      <4>3. QED
        BY <2>9, <2>10, <4>1, <4>2 DEF body
    <3>2. CASE n # k
      <4>1. n \in 1..Len(r.etag)
        BY <2>1, <2>7, <3>2
      <4>2. new.etag[n] = r.etag[n] /\ (new.sound[n] = r.sound[n])
        BY <2>7, <2>8, <4>1
      <4>3. QED
        BY <2>6, <2>11, <4>1, <4>2 DEF VouchedRequest
    <3>3. QED
      BY <3>1, <3>2
  <2>13. VouchedRequest(new)
    BY <2>12 DEF VouchedRequest
  <2>14. QED
    BY <1>5, <2>3, <2>13
<1>8. CASE NotModified(b) \/ Respond(b)
  <2>1. PICK new : new = idle
    OBVIOUS
  <2>2. request' = [request EXCEPT ![b] = new] /\ new.pc = "idle"
    BY <1>8, <2>1 DEF NotModified, Respond, idle
  <2>3. QED
    BY <1>5, <2>2
<1>9. ASSUME NEW new, request' = [request EXCEPT ![b] = new], r.pc # "idle",
             new.layers = r.layers, new.etag = r.etag, new.sound = r.sound
      PROVE  RequestsAreVouched'
  <2>1. VouchedRequest(new)
    BY <1>4, <1>9 DEF VouchedRequest
  <2>2. QED
    BY <1>5, <1>9, <2>1
<1>10. CASE FetchTiles(b)
  <2>1. r \in Request /\ r.pc # "idle"
    BY <1>1, <1>3, <1>10 DEF FetchTiles, VersionsRead, idle
  <2>2. PICK new : new = [r EXCEPT !.pc = "tiles", !.parts = [n \in DOMAIN r.layers |-> wait]]
    OBVIOUS
  <2>3. new.layers = r.layers /\ new.etag = r.etag /\ new.sound = r.sound
    BY <2>1, <2>2 DEF Request
  <2>4. request' = [request EXCEPT ![b] = new]
    BY <1>1, <1>3, <1>10, <2>2 DEF FetchTiles
  <2>5. QED
    BY <1>9, <2>1, <2>3, <2>4
<1>11. ASSUME NEW n \in At(b, "wait") \cup At(b, "query"), NEW part,
              request' = [request EXCEPT ![b].parts[n] = part]
       PROVE  RequestsAreVouched'
  <2>1. r \in Request /\ r.pc # "idle"
    BY <1>1, <1>3, <1>11 DEF At, idle
  <2>2. PICK new : new = [r EXCEPT !.parts = [r.parts EXCEPT ![n] = part]]
    OBVIOUS
  <2>3. new.layers = r.layers /\ new.etag = r.etag /\ new.sound = r.sound
    BY <2>1, <2>2 DEF Request
  <2>4. request' = [request EXCEPT ![b] = new]
    BY <1>1, <1>3, <1>11, <2>2
  <2>5. QED
    BY <1>9, <2>1, <2>3, <2>4
<1>12. ASSUME NEW n \in At(b, "wait"), LookUp(b, n)
       PROVE  RequestsAreVouched'
  <2>1. PICK part : request' = [request EXCEPT ![b].parts[n] = part]
    BY <1>12 DEF LookUp
  <2>2. QED
    BY <1>11, <2>1
<1>13. ASSUME NEW n \in At(b, "query"), Store(b, n)
       PROVE  RequestsAreVouched'
  <2>1. PICK part : request' = [request EXCEPT ![b].parts[n] = part]
    BY <1>13 DEF Store
  <2>2. QED
    BY <1>11, <2>1
<1>14. ASSUME NEW n \in At(b, "wait") \cup At(b, "query"), LayerFails(b, n)
       PROVE  RequestsAreVouched'
  <2>1. PICK part : request' = [request EXCEPT ![b].parts[n] = part]
    BY <1>14 DEF LayerFails
  <2>2. QED
    BY <1>11, <2>1
<1>15. QED
  BY <1>6, <1>7, <1>8, <1>10, <1>12, <1>13, <1>14 DEF BrowserStep

\* A response goes out under the versions its request read.
LEMMA BrowserKeepsCopiesVouched ==
    ASSUME IInv, NEW b \in Browsers, BrowserStep(b)
    PROVE  CopiesAreVouched'
<1> USE DEF configVars, cacheVars, clientVars, history, bounds
<1>1. TypeOK /\ RequestsFit /\ copy \in [Browsers -> Copy]
  BY DEF IInv, Typed, TypeOK
<1>2. \A e, body : Vouched(e, body) => Vouched(e, body)'
  BY BrowserStepKeeps
<1>3. CASE Respond(b)
  <2>1. PICK r : r = request[b]
    OBVIOUS
  <2>2. r \in Request /\ r.pc = "tiles" /\ VouchedRequest(r)
    <3>1. r.pc = "tiles"
      BY <1>3, <2>1 DEF Respond
    <3>2. r \in Request
      BY <1>1, <2>1, <3>1 DEF TypeOK, idle
    <3>3. QED
      BY <2>1, <3>1, <3>2 DEF IInv, RequestsAreVouched
  <2>3. /\ Len(r.etag) \in Nat
        /\ Len(r.parts) = Len(r.etag) /\ Len(r.layers) = Len(r.etag)
        /\ DOMAIN r.parts = 1..Len(r.etag)
    <3>1. r.etag \in Seq(EtagParts) /\ r.parts \in Seq(Part)
      BY <2>2 DEF Request
    <3>2. Len(r.etag) = Len(r.layers) /\ Len(r.parts) = Len(r.layers)
      BY <1>1, <2>1, <2>2 DEF RequestsFit
    <3>3. QED
      BY <3>1, <3>2, LenProperties
  <2> DEFINE body(n) == [layer |-> r.layers[n].id, gen |-> r.layers[n].gen]
             sound == [n \in 1..Len(r.etag) |-> r.sound[n] /\ r.parts[n] = Tile(body(n))]
  <2>4. PICK new : new = [etag |-> {r.etag}, parts |-> r.parts, sound |-> sound]
    OBVIOUS
  <2>5. copy' = [copy EXCEPT ![b] = new]
    BY <1>3, <2>1, <2>3, <2>4 DEF Respond
  <2>6. Len(sound) = Len(r.etag)
    BY <2>3
  <2>7. ASSUME NEW n \in 1..Len(r.etag), sound[n]
        PROVE  \E x \in Body : r.parts[n] = Tile(x) /\ Vouched(r.etag[n], x)'
    <3>1. r.sound[n] /\ r.parts[n] = Tile(body(n))
      BY <2>7
    <3>2. r.layers[n] \in Clone
      <4>1. r.layers \in Seq(Clone) /\ n \in 1..Len(r.layers)
        BY <2>2, <2>3 DEF Request
      <4>2. QED
        BY <4>1, ElementOfSeq
    <3>3. body(n) \in Body
      BY <3>2 DEF Clone, Body
    <3>4. Vouched(r.etag[n], body(n))
      BY <2>2, <3>1 DEF VouchedRequest
    <3>5. QED
      BY <1>2, <3>1, <3>3, <3>4
  <2>8. ASSUME NEW c \in Browsers, NEW q, q = copy'[c], NEW e \in q.etag
        PROVE  /\ Len(q.parts) = Len(e)
               /\ Len(q.sound) = Len(e)
               /\ \A n \in 1..Len(e) : q.sound[n] =>
                    \E x \in Body : q.parts[n] = Tile(x) /\ Vouched(e[n], x)'
    <3>1. CASE c = b
      <4>1. q = new
        BY <1>1, <2>5, <2>8, <3>1
      <4>2. e = r.etag /\ q.parts = r.parts /\ q.sound = sound
        BY <2>4, <2>8, <4>1
      <4>3. QED
        BY <2>3, <2>6, <2>7, <4>2
    <3>2. CASE c # b
      <4>1. q = copy[c]
        BY <1>1, <2>5, <2>8, <3>2
      <4>2. QED
        BY <1>2, <2>8, <4>1 DEF IInv, CopiesAreVouched
    <3>3. QED
      BY <3>1, <3>2
  <2>9. QED
    BY <2>8 DEF CopiesAreVouched
<1>4. CASE ~Respond(b)
  <2>1. copy' = copy
    BY <1>4 DEF BrowserStep, Ask, ReadVersion, NotModified, FetchTiles, LookUp, Store, LayerFails
  <2>2. QED
    BY <1>2, <2>1 DEF IInv, CopiesAreVouched
<1>5. QED
  BY <1>3, <1>4

-----------------------------------------------------------------------------
(***************************************************************************)
(* The properties.                                                         *)
(***************************************************************************)

LEMMA InitInductive == Init => IInv
<1> SUFFICES ASSUME Init
             PROVE  IInv
  OBVIOUS
<1>1. Typed
  BY InitTyped
<1>2. TilesAreHeld /\ RequestsAreVouched /\ CopiesAreVouched
  BY DEF Init, TilesAreHeld, RequestsAreVouched, CopiesAreVouched, idle, nothing
<1>3. QED
  BY <1>1, <1>2 DEF IInv

LEMMA StepInductive == IInv /\ [Next]_vars => IInv'
<1> SUFFICES ASSUME IInv, [Next]_vars
             PROVE  IInv'
  OBVIOUS
<1>1. Typed'
  BY StepTyped DEF IInv
<1>2. TilesAreHeld' /\ RequestsAreVouched' /\ CopiesAreVouched'
  <2>1. ASSUME NEW b \in Browsers, BrowserStep(b)
        PROVE  TilesAreHeld' /\ RequestsAreVouched' /\ CopiesAreVouched'
    BY <2>1, BrowserKeepsTilesHeld, BrowserKeepsRequestsVouched, BrowserKeepsCopiesVouched
  <2>2. CASE UNCHANGED vars
    BY <2>2 DEF IInv, TilesAreHeld, RequestsAreVouched, VouchedRequest, CopiesAreVouched,
                Held, Busy, Bumping, Vouched, LayerKey,
                vars, configVars, cacheVars, clientVars, history, bounds
  <2>3. QED
    BY <2>1, <2>2, EditInductive, InvalidationInductive, RestartInductive DEF Next
<1>3. QED
  BY <1>1, <1>2 DEF IInv

\* The catalog has a layer under key for what produced body: it is the layer at p,
\* or two share the key.
LEMMA HolderOrShared ==
    ASSUME TypeOK, NEW p \in DOMAIN catalog, NEW body \in Body,
           Held(LayerKey(catalog[p]), body)
    PROVE  \/ body = [layer |-> catalog[p].id, gen |-> catalog[p].gen]
           \/ Shared(LayerKey(catalog[p]))
<1>1. PICK q \in DOMAIN catalog : /\ LayerKey(catalog[q]) = LayerKey(catalog[p])
                                  /\ catalog[q].id = body.layer
                                  /\ catalog[q].gen = body.gen
  BY DEF Held
<1>2. CASE q = p
  BY <1>1, <1>2 DEF Body
<1>3. CASE q # p
  BY <1>1, <1>3 DEF Shared
<1>4. QED
  BY <1>2, <1>3

\* A cached tile is its layer's own, in the layer's current configuration, except
\* while its key is being invalidated, is shared, or was left or written late
\* (update_layer, invalidate_layer_tile_cache): for any number of layers, edits,
\* browsers and restarts.
THEOREM TilesStayWithTheirLayer == Spec => []TilesBelongToTheirLayer
<1>1. IInv => TilesBelongToTheirLayer
  <2> SUFFICES ASSUME IInv, NEW p \in DOMAIN catalog,
                      LayerKey(catalog[p]) \in DOMAIN tiles,
                      tiles[LayerKey(catalog[p])] # [layer |-> catalog[p].id,
                                                     gen |-> catalog[p].gen]
               PROVE  \/ Busy(LayerKey(catalog[p]))
                      \/ Shared(LayerKey(catalog[p]))
                      \/ LayerKey(catalog[p]) \in stragglers
                      \/ LayerKey(catalog[p]) \in unswept
    BY DEF TilesBelongToTheirLayer, Busy
  <2> DEFINE key == LayerKey(catalog[p])
  <2>1. TypeOK /\ tiles[key] \in Body
    BY DEF IInv, Typed, TypeOK
  <2>2. Held(key, tiles[key]) \/ Busy(key) \/ key \in stragglers \/ key \in unswept
    BY DEF IInv, TilesAreHeld
  <2>3. QED
    BY <2>1, <2>2, HolderOrShared
<1>2. QED
  BY <1>1, InitInductive, StepInductive, PTL DEF Spec

\* A 304 never confirms a composite tile that lacks a layer the catalog now lists,
\* or has another configuration of it, except by a shared key, a key its holder
\* left, a bump still to come, or a part that was already wrong when it was
\* answered (is_not_modified behind get_composite_layers_tile).
THEOREM ConfirmedTilesStayCurrent == Spec => []ConfirmedTilesAreCurrent
<1>1. IInv => ConfirmedTilesAreCurrent
  <2> SUFFICES ASSUME IInv, NEW b \in Browsers, copy[b].etag = {EtagNow(url[b])}
               PROVE  /\ Len(copy[b].parts) = Len(Candidates(url[b]))
                      /\ \A n \in DOMAIN Candidates(url[b]) :
                          LET x == Candidates(url[b])[n] IN
                          \/ copy[b].parts[n] = Tile([layer |-> x.id, gen |-> x.gen])
                          \/ ~copy[b].sound[n]
                          \/ Shared(x.key)
                          \/ x.key \in unbumped
                          \/ Bumping(x.key)
    BY DEF ConfirmedTilesAreCurrent, Bumping
  <2>1. PICK u \in Url : u = url[b]
    BY DEF IInv, Typed, TypeOK
  <2>2. PICK c : c = copy[b]
    OBVIOUS
  <2>3. TypeOK
    BY DEF IInv, Typed
  <2>4. PICK found : found = Candidates(u)
    OBVIOUS
  <2>5. found \in Seq(Clone) /\ DOMAIN found = 1..Len(found) /\ Len(found) \in Nat
    BY <2>3, <2>4, CandidatesType, LenProperties
  <2>6. PICK e : e = EtagNow(u)
    OBVIOUS
  <2>7. e = [n \in 1..Len(found) |-> EtagPart(found[n].key)]
    BY <2>4, <2>5, <2>6 DEF EtagNow
  <2>8. Len(e) = Len(found)
    BY <2>5, <2>7
  <2>9. /\ Len(c.parts) = Len(e)
        /\ \A n \in 1..Len(e) : c.sound[n] =>
            \E body \in Body : c.parts[n] = Tile(body) /\ Vouched(e[n], body)
    BY <2>6, <2>1, <2>2 DEF IInv, CopiesAreVouched
  <2>10. ASSUME NEW n \in 1..Len(found), c.sound[n]
        PROVE  \/ c.parts[n] = Tile([layer |-> found[n].id, gen |-> found[n].gen])
               \/ Shared(found[n].key)
               \/ found[n].key \in unbumped
               \/ Bumping(found[n].key)
    <3>1. PICK body \in Body : c.parts[n] = Tile(body) /\ Vouched(e[n], body)
      BY <2>8, <2>9, <2>10
    <3>2. PICK p \in DOMAIN catalog : found[n] = CloneOf(catalog[p])
      BY <2>3, <2>4, CandidatesType
    <3>3. /\ found[n].id = catalog[p].id /\ found[n].gen = catalog[p].gen
          /\ found[n].key = LayerKey(catalog[p])
      BY <3>2 DEF CloneOf
    <3>4. e[n] = <<found[n].key, version[found[n].key]>>
      BY <2>7 DEF EtagPart
    <3>5. Held(found[n].key, body) \/ found[n].key \in unbumped \/ Bumping(found[n].key)
      BY <3>1, <3>4 DEF Vouched
    <3>6. CASE Held(found[n].key, body)
      BY <2>3, <3>1, <3>3, <3>6, HolderOrShared
    <3>7. QED
      BY <3>5, <3>6
  <2>11. QED
    BY <2>4, <2>5, <2>8, <2>9, <2>10, <2>1, <2>2
<1>2. QED
  BY <1>1, InitInductive, StepInductive, PTL DEF Spec

=============================================================================
