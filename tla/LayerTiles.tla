----------------------------- MODULE LayerTiles -----------------------------
(***************************************************************************)
(* The tile cache of a whole catalog on one process: tiles and versions    *)
(* are kept under the key category_name of a layer, and admins create,     *)
(* move, rename, publish and delete layers under those keys while browsers *)
(* ask for composite tiles and for tiles of a category.                    *)
(*                                                                         *)
(* TileCache is about one key and every step of its invalidation; this     *)
(* module is about who holds a key.  So an invalidation has two steps      *)
(* here, there is one tile address, no process lags, tiles do not expire,  *)
(* and the backend does not fail.  Requests carry no session and meet no   *)
(* plugin.                                                                 *)
(*                                                                         *)
(* A name is the sequence of its words, normalize_name having joined them  *)
(* by "_".  The configuration of a layer is the number of the edit that    *)
(* set it, and the body of a tile is the layer and the configuration that  *)
(* produced it.  An ETag is the sequence it hashes.                        *)
(***************************************************************************)
EXTENDS Naturals, FiniteSets, SequencesExt

CONSTANTS
    Layers,         \* the ids a layer can have
    Wiping,         \* the layers with delete_cache_on_start
    Categories,     \* the ids of the categories
    CategoryNames, LayerNames,
    FirstNames,     \* the names of the categories at the start
    Flags,          \* the values of `published` a form may have
    Browsers,       \* HTTP clients, each with one URL
    Setups,         \* the cache backends, URLs and first catalogs to consider
    Jobs,           \* invalidations that may be in progress at a time
    MaxEdits,       \* bound: admin requests
    MaxFaults       \* bound: layers that fail in a response and restarts

Gen == 0..MaxEdits
Layer == [id : Layers, category : Categories, name : LayerNames,
          published : BOOLEAN, gen : Gen]

\* A URL names a list of layers, or a category.
Place == [category : CategoryNames, name : LayerNames]
Url == [kind : {"list"}, places : Seq(Place)] \cup [kind : {"category"}, category : CategoryNames]

ASSUME LayerTilesAssumption ==
    /\ \A s \in Setups :
        /\ s.mode \in {"redis", "disk"}
        /\ s.url \in [Browsers -> Url]
        /\ s.catalog \in Seq(Layer)
    /\ Wiping \subseteq Layers
    /\ Flags \subseteq BOOLEAN
    /\ FirstNames \in [Categories -> CategoryNames]
    /\ MaxEdits \in Nat
    /\ MaxFaults \in Nat

VARIABLES
    mode,      \* the backend: "redis" or "disk"
    url,       \* the URL each browser asks for
    names,     \* names[c]: the name of category c
    catalog,   \* Catalog::layers, in its order
    unborn,    \* the ids not given to a layer yet
    tiles,     \* the cached tile of each key that has one
    version,   \* the version of each key
    request,   \* request[b]: the request of browser b
    copy,      \* copy[b]: the response browser b keeps, if any
    job,       \* job[j]: invalidation j
    \* history and bounds
    unswept,   \* keys a layer left, or a restart forgot, whose tiles were not
               \* deleted since and that no layer was given by an update
    unbumped,  \* the same of the version that was not bumped
    stragglers,\* keys whose tile was written by a request older than an edit
    edits, faults

cacheVars == <<tiles, version, stragglers>>
clientVars == <<request, copy>>
configVars == <<names, catalog, unborn>>
history == <<unswept, unbumped>>
bounds == <<edits, faults>>
vars == <<mode, url, configVars, cacheVars, clientVars, job, history, bounds>>

\* The layer key: category name and layer name joined by "_".
Key(category, name) == category \o name
Keys == {Key(c, n) : c \in CategoryNames, n \in LayerNames}

\* The name alone, which delete_cache_on_start looks for on disk.
BareKey(l) == l.name

LayerKey(l) == Key(names[l.category], l.name)

Clone == [id : Layers, key : Keys, gen : Gen]
Body == [layer : Layers, gen : Gen]
wait == [pc |-> "wait"]
query == [pc |-> "query"]
failed == [pc |-> "failed"]
Tile(body) == [pc |-> "tile", body |-> body]
Part == {wait, query, failed} \cup {Tile(x) : x \in Body}
EtagParts == Keys \X Nat
Request == [pc : {"versions", "tiles"}, layers : Seq(Clone), etag : Seq(EtagParts),
            parts : Seq(Part), sound : Seq(BOOLEAN)]
Copy == [etag : SUBSET Seq(EtagParts), parts : Seq(Part), sound : Seq(BOOLEAN)]
Job == [pc : {"bump", "delete"}, key : Keys]
idle == [pc |-> "idle"]
nothing == [etag |-> {}, parts |-> <<>>, sound |-> <<>>]

Init ==
    /\ \E s \in Setups :
        /\ mode = s.mode
        /\ url = s.url
        /\ catalog = s.catalog
        /\ unborn = Layers \ {s.catalog[p].id : p \in DOMAIN s.catalog}
    /\ names = FirstNames
    /\ tiles = [k \in {} |-> 0]
    /\ version = [k \in Keys |-> 0]
    /\ request = [b \in Browsers |-> idle]
    /\ copy = [b \in Browsers |-> nothing]
    /\ job = [j \in Jobs |-> idle]
    /\ unswept = {}
    /\ unbumped = {}
    /\ stragglers = {}
    /\ edits = 0
    /\ faults = 0

Fault == faults < MaxFaults /\ faults' = faults + 1

\* The layer is still what the request cloned.
IsCurrent(x) ==
    \E p \in DOMAIN catalog :
        /\ catalog[p].id = x.id
        /\ catalog[p].gen = x.gen
        /\ LayerKey(catalog[p]) = x.key

-----------------------------------------------------------------------------
(***************************************************************************)
(* Requests: get_composite_layers_tile and get_category_layers_tile.       *)
(***************************************************************************)

\* The positions of the published layers that a category and a name, or a
\* category, select.
Matches(place) ==
    {p \in DOMAIN catalog : /\ names[catalog[p].category] = place.category
                            /\ catalog[p].name = place.name
                            /\ catalog[p].published}
Members(category) ==
    {p \in DOMAIN catalog : names[catalog[p].category] = category /\ catalog[p].published}

\* find_layer_by_category_and_name(.., Published): the first that matches.
FindPublished(place) == CHOOSE p \in Matches(place) : \A q \in Matches(place) : p <= q

\* The numbers in S from the least to the greatest.
InOrder(S) ==
    CHOOSE f \in [1..Cardinality(S) -> S] :
        \A m, n \in 1..Cardinality(S) : m < n => f[m] < f[n]

CloneOf(l) == [id |-> l.id, key |-> LayerKey(l), gen |-> l.gen]

\* The positions of the layers of a URL; a name of a list that no published
\* layer has is skipped.
Positions(u) ==
    IF u.kind = "category" THEN InOrder(Members(u.category))
    ELSE LET found == InOrder({n \in DOMAIN u.places : Matches(u.places[n]) # {}})
         IN  [n \in DOMAIN found |-> FindPublished(u.places[found[n]])]

\* Those layers, cloned under one read guard of the catalog.
Candidates(u) == [n \in DOMAIN Positions(u) |-> CloneOf(catalog[Positions(u)[n]])]

Ask(b) ==
    /\ request[b].pc = "idle"
    /\ request' = [request EXCEPT ![b] =
                    [pc |-> "versions", layers |-> Candidates(url[b]), etag |-> <<>>,
                     parts |-> <<>>, sound |-> <<>>]]
    /\ UNCHANGED <<mode, url, configVars, cacheVars, copy, job, history, bounds>>

\* An ETag that leaves the keys out.
VersionOnly(key) == <<version[key]>>

\* What one layer contributes to the ETag.
EtagPart(key) == <<key, version[key]>>

\* get_layer_version of the next layer.
ReadVersion(b) ==
    LET r == request[b]
        n == Len(r.etag) + 1
    IN  /\ r.pc = "versions"
        /\ n <= Len(r.layers)
        /\ request' = [request EXCEPT
                        ![b].etag = Append(@, EtagPart(r.layers[n].key)),
                        ![b].sound = Append(@, IsCurrent(r.layers[n]))]
        /\ UNCHANGED <<mode, url, configVars, cacheVars, copy, job, history, bounds>>

VersionsRead(b) ==
    request[b].pc = "versions" /\ Len(request[b].etag) = Len(request[b].layers)

\* is_not_modified: the browser sends the ETag of the copy it keeps; 304.
NotModified(b) ==
    /\ VersionsRead(b)
    /\ copy[b].etag = {request[b].etag}
    /\ request' = [request EXCEPT ![b] = idle]
    /\ UNCHANGED <<mode, url, configVars, cacheVars, copy, job, history, bounds>>

\* One get_tile for each layer; join_all runs them side by side.
FetchTiles(b) ==
    /\ VersionsRead(b)
    /\ copy[b].etag # {request[b].etag}
    /\ request' = [request EXCEPT
                    ![b].pc = "tiles",
                    ![b].parts = [n \in DOMAIN request[b].layers |-> wait]]
    /\ UNCHANGED <<mode, url, configVars, cacheVars, copy, job, history, bounds>>

\* The layers of the request of b that are at point pc.
At(b, pc) ==
    IF request[b].pc # "tiles" THEN {}
    ELSE {n \in DOMAIN request[b].parts : request[b].parts[n].pc = pc}

\* The cache answers, or the query has to.
LookUp(b, n) ==
    LET key == request[b].layers[n].key IN
    /\ request' = [request EXCEPT ![b].parts[n] =
                    IF key \in DOMAIN tiles THEN Tile(tiles[key]) ELSE query]
    /\ UNCHANGED <<mode, url, configVars, cacheVars, copy, job, history, bounds>>

\* The query has run with the clone, and write_tile stores what it returned.
Store(b, n) ==
    LET x == request[b].layers[n]
        body == [layer |-> x.id, gen |-> x.gen]
    IN  /\ tiles' = [k \in DOMAIN tiles \cup {x.key} |->
                        IF k = x.key THEN body ELSE tiles[k]]
        /\ stragglers' = IF IsCurrent(x) THEN stragglers \ {x.key}
                                         ELSE stragglers \cup {x.key}
        /\ request' = [request EXCEPT ![b].parts[n] = Tile(body)]
        /\ UNCHANGED <<mode, url, configVars, version, copy, job, history, bounds>>

\* No pool for the layer's database, a filter or a query that fails, or a tile
\* that cannot be written: the layer is left out of the response.
LayerFails(b, n) ==
    /\ Fault
    /\ request' = [request EXCEPT ![b].parts[n] = failed]
    /\ UNCHANGED <<mode, url, configVars, cacheVars, copy, job, history, edits>>

\* The parts are concatenated and go out under the ETag of all the layers.
\* `sound`: the part is there, and is what the clone describes, which was
\* current when its version was read.
Respond(b) ==
    LET r == request[b] IN
    /\ r.pc = "tiles"
    /\ \A n \in DOMAIN r.parts : r.parts[n].pc \in {"tile", "failed"}
    /\ copy' = [copy EXCEPT ![b] =
                [etag |-> {r.etag},
                 parts |-> r.parts,
                 sound |-> [n \in DOMAIN r.parts |->
                    /\ r.sound[n]
                    /\ r.parts[n] = Tile([layer |-> r.layers[n].id,
                                          gen |-> r.layers[n].gen])]]]
    /\ request' = [request EXCEPT ![b] = idle]
    /\ UNCHANGED <<mode, url, configVars, cacheVars, job, history, bounds>>

-----------------------------------------------------------------------------
(***************************************************************************)
(* Edits.  The handlers of the API give the catalog's lock back before the *)
(* invalidation; the forms keep it, which only takes interleavings away.   *)
(***************************************************************************)

Edit == edits < MaxEdits /\ edits' = edits + 1

\* The keys in left lose a holder and nothing is invalidated; those in given are
\* to be invalidated from now on.
Account(left, given) ==
    /\ unswept' = (unswept \cup left) \ given
    /\ unbumped' = (unbumped \cup left) \ given

Invalidate(j, key) ==
    /\ job[j].pc = "idle"
    /\ job' = [job EXCEPT ![j] = [pc |-> "bump", key |-> key]]

\* Catalog::add_layer, under a new id.  Nothing is invalidated.
AddLayer(l, c, n, published) ==
    /\ Edit
    /\ l \in unborn
    /\ unborn' = unborn \ {l}
    /\ catalog' = Append(catalog, [id |-> l, category |-> c, name |-> n,
                                   published |-> published, gen |-> edits + 1])
    /\ UNCHANGED <<mode, url, names, cacheVars, clientVars, job, history, faults>>

\* An update that invalidates the key the layer had.
OldKey(l, c, n) ==
    LET p == SelectInSeq(catalog, LAMBDA x : x.id = l)
    IN  IF p = 0 THEN Key(names[c], n) ELSE LayerKey(catalog[p])

\* update_layer makes the key from the category and the name of the form.
EditedKey(l, c, n) == Key(names[c], n)

\* Catalog::update_layer, then invalidate_layer_tile_cache.  The form of /admin
\* goes on when the layer is gone.
UpdateLayer(j, l, c, n, published) ==
    /\ Edit
    /\ l \notin unborn
    /\ catalog' = [p \in DOMAIN catalog |->
                    IF catalog[p].id # l THEN catalog[p]
                    ELSE [id |-> l, category |-> c, name |-> n,
                          published |-> published, gen |-> edits + 1]]
    /\ Invalidate(j, EditedKey(l, c, n))
    /\ Account({LayerKey(catalog[p]) : p \in {q \in DOMAIN catalog : catalog[q].id = l}},
               {Key(names[c], n)})
    /\ UNCHANGED <<mode, url, names, unborn, cacheVars, clientVars, faults>>

\* Catalog::delete_layer.  Nothing is invalidated.
DeleteLayer(p) ==
    /\ Edit
    /\ catalog' = RemoveAt(catalog, p)
    /\ Account({LayerKey(catalog[p])}, {})
    /\ UNCHANGED <<mode, url, names, unborn, cacheVars, clientVars, job, faults>>

\* Catalog::swich_layer_published.  Nothing is invalidated.
SwitchPublished(p) ==
    /\ Edit
    /\ catalog' = [catalog EXCEPT ![p].published = ~@]
    /\ UNCHANGED <<mode, url, names, unborn, cacheVars, clientVars, job, history, faults>>

\* Category::update_category: the layers of the category follow, which changes
\* their keys.  Nothing is invalidated.  Names of categories are unique.
RenameCategory(c, name) ==
    /\ Edit
    /\ \A d \in Categories : names[d] # name
    /\ names' = [names EXCEPT ![c] = name]
    /\ Account({LayerKey(catalog[p]) : p \in {q \in DOMAIN catalog : catalog[q].category = c}}, {})
    /\ UNCHANGED <<mode, url, catalog, unborn, cacheVars, clientVars, job, faults>>

\* The action "clear cache": the key of the layer in memory.
ClearCache(j, p) ==
    /\ Edit
    /\ Invalidate(j, LayerKey(catalog[p]))
    /\ Account({}, {LayerKey(catalog[p])})
    /\ UNCHANGED <<mode, url, configVars, cacheVars, clientVars, faults>>

-----------------------------------------------------------------------------
(***************************************************************************)
(* Invalidation and restart.                                               *)
(***************************************************************************)

NextVersion(v) == v + 1

IncrementVersion(j) ==
    LET key == job[j].key IN
    /\ job[j].pc = "bump"
    /\ version' = [version EXCEPT ![key] = NextVersion(@)]
    /\ job' = [job EXCEPT ![j].pc = "delete"]
    /\ unbumped' = unbumped \ {key}
    /\ UNCHANGED <<mode, url, configVars, tiles, stragglers, clientVars, unswept, bounds>>

\* The tiles of the key, and of no other, are deleted.
DeleteTiles(j) ==
    LET key == job[j].key IN
    /\ job[j].pc = "delete"
    /\ tiles' = [k \in DOMAIN tiles \ {key} |-> tiles[k]]
    /\ job' = [job EXCEPT ![j] = idle]
    /\ unswept' = unswept \ {key}
    /\ stragglers' = stragglers \ {key}
    /\ UNCHANGED <<mode, url, configVars, version, clientVars, unbumped, bounds>>

\* What initialize_cache deletes for a layer with delete_cache_on_start: in Redis
\* the tiles of its key, on disk the directory that has its bare name.
WipedKey(l) == IF mode = "redis" THEN LayerKey(l) ELSE BareKey(l)

\* The process stops and starts again: requests and invalidations are gone, tiles
\* are wiped and versions stay.  The catalog is read in the order of the names as
\* text, which the model leaves open.
Restart ==
    LET wiped == {WipedKey(catalog[p]) : p \in {q \in DOMAIN catalog :
                                                  catalog[q].id \in Wiping}}
        bumping == {job[j].key : j \in {i \in Jobs : job[i].pc = "bump"}}
        deleting == {job[j].key : j \in {i \in Jobs : job[i].pc = "delete"}}
    IN  /\ Fault
        /\ catalog' \in SetToSeqs({catalog[p] : p \in DOMAIN catalog})
        /\ request' = [b \in Browsers |-> idle]
        /\ job' = [j \in Jobs |-> idle]
        /\ tiles' = [k \in DOMAIN tiles \ wiped |-> tiles[k]]
        /\ stragglers' = stragglers \ wiped
        /\ unbumped' = unbumped \cup bumping
        /\ unswept' = (unswept \cup bumping \cup deleting)
        /\ UNCHANGED <<mode, url, names, unborn, version, copy, edits>>

-----------------------------------------------------------------------------
BrowserStep(b) ==
    \/ Ask(b)
    \/ ReadVersion(b)
    \/ NotModified(b)
    \/ FetchTiles(b)
    \/ \E n \in At(b, "wait") : LookUp(b, n)
    \/ \E n \in At(b, "query") : Store(b, n)
    \/ \E n \in At(b, "wait") \cup At(b, "query") : LayerFails(b, n)
    \/ Respond(b)

EditStep ==
    \/ \E l \in Layers, c \in Categories, n \in LayerNames, published \in Flags :
        \/ AddLayer(l, c, n, published)
        \/ \E j \in Jobs : UpdateLayer(j, l, c, n, published)
    \/ \E p \in DOMAIN catalog :
        \/ DeleteLayer(p)
        \/ SwitchPublished(p)
        \/ \E j \in Jobs : ClearCache(j, p)
    \/ \E c \in Categories, name \in CategoryNames : RenameCategory(c, name)

Next ==
    \/ \E b \in Browsers : BrowserStep(b)
    \/ EditStep
    \/ \E j \in Jobs : IncrementVersion(j) \/ DeleteTiles(j)
    \/ Restart

Spec == Init /\ [][Next]_vars

-----------------------------------------------------------------------------
(***************************************************************************)
(* Properties.                                                             *)
(***************************************************************************)

\* Every variable stays in the set of values its Rust counterpart can take.
TypeOK ==
    /\ mode \in {"redis", "disk"}
    /\ url \in [Browsers -> Url]
    /\ names \in [Categories -> CategoryNames]
    /\ catalog \in Seq(Layer)
    /\ unborn \subseteq Layers
    /\ DOMAIN tiles \subseteq Keys
    /\ tiles \in [DOMAIN tiles -> Body]
    /\ version \in [Keys -> Nat]
    /\ request \in [Browsers -> {idle} \cup Request]
    /\ copy \in [Browsers -> Copy]
    /\ job \in [Jobs -> {idle} \cup Job]
    /\ unswept \subseteq Keys
    /\ unbumped \subseteq Keys
    /\ stragglers \subseteq DOMAIN tiles
    /\ edits \in 0..MaxEdits
    /\ faults \in 0..MaxFaults

\* Two layers of the catalog have one key: the key joins category and name, so a
\* category a_b with a layer c meets a category a with a layer b_c.
Shared(key) ==
    \E p, q \in DOMAIN catalog :
        p # q /\ LayerKey(catalog[p]) = key /\ LayerKey(catalog[q]) = key

\* A cached tile under the key of a layer is a tile of that layer as it is
\* configured now, unless an invalidation of the key is under way, two layers
\* share the key, a request older than the edit wrote it, or a holder left the
\* key (was deleted, moved or renamed) or a restart cut an invalidation off, and
\* neither an update of its new holder nor a clear came since.  So a layer that
\* moves to a key by an update never shows what its former holders left there
\* (update_layer, invalidate_layer_tile_cache, delete_layer_cache).
TilesBelongToTheirLayer ==
    \A p \in DOMAIN catalog :
        LET l == catalog[p]
            key == LayerKey(l)
        IN  key \in DOMAIN tiles /\ tiles[key] # [layer |-> l.id, gen |-> l.gen] =>
                \/ \E j \in Jobs : job[j].pc # "idle" /\ job[j].key = key
                \/ Shared(key)
                \/ key \in stragglers
                \/ key \in unswept

\* The ETag a request that starts now would be given.
EtagNow(u) ==
    LET found == Candidates(u) IN [n \in DOMAIN found |-> EtagPart(found[n].key)]

\* A composite tile that would be confirmed by a 304 now has, for each layer of
\* the URL as the catalog now lists it, that layer's part in its current
\* configuration, unless the part was not sound when it was answered (the layer
\* had failed, or its tile or clone was out of date), its key is shared, or its
\* holder left it, or its invalidation has not bumped the version.  So whatever
\* an update, a move, a rename, a deletion or a switch of `published` does to
\* the list is seen in the ETag (get_composite_layers_tile,
\* get_category_layers_tile).
ConfirmedTilesAreCurrent ==
    \A b \in Browsers :
        LET found == Candidates(url[b])
            c == copy[b]
        IN  c.etag = {EtagNow(url[b])} =>
                /\ Len(c.parts) = Len(found)
                /\ \A n \in DOMAIN found :
                    LET key == found[n].key IN
                    \/ c.parts[n] = Tile([layer |-> found[n].id, gen |-> found[n].gen])
                    \/ ~c.sound[n]
                    \/ Shared(key)
                    \/ key \in unbumped
                    \/ \E j \in Jobs : job[j].pc = "bump" /\ job[j].key = key

=============================================================================
