------------------------------ MODULE TileCache ------------------------------
(***************************************************************************)
(* The server-side tile cache of one published layer and the browser       *)
(* caches behind it: requests for tiles that carry no filter and meet no   *)
(* plugin, and the invalidation of the layer's tiles when an admin edits   *)
(* it or clears its cache.                                                 *)
(*                                                                         *)
(* Data abstraction: the configuration of the layer is a generation, the   *)
(* number of edits it reflects, and the body of a tile is the generation   *)
(* whose SQL produced it.  An ETag is the pair of tile and layer version   *)
(* it hashes.  Writing one tile and deleting one tile are single steps.    *)
(*                                                                         *)
(* What is said here of a response is said of the handler's answer: the    *)
(* router keeps answers in a memory cache of its own for five more seconds *)
(* (build_cache_middleware), which this module leaves out.                 *)
(***************************************************************************)
EXTENDS Naturals, FiniteSets, Functions

CONSTANTS
    Procs,      \* server processes that share one Redis ("shared" mode)
    Solo,       \* the only process of a standalone server
    Modes,      \* the deployments to consider: "shared", "disk"
    Browsers,   \* HTTP clients; each has one request in flight at a time
    Caching,    \* the browsers that keep a response and revalidate it
    Jobs,       \* invalidations that may be in progress at a time
    Tiles,      \* the z/x/y addresses asked for
    MaxEdits,   \* bound: edits of the layer
    MaxClears,  \* bound: manual "clear cache" requests
    MaxFaults   \* bound: backend calls that fail and process crashes

ASSUME TileCacheAssumption ==
    /\ Solo \in Procs
    /\ Caching \subseteq Browsers
    /\ Modes \subseteq {"shared", "disk"}
    /\ MaxEdits \in Nat
    /\ MaxClears \in Nat
    /\ MaxFaults \in Nat

VARIABLES
    mode,      \* "shared": Redis, deferred clear; "disk": one process, immediate
    config,    \* generation of the layer in SQLite
    layer,     \* layer[p]: generation in the catalog of process p
    counter,   \* the layer version kept by the backend
    cut,       \* disk: the version file is truncated and not yet rewritten
    cache,     \* the cached tiles: a function from addresses to bodies
    request,   \* request[b]: the tile request of browser b
    copy,      \* copy[b]: the response browser b keeps, if any
    job,       \* job[j]: invalidation j
    \* history and bounds
    floor,     \* the newest generation whose invalidation has completed
    bumps,     \* invalidations that went past increment_layer_version
    degraded,  \* the counter has misled someone: see PurgedEtagIsDead
    stragglers,\* cached tiles written by a request that outlived a reload
    clears, faults

stateVars == <<mode, config, layer, counter, cut, cache, request, copy, job>>
bounds == <<clears, faults>>
vars == <<stateVars, floor, bumps, degraded, stragglers, bounds>>

Generation == 0..MaxEdits
Active == IF mode = "disk" THEN {Solo} ELSE Procs

idle == [pc |-> "idle"]
Request == [pc : {"version", "lookup", "query"}, proc : Procs, tile : Tiles,
            gen : Generation, version : Nat, era : Nat]
Job == [pc : {"delayed", "bump", "rewrite", "truncated", "list", "delete"}, proc : Procs,
        gen : Generation, read : Nat, todo : SUBSET Tiles]
nothing == [tile |-> {}, version |-> 0, body |-> 0, era |-> 0]
Copy == [tile : {{}} \cup {{k} : k \in Tiles}, version : Nat,
         body : Generation, era : Nat]

Init ==
    /\ mode \in Modes
    /\ config = 0
    /\ layer = [p \in Procs |-> 0]
    /\ counter = 0
    /\ cut = FALSE
    /\ cache = [k \in {} |-> 0]
    /\ request = [b \in Browsers |-> idle]
    /\ copy = [b \in Browsers |-> nothing]
    /\ job = [j \in Jobs |-> idle]
    /\ floor = 0
    /\ bumps = 0
    /\ degraded = FALSE
    /\ stragglers = {}
    /\ clears = 0
    /\ faults = 0

Fault == faults < MaxFaults /\ faults' = faults + 1

Cached(k) == k \in DOMAIN cache

\* A write that replaces the layer's other tiles.
PutAlone(k, body) == [u \in {k} |-> body]

\* One SET, or one file.
Put(k, body) == [u \in DOMAIN cache \cup {k} |-> IF u = k THEN body ELSE cache[u]]

-----------------------------------------------------------------------------
(***************************************************************************)
(* Tile requests: get_single_layer_tile and the get_tile it calls.         *)
(***************************************************************************)

\* The published layer is cloned out of the catalog; every later step of the
\* request uses the clone.
Start(b, p, k) ==
    /\ request[b].pc = "idle"
    /\ p \in Active
    /\ request' = [request EXCEPT ![b] =
                    [pc |-> "version", proc |-> p, tile |-> k, gen |-> layer[p],
                     version |-> 0, era |-> 0]]
    /\ UNCHANGED <<mode, config, layer, counter, cut, cache, copy, job,
                   floor, bumps, degraded, stragglers, bounds>>

\* The version a reader of the backend sees: a truncated file parses to 0.
VersionRead == IF cut THEN 0 ELSE counter

\* A handler whose ETag leaves the layer version out.
ForgetVersion(b, v) == copy[b].tile = {request[b].tile}

\* is_not_modified: the browser revalidates the copy it keeps of this tile and
\* its ETag is the one of version v.
IsNotModified(b, v) == copy[b].tile = {request[b].tile} /\ copy[b].version = v

\* The ETag goes into the response; a browser that keeps nothing ignores it.
WithEtag(b, v) ==
    IF b \in Caching
    THEN [request[b] EXCEPT !.pc = "lookup", !.version = v, !.era = bumps]
    ELSE [request[b] EXCEPT !.pc = "lookup"]

\* 304: the browser goes on using its copy.  No cache read, no query.
NotModified(b) ==
    /\ request[b].pc = "version"
    /\ IsNotModified(b, VersionRead)
    /\ request' = [request EXCEPT ![b] = idle]
    /\ degraded' = (degraded \/ cut)
    /\ UNCHANGED <<mode, config, layer, counter, cut, cache, copy, job,
                   floor, bumps, stragglers, bounds>>

\* get_layer_version, and the ETag the response will carry.
ReadVersion(b) ==
    /\ request[b].pc = "version"
    /\ ~IsNotModified(b, VersionRead)
    /\ request' = [request EXCEPT ![b] = WithEtag(b, VersionRead)]
    /\ degraded' = (degraded \/ cut)
    /\ UNCHANGED <<mode, config, layer, counter, cut, cache, copy, job,
                   floor, bumps, stragglers, bounds>>

\* Redis does not answer, or the file cannot be read: get_layer_version returns 0
\* and the request goes on.
VersionUnread(b) ==
    /\ request[b].pc = "version"
    /\ Fault
    /\ degraded' = TRUE
    /\ request' = [request EXCEPT ![b] =
                    IF IsNotModified(b, 0) THEN idle ELSE WithEtag(b, 0)]
    /\ UNCHANGED <<mode, config, layer, counter, cut, cache, copy, job,
                   floor, bumps, stragglers, clears>>

\* 200 with body and ETag: the browser may keep the response.
Respond(b, body) ==
    /\ request' = [request EXCEPT ![b] = idle]
    /\ copy' = IF b \notin Caching THEN copy
               ELSE [copy EXCEPT ![b] =
                        [tile |-> {request[b].tile}, body |-> body,
                         version |-> request[b].version, era |-> request[b].era]]

Hit(b) ==
    /\ request[b].pc = "lookup"
    /\ Cached(request[b].tile)
    /\ Respond(b, cache[request[b].tile])
    /\ UNCHANGED <<mode, config, layer, counter, cut, cache, job,
                   floor, bumps, degraded, stragglers, bounds>>

\* The tile is not cached; the query runs with the configuration of the clone.
Miss(b) ==
    /\ request[b].pc = "lookup"
    /\ ~Cached(request[b].tile)
    /\ request' = [request EXCEPT ![b].pc = "query"]
    /\ UNCHANGED <<mode, config, layer, counter, cut, cache, copy, job,
                   floor, bumps, degraded, stragglers, bounds>>

\* `get_cache(...).await.ok()`: a backend error is a miss.
Unread(b) ==
    /\ request[b].pc = "lookup"
    /\ Fault
    /\ request' = [request EXCEPT ![b].pc = "query"]
    /\ UNCHANGED <<mode, config, layer, counter, cut, cache, copy, job,
                   floor, bumps, degraded, stragglers, clears>>

\* write_tile, then the response.
Store(b) ==
    LET r == request[b] IN
    /\ r.pc = "query"
    /\ cache' = Put(r.tile, r.gen)
    /\ stragglers' = IF r.gen < layer[r.proc] THEN stragglers \cup {r.tile}
                                              ELSE stragglers \ {r.tile}
    /\ Respond(b, r.gen)
    /\ UNCHANGED <<mode, config, layer, counter, cut, job,
                   floor, bumps, degraded, bounds>>

\* The query or write_tile fails: 400, nothing is cached.
StoreFails(b) ==
    /\ request[b].pc = "query"
    /\ Fault
    /\ request' = [request EXCEPT ![b] = idle]
    /\ UNCHANGED <<mode, config, layer, counter, cut, cache, copy, job,
                   floor, bumps, degraded, stragglers, clears>>

-----------------------------------------------------------------------------
(***************************************************************************)
(* Invalidation.                                                           *)
(***************************************************************************)

\* An admin edit handled by process p: row and memory are updated under the
\* catalog lock, then invalidate_layer_tile_cache runs or is scheduled.  The API
\* gives the lock back before; the form of /admin keeps it to the end of a clear
\* that is not deferred, which only takes interleavings away.
EditLayer(j, p) ==
    /\ job[j].pc = "idle"
    /\ p \in Active
    /\ config < MaxEdits
    /\ config' = config + 1
    /\ layer' = [layer EXCEPT ![p] = config + 1]
    /\ job' = [job EXCEPT ![j] =
                [pc |-> IF mode = "shared" THEN "delayed" ELSE "bump",
                 proc |-> p, gen |-> config + 1, read |-> 0, todo |-> {}]]
    /\ UNCHANGED <<mode, counter, cut, cache, request, copy,
                   floor, bumps, degraded, stragglers, bounds>>

\* The admin action "clear cache" is never deferred.
ClearCache(j, p) ==
    /\ job[j].pc = "idle"
    /\ p \in Active
    /\ clears < MaxClears
    /\ clears' = clears + 1
    /\ job' = [job EXCEPT ![j] = [pc |-> "bump", proc |-> p, gen |-> 0,
                                  read |-> 0, todo |-> {}]]
    /\ UNCHANGED <<mode, config, layer, counter, cut, cache, request, copy,
                   floor, bumps, degraded, stragglers, faults>>

\* The watcher of p swaps in the current configuration (module ConfigSync).
Reload(p) ==
    /\ mode = "shared"
    /\ layer[p] < config
    /\ layer' = [layer EXCEPT ![p] = config]
    /\ UNCHANGED <<mode, config, counter, cut, cache, request, copy, job,
                   floor, bumps, degraded, stragglers, bounds>>

\* A clear that is not deferred.
NoDelay(gen) == TRUE

\* What the delay stands for: every process has reloaded the edit.  The code
\* only waits config_watch_interval + cache_invalidation_extra_delay.
PeersConverged(gen) == \A p \in Procs : layer[p] >= gen

\* The spawned task wakes up.
DelayEnds(j) ==
    /\ job[j].pc = "delayed"
    /\ PeersConverged(job[j].gen)
    /\ job' = [job EXCEPT ![j].pc = "bump"]
    /\ UNCHANGED <<mode, config, layer, counter, cut, cache, request, copy,
                   floor, bumps, degraded, stragglers, bounds>>

\* An increment that is lost.
LostIncrement == counter

\* Redis: INCR is atomic.
Increment == counter + 1

IncrementVersion(j) ==
    /\ job[j].pc = "bump"
    /\ mode = "shared"
    /\ counter' = Increment
    /\ bumps' = bumps + 1
    /\ job' = [job EXCEPT ![j].pc = "list"]
    /\ UNCHANGED <<mode, config, layer, cut, cache, request, copy,
                   floor, degraded, stragglers, bounds>>

\* INCR fails, or the version file cannot be written, and may stay truncated: the
\* error is dropped and the clear goes on.
IncrementLost(j) ==
    /\ job[j].pc \in {"bump", "rewrite", "truncated"}
    /\ Fault
    /\ bumps' = bumps + 1
    /\ degraded' = TRUE
    /\ job' = [job EXCEPT ![j].pc = "list"]
    /\ UNCHANGED <<mode, config, layer, counter, cut, cache, request, copy,
                   floor, stragglers, clears>>

\* Disk: the file is read here, truncated by Truncate and rewritten by Rewrite.
ReadCounter(j) ==
    /\ job[j].pc = "bump"
    /\ mode = "disk"
    /\ job' = [job EXCEPT ![j].pc = "rewrite", ![j].read = VersionRead]
    /\ degraded' = (degraded \/ cut
                     \/ \E i \in Jobs \ {j} : job[i].pc \in {"rewrite", "truncated"})
    /\ UNCHANGED <<mode, config, layer, counter, cut, cache, request, copy,
                   floor, bumps, stragglers, bounds>>

\* The file is there, but reading it fails: the counter starts again at 0.
CounterUnread(j) ==
    /\ job[j].pc = "bump"
    /\ mode = "disk"
    /\ Fault
    /\ degraded' = TRUE
    /\ job' = [job EXCEPT ![j].pc = "rewrite", ![j].read = 0]
    /\ UNCHANGED <<mode, config, layer, counter, cut, cache, request, copy,
                   floor, bumps, stragglers, clears>>

Truncate(j) ==
    /\ job[j].pc = "rewrite"
    /\ cut' = TRUE
    /\ job' = [job EXCEPT ![j].pc = "truncated"]
    /\ UNCHANGED <<mode, config, layer, counter, cache, request, copy,
                   floor, bumps, degraded, stragglers, bounds>>

Rewrite(j) ==
    /\ job[j].pc = "truncated"
    /\ cut' = FALSE
    /\ counter' = job[j].read + 1
    /\ bumps' = bumps + 1
    /\ job' = [job EXCEPT ![j].pc = "list"]
    /\ UNCHANGED <<mode, config, layer, cache, request, copy,
                   floor, degraded, stragglers, bounds>>

\* KEYS {layer}:* , or the entries of the layer's directory.
List(j) ==
    /\ job[j].pc = "list"
    /\ job' = [job EXCEPT ![j].pc = "delete", ![j].todo = DOMAIN cache]
    /\ UNCHANGED <<mode, config, layer, counter, cut, cache, request, copy,
                   floor, bumps, degraded, stragglers, bounds>>

\* One DEL, or one unlink.
Delete(j, k) ==
    /\ job[j].pc = "delete"
    /\ k \in job[j].todo
    /\ cache' = Restrict(cache, DOMAIN cache \ {k})
    /\ stragglers' = stragglers \ {k}
    /\ job' = [job EXCEPT ![j].todo = @ \ {k}]
    /\ UNCHANGED <<mode, config, layer, counter, cut, request, copy,
                   floor, bumps, degraded, bounds>>

\* An invalidation that reports success when it has only listed the tiles.
Ignore(todo) == TRUE

AllDeleted(todo) == todo = {}

Finish(j) ==
    /\ job[j].pc = "delete"
    /\ AllDeleted(job[j].todo)
    /\ floor' = IF job[j].gen > floor THEN job[j].gen ELSE floor
    /\ job' = [job EXCEPT ![j] = idle]
    /\ UNCHANGED <<mode, config, layer, counter, cut, cache, request, copy,
                   bumps, degraded, stragglers, bounds>>

\* KEYS or DEL fails: the admin sees an error, or the log a warning; the tiles
\* that are left stay.
ClearFails(j) ==
    /\ job[j].pc \in {"list", "delete"}
    /\ Fault
    /\ job' = [job EXCEPT ![j] = idle]
    /\ UNCHANGED <<mode, config, layer, counter, cut, cache, request, copy,
                   floor, bumps, degraded, stragglers, clears>>

-----------------------------------------------------------------------------
\* A tile outlives max_cache_age.
Expire(k) ==
    /\ Cached(k)
    /\ cache' = Restrict(cache, DOMAIN cache \ {k})
    /\ stragglers' = stragglers \ {k}
    /\ UNCHANGED <<mode, config, layer, counter, cut, request, copy, job,
                   floor, bumps, degraded, bounds>>

\* Process p dies and starts again: its requests and its invalidations, the
\* sleeping ones too, are gone; the catalog is read from SQLite.  The layer flag
\* delete_cache_on_start makes initialize_cache delete the tiles in Redis; it
\* leaves the version alone, and on disk it looks for a directory that is named
\* after the layer and not after the layer key.
Crash(p) ==
    /\ p \in Active
    /\ Fault
    /\ layer' = [layer EXCEPT ![p] = config]
    /\ request' = [b \in Browsers |->
                    IF request[b].pc # "idle" /\ request[b].proc = p
                    THEN idle ELSE request[b]]
    /\ job' = [j \in Jobs |-> IF job[j].pc # "idle" /\ job[j].proc = p
                              THEN idle ELSE job[j]]
    /\ \/ UNCHANGED <<cache, stragglers>>
       \/ mode = "shared" /\ cache' = [k \in {} |-> 0] /\ stragglers' = {}
    /\ UNCHANGED <<mode, config, counter, cut, copy, floor, bumps, degraded, clears>>

-----------------------------------------------------------------------------
BrowserStep(b) ==
    \/ \E p \in Procs, k \in Tiles : Start(b, p, k)
    \/ NotModified(b)
    \/ ReadVersion(b)
    \/ VersionUnread(b)
    \/ Hit(b)
    \/ Miss(b)
    \/ Unread(b)
    \/ Store(b)
    \/ StoreFails(b)

JobStep(j) ==
    \/ \E p \in Procs : EditLayer(j, p) \/ ClearCache(j, p)
    \/ DelayEnds(j)
    \/ IncrementVersion(j)
    \/ IncrementLost(j)
    \/ ReadCounter(j)
    \/ CounterUnread(j)
    \/ Truncate(j)
    \/ Rewrite(j)
    \/ List(j)
    \/ \E k \in Tiles : Delete(j, k)
    \/ Finish(j)
    \/ ClearFails(j)

Next ==
    \/ \E b \in Browsers : BrowserStep(b)
    \/ \E j \in Jobs : JobStep(j)
    \/ \E p \in Procs : Reload(p) \/ Crash(p)
    \/ \E k \in Tiles : Expire(k)

Spec == Init /\ [][Next]_vars

-----------------------------------------------------------------------------
(***************************************************************************)
(* Properties.                                                             *)
(***************************************************************************)

\* Every variable stays in the set of values its Rust counterpart can take.
TypeOK ==
    /\ mode \in Modes
    /\ config \in Generation
    /\ layer \in [Procs -> Generation]
    /\ counter \in Nat
    /\ cut \in BOOLEAN
    /\ DOMAIN cache \subseteq Tiles
    /\ \A k \in DOMAIN cache : cache[k] \in Generation
    /\ request \in [Browsers -> {idle} \cup Request]
    /\ copy \in [Browsers -> Copy]
    /\ job \in [Jobs -> {idle} \cup Job]
    /\ floor \in Generation
    /\ bumps \in Nat
    /\ degraded \in BOOLEAN
    /\ stragglers \subseteq DOMAIN cache
    /\ clears \in 0..MaxClears
    /\ faults \in 0..MaxFaults

\* After the clear that follows an edit, a cached tile of an older configuration
\* can only come from a request that was already under way when its process took
\* the edit over: no tile is forgotten by the listing, by the deletes one at a
\* time, by a second clear or a restart in between, and no lagging process puts
\* one back (invalidate_layer_tile_cache, delete_layer_cache, write_tile).
StaleTilesAreStragglers ==
    \A k \in DOMAIN cache : cache[k] < floor => k \in stragglers

\* A browser that revalidates is not told to go on with a copy whose ETag was
\* issued before an invalidation, as long as the counter works: no increment was
\* dropped or ran beside another one on disk, and no version read fell back to 0
\* (compute_etag, is_not_modified, increment_layer_version).
PurgedEtagIsDead ==
    [][\A b \in Browsers : NotModified(b) /\ ~degraded' => copy[b].era = bumps]_vars

\* Once an invalidation has completed no browser is answered 304 for a copy made
\* with the configuration from before it: the clear "bumps the layer version (so ETags change
\* and clients/QGIS refetch) and removes stale tiles" (main.rs:131-132).
RevalidatedIsFresh ==
    [][\A b \in Browsers : NotModified(b) => copy[b].body >= floor]_vars

=============================================================================
