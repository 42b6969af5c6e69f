--------------------------- MODULE TileCacheProofs ---------------------------
(***************************************************************************)
(* Proofs about the tile cache, for any number of processes, browsers,     *)
(* tiles, invalidations, edits and faults.                                 *)
(***************************************************************************)
EXTENDS TileCache, TLAPS

-----------------------------------------------------------------------------
(***************************************************************************)
(* Type correctness.                                                       *)
(***************************************************************************)

\* A request in flight is a full record, in every field.
LEMMA RequestTyped ==
    ASSUME TypeOK, NEW b \in Browsers, request[b].pc # "idle"
    PROVE  request[b] \in Request
  BY DEF TypeOK, idle

\* So is an invalidation in progress.
LEMMA JobTyped ==
    ASSUME TypeOK, NEW j \in Jobs, job[j].pc # "idle"
    PROVE  job[j] \in Job
  BY DEF TypeOK, idle

\* What a request, an invalidation and a kept response may be changed to.
LEMMA RequestExcept ==
    ASSUME NEW r \in Request, NEW v \in Nat, NEW e \in Nat
    PROVE  /\ [r EXCEPT !.pc = "lookup", !.version = v, !.era = e] \in Request
           /\ [r EXCEPT !.pc = "lookup"] \in Request
           /\ [r EXCEPT !.pc = "query"] \in Request
  BY DEF Request

\* A job changed by EXCEPT is still a job.
LEMMA JobExcept ==
    ASSUME NEW r \in Job, NEW n \in Nat, NEW S \in SUBSET Tiles
    PROVE  /\ [r EXCEPT !.pc = "bump"] \in Job
           /\ [r EXCEPT !.pc = "list"] \in Job
           /\ [r EXCEPT !.pc = "truncated"] \in Job
           /\ [r EXCEPT !.pc = "rewrite", !.read = n] \in Job
           /\ [r EXCEPT !.pc = "delete", !.todo = S] \in Job
           /\ [r EXCEPT !.todo = S] \in Job
  BY DEF Job

\* The version a reader sees is a number.
LEMMA VersionReadTyped == TypeOK => VersionRead \in Nat
  BY DEF TypeOK, VersionRead

\* The active processes are processes.
LEMMA ActiveProcs == Active \subseteq Procs
  BY TileCacheAssumption DEF Active

\* The initial state is well typed.
LEMMA InitTyped == Init => TypeOK
<1> SUFFICES ASSUME Init
             PROVE  TypeOK
  OBVIOUS
<1>1. 0 \in Generation
  BY TileCacheAssumption DEF Generation
<1>2. nothing \in Copy
  BY <1>1 DEF nothing, Copy
<1>3. DOMAIN cache = {}
  BY DEF Init
<1>4. /\ DOMAIN cache \subseteq Tiles
      /\ \A k \in DOMAIN cache : cache[k] \in Generation
      /\ stragglers \subseteq DOMAIN cache
  BY <1>3 DEF Init
<1>5. /\ clears \in 0..MaxClears /\ faults \in 0..MaxFaults
      /\ counter \in Nat /\ bumps \in Nat
  BY TileCacheAssumption DEF Init
<1> mode \in Modes /\ cut \in BOOLEAN /\ degraded \in BOOLEAN
  BY Zenon DEF Init
<1>6. /\ config \in Generation /\ floor \in Generation
      /\ layer \in [Procs -> Generation]
      /\ request \in [Browsers -> {idle} \cup Request]
      /\ copy \in [Browsers -> Copy]
      /\ job \in [Jobs -> {idle} \cup Job]
  BY <1>1, <1>2 DEF Init
<1>7. QED
  BY <1>4, <1>5, <1>6 DEF TypeOK

\* The response a browser keeps is well typed.
LEMMA RespondTyped ==
    ASSUME TypeOK, NEW b \in Browsers, request[b] \in Request,
           NEW body \in Generation, Respond(b, body)
    PROVE  /\ request' \in [Browsers -> {idle} \cup Request]
           /\ copy' \in [Browsers -> Copy]
<1>1. [tile |-> {request[b].tile}, body |-> body,
       version |-> request[b].version, era |-> request[b].era] \in Copy
  BY DEF Copy, Request
<1>2. QED
  BY <1>1 DEF Respond, TypeOK

\* Every step of a tile request keeps the types.
LEMMA BrowserStepTyped ==
    ASSUME TypeOK, NEW b \in Browsers, BrowserStep(b)
    PROVE  TypeOK'
<1> USE TileCacheAssumption
<1>1. ASSUME NEW p \in Procs, NEW k \in Tiles, Start(b, p, k)
      PROVE  TypeOK'
  <2>1. [pc |-> "version", proc |-> p, tile |-> k, gen |-> layer[p],
         version |-> 0, era |-> 0] \in Request
    BY DEF TypeOK, Request
  <2>2. QED
    BY <1>1, <2>1 DEF Start, TypeOK, bounds
<1>2. CASE NotModified(b)
  BY <1>2 DEF NotModified, TypeOK, bounds
<1>3. ASSUME NEW v \in Nat, request[b].pc # "idle"
      PROVE  WithEtag(b, v) \in Request
  <2>1. bumps \in Nat /\ request[b] \in Request
    BY <1>3, RequestTyped DEF TypeOK
  <2>2. QED
    BY <2>1, RequestExcept DEF WithEtag
<1>4. CASE ReadVersion(b)
  <2>1. WithEtag(b, VersionRead) \in Request
    BY <1>3, <1>4, VersionReadTyped DEF ReadVersion
  <2>2. QED
    BY <1>4, <2>1 DEF ReadVersion, TypeOK, bounds
<1>5. CASE VersionUnread(b)
  <2>1. WithEtag(b, 0) \in Request
    BY <1>3, <1>5 DEF VersionUnread
  <2>2. QED
    BY <1>5, <2>1 DEF VersionUnread, Fault, TypeOK
<1>6. CASE Hit(b)
  <2>1. request[b] \in Request /\ cache[request[b].tile] \in Generation
    BY <1>6, RequestTyped DEF Hit, Cached, TypeOK
  <2>2. /\ request' \in [Browsers -> {idle} \cup Request]
        /\ copy' \in [Browsers -> Copy]
    BY <1>6, <2>1, RespondTyped DEF Hit
  <2>3. QED
    BY <1>6, <2>2 DEF Hit, TypeOK, bounds
<1>7. CASE Miss(b) \/ Unread(b)
  <2>1. request[b] \in Request
    BY <1>7, RequestTyped DEF Miss, Unread
  <2>2. [request[b] EXCEPT !.pc = "query"] \in Request
    BY <2>1, RequestExcept
  <2>3. CASE Miss(b)
    BY <2>2, <2>3 DEF Miss, TypeOK, bounds
  <2>4. CASE Unread(b)
    BY <2>2, <2>4 DEF Unread, Fault, TypeOK
  <2>5. QED
    BY <1>7, <2>3, <2>4
<1>8. CASE Store(b)
  <2>1. /\ request[b] \in Request
        /\ request[b].gen \in Generation
        /\ request[b].tile \in Tiles
    BY <1>8, RequestTyped DEF Store, Request
  <2>2. /\ request' \in [Browsers -> {idle} \cup Request]
        /\ copy' \in [Browsers -> Copy]
    BY <1>8, <2>1, RespondTyped DEF Store
  <2>3. /\ DOMAIN cache' = DOMAIN cache \cup {request[b].tile}
        /\ \A k \in DOMAIN cache' : cache'[k] \in Generation
    BY <1>8, <2>1 DEF Store, Put, TypeOK
  <2>4. stragglers' \subseteq DOMAIN cache'
    BY <1>8, <2>3 DEF Store, TypeOK
  <2>5. QED
    BY <1>8, <2>1, <2>2, <2>3, <2>4 DEF Store, TypeOK, bounds
<1>9. CASE StoreFails(b)
  BY <1>9 DEF StoreFails, Fault, TypeOK
<1>10. QED
  BY <1>1, <1>2, <1>4, <1>5, <1>6, <1>7, <1>8, <1>9 DEF BrowserStep

\* Taking a tile out of the cache keeps what is said of the rest.
LEMMA RestrictTyped ==
    ASSUME TypeOK, NEW k \in Tiles,
           cache' = Restrict(cache, DOMAIN cache \ {k}),
           stragglers' = stragglers \ {k}
    PROVE  /\ DOMAIN cache' = DOMAIN cache \ {k}
           /\ \A u \in DOMAIN cache' : cache'[u] = cache[u]
           /\ DOMAIN cache' \subseteq Tiles
           /\ \A u \in DOMAIN cache' : cache'[u] \in Generation
           /\ stragglers' \subseteq DOMAIN cache'
  BY DEF Restrict, TypeOK

\* Every step of an invalidation keeps the types.
LEMMA JobStepTyped ==
    ASSUME TypeOK, NEW j \in Jobs, JobStep(j)
    PROVE  TypeOK'
<1> USE TileCacheAssumption
<1>1. ASSUME NEW p \in Procs, EditLayer(j, p)
      PROVE  TypeOK'
  <2>1. config + 1 \in Generation
    BY <1>1 DEF EditLayer, TypeOK, Generation
  <2>2. \A c \in {"delayed", "bump"} :
            [pc |-> c, proc |-> p, gen |-> config + 1, read |-> 0, todo |-> {}] \in Job
    BY <2>1 DEF Job
  <2>3. job' \in [Jobs -> {idle} \cup Job]
    BY <1>1, <2>2 DEF EditLayer, TypeOK
  <2>4. QED
    BY <1>1, <2>1, <2>3 DEF EditLayer, TypeOK, bounds
<1>2. ASSUME NEW p \in Procs, ClearCache(j, p)
      PROVE  TypeOK'
  <2>1. [pc |-> "bump", proc |-> p, gen |-> 0, read |-> 0, todo |-> {}] \in Job
    BY DEF Job, Generation
  <2>2. QED
    BY <1>2, <2>1 DEF ClearCache, TypeOK
<1>3. CASE job[j].pc # "idle"
  <2>1. job[j] \in Job /\ counter \in Nat /\ bumps \in Nat
    BY <1>3, JobTyped DEF TypeOK
  <2>2. CASE DelayEnds(j)
    <3>1. [job[j] EXCEPT !.pc = "bump"] \in Job
      BY <2>1, JobExcept
    <3>2. QED
      BY <2>2, <3>1 DEF DelayEnds, TypeOK, bounds
  <2>3. CASE IncrementVersion(j) \/ IncrementLost(j)
    <3>1. [job[j] EXCEPT !.pc = "list"] \in Job
      BY <2>1, JobExcept
    <3>2. CASE IncrementVersion(j)
      BY <2>1, <3>1, <3>2 DEF IncrementVersion, Increment, TypeOK, bounds
    <3>3. CASE IncrementLost(j)
      BY <2>1, <3>1, <3>3 DEF IncrementLost, Fault, TypeOK
    <3>4. QED
      BY <2>3, <3>2, <3>3
  <2>4. CASE ReadCounter(j)
    <3>1. [job[j] EXCEPT !.pc = "rewrite", !.read = VersionRead] \in Job
      BY <2>1, JobExcept, VersionReadTyped
    <3>2. degraded' \in BOOLEAN
      BY <2>4 DEF ReadCounter
    <3>3. QED
      BY <2>4, <3>1, <3>2 DEF ReadCounter, TypeOK, bounds
  <2>5. CASE Truncate(j)
    <3>1. [job[j] EXCEPT !.pc = "truncated"] \in Job
      BY <2>1, JobExcept
    <3>2. QED
      BY <2>5, <3>1 DEF Truncate, TypeOK, bounds
  <2>6. CASE Rewrite(j)
    <3>1. [job[j] EXCEPT !.pc = "list"] \in Job
      BY <2>1, JobExcept
    <3>2. job[j].read + 1 \in Nat /\ bumps + 1 \in Nat
      BY <2>1 DEF Job
    <3>3. QED
      BY <2>6, <3>1, <3>2 DEF Rewrite, TypeOK, bounds
  <2>7. CASE List(j)
    <3>1. DOMAIN cache \in SUBSET Tiles
      BY DEF TypeOK
    <3>2. [job[j] EXCEPT !.pc = "delete", !.todo = DOMAIN cache] \in Job
      BY <2>1, <3>1, JobExcept
    <3>3. QED
      BY <2>7, <3>2 DEF List, TypeOK, bounds
  <2>8. ASSUME NEW k \in Tiles, Delete(j, k)
        PROVE  TypeOK'
    <3>1. job[j].todo \ {k} \in SUBSET Tiles
      BY <2>1 DEF Job
    <3>2. [job[j] EXCEPT !.todo = @ \ {k}] \in Job
      BY <2>1, <3>1, JobExcept
    <3>3. /\ DOMAIN cache' \subseteq Tiles
          /\ \A u \in DOMAIN cache' : cache'[u] \in Generation
          /\ stragglers' \subseteq DOMAIN cache'
      BY <2>8, RestrictTyped DEF Delete
    <3>4. job' \in [Jobs -> {idle} \cup Job]
      BY <2>8, <3>2 DEF Delete, TypeOK
    <3>5. QED
      BY <2>8, <3>3, <3>4 DEF Delete, TypeOK, bounds
  <2>9. CASE Finish(j)
    <3>1. floor' \in Generation
      BY <2>1, <2>9 DEF Finish, TypeOK, Job
    <3>2. QED
      BY <2>9, <3>1 DEF Finish, TypeOK, bounds
  <2>10. CASE ClearFails(j)
    BY <2>10 DEF ClearFails, Fault, TypeOK
  <2>11. CASE CounterUnread(j)
    <3>1. [job[j] EXCEPT !.pc = "rewrite", !.read = 0] \in Job
      BY <2>1, JobExcept
    <3>2. QED
      BY <2>11, <3>1 DEF CounterUnread, Fault, TypeOK
  <2>12. QED
    BY <1>1, <1>2, <2>2, <2>3, <2>4, <2>5, <2>6, <2>7, <2>8, <2>9, <2>10, <2>11 DEF JobStep
<1>4. QED
  BY <1>1, <1>2, <1>3 DEF JobStep, DelayEnds, IncrementVersion, IncrementLost,
     ReadCounter, CounterUnread, Truncate, Rewrite, List, Delete, Finish, ClearFails

\* A reload, a crash and an expiry keep the types.
LEMMA ProcStepTyped ==
    ASSUME TypeOK, NEW p \in Procs, Reload(p) \/ Crash(p)
    PROVE  TypeOK'
<1> USE TileCacheAssumption
<1>1. CASE Reload(p)
  BY <1>1 DEF Reload, TypeOK, bounds
<1>2. CASE Crash(p)
  <2>1. /\ request' \in [Browsers -> {idle} \cup Request]
        /\ job' \in [Jobs -> {idle} \cup Job]
        /\ layer' \in [Procs -> Generation]
    BY <1>2 DEF Crash, TypeOK
  <2>2. /\ DOMAIN cache' \subseteq Tiles
        /\ \A u \in DOMAIN cache' : cache'[u] \in Generation
        /\ stragglers' \subseteq DOMAIN cache'
    BY <1>2 DEF Crash, TypeOK
  <2>3. QED
    BY <1>2, <2>1, <2>2 DEF Crash, Fault, TypeOK
<1>3. QED
  BY <1>1, <1>2

\* An expiry keeps every variable in its set.
LEMMA ExpireTyped ==
    ASSUME TypeOK, NEW k \in Tiles, Expire(k)
    PROVE  TypeOK'
  BY RestrictTyped DEF Expire, TypeOK, bounds

\* Every reachable state is well typed.
THEOREM TypeCorrect == Spec => []TypeOK
<1>1. TypeOK /\ [Next]_vars => TypeOK'
  <2> SUFFICES ASSUME TypeOK, [Next]_vars
               PROVE  TypeOK'
    OBVIOUS
  <2>1. CASE UNCHANGED vars
    BY <2>1 DEF vars, stateVars, bounds, TypeOK
  <2>2. QED
    BY <2>1, BrowserStepTyped, JobStepTyped, ProcStepTyped, ExpireTyped DEF Next
<1>2. QED
  BY <1>1, InitTyped, PTL DEF Spec

-----------------------------------------------------------------------------
(***************************************************************************)
(* Stale tiles.                                                            *)
(***************************************************************************)

\* A request runs on an active process, with a configuration that process has
\* had: a process never goes back, not even when it restarts.
RequestsLag ==
    \A b \in Browsers : request[b].pc # "idle" =>
        request[b].proc \in Active /\ request[b].gen <= layer[request[b].proc]

\* No process is ahead of SQLite; without a cluster none is behind it.
ProcsLag ==
    \A p \in Active : layer[p] <= config /\ (mode = "disk" => layer[p] = config)

\* Every process has taken over the edits that are cleared or being cleared.
ClearedIsLoaded ==
    \A p \in Active :
        /\ floor <= layer[p]
        /\ \A j \in Jobs : job[j].pc \notin {"idle", "delayed"} => job[j].gen <= layer[p]

\* An edit that is to be cleared has been made.
JobsLag ==
    \A j \in Jobs : job[j].pc # "idle" => job[j].gen <= config

\* After the listing, a tile older than the edit is either still to be deleted
\* or was written by a straggler.
ListedOrStraggler ==
    \A j \in Jobs : job[j].pc = "delete" =>
        \A k \in DOMAIN cache :
            cache[k] < job[j].gen => k \in job[j].todo \/ k \in stragglers

IInv ==
    /\ TypeOK
    /\ RequestsLag
    /\ ProcsLag
    /\ ClearedIsLoaded
    /\ JobsLag
    /\ ListedOrStraggler
    /\ StaleTilesAreStragglers
\* The invariant holds initially.
LEMMA InitInv == Init => IInv
<1> SUFFICES ASSUME Init
             PROVE  IInv
  OBVIOUS
<1>1. TypeOK
  BY InitTyped
<1>2. \A p \in Active : layer[p] = 0 /\ config = 0 /\ floor = 0
  BY ActiveProcs DEF Init
<1>3. (\A b \in Browsers : request[b].pc = "idle") /\ (\A j \in Jobs : job[j].pc = "idle")
  BY DEF Init, idle
<1>4. DOMAIN cache = {}
  BY DEF Init
<1>5. RequestsLag /\ ProcsLag /\ ClearedIsLoaded /\ JobsLag
  BY <1>2, <1>3 DEF RequestsLag, ProcsLag, ClearedIsLoaded, JobsLag
<1>6. ListedOrStraggler /\ StaleTilesAreStragglers
  BY <1>4 DEF ListedOrStraggler, StaleTilesAreStragglers
<1>7. QED
  BY <1>1, <1>5, <1>6 DEF IInv

\* The numbers that are compared are numbers.
LEMMA Numbers ==
    ASSUME TypeOK
    PROVE  /\ config \in Nat /\ floor \in Nat
           /\ \A p \in Procs : layer[p] \in Nat
           /\ \A k \in DOMAIN cache : cache[k] \in Nat
           /\ \A j \in Jobs : job[j].pc # "idle" => job[j].gen \in Nat
           /\ \A b \in Browsers : request[b].pc # "idle" => request[b].gen \in Nat
<1>1. Generation \subseteq Nat
  BY DEF Generation
<1>2. QED
  BY <1>1, RequestTyped, JobTyped DEF TypeOK, Request, Job

\* A step that only moves requests on keeps the invariant.
LEMMA RequestsOnly ==
    ASSUME IInv, TypeOK', RequestsLag',
           UNCHANGED <<mode, config, layer, cache, job, floor, stragglers>>
    PROVE  IInv'
<1>1. Active' = Active
  BY DEF Active
<1>2. ProcsLag' /\ ClearedIsLoaded' /\ JobsLag'
  BY <1>1 DEF IInv, ProcsLag, ClearedIsLoaded, JobsLag
<1>3. ListedOrStraggler' /\ StaleTilesAreStragglers'
  BY DEF IInv, ListedOrStraggler, StaleTilesAreStragglers
<1>4. QED
  BY <1>2, <1>3 DEF IInv

\* Every step of a tile request keeps it.  Store may leave an old tile behind,
\* and marks it when its process has moved on since the request began.
LEMMA BrowserStepInv ==
    ASSUME IInv, NEW b \in Browsers, BrowserStep(b)
    PROVE  IInv'
<1>1. TypeOK /\ TypeOK'
  BY BrowserStepTyped DEF IInv
<1>2. ASSUME NEW p \in Procs, NEW k \in Tiles, Start(b, p, k)
      PROVE  IInv'
  <2>1. p \in Active /\ layer[p] <= layer[p]
    BY <1>1, <1>2, Numbers DEF Start
  <2>2. \A c \in Browsers : c # b => request'[c] = request[c]
    BY <1>1, <1>2 DEF Start, TypeOK
  <2>3. request'[b].proc = p /\ request'[b].gen = layer[p]
    BY <1>1, <1>2 DEF Start, TypeOK
  <2>4. UNCHANGED <<mode, config, layer, cache, job, floor, stragglers>>
    BY <1>2 DEF Start
  <2>5. RequestsLag'
    BY <2>1, <2>2, <2>3, <2>4 DEF IInv, RequestsLag, Active
  <2>6. QED
    BY <1>1, <2>4, <2>5, RequestsOnly
<1>3. ASSUME ~(\E p \in Procs, k \in Tiles : Start(b, p, k))
      PROVE  /\ UNCHANGED <<mode, config, layer, job, floor>>
             /\ request[b].pc # "idle"
             /\ \A c \in Browsers : c # b => request'[c] = request[c]
             /\ request'[b].pc # "idle" => /\ request'[b].proc = request[b].proc
                                           /\ request'[b].gen = request[b].gen
  <2>1. /\ UNCHANGED <<mode, config, layer, job, floor>>
        /\ request[b].pc # "idle"
    BY <1>3 DEF BrowserStep, NotModified, ReadVersion, VersionUnread, Hit, Miss, Unread,
       Store, StoreFails
  <2>2. request[b] \in Request
    BY <1>1, <2>1, RequestTyped
  <2>3. \E r : request' = [request EXCEPT ![b] = r]
    BY <1>3 DEF BrowserStep, NotModified, ReadVersion, VersionUnread, Hit, Miss, Unread,
       Store, StoreFails, Respond
  <2>4. \/ request'[b] = idle
        \/ \E v : request'[b] = WithEtag(b, v)
        \/ request'[b] = [request[b] EXCEPT !.pc = "query"]
    BY <1>1, <1>3 DEF BrowserStep, NotModified, ReadVersion, VersionUnread, Hit, Miss,
       Unread, Store, StoreFails, Respond, TypeOK
  <2>5. request'[b].pc # "idle" => /\ request'[b].proc = request[b].proc
                                  /\ request'[b].gen = request[b].gen
    <3>1. CASE request'[b] = idle
      BY <3>1 DEF idle
    <3>2. ASSUME NEW v, request'[b] = WithEtag(b, v)
          PROVE  /\ request'[b].proc = request[b].proc
                 /\ request'[b].gen = request[b].gen
      BY <2>2, <3>2 DEF WithEtag, Request
    <3>3. CASE request'[b] = [request[b] EXCEPT !.pc = "query"]
      BY <2>2, <3>3 DEF Request
    <3>4. QED
      BY <2>4, <3>1, <3>2, <3>3
  <2>6. QED
    BY <1>1, <2>1, <2>3, <2>5 DEF TypeOK
<1>4. ASSUME ~(\E p \in Procs, k \in Tiles : Start(b, p, k))
      PROVE  RequestsLag'
  BY <1>3, <1>4 DEF IInv, RequestsLag, Active
<1>5. CASE Store(b)
  <2>1. ~(\E p \in Procs, k \in Tiles : Start(b, p, k))
    BY <1>5 DEF Start, Store
  <2> DEFINE r == request[b]
  <2>2. /\ cache' = Put(r.tile, r.gen)
        /\ stragglers' = IF r.gen < layer[r.proc] THEN stragglers \cup {r.tile}
                                                  ELSE stragglers \ {r.tile}
        /\ UNCHANGED <<mode, config, layer, job, floor>>
    BY <1>5 DEF Store
  <2>3. /\ r.proc \in Active /\ r.proc \in Procs /\ r.gen <= layer[r.proc]
        /\ r.gen \in Nat /\ layer[r.proc] \in Nat
    BY <1>1, <1>5, Numbers, ActiveProcs DEF Store, IInv, RequestsLag
  <2>4. \A k \in DOMAIN cache' : cache'[k] = IF k = r.tile THEN r.gen ELSE cache[k]
    BY <2>2 DEF Put
  <2>5. \A k \in DOMAIN cache' : k # r.tile =>
            k \in DOMAIN cache /\ (k \in stragglers' <=> k \in stragglers)
    BY <2>2 DEF Put
  <2>6. r.gen < layer[r.proc] => r.tile \in stragglers'
    BY <2>2
  <2>7. ProcsLag' /\ ClearedIsLoaded' /\ JobsLag'
    BY <2>2 DEF IInv, ProcsLag, ClearedIsLoaded, JobsLag, Active
  <2>8. ListedOrStraggler'
    <3> SUFFICES ASSUME NEW j \in Jobs, job[j].pc = "delete", NEW k \in DOMAIN cache',
                        cache'[k] < job[j].gen
                 PROVE  k \in job[j].todo \/ k \in stragglers'
      BY <2>2 DEF ListedOrStraggler
    <3>1. CASE k # r.tile
      BY <2>4, <2>5, <3>1 DEF IInv, ListedOrStraggler
    <3>2. CASE k = r.tile
      <4>1. job[j].gen <= layer[r.proc] /\ job[j].gen \in Nat
        BY <1>1, <2>3, Numbers DEF IInv, ClearedIsLoaded
      <4>2. QED
        BY <2>3, <2>4, <2>6, <3>2, <4>1
    <3>3. QED
      BY <3>1, <3>2
  <2>9. StaleTilesAreStragglers'
    <3> SUFFICES ASSUME NEW k \in DOMAIN cache', cache'[k] < floor
                 PROVE  k \in stragglers'
      BY <2>2 DEF StaleTilesAreStragglers
    <3>1. CASE k # r.tile
      BY <2>4, <2>5, <3>1 DEF IInv, StaleTilesAreStragglers
    <3>2. CASE k = r.tile
      <4>1. floor <= layer[r.proc] /\ floor \in Nat
        BY <1>1, <2>3, Numbers DEF IInv, ClearedIsLoaded
      <4>2. QED
        BY <2>3, <2>4, <2>6, <3>2, <4>1
    <3>3. QED
      BY <3>1, <3>2
  <2>10. QED
    BY <1>1, <1>4, <2>1, <2>7, <2>8, <2>9 DEF IInv
<1>6. ASSUME ~Store(b), ~(\E p \in Procs, k \in Tiles : Start(b, p, k))
      PROVE  IInv'
  <2>1. UNCHANGED <<mode, config, layer, cache, job, floor, stragglers>>
    BY <1>6 DEF BrowserStep, NotModified, ReadVersion, VersionUnread, Hit, Miss, Unread,
       StoreFails
  <2>2. QED
    BY <1>1, <1>4, <1>6, <2>1, RequestsOnly
<1>7. QED
  BY <1>2, <1>5, <1>6

\* Every step of an invalidation keeps it: the listing names every cached tile,
\* each delete takes one out, and what is written meanwhile is marked.
LEMMA JobStepInv ==
    ASSUME IInv, NEW j \in Jobs, JobStep(j)
    PROVE  IInv'
<1>1. TypeOK /\ TypeOK'
  BY JobStepTyped DEF IInv
<1>2. Active' = Active /\ Active \subseteq Procs
  BY ActiveProcs DEF JobStep, EditLayer, ClearCache, DelayEnds, IncrementVersion,
     IncrementLost, ReadCounter, CounterUnread, Truncate, Rewrite, List, Delete, Finish, ClearFails, Active
<1>3. ASSUME NEW p \in Procs, EditLayer(j, p)
      PROVE  IInv'
  <2>1. /\ UNCHANGED <<mode, cache, request, floor, stragglers>>
        /\ config' = config + 1 /\ p \in Active
        /\ \A q \in Procs : layer'[q] = IF q = p THEN config + 1 ELSE layer[q]
        /\ \A i \in Jobs : i # j => job'[i] = job[i]
        /\ job'[j].pc = (IF mode = "shared" THEN "delayed" ELSE "bump")
        /\ job'[j].gen = config + 1
    BY <1>1, <1>3 DEF EditLayer, TypeOK
  <2>2. /\ config \in Nat /\ floor \in Nat
        /\ \A q \in Active : layer[q] \in Nat /\ layer[q] <= config
    BY <1>1, <1>2, Numbers DEF IInv, ProcsLag
  <2>3. RequestsLag'
    <3> SUFFICES ASSUME NEW b \in Browsers, request[b].pc # "idle"
                 PROVE  /\ request[b].proc \in Active
                        /\ request[b].gen <= layer'[request[b].proc]
      BY <1>2, <2>1 DEF RequestsLag
    <3>1. /\ request[b].proc \in Active /\ request[b].gen <= layer[request[b].proc]
          /\ request[b].gen \in Nat
      BY <1>1, Numbers DEF IInv, RequestsLag
    <3>2. QED
      BY <1>2, <2>1, <2>2, <3>1
  <2>4. mode \in {"shared", "disk"} /\ (mode = "disk" => Active = {Solo})
    BY <1>1, TileCacheAssumption DEF TypeOK, Active
  <2>5. ProcsLag'
    BY <1>2, <2>1, <2>2, <2>4 DEF IInv, ProcsLag
  <2>6. ClearedIsLoaded'
    <3>1. \A q \in Active : layer'[q] >= layer[q] /\ layer'[q] \in Nat
      BY <1>2, <2>1, <2>2
    <3>2. \A q \in Active : floor <= layer'[q]
      BY <2>2, <3>1 DEF IInv, ClearedIsLoaded
    <3>3. ASSUME NEW i \in Jobs, i # j, NEW q \in Active,
                 job[i].pc \notin {"idle", "delayed"}
          PROVE  job[i].gen <= layer'[q]
      <4>1. job[i].gen <= layer[q] /\ job[i].gen \in Nat
        BY <1>1, <3>3, Numbers DEF IInv, ClearedIsLoaded
      <4>2. QED
        BY <2>2, <3>1, <4>1
    <3>4. ASSUME NEW q \in Active, job'[j].pc \notin {"idle", "delayed"}
          PROVE  job'[j].gen <= layer'[q]
      BY <1>2, <2>1, <2>2, <2>4, <3>4
    <3>5. QED
      BY <1>2, <2>1, <3>2, <3>3, <3>4 DEF ClearedIsLoaded
  <2>7. JobsLag'
    <3>1. ASSUME NEW i \in Jobs, i # j, job[i].pc # "idle"
          PROVE  job[i].gen <= config + 1
      BY <1>1, <2>2, <3>1, Numbers DEF IInv, JobsLag
    <3>2. QED
      BY <2>1, <2>2, <3>1 DEF JobsLag
  <2>8. ListedOrStraggler' /\ StaleTilesAreStragglers'
    BY <2>1 DEF IInv, ListedOrStraggler, StaleTilesAreStragglers
  <2>9. QED
    BY <1>1, <2>3, <2>5, <2>6, <2>7, <2>8 DEF IInv
<1>4. ASSUME NEW p \in Procs, ClearCache(j, p)
      PROVE  IInv'
  <2>1. /\ UNCHANGED <<mode, config, layer, cache, request, floor, stragglers>>
        /\ \A i \in Jobs : i # j => job'[i] = job[i]
        /\ job'[j].pc = "bump" /\ job'[j].gen = 0
    BY <1>1, <1>4 DEF ClearCache, TypeOK
  <2>2. config \in Nat /\ \A q \in Active : layer[q] \in Nat
    BY <1>1, <1>2, Numbers
  <2>3. RequestsLag' /\ ProcsLag'
    BY <1>2, <2>1 DEF IInv, RequestsLag, ProcsLag
  <2>4. ClearedIsLoaded' /\ JobsLag'
    BY <1>2, <2>1, <2>2 DEF IInv, ClearedIsLoaded, JobsLag
  <2>5. ListedOrStraggler' /\ StaleTilesAreStragglers'
    BY <2>1 DEF IInv, ListedOrStraggler, StaleTilesAreStragglers
  <2>6. QED
    BY <1>1, <2>3, <2>4, <2>5 DEF IInv
<1>5. CASE job[j].pc # "idle"
  <2>1. job[j] \in Job /\ job[j].gen \in Nat /\ job[j].gen <= config
    BY <1>1, <1>5, JobTyped, Numbers DEF IInv, JobsLag
  <2>2. CASE DelayEnds(j)
    <3>1. /\ UNCHANGED <<mode, config, layer, cache, request, floor, stragglers>>
          /\ \A i \in Jobs : i # j => job'[i] = job[i]
          /\ job'[j].pc = "bump" /\ job'[j].gen = job[j].gen
          /\ PeersConverged(job[j].gen)
      BY <1>1, <2>1, <2>2 DEF DelayEnds, TypeOK, Job
    <3>2. \A q \in Active : job[j].gen <= layer[q]
      BY <1>1, <1>2, <2>1, <3>1, Numbers DEF PeersConverged
    <3>3. RequestsLag' /\ ProcsLag'
      BY <1>2, <3>1 DEF IInv, RequestsLag, ProcsLag
    <3>4. ClearedIsLoaded' /\ JobsLag'
      BY <1>2, <2>1, <3>1, <3>2 DEF IInv, ClearedIsLoaded, JobsLag
    <3>5. ListedOrStraggler' /\ StaleTilesAreStragglers'
      BY <3>1 DEF IInv, ListedOrStraggler, StaleTilesAreStragglers
    <3>6. QED
      BY <1>1, <3>3, <3>4, <3>5 DEF IInv
  <2>3. CASE \/ IncrementVersion(j) \/ IncrementLost(j) \/ ReadCounter(j) \/ CounterUnread(j)
             \/ Truncate(j) \/ Rewrite(j)
    <3>1. /\ UNCHANGED <<mode, config, layer, cache, request, floor, stragglers>>
          /\ job[j].pc \in {"bump", "rewrite", "truncated"}
      BY <2>3 DEF IncrementVersion, IncrementLost, ReadCounter, CounterUnread, Truncate, Rewrite
    <3>2. /\ \A i \in Jobs : i # j => job'[i] = job[i]
          /\ job'[j].pc \in {"rewrite", "truncated", "list"}
          /\ job'[j].gen = job[j].gen
      BY <1>1, <2>1, <2>3
      DEF IncrementVersion, IncrementLost, ReadCounter, CounterUnread, Truncate, Rewrite, TypeOK, Job
    <3>3. RequestsLag' /\ ProcsLag'
      BY <1>2, <3>1 DEF IInv, RequestsLag, ProcsLag
    <3>4. ClearedIsLoaded' /\ JobsLag'
      BY <1>2, <3>1, <3>2 DEF IInv, ClearedIsLoaded, JobsLag
    <3>5. ListedOrStraggler' /\ StaleTilesAreStragglers'
      BY <3>1, <3>2 DEF IInv, ListedOrStraggler, StaleTilesAreStragglers
    <3>6. QED
      BY <1>1, <3>3, <3>4, <3>5 DEF IInv
  <2>4. CASE List(j)
    <3>1. /\ UNCHANGED <<mode, config, layer, cache, request, floor, stragglers>>
          /\ \A i \in Jobs : i # j => job'[i] = job[i]
          /\ job[j].pc = "list" /\ job'[j].gen = job[j].gen
          /\ job'[j].pc = "delete" /\ job'[j].todo = DOMAIN cache
      BY <1>1, <2>1, <2>4 DEF List, TypeOK, Job
    <3>2. RequestsLag' /\ ProcsLag'
      BY <1>2, <3>1 DEF IInv, RequestsLag, ProcsLag
    <3>3. ClearedIsLoaded' /\ JobsLag'
      BY <1>2, <3>1 DEF IInv, ClearedIsLoaded, JobsLag
    <3>4. ListedOrStraggler' /\ StaleTilesAreStragglers'
      BY <3>1 DEF IInv, ListedOrStraggler, StaleTilesAreStragglers
    <3>5. QED
      BY <1>1, <3>2, <3>3, <3>4 DEF IInv
  <2>5. ASSUME NEW k \in Tiles, Delete(j, k)
        PROVE  IInv'
    <3>1. /\ UNCHANGED <<mode, config, layer, request, floor>>
          /\ \A i \in Jobs : i # j => job'[i] = job[i]
          /\ job[j].pc = "delete" /\ job'[j].pc = "delete" /\ job'[j].gen = job[j].gen
          /\ job'[j].todo = job[j].todo \ {k}
          /\ stragglers' = stragglers \ {k}
      BY <1>1, <2>1, <2>5 DEF Delete, TypeOK, Job
    <3>2. /\ DOMAIN cache' = DOMAIN cache \ {k}
          /\ \A u \in DOMAIN cache' : cache'[u] = cache[u]
      BY <1>1, <2>5, RestrictTyped DEF Delete
    <3>3. RequestsLag' /\ ProcsLag'
      BY <1>2, <3>1 DEF IInv, RequestsLag, ProcsLag
    <3>4. ClearedIsLoaded' /\ JobsLag'
      BY <1>2, <3>1 DEF IInv, ClearedIsLoaded, JobsLag
    <3>5. ListedOrStraggler'
      BY <3>1, <3>2 DEF IInv, ListedOrStraggler
    <3>6. StaleTilesAreStragglers'
      BY <3>1, <3>2 DEF IInv, StaleTilesAreStragglers
    <3>7. QED
      BY <1>1, <3>3, <3>4, <3>5, <3>6 DEF IInv
  <2>6. CASE Finish(j)
    <3>1. /\ UNCHANGED <<mode, config, layer, cache, request, stragglers>>
          /\ \A i \in Jobs : i # j => job'[i] = job[i]
          /\ job[j].pc = "delete" /\ job[j].todo = {} /\ job'[j].pc = "idle"
          /\ floor' = IF job[j].gen > floor THEN job[j].gen ELSE floor
      BY <1>1, <2>6 DEF Finish, AllDeleted, TypeOK, idle
    <3>2. RequestsLag' /\ ProcsLag'
      BY <1>2, <3>1 DEF IInv, RequestsLag, ProcsLag
    <3>3. ClearedIsLoaded' /\ JobsLag'
      BY <1>2, <3>1 DEF IInv, ClearedIsLoaded, JobsLag
    <3>4. ListedOrStraggler'
      BY <3>1 DEF IInv, ListedOrStraggler
    <3>5. StaleTilesAreStragglers'
      BY <3>1 DEF IInv, ListedOrStraggler, StaleTilesAreStragglers
    <3>6. QED
      BY <1>1, <3>2, <3>3, <3>4, <3>5 DEF IInv
  <2>7. CASE ClearFails(j)
    <3>1. /\ UNCHANGED <<mode, config, layer, cache, request, floor, stragglers>>
          /\ \A i \in Jobs : i # j => job'[i] = job[i]
          /\ job'[j].pc = "idle"
      BY <1>1, <2>7 DEF ClearFails, TypeOK, idle
    <3>2. RequestsLag' /\ ProcsLag'
      BY <1>2, <3>1 DEF IInv, RequestsLag, ProcsLag
    <3>3. ClearedIsLoaded' /\ JobsLag'
      BY <1>2, <3>1 DEF IInv, ClearedIsLoaded, JobsLag
    <3>4. ListedOrStraggler' /\ StaleTilesAreStragglers'
      BY <3>1 DEF IInv, ListedOrStraggler, StaleTilesAreStragglers
    <3>5. QED
      BY <1>1, <3>2, <3>3, <3>4 DEF IInv
  <2>8. QED
    BY <1>3, <1>4, <2>2, <2>3, <2>4, <2>5, <2>6, <2>7 DEF JobStep
<1>6. QED
  BY <1>3, <1>4, <1>5 DEF JobStep, DelayEnds, IncrementVersion, IncrementLost,
     ReadCounter, CounterUnread, Truncate, Rewrite, List, Delete, Finish, ClearFails

\* A reload and a crash only bring a process up to date; a crash also ends its
\* requests and invalidations.
LEMMA ProcStepInv ==
    ASSUME IInv, NEW p \in Procs, Reload(p) \/ Crash(p)
    PROVE  IInv'
<1>1. TypeOK /\ TypeOK'
  BY ProcStepTyped DEF IInv
<1>2. /\ UNCHANGED <<mode, config, floor>>
      /\ layer' = [layer EXCEPT ![p] = config]
  BY DEF Reload, Crash
<1>3. Active' = Active /\ Active \subseteq Procs
  BY <1>2, ActiveProcs DEF Active
<1>4. ASSUME NEW q \in Active
      PROVE  /\ layer[q] \in Nat /\ layer'[q] \in Nat /\ config \in Nat
             /\ layer[q] <= layer'[q]
             /\ layer'[q] <= config
             /\ (mode = "disk" => layer'[q] = config)
  <2>1. layer[q] \in Nat /\ config \in Nat /\ layer[q] <= config
    BY <1>1, <1>3, Numbers DEF IInv, ProcsLag
  <2>2. mode = "disk" => layer[q] = config
    BY DEF IInv, ProcsLag
  <2>3. layer'[q] = IF q = p THEN config ELSE layer[q]
    BY <1>1, <1>2, <1>3 DEF TypeOK
  <2>4. QED
    BY <2>1, <2>2, <2>3
<1>5. \A j \in Jobs : job'[j] = job[j] \/ job'[j].pc = "idle"
  BY DEF Reload, Crash, idle
<1>6. \A b \in Browsers : request'[b] = request[b] \/ request'[b].pc = "idle"
  BY DEF Reload, Crash, idle
<1>7. \/ UNCHANGED <<cache, stragglers>>
      \/ DOMAIN cache' = {}
  BY DEF Reload, Crash
<1>8. RequestsLag'
  <2> SUFFICES ASSUME NEW b \in Browsers, request'[b].pc # "idle"
               PROVE  /\ request'[b].proc \in Active
                      /\ request'[b].gen <= layer'[request'[b].proc]
    BY <1>3 DEF RequestsLag
  <2>1. /\ request'[b] = request[b]
        /\ request[b].proc \in Active /\ request[b].gen <= layer[request[b].proc]
        /\ request[b].gen \in Nat
    BY <1>1, <1>6, Numbers DEF IInv, RequestsLag
  <2>2. QED
    BY <1>4, <2>1
<1>9. ProcsLag'
  BY <1>2, <1>3, <1>4 DEF ProcsLag
<1>10. ClearedIsLoaded'
  <2>1. \A q \in Active : floor <= layer'[q]
    BY <1>1, <1>4, Numbers DEF IInv, ClearedIsLoaded
  <2>2. ASSUME NEW j \in Jobs, job'[j].pc \notin {"idle", "delayed"}, NEW q \in Active
        PROVE  job'[j].gen <= layer'[q]
    <3>1. job'[j] = job[j] /\ job[j].gen <= layer[q] /\ job[j].gen \in Nat
      BY <1>1, <1>5, <2>2, Numbers DEF IInv, ClearedIsLoaded
    <3>2. QED
      BY <1>4, <3>1
  <2>3. QED
    BY <1>2, <1>3, <2>1, <2>2 DEF ClearedIsLoaded
<1>11. JobsLag'
  BY <1>2, <1>5 DEF IInv, JobsLag
<1>12. ListedOrStraggler' /\ StaleTilesAreStragglers'
  BY <1>2, <1>5, <1>7 DEF IInv, ListedOrStraggler, StaleTilesAreStragglers
<1>13. QED
  BY <1>1, <1>8, <1>9, <1>10, <1>11, <1>12 DEF IInv

\* A tile that expires takes its mark with it.
LEMMA ExpireInv ==
    ASSUME IInv, NEW k \in Tiles, Expire(k)
    PROVE  IInv'
<1>1. TypeOK /\ TypeOK'
  BY ExpireTyped DEF IInv
<1>2. /\ UNCHANGED <<mode, config, layer, request, job, floor>>
      /\ stragglers' = stragglers \ {k}
  BY DEF Expire
<1>3. /\ DOMAIN cache' = DOMAIN cache \ {k}
      /\ \A u \in DOMAIN cache' : cache'[u] = cache[u]
  BY <1>1, RestrictTyped DEF Expire
<1>4. RequestsLag' /\ ProcsLag' /\ ClearedIsLoaded' /\ JobsLag'
  BY <1>2 DEF IInv, RequestsLag, ProcsLag, ClearedIsLoaded, JobsLag, Active
<1>5. ListedOrStraggler' /\ StaleTilesAreStragglers'
  BY <1>2, <1>3 DEF IInv, ListedOrStraggler, StaleTilesAreStragglers
<1>6. QED
  BY <1>1, <1>4, <1>5 DEF IInv

\* The invariant is inductive.
THEOREM InductiveInvariant == Spec => []IInv
<1>1. IInv /\ [Next]_vars => IInv'
  <2> SUFFICES ASSUME IInv, [Next]_vars
               PROVE  IInv'
    OBVIOUS
  <2>1. CASE UNCHANGED vars
    BY <2>1 DEF vars, stateVars, bounds, IInv, TypeOK, RequestsLag, ProcsLag, ClearedIsLoaded,
       JobsLag, ListedOrStraggler, StaleTilesAreStragglers, Active
  <2>2. QED
    BY <2>1, BrowserStepInv, JobStepInv, ProcStepInv, ExpireInv DEF Next
<1>2. QED
  BY <1>1, InitInv, PTL DEF Spec

\* For any number of processes, browsers, tiles, edits, clears and faults: a
\* cached tile older than a completed invalidation was put there by a request
\* that was under way before its process took the edit over.
THEOREM StaleTilesAreAlwaysStragglers == Spec => []StaleTilesAreStragglers
<1>1. IInv => StaleTilesAreStragglers
  BY DEF IInv
<1>2. QED
  BY <1>1, InductiveInvariant, PTL

-----------------------------------------------------------------------------
(***************************************************************************)
(* Dead ETags.                                                             *)
(***************************************************************************)

Rewriting(j) == job[j].pc \in {"rewrite", "truncated"}

\* Only the disk backend rewrites a version file.
RewritesOnDisk == \A j \in Jobs : Rewriting(j) => mode = "disk"

\* Until something misleads a reader, the counter counts the invalidations, one
\* job at a time is between its read and its write, and it has read the counter.
CounterCounts ==
    ~degraded =>
        /\ counter = bumps
        /\ \A j \in Jobs : Rewriting(j) =>
            job[j].read = counter /\ \A i \in Jobs : Rewriting(i) => i = j

\* And an ETag tells in which era it was issued.
EtagsTellEra ==
    ~degraded => \A b \in Browsers :
        /\ copy[b].tile # {} => copy[b].version = copy[b].era
        /\ b \in Caching /\ request[b].pc \in {"lookup", "query"}
            => request[b].version = request[b].era

EtagInv ==
    /\ TypeOK
    /\ RewritesOnDisk
    /\ CounterCounts
    /\ EtagsTellEra

\* The invariant holds initially.
LEMMA InitEtagInv == Init => EtagInv
  BY InitTyped
  DEF Init, idle, nothing, EtagInv, RewritesOnDisk, CounterCounts, EtagsTellEra, Rewriting

\* Every step of a tile request keeps it: a version is read, and kept with a
\* response, together with the era it was read in.
LEMMA BrowserStepEtagInv ==
    ASSUME EtagInv, NEW b \in Browsers, BrowserStep(b)
    PROVE  EtagInv'
<1>1. TypeOK /\ TypeOK'
  BY BrowserStepTyped DEF EtagInv
<1>2. /\ UNCHANGED <<mode, counter, bumps, job>>
      /\ ~degraded' => ~degraded
  <2>1. CASE NotModified(b) \/ ReadVersion(b)
    <3>1. degraded' = (degraded \/ cut)
      BY <2>1 DEF NotModified, ReadVersion
    <3>2. QED
      BY <2>1, <3>1 DEF NotModified, ReadVersion
  <2>2. CASE VersionUnread(b)
    BY <2>2 DEF VersionUnread
  <2>3. CASE ~(NotModified(b) \/ ReadVersion(b) \/ VersionUnread(b))
    <3>1. UNCHANGED <<mode, counter, bumps, job, degraded>>
      BY <2>3 DEF BrowserStep, Start, Hit, Miss, Unread, Store, StoreFails
    <3>2. QED
      BY <3>1
  <2>4. QED
    BY <2>1, <2>2, <2>3
<1>3. RewritesOnDisk' /\ CounterCounts'
  BY <1>2 DEF EtagInv, RewritesOnDisk, CounterCounts, Rewriting
<1>4. EtagsTellEra'
  <2> SUFFICES ASSUME ~degraded'
               PROVE  \A c \in Browsers :
                        /\ copy'[c].tile # {} => copy'[c].version = copy'[c].era
                        /\ c \in Caching /\ request'[c].pc \in {"lookup", "query"}
                            => request'[c].version = request'[c].era
    BY DEF EtagsTellEra
  <2>1. /\ counter = bumps
        /\ \A c \in Browsers :
            /\ copy[c].tile # {} => copy[c].version = copy[c].era
            /\ c \in Caching /\ request[c].pc \in {"lookup", "query"}
                => request[c].version = request[c].era
    BY <1>2 DEF EtagInv, CounterCounts, EtagsTellEra
  <2>2. CASE \E p \in Procs, k \in Tiles : Start(b, p, k)
    BY <1>1, <2>1, <2>2 DEF Start, TypeOK
  <2>3. CASE NotModified(b) \/ StoreFails(b)
    BY <1>1, <2>1, <2>3 DEF NotModified, StoreFails, idle, TypeOK
  <2>4. CASE ReadVersion(b)
    <3>1. VersionRead = bumps
      BY <2>1, <2>4 DEF ReadVersion, VersionRead
    <3>2. request[b] \in Request
      BY <1>1, <2>4, RequestTyped DEF ReadVersion
    <3>3. b \in Caching => /\ WithEtag(b, VersionRead).version = bumps
                           /\ WithEtag(b, VersionRead).era = bumps
      BY <3>1, <3>2 DEF WithEtag, Request
    <3>4. /\ request' = [request EXCEPT ![b] = WithEtag(b, VersionRead)]
          /\ UNCHANGED copy
      BY <2>4 DEF ReadVersion
    <3>5. QED
      BY <1>1, <2>1, <3>3, <3>4 DEF TypeOK
  <2>5. CASE VersionUnread(b)
    BY <2>5 DEF VersionUnread
  <2>6. CASE Hit(b) \/ Store(b)
    <3>1. PICK body : Respond(b, body)
      BY <2>6 DEF Hit, Store
    <3>2. request[b].pc \in {"lookup", "query"}
      BY <2>6 DEF Hit, Store
    <3>3. \A c \in Browsers : request'[c] = IF c = b THEN idle ELSE request[c]
      BY <1>1, <3>1 DEF Respond, TypeOK
    <3>4. \A c \in Browsers : c # b \/ b \notin Caching => copy'[c] = copy[c]
      BY <1>1, <3>1 DEF Respond, TypeOK
    <3>5. b \in Caching => /\ copy'[b].version = request[b].version
                           /\ copy'[b].era = request[b].era
      BY <1>1, <3>1 DEF Respond, TypeOK
    <3>6. QED
      BY <2>1, <3>2, <3>3, <3>4, <3>5 DEF idle
  <2>7. CASE Miss(b) \/ Unread(b)
    <3>1. request[b] \in Request /\ request[b].pc = "lookup"
      BY <1>1, <2>7, RequestTyped DEF Miss, Unread
    <3>2. /\ request' = [request EXCEPT ![b].pc = "query"]
          /\ UNCHANGED copy
      BY <2>7 DEF Miss, Unread
    <3>3. /\ request'[b].version = request[b].version
          /\ request'[b].era = request[b].era
      BY <1>1, <3>1, <3>2 DEF TypeOK, Request
    <3>4. QED
      BY <1>1, <2>1, <3>1, <3>2, <3>3 DEF TypeOK
  <2>8. QED
    BY <2>2, <2>3, <2>4, <2>5, <2>6, <2>7 DEF BrowserStep
<1>5. QED
  BY <1>1, <1>3, <1>4 DEF EtagInv

\* Every step of an invalidation keeps it: INCR counts, a rewrite counts when it
\* runs alone, and everything else gives itself away.
LEMMA JobStepEtagInv ==
    ASSUME EtagInv, NEW j \in Jobs, JobStep(j)
    PROVE  EtagInv'
<1>1. TypeOK /\ TypeOK'
  BY JobStepTyped DEF EtagInv
<1>2. /\ UNCHANGED <<mode, copy, request>>
      /\ ~degraded' => ~degraded
  <2>1. CASE ReadCounter(j)
    <3>1. degraded' = (degraded \/ cut
                        \/ \E i \in Jobs \ {j} : job[i].pc \in {"rewrite", "truncated"})
      BY <2>1 DEF ReadCounter
    <3>2. QED
      BY <2>1, <3>1 DEF ReadCounter
  <2>2. CASE IncrementLost(j) \/ CounterUnread(j)
    BY <2>2 DEF IncrementLost, CounterUnread
  <2>3. CASE ~(ReadCounter(j) \/ IncrementLost(j) \/ CounterUnread(j))
    <3>1. UNCHANGED <<mode, copy, request, degraded>>
      BY <2>3 DEF JobStep, EditLayer, ClearCache, DelayEnds, IncrementVersion, Truncate,
         Rewrite, List, Delete, Finish, ClearFails
    <3>2. QED
      BY <3>1
  <2>4. QED
    BY <2>1, <2>2, <2>3
<1>3. EtagsTellEra'
  BY <1>2 DEF EtagInv, EtagsTellEra
<1>4. \E r : job' = [job EXCEPT ![j] = r]
  BY DEF JobStep, EditLayer, ClearCache, DelayEnds, IncrementVersion, IncrementLost,
     ReadCounter, CounterUnread, Truncate, Rewrite, List, Delete, Finish, ClearFails
<1>5. \A i \in Jobs : i # j => job'[i] = job[i]
  BY <1>1, <1>4 DEF TypeOK
<1>6. RewritesOnDisk /\ CounterCounts
  BY DEF EtagInv
<1>7. ASSUME UNCHANGED <<counter, bumps>>, job'[j].pc \notin {"rewrite", "truncated"}
      PROVE  EtagInv'
  <2>1. \A i \in Jobs : Rewriting(i)' => i # j /\ Rewriting(i) /\ job'[i] = job[i]
    BY <1>5, <1>7 DEF Rewriting
  <2>2. RewritesOnDisk'
    BY <1>2, <1>6, <2>1 DEF RewritesOnDisk
  <2>3. CounterCounts'
    BY <1>2, <1>6, <1>7, <2>1 DEF CounterCounts
  <2>4. QED
    BY <1>1, <1>3, <2>2, <2>3 DEF EtagInv
<1>8. CASE \E p \in Procs : EditLayer(j, p) \/ ClearCache(j, p)
  <2>1. UNCHANGED <<counter, bumps>> /\ job'[j].pc \in {"delayed", "bump"}
    BY <1>1, <1>8 DEF EditLayer, ClearCache, TypeOK
  <2>2. QED
    BY <1>7, <2>1
<1>9. CASE job[j].pc # "idle"
  <2>1. job[j] \in Job
    BY <1>1, <1>9, JobTyped
  <2>2. CASE DelayEnds(j) \/ List(j) \/ (\E k \in Tiles : Delete(j, k)) \/ Finish(j)
             \/ ClearFails(j)
    <3>1. UNCHANGED <<counter, bumps>>
      BY <2>2 DEF DelayEnds, List, Delete, Finish, ClearFails
    <3>2. job'[j].pc \in {"idle", "bump", "delete"}
      <4>1. CASE DelayEnds(j) \/ List(j)
        BY <1>1, <2>1, <4>1 DEF DelayEnds, List, TypeOK, Job
      <4>2. ASSUME NEW k \in Tiles, Delete(j, k)
            PROVE  job'[j].pc = "delete"
        BY <1>1, <2>1, <4>2 DEF Delete, TypeOK, Job
      <4>3. CASE Finish(j) \/ ClearFails(j)
        BY <1>1, <4>3 DEF Finish, ClearFails, TypeOK, idle
      <4>4. QED
        BY <2>2, <4>1, <4>2, <4>3
    <3>3. QED
      BY <1>7, <3>1, <3>2
  <2>3. CASE IncrementVersion(j)
    <3>1. /\ counter' = counter + 1 /\ bumps' = bumps + 1
          /\ job'[j].pc = "list" /\ mode = "shared"
      BY <1>1, <2>1, <2>3 DEF IncrementVersion, Increment, TypeOK, Job
    <3>2. \A i \in Jobs : ~Rewriting(i)
      BY <1>6, <3>1 DEF RewritesOnDisk
    <3>3. \A i \in Jobs : ~Rewriting(i)'
      BY <1>5, <3>1, <3>2 DEF Rewriting
    <3>4. QED
      BY <1>1, <1>3, <1>2, <1>6, <3>1, <3>3
      DEF EtagInv, RewritesOnDisk, CounterCounts
  <2>4. CASE IncrementLost(j)
    <3>1. degraded' /\ job'[j].pc = "list" /\ UNCHANGED mode
      BY <1>1, <2>1, <2>4 DEF IncrementLost, TypeOK, Job
    <3>2. \A i \in Jobs : Rewriting(i)' => Rewriting(i)
      BY <1>5, <3>1 DEF Rewriting
    <3>3. QED
      BY <1>1, <1>3, <1>6, <3>1, <3>2
      DEF EtagInv, RewritesOnDisk, CounterCounts
  <2>5. CASE ReadCounter(j)
    <3>1. /\ UNCHANGED <<counter, bumps, mode>>
          /\ mode = "disk" /\ job'[j].read = VersionRead
      BY <1>1, <2>1, <2>5 DEF ReadCounter, TypeOK, Job
    <3>2. degraded' = (degraded \/ cut
                        \/ \E i \in Jobs \ {j} : job[i].pc \in {"rewrite", "truncated"})
      BY <2>5 DEF ReadCounter
    <3>3. ~degraded' => /\ counter = bumps /\ ~cut
                        /\ \A i \in Jobs : i # j => ~Rewriting(i)
      BY <1>6, <3>2 DEF CounterCounts, Rewriting
    <3>4. ~degraded' => /\ job'[j].read = counter
                        /\ \A i \in Jobs : i # j => ~Rewriting(i)'
      BY <1>5, <3>1, <3>3 DEF VersionRead, Rewriting
    <3>5. QED
      BY <1>1, <1>3, <3>1, <3>3, <3>4
      DEF EtagInv, RewritesOnDisk, CounterCounts
  <2>6. CASE Truncate(j)
    <3>1. /\ UNCHANGED <<counter, bumps, degraded, mode>> /\ Rewriting(j)
          /\ job'[j].read = job[j].read
      BY <1>1, <2>1, <2>6 DEF Truncate, Rewriting, TypeOK, Job
    <3>2. \A i \in Jobs : /\ Rewriting(i)' => Rewriting(i)
                          /\ job'[i].read = job[i].read
      BY <1>5, <3>1 DEF Rewriting
    <3>3. QED
      BY <1>1, <1>3, <1>6, <3>1, <3>2
      DEF EtagInv, RewritesOnDisk, CounterCounts
  <2>7. CASE Rewrite(j)
    <3>1. /\ counter' = job[j].read + 1 /\ bumps' = bumps + 1
          /\ UNCHANGED <<degraded, mode>>
          /\ Rewriting(j) /\ job'[j].pc = "list"
      BY <1>1, <2>1, <2>7 DEF Rewrite, Rewriting, TypeOK, Job
    <3>2. \A i \in Jobs : Rewriting(i)' => i # j /\ Rewriting(i)
      BY <1>5, <3>1 DEF Rewriting
    <3>3. ~degraded => /\ counter' = bumps'
                       /\ \A i \in Jobs : ~Rewriting(i)'
      BY <1>6, <3>1, <3>2 DEF CounterCounts
    <3>4. QED
      BY <1>1, <1>3, <1>6, <3>1, <3>2, <3>3
      DEF EtagInv, RewritesOnDisk, CounterCounts
  <2>8. CASE CounterUnread(j)
    <3>1. degraded' /\ mode = "disk" /\ UNCHANGED mode
      BY <2>8 DEF CounterUnread
    <3>2. QED
      BY <1>1, <1>3, <3>1 DEF EtagInv, RewritesOnDisk, CounterCounts
  <2>9. QED
    BY <1>8, <1>9, <2>2, <2>3, <2>4, <2>5, <2>6, <2>7, <2>8 DEF JobStep
<1>10. QED
  BY <1>8, <1>9 DEF JobStep, DelayEnds, IncrementVersion, IncrementLost, ReadCounter,
     CounterUnread, Truncate, Rewrite, List, Delete, Finish, ClearFails

\* Reloads, crashes and expiries touch neither the counter nor a response.
LEMMA OtherStepEtagInv ==
    ASSUME EtagInv,
           (\E p \in Procs : Reload(p) \/ Crash(p)) \/ (\E k \in Tiles : Expire(k))
    PROVE  EtagInv'
<1>1. TypeOK'
  BY ProcStepTyped, ExpireTyped DEF EtagInv
<1>2. UNCHANGED <<mode, counter, bumps, degraded, copy>>
  BY DEF Reload, Crash, Expire
<1>3. \A j \in Jobs : job'[j] = job[j] \/ job'[j].pc = "idle"
  <2>1. ASSUME NEW p \in Procs, Crash(p)
        PROVE  \A j \in Jobs : job'[j] = job[j] \/ job'[j].pc = "idle"
    BY <2>1 DEF Crash, idle
  <2>2. QED
    BY <2>1 DEF Reload, Expire
<1>4. \A b \in Browsers : request'[b] = request[b] \/ request'[b].pc = "idle"
  <2>1. ASSUME NEW p \in Procs, Crash(p)
        PROVE  \A b \in Browsers : request'[b] = request[b] \/ request'[b].pc = "idle"
    BY <2>1 DEF Crash, idle
  <2>2. QED
    BY <2>1 DEF Reload, Expire
<1>5. RewritesOnDisk' /\ CounterCounts'
  BY <1>2, <1>3 DEF EtagInv, RewritesOnDisk, CounterCounts, Rewriting
<1>6. EtagsTellEra'
  BY <1>2, <1>4 DEF EtagInv, EtagsTellEra
<1>7. QED
  BY <1>1, <1>5, <1>6 DEF EtagInv

\* The invariant is inductive.
LEMMA EtagInvariant == Spec => []EtagInv
<1>1. EtagInv /\ [Next]_vars => EtagInv'
  <2> SUFFICES ASSUME EtagInv, [Next]_vars
               PROVE  EtagInv'
    OBVIOUS
  <2>1. CASE UNCHANGED vars
    BY <2>1 DEF vars, stateVars, bounds, EtagInv, TypeOK, RewritesOnDisk, CounterCounts,
       EtagsTellEra, Rewriting
  <2>2. QED
    BY <2>1, BrowserStepEtagInv, JobStepEtagInv, OtherStepEtagInv DEF Next
<1>2. QED
  BY <1>1, InitEtagInv, PTL DEF Spec

\* While the counter works, no browser is told to go on with a copy whose ETag was
\* issued before an invalidation, for any number of browsers and invalidations.
THEOREM PurgedEtagsStayDead == Spec => PurgedEtagIsDead
<1>1. EtagInv => (\A b \in Browsers : NotModified(b) /\ ~degraded' => copy[b].era = bumps)
  <2> SUFFICES ASSUME EtagInv, NEW b \in Browsers, NotModified(b), ~degraded'
               PROVE  copy[b].era = bumps
    OBVIOUS
  <2>1. ~degraded /\ ~cut /\ IsNotModified(b, VersionRead)
    BY DEF NotModified
  <2>2. copy[b].tile # {} /\ copy[b].version = counter
    BY <2>1 DEF IsNotModified, VersionRead
  <2>3. QED
    BY <2>1, <2>2 DEF EtagInv, CounterCounts, EtagsTellEra
<1>2. QED
  BY <1>1, EtagInvariant, PTL DEF PurgedEtagIsDead

=============================================================================
