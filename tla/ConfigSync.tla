----------------------------- MODULE ConfigSync -----------------------------
(***************************************************************************)
(* Configuration replication between mvt-rs processes that share one       *)
(* SQLite file (cluster.mode = "shared"; a single process without a        *)
(* watcher is "standalone" or "owner").                                    *)
(*                                                                         *)
(* Every process answers requests from four in-memory states (catalog,     *)
(* categories, auth, styles).  An admin request writes its row, bumps      *)
(* system_settings.config_version in a second statement, and refreshes the *)
(* memory of its own process.  The watcher of every other process polls    *)
(* the version and swaps in a fresh snapshot when it rises.                *)
(*                                                                         *)
(* Data abstraction: the content of a state is the number of the last edit *)
(* it reflects.  Edits are numbered in the order their rows are committed. *)
(***************************************************************************)
EXTENDS Naturals, FiniteSets

CONSTANTS
    Instances,     \* processes opened on the shared SQLite file
    Watchers,      \* the instances that run start_config_watcher
    Admins,        \* admin requests (tokio tasks) that may be in flight
    Host,          \* the instance that serves each admin request
    Tables,        \* the in-memory states: catalog, categories, auth, styles
    Discipline,    \* how the handlers of a state order row, lock and memory
    SnapshotRank,  \* the order in which a snapshot reads and swaps the states
    StartRank,     \* the order in which main() reads the states
    MaxEdits,      \* bound: edits in a behaviour
    MaxFailures,   \* bound: statements or requests that return an error
    MaxCrashes     \* bound: process crashes

\* "locked":   the write lock is held from before the row write until memory is
\*             updated (Catalog and Auth methods, called on a write guard).
\* "unlocked": row and bump first, then the lock, then memory (Category, Group).
\* "reload":   row and bump first, then the whole state is read back from SQLite
\*             and swapped in under the lock (Style, reload_styles_cache).
Disciplines == {"locked", "unlocked", "reload"}

ASSUME ConfigSyncAssumption ==
    /\ Watchers \subseteq Instances
    /\ Host \in [Admins -> Instances]
    /\ Discipline \in [Tables -> Disciplines]
    /\ SnapshotRank \in [Tables -> Nat]
    /\ StartRank \in [Tables -> Nat]
    /\ MaxEdits \in Nat
    /\ MaxFailures \in Nat
    /\ MaxCrashes \in Nat

VARIABLES
    \* SQLite
    db,        \* db[t]: the last edit committed to the rows behind state t
    version,   \* system_settings.config_version
    \* processes
    up,        \* up[i]: "down", "loading" (main() reading SQLite) or "up"
    mem,       \* mem[i][t]: the content of the in-memory state t
    wpc,       \* wpc[i]: control point of the watcher task
    known,     \* known[i]: the watcher's `known`
    current,   \* current[i]: the watcher's `current` of this tick
    snap,      \* snap[i]: the ConfigSnapshot under construction
    todo,      \* todo[i]: states still to be read or swapped, in rank order
    admin,     \* admin[a]: the admin request a
    \* history and bounds
    log,       \* one record per committed row: edit, table, version at the time
    synced,    \* synced[i]: nothing was missed between start-up and the watcher
    edits, failures, crashes

dbVars == <<db, version>>
watchVars == <<wpc, known, current, snap, todo, synced>>
vars == <<db, version, up, mem, wpc, known, current, snap, todo, admin,
          log, synced, edits, failures, crashes>>

EditNumber == 0..MaxEdits
Edit == [edit : EditNumber, table : Tables, at : Nat]
Idle == [pc : {"idle"}]
Request == [pc : {"written", "bumped", "reread"}, table : Tables,
            edit : EditNumber, value : EditNumber]
idle == [pc |-> "idle"]
Empty == [t \in Tables |-> 0]

(***************************************************************************)
(* The system starts on an empty log with every process already serving:   *)
(* what main() does is exercised by Crash, Restart and the Load actions.   *)
(***************************************************************************)
Init ==
    /\ db = Empty
    /\ version = 0
    /\ up = [i \in Instances |-> "up"]
    /\ mem = [i \in Instances |-> Empty]
    /\ wpc = [i \in Instances |-> IF i \in Watchers THEN "sleep" ELSE "off"]
    /\ known = [i \in Instances |-> 0]
    /\ current = [i \in Instances |-> 0]
    /\ snap = [i \in Instances |-> Empty]
    /\ todo = [i \in Instances |-> Tables]
    /\ admin = [a \in Admins |-> idle]
    /\ log = {}
    /\ synced = [i \in Instances |-> i \in Watchers]
    /\ edits = 0
    /\ failures = 0
    /\ crashes = 0

(***************************************************************************)
(* Locks.  Only the two kinds of writers that hold a state's RwLock over   *)
(* an await are visible here; the swap itself is one step.                 *)
(***************************************************************************)
Holds(a, i, t) ==
    /\ Host[a] = i
    /\ admin[a].pc \in {"written", "bumped"}
    /\ admin[a].table = t
    /\ Discipline[t] = "locked"

\* A writer that does not wait for the lock.
IgnoreLock(i, t) == TRUE

\* No handler of process i holds the write lock of state t.
LockFree(i, t) == \A a \in Admins : ~Holds(a, i, t)

\* t is the state of S that comes first in `rank`.
IsNext(t, S, rank) ==
    /\ t \in S
    /\ \A u \in S : rank[t] <= rank[u]

-----------------------------------------------------------------------------
(***************************************************************************)
(* Admin requests.                                                         *)
(***************************************************************************)

\* INSERT, UPDATE or DELETE of the row: the first statement of every function
\* of src/config that writes.  A "locked" handler took the write lock before.
WriteRow(a, t) ==
    /\ admin[a].pc = "idle"
    /\ up[Host[a]] = "up"
    /\ Discipline[t] = "locked" => LockFree(Host[a], t)
    /\ edits < MaxEdits
    /\ edits' = edits + 1
    /\ db' = [db EXCEPT ![t] = edits + 1]
    /\ log' = log \cup {[edit |-> edits + 1, table |-> t, at |-> version]}
    /\ admin' = [admin EXCEPT ![a] = [pc |-> "written", table |-> t,
                                      edit |-> edits + 1, value |-> edits + 1]]
    /\ UNCHANGED <<version, up, mem, watchVars, failures, crashes>>

\* A bump that leaves the counter alone.
LostBump(v) == v

\* SET value = CAST(value AS INTEGER) + 1.
BumpedVersion(v) == v + 1

\* bump_config_version: the second statement, one atomic UPDATE ... RETURNING.
Bump(a) ==
    /\ admin[a].pc = "written"
    /\ version' = BumpedVersion(version)
    /\ admin' = [admin EXCEPT ![a].pc = "bumped"]
    /\ UNCHANGED <<db, up, mem, watchVars, log, edits, failures, crashes>>

\* The bump fails: the handler returns the error, the row stays committed and
\* the memory of this process is not refreshed.
BumpFails(a) ==
    /\ admin[a].pc = "written"
    /\ failures < MaxFailures
    /\ failures' = failures + 1
    /\ admin' = [admin EXCEPT ![a] = idle]
    /\ UNCHANGED <<dbVars, up, mem, watchVars, log, edits, crashes>>

\* reload_styles_cache reads the rows back before it takes the lock.
ReadBack(a) ==
    /\ admin[a].pc = "bumped"
    /\ Discipline[admin[a].table] = "reload"
    /\ admin' = [admin EXCEPT ![a].pc = "reread", ![a].value = db[admin[a].table]]
    /\ UNCHANGED <<dbVars, up, mem, watchVars, log, edits, failures, crashes>>

\* The reload fails after the row and the version were written.
ReadBackFails(a) ==
    /\ admin[a].pc = "bumped"
    /\ Discipline[admin[a].table] = "reload"
    /\ failures < MaxFailures
    /\ failures' = failures + 1
    /\ admin' = [admin EXCEPT ![a] = idle]
    /\ UNCHANGED <<dbVars, up, mem, watchVars, log, edits, crashes>>

\* The in-memory state of the serving process is refreshed; a "locked" handler
\* then releases the lock.
UpdateMemory(a) ==
    /\ \/ admin[a].pc = "bumped" /\ Discipline[admin[a].table] # "reload"
       \/ admin[a].pc = "reread"
    /\ mem' = [mem EXCEPT ![Host[a]][admin[a].table] = admin[a].value]
    /\ admin' = [admin EXCEPT ![a] = idle]
    /\ UNCHANGED <<dbVars, up, watchVars, log, edits, failures, crashes>>

-----------------------------------------------------------------------------
(***************************************************************************)
(* The watcher task.                                                       *)
(***************************************************************************)

\* A watcher that records the version even though the reload failed.
ForgetFailedReload(k, c, reloadOk) == IF c > k THEN c ELSE k

\* next_known_version.
NextKnownVersion(k, c, reloadOk) == IF c > k /\ reloadOk THEN c ELSE k

\* The locals of one tick go out of scope.
DropTick(i) ==
    /\ current' = [current EXCEPT ![i] = 0]
    /\ snap' = [snap EXCEPT ![i] = Empty]
    /\ todo' = [todo EXCEPT ![i] = Tables]

\* A watcher that marks a version it could not read.
MinusOne == 0 - 1

\* `unwrap_or(0)`.
UnreadVersion == 0

\* `let mut known = backend.current_version().await.unwrap_or(0)`: read once,
\* by the spawned task, after main() has already read the four states.
FirstVersion(i) ==
    /\ wpc[i] = "starting"
    /\ wpc' = [wpc EXCEPT ![i] = "sleep"]
    /\ \/ /\ known' = [known EXCEPT ![i] = version]
          /\ UNCHANGED failures
       \/ /\ failures < MaxFailures
          /\ failures' = failures + 1
          /\ known' = [known EXCEPT ![i] = UnreadVersion]
    /\ UNCHANGED <<dbVars, up, mem, current, snap, todo, admin, log, synced, edits, crashes>>

\* A tick that observes a higher version.  A tick that fails to poll, or sees
\* nothing new, changes no state.
Poll(i) ==
    /\ wpc[i] = "sleep"
    /\ version > known[i]
    /\ current' = [current EXCEPT ![i] = version]
    /\ wpc' = [wpc EXCEPT ![i] = "fetch"]
    /\ UNCHANGED <<dbVars, up, mem, known, snap, todo, admin, log, synced, edits, failures, crashes>>

\* One SELECT of build_snapshot; the reads share no transaction.
ReadTable(i, t) ==
    /\ wpc[i] = "fetch"
    /\ IsNext(t, todo[i], SnapshotRank)
    /\ snap' = [snap EXCEPT ![i][t] = db[t]]
    /\ IF todo[i] = {t}
       THEN /\ wpc' = [wpc EXCEPT ![i] = "apply"]
            /\ todo' = [todo EXCEPT ![i] = Tables]
       ELSE /\ todo' = [todo EXCEPT ![i] = @ \ {t}]
            /\ UNCHANGED wpc
    /\ UNCHANGED <<dbVars, up, mem, known, current, admin, log, synced, edits, failures, crashes>>

\* fetch_snapshot returns Err: nothing is swapped and `known` stays behind.
FetchFails(i) ==
    /\ wpc[i] = "fetch"
    /\ failures < MaxFailures
    /\ failures' = failures + 1
    /\ wpc' = [wpc EXCEPT ![i] = "sleep"]
    /\ known' = [known EXCEPT ![i] = NextKnownVersion(known[i], current[i], FALSE)]
    /\ DropTick(i)
    /\ UNCHANGED <<dbVars, up, mem, admin, log, synced, edits, crashes>>

\* One assignment of apply_snapshot, each under its own write lock; the last
\* one lets `known` advance.
Swap(i, t) ==
    /\ wpc[i] = "apply"
    /\ IsNext(t, todo[i], SnapshotRank)
    /\ LockFree(i, t)
    /\ mem' = [mem EXCEPT ![i][t] = snap[i][t]]
    /\ IF todo[i] = {t}
       THEN /\ wpc' = [wpc EXCEPT ![i] = "sleep"]
            /\ known' = [known EXCEPT ![i] = NextKnownVersion(known[i], current[i], TRUE)]
            /\ synced' = [synced EXCEPT ![i] = TRUE]
            /\ DropTick(i)
       ELSE /\ todo' = [todo EXCEPT ![i] = @ \ {t}]
            /\ UNCHANGED <<wpc, known, synced, current, snap>>
    /\ UNCHANGED <<dbVars, up, admin, log, edits, failures, crashes>>

-----------------------------------------------------------------------------
(***************************************************************************)
(* Crash and start-up.                                                     *)
(***************************************************************************)

\* The process dies: memory, watcher and admin requests are gone, rows and
\* version stay.  A failing start-up read exits the process in the same way.
Crash(i) ==
    /\ up[i] # "down"
    /\ crashes < MaxCrashes
    /\ crashes' = crashes + 1
    /\ up' = [up EXCEPT ![i] = "down"]
    /\ wpc' = [wpc EXCEPT ![i] = "off"]
    /\ synced' = [synced EXCEPT ![i] = FALSE]
    /\ known' = [known EXCEPT ![i] = 0]
    /\ DropTick(i)
    /\ mem' = [mem EXCEPT ![i] = Empty]
    /\ admin' = [a \in Admins |-> IF Host[a] = i THEN idle ELSE admin[a]]
    /\ UNCHANGED <<dbVars, log, edits, failures>>

Restart(i) ==
    /\ up[i] = "down"
    /\ up' = [up EXCEPT ![i] = "loading"]
    /\ UNCHANGED <<dbVars, mem, watchVars, admin, log, edits, failures, crashes>>

\* main() reads one state; after the last one it starts the watcher and serves.
Load(i, t) ==
    /\ up[i] = "loading"
    /\ IsNext(t, todo[i], StartRank)
    /\ mem' = [mem EXCEPT ![i][t] = db[t]]
    /\ IF todo[i] = {t}
       THEN /\ up' = [up EXCEPT ![i] = "up"]
            /\ todo' = [todo EXCEPT ![i] = Tables]
            /\ wpc' = [wpc EXCEPT ![i] = IF i \in Watchers THEN "starting" ELSE "off"]
       ELSE /\ todo' = [todo EXCEPT ![i] = @ \ {t}]
            /\ UNCHANGED <<up, wpc>>
    /\ UNCHANGED <<dbVars, known, current, snap, admin, log, synced, edits, failures, crashes>>

-----------------------------------------------------------------------------
AdminStep(a) ==
    \/ \E t \in Tables : WriteRow(a, t)
    \/ Bump(a)
    \/ BumpFails(a)
    \/ ReadBack(a)
    \/ ReadBackFails(a)
    \/ UpdateMemory(a)

InstanceStep(i) ==
    \/ FirstVersion(i)
    \/ Poll(i)
    \/ \E t \in Tables : ReadTable(i, t)
    \/ FetchFails(i)
    \/ \E t \in Tables : Swap(i, t)
    \/ Crash(i)
    \/ Restart(i)
    \/ \E t \in Tables : Load(i, t)

Next ==
    \/ \E a \in Admins : AdminStep(a)
    \/ \E i \in Instances : InstanceStep(i)

Spec == Init /\ [][Next]_vars

(***************************************************************************)
(* Fairness: tokio keeps polling a task that is ready and the watcher's    *)
(* timer fires again and again, so a request in flight goes on and a       *)
(* watcher keeps ticking.  Nobody has to issue an edit, to crash, to fail  *)
(* or to restart a process.                                                *)
(***************************************************************************)
Fairness ==
    /\ \A a \in Admins : WF_vars(Bump(a) \/ ReadBack(a) \/ UpdateMemory(a))
    /\ \A i \in Instances :
        /\ WF_vars(FirstVersion(i))
        /\ WF_vars(Poll(i))
        /\ WF_vars(\E t \in Tables : ReadTable(i, t))
        /\ WF_vars(\E t \in Tables : Swap(i, t))
        /\ WF_vars(\E t \in Tables : Load(i, t))

FairSpec == Spec /\ Fairness

-----------------------------------------------------------------------------
(***************************************************************************)
(* Properties.                                                             *)
(***************************************************************************)

\* Every variable stays in the set of values its Rust counterpart can take.
TypeOK ==
    /\ db \in [Tables -> EditNumber]
    /\ version \in Nat
    /\ up \in [Instances -> {"down", "loading", "up"}]
    /\ mem \in [Instances -> [Tables -> EditNumber]]
    /\ wpc \in [Instances -> {"off", "starting", "sleep", "fetch", "apply"}]
    /\ known \in [Instances -> Nat]
    /\ current \in [Instances -> Nat]
    /\ snap \in [Instances -> [Tables -> EditNumber]]
    /\ todo \in [Instances -> SUBSET Tables]
    /\ admin \in [Admins -> Idle \cup Request]
    /\ log \subseteq Edit
    /\ synced \in [Instances -> BOOLEAN]
    /\ edits \in EditNumber
    /\ failures \in 0..MaxFailures
    /\ crashes \in 0..MaxCrashes

\* A watcher that has acknowledged a version (`known`) holds every row that was
\* committed before that version was published, also the rows whose own bump
\* failed or was lost in a crash, and although neither the four reads of a
\* snapshot nor the four swaps are atomic and local edits run in between
\* (start_config_watcher, build_snapshot, apply_snapshot).  It is stated of the
\* states whose handlers hold the lock throughout, and of watchers that have
\* reloaded at least once since start-up.
AcknowledgedIsHeld ==
    \A i \in Watchers : \A e \in log :
        /\ synced[i]
        /\ Discipline[e.table] = "locked"
        /\ e.at < known[i]
        => mem[i][e.table] >= e.edit

\* The states whose handlers hold the lock from the row to memory.
Locked == {t \in Tables : Discipline[t] = "locked"}

\* What a process has acknowledged: nothing before its first own reload.
Acknowledged(i) == IF synced[i] THEN known[i] ELSE 0

R == INSTANCE ReplicatedConfig WITH
        Replicas <- Instances,
        States <- Locked,
        Edits <- EditNumber,
        log <- {e \in log : e.table \in Locked},
        published <- version,
        acked <- [i \in Instances |-> Acknowledged(i)],
        view <- [i \in Instances |-> [t \in Locked |-> mem[i][t]]]

\* The processes implement ReplicatedConfig: whatever rows, bumps, snapshots,
\* swaps, local edits, failures and crashes do in between, a process shows only
\* committed contents, its acknowledged version never falls except by a crash,
\* and it is never behind an acknowledged version (start_config_watcher,
\* apply_snapshot, the handlers of Catalog and Auth).
ImplementsReplicatedConfig == R!Spec

\* The edit numbered n, made to state t, was published: a version above the
\* one at which its row was committed exists.
Published(n, t) == \E e \in log : e.edit = n /\ e.table = t /\ e.at < version

\* Every published edit reaches the memory of every serving watcher, unless a
\* later edit of the same state does ("keeping all instances consistent within
\* one polling interval", docs/clustering.md:20).
EditPropagates ==
    \A n \in 1..MaxEdits, t \in Tables, i \in Watchers :
        Published(n, t) ~> (mem[i][t] >= n \/ up[i] # "up")

\* A watcher that has reloaded since its start, and lacks a published edit of a
\* state whose handlers hold the lock.
Behind(i) ==
    /\ synced[i]
    /\ \E e \in log : e.table \in Locked /\ e.at < version /\ mem[i][e.table] < e.edit

\* A watcher that is behind catches up again, whatever bumps, polls, fetches and crashes
\* failed before, those of the edit itself included; there are MaxEdits edits, so
\* none keeps it behind (start_config_watcher).
WatchersCatchUp == \A i \in Watchers : []<>~Behind(i)

=============================================================================
