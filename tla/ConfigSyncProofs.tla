-------------------------- MODULE ConfigSyncProofs --------------------------
(***************************************************************************)
(* Proofs about ConfigSync, for any number of processes, requests, states  *)
(* and edits.                                                              *)
(***************************************************************************)
EXTENDS ConfigSync, TLAPS

(***************************************************************************)
(* The inductive invariant.                                                *)
(***************************************************************************)

\* The numbers of the log are bounded by what SQLite holds.
LogBounds ==
    \A e \in log :
        /\ e.at <= version
        /\ e.edit <= db[e.table]
        /\ e.edit <= edits

\* A watcher never runs ahead of the counter it polls.
VersionBounds ==
    \A i \in Instances : known[i] <= version /\ current[i] <= version

\* A tick in progress is about a version above the acknowledged one.
TickIsNews ==
    \A i \in Instances : wpc[i] \in {"fetch", "apply"} => current[i] > known[i]

\* Between ticks the list of states to read starts afresh.
TodoIsReset ==
    \A i \in Instances :
        wpc[i] \in {"starting", "sleep"} => todo[i] = Tables

\* Only a serving process has a watcher task or an acknowledged version, and
\* a snapshot is empty until its tick begins.
OffIsBlank ==
    \A i \in Instances :
        /\ up[i] # "up" => wpc[i] = "off" /\ ~synced[i]
        /\ wpc[i] \in {"fetch", "apply"} => up[i] = "up"
        /\ wpc[i] = "starting" => ~synced[i]

\* What a snapshot has read covers every row committed before the polled version.
SnapCovers ==
    \A i \in Instances : \A e \in log :
        /\ \/ wpc[i] = "fetch" /\ e.table \notin todo[i]
           \/ wpc[i] = "apply"
        /\ e.at < current[i]
        => snap[i][e.table] >= e.edit

\* A state that was swapped covers them too, whatever local handlers did since.
SwappedCovers ==
    \A i \in Instances : \A e \in log :
        /\ wpc[i] = "apply"
        /\ e.table \notin todo[i]
        /\ Discipline[e.table] = "locked"
        /\ e.at < current[i]
        => mem[i][e.table] >= e.edit

\* While a handler holds the lock of a state, an edit newer than its own cannot
\* be covered by an acknowledged version, nor by a swap of the running tick.
HolderIsNewest ==
    \A a \in Admins : \A e \in log :
        LET i == Host[a] IN
        /\ Holds(a, i, e.table)
        /\ e.edit > admin[a].edit
        => /\ synced[i] => e.at >= known[i]
           /\ wpc[i] = "apply" /\ e.table \notin todo[i] => e.at >= current[i]

\* A "locked" handler writes to memory what it wrote to its row.
HolderValue ==
    \A a \in Admins :
        admin[a].pc \in {"written", "bumped"} => admin[a].value = admin[a].edit

\* AcknowledgedIsHeld, of every process that is in step.
Covers ==
    \A i \in Instances : \A e \in log :
        /\ synced[i]
        /\ Discipline[e.table] = "locked"
        /\ e.at < known[i]
        => mem[i][e.table] >= e.edit

\* Only a "reload" handler reads back.
RereadIsReload ==
    \A a \in Admins :
        admin[a].pc = "reread" => Discipline[admin[a].table] = "reload"

IInv ==
    /\ TypeOK
    /\ LogBounds
    /\ VersionBounds
    /\ TickIsNews
    /\ TodoIsReset
    /\ OffIsBlank
    /\ SnapCovers
    /\ SwappedCovers
    /\ HolderIsNewest
    /\ HolderValue
    /\ RereadIsReload
    /\ Covers

-----------------------------------------------------------------------------
(***************************************************************************)
(* Type correctness.                                                       *)
(***************************************************************************)

\* A request in flight is a record with a state and two edit numbers.
LEMMA RequestTyped ==
    ASSUME TypeOK, NEW a \in Admins, admin[a].pc # "idle"
    PROVE  admin[a] \in Request
  BY DEF TypeOK, Idle, Request

\* Changing the control point and the value of a request keeps it a request.
LEMMA RequestExcept ==
    ASSUME NEW r \in Request, NEW v \in EditNumber
    PROVE  /\ [r EXCEPT !.pc = "bumped"] \in Request
           /\ [r EXCEPT !.pc = "reread", !.value = v] \in Request
  BY DEF Request

\* The initial state is well typed.
LEMMA InitTyped == Init => TypeOK
  BY ConfigSyncAssumption, SMTT(30)
  DEF Init, TypeOK, Empty, EditNumber, Idle, idle, Edit

\* Every step of an admin request keeps the types.
LEMMA AdminStepTyped ==
    ASSUME TypeOK, NEW a \in Admins, AdminStep(a)
    PROVE  TypeOK'
<1> USE ConfigSyncAssumption DEF EditNumber
<1> idle \in Idle
  BY DEF idle, Idle
<1>1. ASSUME NEW t \in Tables, WriteRow(a, t)
      PROVE  TypeOK'
  <2>1. edits + 1 \in EditNumber
    BY <1>1 DEF WriteRow, TypeOK
  <2>2. [edit |-> edits + 1, table |-> t, at |-> version] \in Edit
    BY <2>1 DEF Edit, TypeOK
  <2>3. [pc |-> "written", table |-> t, edit |-> edits + 1, value |-> edits + 1]
            \in Request
    BY <2>1 DEF Request
  <2>4. QED
    BY <1>1, <2>1, <2>2, <2>3 DEF WriteRow, TypeOK, watchVars
<1>2. CASE Bump(a)
  <2>1. [admin[a] EXCEPT !.pc = "bumped"] \in Request
    BY <1>2, RequestTyped, RequestExcept DEF Bump, TypeOK
  <2>2. QED
    BY <1>2, <2>1 DEF Bump, BumpedVersion, TypeOK, watchVars
<1>3. CASE BumpFails(a) \/ ReadBackFails(a)
  <2>1. failures' \in 0..MaxFailures /\ admin' = [admin EXCEPT ![a] = idle]
    BY <1>3 DEF BumpFails, ReadBackFails, TypeOK
  <2>2. UNCHANGED <<dbVars, up, mem, watchVars, log, edits, crashes>>
    BY <1>3 DEF BumpFails, ReadBackFails
  <2>3. QED
    BY <2>1, <2>2 DEF TypeOK, watchVars, dbVars
<1>4. CASE ReadBack(a)
  <2>1. admin[a] \in Request /\ db[admin[a].table] \in EditNumber
    BY <1>4, RequestTyped DEF ReadBack, TypeOK, Request
  <2>2. [admin[a] EXCEPT !.pc = "reread", !.value = db[admin[a].table]] \in Request
    BY <2>1, RequestExcept
  <2>3. QED
    BY <1>4, <2>2 DEF ReadBack, TypeOK, watchVars, dbVars
<1>5. CASE UpdateMemory(a)
  <2>1. admin[a] \in Request
    BY <1>5, RequestTyped DEF UpdateMemory
  <2>2. admin[a].value \in EditNumber /\ admin[a].table \in Tables /\ Host[a] \in Instances
    BY <2>1 DEF Request
  <2>3. QED
    BY <1>5, <2>2 DEF UpdateMemory, TypeOK, watchVars, dbVars
<1>6. QED
  BY <1>1, <1>2, <1>3, <1>4, <1>5 DEF AdminStep

\* Every step of a process keeps the types.
LEMMA InstanceStepTyped ==
    ASSUME TypeOK, NEW i \in Instances, InstanceStep(i)
    PROVE  TypeOK'
<1> USE ConfigSyncAssumption DEF EditNumber
<1> idle \in Idle
  BY DEF idle, Idle
<1>1. CASE FirstVersion(i)
  BY <1>1 DEF FirstVersion, UnreadVersion, TypeOK, dbVars
<1>2. CASE Poll(i)
  BY <1>2 DEF Poll, TypeOK, dbVars
<1>3. ASSUME NEW t \in Tables, ReadTable(i, t)
      PROVE  TypeOK'
  <2>1. CASE todo[i] = {t}
    BY <1>3, <2>1 DEF ReadTable, TypeOK, dbVars
  <2>2. CASE todo[i] # {t}
    BY <1>3, <2>2 DEF ReadTable, TypeOK, dbVars
  <2>3. QED
    BY <2>1, <2>2
<1>4. CASE FetchFails(i)
  BY <1>4 DEF FetchFails, NextKnownVersion, DropTick, Empty, TypeOK, dbVars
<1>5. ASSUME NEW t \in Tables, Swap(i, t)
      PROVE  TypeOK'
  <2>1. CASE todo[i] = {t}
    <3>1. NextKnownVersion(known[i], current[i], TRUE) \in Nat
      BY DEF NextKnownVersion, TypeOK
    <3>2. Empty \in [Tables -> EditNumber]
      BY DEF Empty
    <3>3. mem' \in [Instances -> [Tables -> EditNumber]]
      BY <1>5 DEF Swap, TypeOK
    <3>4. /\ DropTick(i)
          /\ known' = [known EXCEPT ![i] = NextKnownVersion(known[i], current[i], TRUE)]
          /\ wpc' = [wpc EXCEPT ![i] = "sleep"]
          /\ synced' = [synced EXCEPT ![i] = TRUE]
      BY <1>5, <2>1 DEF Swap
    <3>5. /\ snap' \in [Instances -> [Tables -> EditNumber]]
          /\ current' \in [Instances -> Nat]
          /\ todo' \in [Instances -> SUBSET Tables]
      BY <3>2, <3>4 DEF DropTick, TypeOK
    <3>6. /\ known' \in [Instances -> Nat]
          /\ wpc' \in [Instances -> {"off", "starting", "sleep", "fetch", "apply"}]
          /\ synced' \in [Instances -> BOOLEAN]
      BY <3>1, <3>4 DEF TypeOK
    <3>7. QED
      BY <1>5, <3>3, <3>5, <3>6 DEF Swap, TypeOK, dbVars
  <2>2. CASE todo[i] # {t}
    BY <1>5, <2>2 DEF Swap, TypeOK, dbVars
  <2>3. QED
    BY <2>1, <2>2
<1>6. CASE Crash(i)
  BY <1>6 DEF Crash, DropTick, Empty, TypeOK, dbVars
<1>7. CASE Restart(i)
  BY <1>7 DEF Restart, TypeOK, dbVars, watchVars
<1>8. ASSUME NEW t \in Tables, Load(i, t)
      PROVE  TypeOK'
  <2>1. CASE todo[i] = {t}
    BY <1>8, <2>1 DEF Load, TypeOK, dbVars
  <2>2. CASE todo[i] # {t}
    BY <1>8, <2>2 DEF Load, TypeOK, dbVars
  <2>3. QED
    BY <2>1, <2>2
<1>9. QED
  BY <1>1, <1>2, <1>3, <1>4, <1>5, <1>6, <1>7, <1>8 DEF InstanceStep

\* Every reachable state is well typed.
THEOREM TypeCorrect == Spec => []TypeOK
<1>1. TypeOK /\ [Next]_vars => TypeOK'
  <2> SUFFICES ASSUME TypeOK, [Next]_vars
               PROVE  TypeOK'
    OBVIOUS
  <2>1. CASE UNCHANGED vars
    BY <2>1 DEF vars, TypeOK
  <2>2. QED
    BY <2>1, AdminStepTyped, InstanceStepTyped DEF Next
<1>2. QED
  BY <1>1, InitTyped, PTL DEF Spec

-----------------------------------------------------------------------------
(***************************************************************************)
(* The inductive invariant, one lemma for each action.                     *)
(***************************************************************************)

\* The invariant holds initially.
LEMMA InitInv == Init => IInv
<1> SUFFICES ASSUME Init PROVE IInv
  OBVIOUS
<1> USE ConfigSyncAssumption
<1>1. TypeOK
  BY InitTyped
<1>2. log = {} /\ \A a \in Admins : admin[a].pc = "idle"
  BY DEF Init, idle
<1>3. QED
  BY <1>1, <1>2 DEF Init, IInv, LogBounds, VersionBounds, TickIsNews, TodoIsReset,
     OffIsBlank, SnapCovers, SwappedCovers, HolderIsNewest, Holds, HolderValue,
     RereadIsReload, Covers, Empty

\* Committing a row keeps the invariant: the new edit is newer than every edit of
\* its state, and it is logged at the version no watcher has gone beyond.
LEMMA WriteRowInv ==
    ASSUME IInv, NEW a \in Admins, NEW t \in Tables, WriteRow(a, t)
    PROVE  IInv'
<1> USE ConfigSyncAssumption DEF IInv, WriteRow, dbVars, watchVars
<1>0. TypeOK /\ TypeOK'
  BY AdminStepTyped DEF AdminStep
<1>1. LogBounds'
  <2>1. ASSUME NEW e \in log
        PROVE  e.at <= version' /\ e.edit <= db'[e.table] /\ e.edit <= edits'
    BY <1>0, <2>1 DEF LogBounds, TypeOK, Edit, EditNumber
  <2>2. ASSUME NEW e \in log', e \notin log
        PROVE  e.at <= version' /\ e.edit <= db'[e.table] /\ e.edit <= edits'
    <3>1. e.at = version /\ e.table = t /\ e.edit = edits + 1
      BY <2>2
    <3>2. db'[t] = edits + 1
      BY <1>0 DEF TypeOK
    <3>3. QED
      BY <1>0, <3>1, <3>2 DEF TypeOK, EditNumber
  <2>3. QED
    BY <2>1, <2>2 DEF LogBounds
<1>2. VersionBounds'
  BY <1>0 DEF VersionBounds, TypeOK
<1>3. TickIsNews'
  BY <1>0 DEF TickIsNews, TypeOK
<1>4. TodoIsReset'
  BY <1>0 DEF TodoIsReset, TypeOK
<1>5. OffIsBlank'
  BY <1>0 DEF OffIsBlank, TypeOK
<1>6. SnapCovers'
  BY <1>0 DEF SnapCovers, TypeOK, Edit, LogBounds, VersionBounds
<1>7. SwappedCovers'
  BY <1>0 DEF SwappedCovers, TypeOK, Edit, LogBounds, VersionBounds
<1>8. HolderIsNewest'
  <2> SUFFICES ASSUME NEW b \in Admins, NEW e \in log',
                      Holds(b, Host[b], e.table)', e.edit > admin'[b].edit
               PROVE  /\ synced[Host[b]] => e.at >= known[Host[b]]
                      /\ wpc[Host[b]] = "apply" /\ e.table \notin todo[Host[b]]
                            => e.at >= current[Host[b]]
    BY <1>0 DEF HolderIsNewest, Holds
  <2>1. e \in log \/ e = [edit |-> edits + 1, table |-> t, at |-> version]
    OBVIOUS
  <2>2. CASE e \in log /\ b # a
    BY <1>0, <2>2 DEF HolderIsNewest, Holds, TypeOK
  <2>3. CASE e \in log /\ b = a
    BY <1>0, <2>3 DEF LogBounds, TypeOK, Edit, EditNumber
  <2>4. CASE e = [edit |-> edits + 1, table |-> t, at |-> version]
    BY <1>0, <2>4 DEF VersionBounds, TypeOK
  <2>5. QED
    BY <2>1, <2>2, <2>3, <2>4
<1>9. HolderValue'
  BY <1>0 DEF HolderValue, TypeOK, idle
<1>10. RereadIsReload'
  BY <1>0 DEF RereadIsReload, TypeOK, idle
<1>11. Covers'
  BY <1>0 DEF Covers, TypeOK, Edit, LogBounds, VersionBounds
<1>12. QED
  BY <1>0, <1>1, <1>2, <1>3, <1>4, <1>5, <1>6, <1>7, <1>8, <1>9, <1>10, <1>11

\* Bumping the version keeps it: every logged edit stays at or below the counter.
LEMMA BumpInv ==
    ASSUME IInv, NEW a \in Admins, Bump(a)
    PROVE  IInv'
<1> USE ConfigSyncAssumption DEF IInv, Bump, dbVars, watchVars
<1>0. TypeOK /\ TypeOK'
  BY AdminStepTyped DEF AdminStep
<1>1. LogBounds'
  BY <1>0 DEF LogBounds, TypeOK, BumpedVersion, Edit
<1>2. VersionBounds'
  BY <1>0 DEF VersionBounds, TypeOK, BumpedVersion
<1>3. TickIsNews'
  BY <1>0 DEF TickIsNews, TypeOK
<1>4. TodoIsReset'
  BY <1>0 DEF TodoIsReset, TypeOK
<1>5. OffIsBlank'
  BY <1>0 DEF OffIsBlank, TypeOK
<1>6. SnapCovers'
  BY <1>0 DEF SnapCovers, TypeOK, Edit
<1>7. SwappedCovers'
  BY <1>0 DEF SwappedCovers, TypeOK, Edit
<1>8. HolderIsNewest'
  BY <1>0 DEF HolderIsNewest, TypeOK, Holds, Edit
<1>9. HolderValue'
  BY <1>0 DEF HolderValue, TypeOK
<1>10. RereadIsReload'
  BY <1>0 DEF RereadIsReload, TypeOK
<1>11. Covers'
  BY <1>0 DEF Covers, TypeOK, Edit
<1>12. QED
  BY <1>0, <1>1, <1>2, <1>3, <1>4, <1>5, <1>6, <1>7, <1>8, <1>9, <1>10, <1>11

\* A request that ends with a failed bump keeps it: its lock is released with
\* the memory behind the row, but no watcher acknowledged the missing version.
LEMMA BumpFailsInv ==
    ASSUME IInv, NEW a \in Admins, BumpFails(a)
    PROVE  IInv'
<1> USE ConfigSyncAssumption DEF IInv, BumpFails, dbVars, watchVars
<1>0. TypeOK /\ TypeOK'
  BY AdminStepTyped DEF AdminStep
<1>1. LogBounds'
  BY <1>0 DEF LogBounds, TypeOK, Edit
<1>2. VersionBounds'
  BY <1>0 DEF VersionBounds, TypeOK
<1>3. TickIsNews'
  BY <1>0 DEF TickIsNews, TypeOK
<1>4. TodoIsReset'
  BY <1>0 DEF TodoIsReset, TypeOK
<1>5. OffIsBlank'
  BY <1>0 DEF OffIsBlank, TypeOK
<1>6. SnapCovers'
  BY <1>0 DEF SnapCovers, TypeOK, Edit
<1>7. SwappedCovers'
  BY <1>0 DEF SwappedCovers, TypeOK, Edit
<1>8. HolderIsNewest'
  BY <1>0 DEF HolderIsNewest, TypeOK, Holds, Edit, idle
<1>9. HolderValue'
  BY <1>0 DEF HolderValue, TypeOK, idle
<1>10. RereadIsReload'
  BY <1>0 DEF RereadIsReload, TypeOK, idle
<1>11. Covers'
  BY <1>0 DEF Covers, TypeOK, Edit
<1>12. QED
  BY <1>0, <1>1, <1>2, <1>3, <1>4, <1>5, <1>6, <1>7, <1>8, <1>9, <1>10, <1>11

\* Reading the rows back keeps it: it changes only requests that hold no lock.
LEMMA ReadBackInv ==
    ASSUME IInv, NEW a \in Admins, ReadBack(a)
    PROVE  IInv'
<1> USE ConfigSyncAssumption DEF IInv, ReadBack, dbVars, watchVars
<1>0. TypeOK /\ TypeOK'
  BY AdminStepTyped DEF AdminStep
<1>1. LogBounds'
  BY <1>0 DEF LogBounds, TypeOK, Edit
<1>2. VersionBounds'
  BY <1>0 DEF VersionBounds, TypeOK
<1>3. TickIsNews'
  BY <1>0 DEF TickIsNews, TypeOK
<1>4. TodoIsReset'
  BY <1>0 DEF TodoIsReset, TypeOK
<1>5. OffIsBlank'
  BY <1>0 DEF OffIsBlank, TypeOK
<1>6. SnapCovers'
  BY <1>0 DEF SnapCovers, TypeOK, Edit
<1>7. SwappedCovers'
  BY <1>0 DEF SwappedCovers, TypeOK, Edit
<1>8. HolderIsNewest'
  BY <1>0 DEF HolderIsNewest, TypeOK, Holds, Edit
<1>9. HolderValue'
  BY <1>0 DEF HolderValue, TypeOK
<1>10. RereadIsReload'
  BY <1>0 DEF RereadIsReload, TypeOK
<1>11. Covers'
  BY <1>0 DEF Covers, TypeOK, Edit
<1>12. QED
  BY <1>0, <1>1, <1>2, <1>3, <1>4, <1>5, <1>6, <1>7, <1>8, <1>9, <1>10, <1>11

\* A failed reload keeps it, for the same reason.
LEMMA ReadBackFailsInv ==
    ASSUME IInv, NEW a \in Admins, ReadBackFails(a)
    PROVE  IInv'
<1> USE ConfigSyncAssumption DEF IInv, ReadBackFails, dbVars, watchVars
<1>0. TypeOK /\ TypeOK'
  BY AdminStepTyped DEF AdminStep
<1>1. LogBounds'
  BY <1>0 DEF LogBounds, TypeOK, Edit
<1>2. VersionBounds'
  BY <1>0 DEF VersionBounds, TypeOK
<1>3. TickIsNews'
  BY <1>0 DEF TickIsNews, TypeOK
<1>4. TodoIsReset'
  BY <1>0 DEF TodoIsReset, TypeOK
<1>5. OffIsBlank'
  BY <1>0 DEF OffIsBlank, TypeOK
<1>6. SnapCovers'
  BY <1>0 DEF SnapCovers, TypeOK, Edit
<1>7. SwappedCovers'
  BY <1>0 DEF SwappedCovers, TypeOK, Edit
<1>8. HolderIsNewest'
  BY <1>0 DEF HolderIsNewest, TypeOK, Holds, Edit, idle
<1>9. HolderValue'
  BY <1>0 DEF HolderValue, TypeOK, idle
<1>10. RereadIsReload'
  BY <1>0 DEF RereadIsReload, TypeOK, idle
<1>11. Covers'
  BY <1>0 DEF Covers, TypeOK, Edit
<1>12. QED
  BY <1>0, <1>1, <1>2, <1>3, <1>4, <1>5, <1>6, <1>7, <1>8, <1>9, <1>10, <1>11

\* Refreshing memory keeps it.  A handler holds the lock of a "locked" state,
\* so what it overwrites was not newer and acknowledged.
LEMMA UpdateMemoryInv ==
    ASSUME IInv, NEW a \in Admins, UpdateMemory(a)
    PROVE  IInv'
<1> USE ConfigSyncAssumption DEF IInv, UpdateMemory, dbVars, watchVars
<1>0. TypeOK /\ TypeOK'
  BY AdminStepTyped DEF AdminStep
<1>1. LogBounds'
  BY <1>0 DEF LogBounds, TypeOK, Edit
<1>2. VersionBounds'
  BY <1>0 DEF VersionBounds, TypeOK
<1>3. TickIsNews'
  BY <1>0 DEF TickIsNews, TypeOK
<1>4. TodoIsReset'
  BY <1>0 DEF TodoIsReset, TypeOK
<1>5. OffIsBlank'
  BY <1>0 DEF OffIsBlank, TypeOK
<1>6. SnapCovers'
  BY <1>0 DEF SnapCovers, TypeOK, Edit
<1>7. SwappedCovers'
  <2> SUFFICES ASSUME NEW i \in Instances, NEW e \in log, wpc[i] = "apply", e.table \notin todo[i],
                      Discipline[e.table] = "locked", e.at < current[i]
               PROVE  mem'[i][e.table] >= e.edit
    BY <1>0 DEF SwappedCovers
  <2>1. e.table \in Tables /\ e.edit \in Nat /\ e.at \in Nat
    BY <1>0 DEF TypeOK, Edit, EditNumber
  <2>2. CASE i = Host[a] /\ e.table = admin[a].table
    <3>1. admin[a] \in Request
      BY <1>0, RequestTyped
    <3>2. Holds(a, i, e.table) /\ admin[a].value = admin[a].edit
      BY <2>2 DEF Holds, HolderValue, RereadIsReload
    <3>3. ~(e.edit > admin[a].edit)
      BY <1>0, <2>1, <2>2, <3>2 DEF HolderIsNewest, TypeOK
    <3>4. mem'[i][e.table] = admin[a].edit
      BY <1>0, <2>1, <2>2, <3>2 DEF TypeOK
    <3>5. QED
      BY <2>1, <3>1, <3>3, <3>4 DEF Request, EditNumber
  <2>3. CASE ~(i = Host[a] /\ e.table = admin[a].table)
    <3>1. mem'[i][e.table] = mem[i][e.table]
      BY <1>0, <2>1, <2>3 DEF TypeOK
    <3>2. QED
      BY <3>1 DEF SwappedCovers
  <2>4. QED
    BY <2>2, <2>3
<1>8. HolderIsNewest'
  BY <1>0 DEF HolderIsNewest, TypeOK, Holds, Edit, idle
<1>9. HolderValue'
  BY <1>0 DEF HolderValue, TypeOK, idle
<1>10. RereadIsReload'
  BY <1>0 DEF RereadIsReload, TypeOK, idle
<1>11. Covers'
  <2> SUFFICES ASSUME NEW i \in Instances, NEW e \in log, synced[i],
                      Discipline[e.table] = "locked", e.at < known[i]
               PROVE  mem'[i][e.table] >= e.edit
    BY <1>0 DEF Covers
  <2>1. e.table \in Tables /\ e.edit \in Nat /\ e.at \in Nat
    BY <1>0 DEF TypeOK, Edit, EditNumber
  <2>2. CASE i = Host[a] /\ e.table = admin[a].table
    <3>1. admin[a] \in Request
      BY <1>0, RequestTyped
    <3>2. Holds(a, i, e.table) /\ admin[a].value = admin[a].edit
      BY <2>2 DEF Holds, HolderValue, RereadIsReload
    <3>3. ~(e.edit > admin[a].edit)
      BY <1>0, <2>1, <2>2, <3>2 DEF HolderIsNewest, TypeOK
    <3>4. mem'[i][e.table] = admin[a].edit
      BY <1>0, <2>1, <2>2, <3>2 DEF TypeOK
    <3>5. QED
      BY <2>1, <3>1, <3>3, <3>4 DEF Request, EditNumber
  <2>3. CASE ~(i = Host[a] /\ e.table = admin[a].table)
    <3>1. mem'[i][e.table] = mem[i][e.table]
      BY <1>0, <2>1, <2>3 DEF TypeOK
    <3>2. QED
      BY <3>1 DEF Covers
  <2>4. QED
    BY <2>2, <2>3
<1>12. QED
  BY <1>0, <1>1, <1>2, <1>3, <1>4, <1>5, <1>6, <1>7, <1>8, <1>9, <1>10, <1>11

\* Starting the watcher keeps it: the process is not in step yet.
LEMMA FirstVersionInv ==
    ASSUME IInv, NEW i \in Instances, FirstVersion(i)
    PROVE  IInv'
<1> USE ConfigSyncAssumption DEF IInv, FirstVersion, UnreadVersion, dbVars, watchVars
<1>0. TypeOK /\ TypeOK'
  BY InstanceStepTyped DEF InstanceStep
<1>1. LogBounds'
  BY <1>0 DEF LogBounds, TypeOK, Edit
<1>2. VersionBounds'
  <2>1. known'[i] <= version
    BY <1>0 DEF TypeOK
  <2>2. \A j \in Instances \ {i} : known'[j] = known[j]
    BY <1>0 DEF TypeOK
  <2>3. QED
    BY <1>0, <2>1, <2>2 DEF VersionBounds, TypeOK
<1>3. TickIsNews'
  BY <1>0 DEF TickIsNews, TypeOK
<1>4. TodoIsReset'
  BY <1>0 DEF TodoIsReset, TypeOK
<1>5. OffIsBlank'
  BY <1>0 DEF OffIsBlank, TypeOK
<1>6. SnapCovers'
  BY <1>0 DEF SnapCovers, TypeOK, Edit
<1>7. SwappedCovers'
  BY <1>0 DEF SwappedCovers, TypeOK, Edit
<1>8. HolderIsNewest'
  BY <1>0 DEF HolderIsNewest, Holds, OffIsBlank, TypeOK
<1>9. HolderValue'
  BY <1>0 DEF HolderValue, TypeOK
<1>10. RereadIsReload'
  BY <1>0 DEF RereadIsReload, TypeOK
<1>11. Covers'
  <2> SUFFICES ASSUME NEW j \in Instances, NEW e \in log, synced[j],
                      Discipline[e.table] = "locked", e.at < known'[j]
               PROVE  mem[j][e.table] >= e.edit
    BY <1>0 DEF Covers
  <2>1. j # i
    BY DEF OffIsBlank
  <2>2. known'[j] = known[j]
    BY <1>0, <2>1 DEF TypeOK
  <2>3. QED
    BY <2>2 DEF Covers
<1>12. QED
  BY <1>0, <1>1, <1>2, <1>3, <1>4, <1>5, <1>6, <1>7, <1>8, <1>9, <1>10, <1>11

\* A tick that begins keeps it: nothing is read or swapped yet.
LEMMA PollInv ==
    ASSUME IInv, NEW i \in Instances, Poll(i)
    PROVE  IInv'
<1> USE ConfigSyncAssumption DEF IInv, Poll, dbVars, watchVars
<1>0. TypeOK /\ TypeOK'
  BY InstanceStepTyped DEF InstanceStep
<1>1. LogBounds'
  BY <1>0 DEF LogBounds, TypeOK, Edit
<1>2. VersionBounds'
  BY <1>0 DEF VersionBounds, TypeOK
<1>3. TickIsNews'
  BY <1>0 DEF TickIsNews, TypeOK
<1>4. TodoIsReset'
  BY <1>0 DEF TodoIsReset, TypeOK
<1>5. OffIsBlank'
  BY <1>0 DEF OffIsBlank, TypeOK
<1>6. SnapCovers'
  <2> SUFFICES ASSUME NEW j \in Instances, NEW e \in log, e.at < current'[j],
                      \/ wpc'[j] = "fetch" /\ e.table \notin todo[j]
                      \/ wpc'[j] = "apply"
               PROVE  snap[j][e.table] >= e.edit
    BY <1>0 DEF SnapCovers
  <2>1. e.table \in Tables
    BY <1>0 DEF TypeOK, Edit
  <2>2. j # i
    BY <1>0, <2>1 DEF TodoIsReset, TypeOK
  <2>3. QED
    BY <1>0, <2>2 DEF SnapCovers, TypeOK
<1>7. SwappedCovers'
  BY <1>0 DEF SwappedCovers, TypeOK, Edit
<1>8. HolderIsNewest'
  BY <1>0 DEF HolderIsNewest, TypeOK, Holds, Edit
<1>9. HolderValue'
  BY <1>0 DEF HolderValue, TypeOK
<1>10. RereadIsReload'
  BY <1>0 DEF RereadIsReload, TypeOK
<1>11. Covers'
  BY <1>0 DEF Covers, TypeOK, Edit
<1>12. QED
  BY <1>0, <1>1, <1>2, <1>3, <1>4, <1>5, <1>6, <1>7, <1>8, <1>9, <1>10, <1>11

\* Reading one state keeps it: the rows committed before the polled version are
\* among those that are read.
LEMMA ReadTableInv ==
    ASSUME IInv, NEW i \in Instances, NEW t \in Tables, ReadTable(i, t)
    PROVE  IInv'
<1> USE ConfigSyncAssumption DEF IInv, ReadTable, dbVars, watchVars
<1>0. TypeOK /\ TypeOK'
  BY InstanceStepTyped DEF InstanceStep
<1>1. LogBounds'
  BY <1>0 DEF LogBounds, TypeOK, Edit
<1>2. VersionBounds'
  BY <1>0 DEF VersionBounds, TypeOK
<1>3. TickIsNews'
  BY <1>0 DEF TickIsNews, TypeOK
<1>4. TodoIsReset'
  <2>1. \A j \in Instances \ {i} : wpc'[j] = wpc[j] /\ todo'[j] = todo[j]
    BY <1>0 DEF TypeOK
  <2>2. wpc'[i] \in {"fetch", "apply"}
    BY <1>0 DEF TypeOK
  <2>3. QED
    BY <1>0, <2>1, <2>2 DEF TodoIsReset
<1>5. OffIsBlank'
  BY <1>0 DEF OffIsBlank, TypeOK
<1>6. SnapCovers'
  <2> SUFFICES ASSUME NEW j \in Instances, NEW e \in log, e.at < current[j],
                      \/ wpc'[j] = "fetch" /\ e.table \notin todo'[j]
                      \/ wpc'[j] = "apply"
               PROVE  snap'[j][e.table] >= e.edit
    BY <1>0 DEF SnapCovers
  <2>1. e.table \in Tables
    BY <1>0 DEF TypeOK, Edit
  <2>2. CASE j # i
    <3>1. wpc'[j] = wpc[j] /\ todo'[j] = todo[j] /\ snap'[j] = snap[j]
      BY <1>0, <2>2 DEF TypeOK
    <3>2. QED
      BY <3>1 DEF SnapCovers
  <2>3. CASE j = i /\ e.table = t
    BY <1>0, <2>3 DEF LogBounds, TypeOK
  <2>4. CASE j = i /\ e.table # t
    <3>1. wpc[i] = "fetch" /\ e.table \notin todo[i]
      BY <1>0, <2>1, <2>4 DEF TypeOK
    <3>2. snap'[i][e.table] = snap[i][e.table]
      BY <1>0, <2>1, <2>4 DEF TypeOK
    <3>3. QED
      BY <2>4, <3>1, <3>2 DEF SnapCovers
  <2>5. QED
    BY <2>2, <2>3, <2>4
<1>7. SwappedCovers'
  <2> SUFFICES ASSUME NEW j \in Instances, NEW e \in log, wpc'[j] = "apply",
                      e.table \notin todo'[j], Discipline[e.table] = "locked",
                      e.at < current[j]
               PROVE  mem[j][e.table] >= e.edit
    BY <1>0 DEF SwappedCovers
  <2>1. e.table \in Tables
    BY <1>0 DEF TypeOK, Edit
  <2>2. j # i
    BY <1>0, <2>1 DEF TypeOK
  <2>3. wpc'[j] = wpc[j] /\ todo'[j] = todo[j]
    BY <1>0, <2>2 DEF TypeOK
  <2>4. QED
    BY <2>3 DEF SwappedCovers
<1>8. HolderIsNewest'
  BY <1>0 DEF HolderIsNewest, TypeOK, Holds, Edit
<1>9. HolderValue'
  BY <1>0 DEF HolderValue, TypeOK
<1>10. RereadIsReload'
  BY <1>0 DEF RereadIsReload, TypeOK
<1>11. Covers'
  BY <1>0 DEF Covers, TypeOK, Edit
<1>12. QED
  BY <1>0, <1>1, <1>2, <1>3, <1>4, <1>5, <1>6, <1>7, <1>8, <1>9, <1>10, <1>11

\* A tick that fails keeps it: the acknowledged version stays behind.
LEMMA FetchFailsInv ==
    ASSUME IInv, NEW i \in Instances, FetchFails(i)
    PROVE  IInv'
<1> USE ConfigSyncAssumption DEF IInv, FetchFails, dbVars, watchVars
<1>0. TypeOK /\ TypeOK'
  BY InstanceStepTyped DEF InstanceStep
<1>1. LogBounds'
  BY <1>0 DEF LogBounds, TypeOK, DropTick, NextKnownVersion, Edit
<1>2. VersionBounds'
  BY <1>0 DEF VersionBounds, TypeOK, DropTick, NextKnownVersion
<1>3. TickIsNews'
  BY <1>0 DEF TickIsNews, TypeOK, DropTick, NextKnownVersion
<1>4. TodoIsReset'
  BY <1>0 DEF TodoIsReset, TypeOK, DropTick, NextKnownVersion
<1>5. OffIsBlank'
  BY <1>0 DEF OffIsBlank, TypeOK, DropTick, NextKnownVersion
<1>6. SnapCovers'
  BY <1>0 DEF SnapCovers, TypeOK, DropTick, Edit
<1>7. SwappedCovers'
  BY <1>0 DEF SwappedCovers, TypeOK, DropTick, NextKnownVersion, Edit
<1>8. HolderIsNewest'
  BY <1>0 DEF HolderIsNewest, TypeOK, Holds, DropTick, NextKnownVersion, Edit
<1>9. HolderValue'
  BY <1>0 DEF HolderValue, TypeOK, DropTick, NextKnownVersion
<1>10. RereadIsReload'
  BY <1>0 DEF RereadIsReload, TypeOK, DropTick, NextKnownVersion
<1>11. Covers'
  BY <1>0 DEF Covers, TypeOK, DropTick, NextKnownVersion, Edit
<1>12. QED
  BY <1>0, <1>1, <1>2, <1>3, <1>4, <1>5, <1>6, <1>7, <1>8, <1>9, <1>10, <1>11

\* Swapping one state keeps it: no local handler holds its lock, and with the
\* last swap every state covers the version that becomes acknowledged.
LEMMA SwapInv ==
    ASSUME IInv, NEW i \in Instances, NEW t \in Tables, Swap(i, t)
    PROVE  IInv'
<1> USE ConfigSyncAssumption DEF IInv
<1>1. TypeOK /\ TypeOK'
  BY InstanceStepTyped DEF InstanceStep
<1>2. UNCHANGED <<db, version, up, admin, log, edits>> /\ wpc[i] = "apply"
  BY DEF Swap, dbVars
<1>3. ASSUME NEW e \in log
      PROVE  e.table \in Tables /\ e.at \in Nat /\ e.edit \in Nat
  BY <1>1 DEF TypeOK, Edit, EditNumber
<1>4. ASSUME NEW j \in Instances, j # i
      PROVE  UNCHANGED <<wpc[j], known[j], current[j], snap[j], todo[j], synced[j], mem[j]>>
  <2>1. UNCHANGED mem[j]
    BY <1>1, <1>4 DEF Swap, TypeOK
  <2>2. CASE todo[i] = {t}
    <3>1. /\ wpc' = [wpc EXCEPT ![i] = "sleep"]
          /\ known' = [known EXCEPT ![i] = NextKnownVersion(known[i], current[i], TRUE)]
          /\ synced' = [synced EXCEPT ![i] = TRUE]
          /\ DropTick(i)
      BY <2>2 DEF Swap
    <3>2. UNCHANGED <<wpc[j], known[j], synced[j]>>
      BY <1>1, <1>4, <3>1 DEF TypeOK
    <3>3. UNCHANGED <<current[j], snap[j], todo[j]>>
      BY <1>1, <1>4, <3>1 DEF TypeOK, DropTick
    <3>4. QED
      BY <2>1, <3>2, <3>3
  <2>3. CASE todo[i] # {t}
    <3>1. UNCHANGED <<wpc, known, synced, current, snap>> /\ todo' = [todo EXCEPT ![i] = @ \ {t}]
      BY <2>3 DEF Swap
    <3>2. QED
      BY <1>1, <1>4, <2>1, <3>1 DEF TypeOK
  <2>4. QED
    BY <2>2, <2>3
<1>5. \A u \in Tables : mem'[i][u] = IF u = t THEN snap[i][t] ELSE mem[i][u]
  BY <1>1 DEF Swap, TypeOK
<1>6. CASE todo[i] = {t}
  <2>1. /\ DropTick(i)
        /\ known' = [known EXCEPT ![i] = NextKnownVersion(known[i], current[i], TRUE)]
        /\ wpc' = [wpc EXCEPT ![i] = "sleep"]
        /\ synced' = [synced EXCEPT ![i] = TRUE]
    BY <1>6 DEF Swap
  <2>2. known'[i] = current[i]
    BY <1>1, <1>2, <2>1 DEF NextKnownVersion, TickIsNews, TypeOK
  <2>3. wpc'[i] = "sleep" /\ todo'[i] = Tables /\ current'[i] = 0
    BY <1>1, <2>1 DEF DropTick, TypeOK
  <2>4. LogBounds' /\ VersionBounds' /\ TickIsNews' /\ TodoIsReset'
    <3>1. LogBounds'
      BY <1>2 DEF LogBounds
    <3>2. VersionBounds'
      <4>1. known[i] <= version /\ current[i] <= version /\ version \in Nat
        BY <1>1 DEF VersionBounds, TypeOK
      <4>2. known'[i] <= version' /\ current'[i] <= version'
        BY <1>2, <2>2, <2>3, <4>1
      <4>3. ASSUME NEW j \in Instances, j # i
            PROVE  known'[j] <= version' /\ current'[j] <= version'
        BY <1>2, <1>4, <4>3 DEF VersionBounds
      <4>4. QED
        BY <4>2, <4>3 DEF VersionBounds
    <3>3. TickIsNews'
      BY <1>2, <1>4, <2>3 DEF TickIsNews
    <3>4. TodoIsReset'
      BY <1>2, <1>4, <2>3 DEF TodoIsReset
    <3>5. QED
      BY <3>1, <3>2, <3>3, <3>4
  <2>5. OffIsBlank'
    BY <1>1, <1>2, <1>4, <2>3 DEF OffIsBlank, TypeOK
  <2>6. SnapCovers' /\ SwappedCovers'
    BY <1>2, <1>4, <2>3 DEF SnapCovers, SwappedCovers
  <2>7. ASSUME NEW e \in log, Discipline[e.table] = "locked", e.at < current[i]
        PROVE  mem'[i][e.table] >= e.edit
    <3>1. CASE e.table = t
      BY <1>2, <1>3, <1>5, <2>7, <3>1 DEF SnapCovers
    <3>2. CASE e.table # t
      BY <1>2, <1>3, <1>5, <1>6, <2>7, <3>2 DEF SwappedCovers
    <3>3. QED
      BY <3>1, <3>2
  <2>8. Covers'
    BY <1>2, <1>4, <2>2, <2>7 DEF Covers
  <2>9. HolderIsNewest'
    <3> SUFFICES ASSUME NEW a \in Admins, NEW e \in log,
                        Holds(a, Host[a], e.table), e.edit > admin[a].edit
                 PROVE  /\ synced'[Host[a]] => e.at >= known'[Host[a]]
                        /\ wpc'[Host[a]] = "apply" /\ e.table \notin todo'[Host[a]]
                              => e.at >= current'[Host[a]]
      BY <1>2 DEF HolderIsNewest, Holds
    <3>1. CASE Host[a] # i
      BY <1>4, <3>1 DEF HolderIsNewest
    <3>2. CASE Host[a] = i
      <4>1. e.table # t
        BY <3>2 DEF Swap, LockFree
      <4>2. e.at >= current[i]
        BY <1>2, <1>6, <3>2, <4>1 DEF HolderIsNewest
      <4>3. QED
        BY <2>2, <2>3, <3>2, <4>2
    <3>3. QED
      BY <3>1, <3>2
  <2>10. HolderValue' /\ RereadIsReload'
    BY <1>2 DEF HolderValue, RereadIsReload
  <2>11. QED
    BY <1>1, <2>4, <2>5, <2>6, <2>8, <2>9, <2>10
<1>7. CASE todo[i] # {t}
  <2>1. UNCHANGED <<wpc, known, synced, current, snap>> /\ todo' = [todo EXCEPT ![i] = @ \ {t}]
    BY <1>7 DEF Swap
  <2>2. todo'[i] = todo[i] \ {t}
    BY <1>1, <2>1 DEF TypeOK
  <2>3. LogBounds' /\ VersionBounds' /\ TickIsNews' /\ TodoIsReset' /\ OffIsBlank'
    BY <1>2, <1>4, <2>1
    DEF LogBounds, VersionBounds, TickIsNews, TodoIsReset, OffIsBlank
  <2>4. SnapCovers'
    BY <1>2, <1>4, <2>1 DEF SnapCovers
  <2>5. ASSUME NEW e \in log, e.table \notin todo'[i],
               Discipline[e.table] = "locked", e.at < current[i]
        PROVE  mem'[i][e.table] >= e.edit
    <3>1. CASE e.table = t
      BY <1>2, <1>3, <1>5, <2>5, <3>1 DEF SnapCovers
    <3>2. CASE e.table # t
      BY <1>2, <1>3, <1>5, <2>2, <2>5, <3>2 DEF SwappedCovers
    <3>3. QED
      BY <3>1, <3>2
  <2>6. SwappedCovers'
    BY <1>2, <1>4, <2>1, <2>5 DEF SwappedCovers
  <2>7. ASSUME NEW e \in log, synced[i], Discipline[e.table] = "locked", e.at < known[i]
        PROVE  mem'[i][e.table] >= e.edit
    <3>1. e.at < current[i]
      BY <1>1, <1>2, <1>3, <2>7 DEF TickIsNews, TypeOK
    <3>2. CASE e.table = t
      BY <1>2, <1>3, <1>5, <2>7, <3>1, <3>2 DEF SnapCovers
    <3>3. CASE e.table # t
      BY <1>3, <1>5, <2>7, <3>3 DEF Covers
    <3>4. QED
      BY <3>2, <3>3
  <2>8. Covers'
    BY <1>2, <1>4, <2>1, <2>7 DEF Covers
  <2>9. HolderIsNewest'
    <3> SUFFICES ASSUME NEW a \in Admins, NEW e \in log,
                        Holds(a, Host[a], e.table), e.edit > admin[a].edit
                 PROVE  /\ synced[Host[a]] => e.at >= known[Host[a]]
                        /\ wpc[Host[a]] = "apply" /\ e.table \notin todo'[Host[a]]
                              => e.at >= current[Host[a]]
      BY <1>2, <2>1 DEF HolderIsNewest, Holds
    <3>1. CASE Host[a] # i
      BY <1>4, <3>1 DEF HolderIsNewest
    <3>2. CASE Host[a] = i
      BY <2>2, <3>2 DEF HolderIsNewest, Swap, LockFree
    <3>3. QED
      BY <3>1, <3>2
  <2>10. HolderValue' /\ RereadIsReload'
    BY <1>2 DEF HolderValue, RereadIsReload
  <2>11. QED
    BY <1>1, <2>3, <2>4, <2>6, <2>8, <2>9, <2>10
<1>8. QED
  BY <1>6, <1>7

\* A crash keeps it: the process is no longer in step and its requests are gone.
LEMMA CrashInv ==
    ASSUME IInv, NEW i \in Instances, Crash(i)
    PROVE  IInv'
<1> USE ConfigSyncAssumption DEF IInv, Crash, dbVars, watchVars
<1>0. TypeOK /\ TypeOK'
  BY InstanceStepTyped DEF InstanceStep
<1>1. LogBounds'
  BY <1>0 DEF LogBounds, TypeOK, DropTick, Edit
<1>2. VersionBounds'
  BY <1>0 DEF VersionBounds, TypeOK, DropTick
<1>3. TickIsNews'
  BY <1>0 DEF TickIsNews, TypeOK, DropTick
<1>4. TodoIsReset'
  BY <1>0 DEF TodoIsReset, TypeOK, DropTick
<1>5. OffIsBlank'
  BY <1>0 DEF OffIsBlank, TypeOK, DropTick
<1>6. SnapCovers'
  BY <1>0 DEF SnapCovers, TypeOK, DropTick, Edit
<1>7. SwappedCovers'
  BY <1>0 DEF SwappedCovers, TypeOK, DropTick, Edit
<1>8. HolderIsNewest'
  BY <1>0 DEF HolderIsNewest, TypeOK, Holds, DropTick, Edit, idle
<1>9. HolderValue'
  BY <1>0 DEF HolderValue, TypeOK, DropTick, idle
<1>10. RereadIsReload'
  BY <1>0 DEF RereadIsReload, TypeOK, DropTick, idle
<1>11. Covers'
  BY <1>0 DEF Covers, TypeOK, DropTick, Edit
<1>12. QED
  BY <1>0, <1>1, <1>2, <1>3, <1>4, <1>5, <1>6, <1>7, <1>8, <1>9, <1>10, <1>11

\* Starting a process keeps it: it holds nothing yet.
LEMMA RestartInv ==
    ASSUME IInv, NEW i \in Instances, Restart(i)
    PROVE  IInv'
<1> USE ConfigSyncAssumption DEF IInv, Restart, dbVars, watchVars
<1>0. TypeOK /\ TypeOK'
  BY InstanceStepTyped DEF InstanceStep
<1>1. LogBounds'
  BY <1>0 DEF LogBounds, TypeOK, Edit
<1>2. VersionBounds'
  BY <1>0 DEF VersionBounds, TypeOK
<1>3. TickIsNews'
  BY <1>0 DEF TickIsNews, TypeOK
<1>4. TodoIsReset'
  BY <1>0 DEF TodoIsReset, TypeOK
<1>5. OffIsBlank'
  BY <1>0 DEF OffIsBlank, TypeOK
<1>6. SnapCovers'
  BY <1>0 DEF SnapCovers, TypeOK, Edit
<1>7. SwappedCovers'
  BY <1>0 DEF SwappedCovers, TypeOK, Edit
<1>8. HolderIsNewest'
  BY <1>0 DEF HolderIsNewest, TypeOK, Holds, Edit
<1>9. HolderValue'
  BY <1>0 DEF HolderValue, TypeOK
<1>10. RereadIsReload'
  BY <1>0 DEF RereadIsReload, TypeOK
<1>11. Covers'
  BY <1>0 DEF Covers, TypeOK, Edit
<1>12. QED
  BY <1>0, <1>1, <1>2, <1>3, <1>4, <1>5, <1>6, <1>7, <1>8, <1>9, <1>10, <1>11

\* Reading one state at start-up keeps it.
LEMMA LoadInv ==
    ASSUME IInv, NEW i \in Instances, NEW t \in Tables, Load(i, t)
    PROVE  IInv'
<1> USE ConfigSyncAssumption DEF IInv
<1>1. TypeOK /\ TypeOK'
  BY InstanceStepTyped DEF InstanceStep
<1>2. /\ UNCHANGED <<db, version, admin, log, edits, known, current, snap, synced>>
      /\ wpc[i] = "off" /\ ~synced[i]
  BY DEF Load, OffIsBlank, dbVars
<1>3. ASSUME NEW j \in Instances, j # i
      PROVE  UNCHANGED <<up[j], wpc[j], todo[j], mem[j]>>
  BY <1>1, <1>3 DEF Load, TypeOK
<1>4. /\ wpc'[i] \in {"off", "starting"}
      /\ up'[i] # "up" => wpc'[i] = "off"
      /\ wpc'[i] = "starting" => todo'[i] = Tables
  <2>1. CASE todo[i] = {t}
    BY <1>1, <2>1 DEF Load, TypeOK
  <2>2. CASE todo[i] # {t}
    BY <1>1, <1>2, <2>2 DEF Load, TypeOK
  <2>3. QED
    BY <2>1, <2>2
<1>5. LogBounds' /\ VersionBounds' /\ HolderValue' /\ RereadIsReload'
  BY <1>2 DEF LogBounds, VersionBounds, HolderValue, RereadIsReload
<1>6. TickIsNews' /\ TodoIsReset' /\ OffIsBlank'
  BY <1>2, <1>3, <1>4 DEF TickIsNews, TodoIsReset, OffIsBlank
<1>7. SnapCovers' /\ SwappedCovers' /\ Covers'
  BY <1>2, <1>3, <1>4 DEF SnapCovers, SwappedCovers, Covers
<1>8. HolderIsNewest'
  BY <1>2, <1>3, <1>4 DEF HolderIsNewest, Holds
<1>9. QED
  BY <1>1, <1>5, <1>6, <1>7, <1>8

\* The invariant is inductive and implies the property.
THEOREM InductiveInvariant == Spec => []IInv
<1>1. IInv /\ [Next]_vars => IInv'
  <2> SUFFICES ASSUME IInv, [Next]_vars
               PROVE  IInv'
    OBVIOUS
  <2>1. CASE UNCHANGED vars
    BY <2>1 DEF vars, IInv, TypeOK, LogBounds, VersionBounds, TickIsNews, TodoIsReset,
       OffIsBlank, SnapCovers, SwappedCovers, HolderIsNewest, Holds, HolderValue,
       RereadIsReload, Covers
  <2>2. ASSUME NEW a \in Admins, AdminStep(a)
        PROVE  IInv'
    BY <2>2, WriteRowInv, BumpInv, BumpFailsInv, ReadBackInv, ReadBackFailsInv,
       UpdateMemoryInv DEF AdminStep
  <2>3. ASSUME NEW i \in Instances, InstanceStep(i)
        PROVE  IInv'
    BY <2>3, FirstVersionInv, PollInv, ReadTableInv, FetchFailsInv, SwapInv, CrashInv,
       RestartInv, LoadInv DEF InstanceStep
  <2>4. QED
    BY <2>1, <2>2, <2>3 DEF Next
<1>2. QED
  BY <1>1, InitInv, PTL DEF Spec

\* A watcher that acknowledged a version holds every row committed before it,
\* for any number of processes, requests, states, edits, failures and crashes.
THEOREM AcknowledgedIsAlwaysHeld == Spec => []AcknowledgedIsHeld
<1>1. IInv => AcknowledgedIsHeld
  BY ConfigSyncAssumption DEF IInv, Covers, AcknowledgedIsHeld
<1>2. QED
  BY <1>1, InductiveInvariant, PTL

=============================================================================
