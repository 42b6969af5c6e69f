------------------------ MODULE ConfigSyncRefinement ------------------------
(***************************************************************************)
(* ConfigSync implements ReplicatedConfig, for any number of processes,    *)
(* requests, states and edits.                                             *)
(***************************************************************************)
EXTENDS ConfigSyncProofs

\* The contents state t has had.
Committed(t) == {0} \cup {e.edit : e \in {f \in log : f.table = t}}

\* Nothing but committed content is in SQLite, in memory, in a snapshot under
\* construction or in the hands of a request.
Genuine ==
    /\ \A t \in Tables : db[t] \in Committed(t)
    /\ \A i \in Instances, t \in Tables : mem[i][t] \in Committed(t)
    /\ \A i \in Instances, t \in Tables : snap[i][t] \in Committed(t)
    /\ \A a \in Admins :
        admin[a].pc # "idle" => admin[a].value \in Committed(admin[a].table)

\* What was committed stays committed.
LEMMA CommittedGrows ==
    ASSUME NEW t, log \subseteq log'
    PROVE  Committed(t) \subseteq Committed(t)'
  BY DEF Committed

\* Content is genuine initially.
LEMMA InitGenuine == Init => Genuine
  BY ConfigSyncAssumption DEF Init, Genuine, Committed, Empty, idle

\* A request moves committed content from its row to memory.
LEMMA AdminStepGenuine ==
    ASSUME TypeOK, Genuine, NEW a \in Admins, AdminStep(a)
    PROVE  Genuine'
<1> USE ConfigSyncAssumption DEF dbVars, watchVars
<1>1. ASSUME NEW t \in Tables, WriteRow(a, t)
      PROVE  Genuine'
  <2>1. log \subseteq log'
    BY <1>1 DEF WriteRow
  <2> DEFINE new == [edit |-> edits + 1, table |-> t, at |-> version]
  <2>2. edits + 1 \in Committed(t)'
    <3>1. new \in log' /\ new.table = t /\ new.edit = edits + 1
      BY <1>1 DEF WriteRow
    <3> HIDE DEF new
    <3>2. QED
      BY <3>1 DEF Committed
  <2>3. \A u \in Tables : db'[u] \in Committed(u)'
    BY <1>1, <2>1, <2>2, CommittedGrows DEF WriteRow, Genuine, TypeOK
  <2>4. ASSUME NEW b \in Admins, admin'[b].pc # "idle"
        PROVE  (admin[b].value \in Committed(admin[b].table))'
    <3>1. CASE b = a
      <4>1. admin'[b].value = edits + 1 /\ admin'[b].table = t
        BY <1>1, <3>1 DEF WriteRow, TypeOK
      <4>2. QED
        BY <2>2, <4>1 DEF Committed
    <3>2. CASE b # a
      <4>1. admin'[b] = admin[b]
        BY <1>1, <3>2 DEF WriteRow, TypeOK
      <4>2. admin[b].value \in Committed(admin[b].table)
        BY <2>4, <4>1 DEF Genuine
      <4>3. QED
        BY <2>1, <4>1, <4>2 DEF Committed
    <3>3. QED
      BY <3>1, <3>2
  <2>5. UNCHANGED <<mem, snap>>
    BY <1>1 DEF WriteRow
  <2>6. \A i \in Instances, u \in Tables :
            mem'[i][u] \in Committed(u)' /\ snap'[i][u] \in Committed(u)'
    BY <2>1, <2>5, CommittedGrows DEF Genuine
  <2>7. QED
    BY <2>3, <2>4, <2>6 DEF Genuine
<1>2. CASE Bump(a)
  <2>1. UNCHANGED <<log, db, mem, snap>>
    BY <1>2 DEF Bump
  <2>2. \A b \in Admins : admin'[b].pc # "idle" =>
            admin'[b].value \in Committed(admin'[b].table)
    <3> SUFFICES ASSUME NEW b \in Admins, admin'[b].pc # "idle"
                 PROVE  admin'[b].value \in Committed(admin'[b].table)
      OBVIOUS
    <3>1. CASE b = a
      <4>1. admin[a] \in Request /\ admin[a].pc # "idle"
        BY <1>2, RequestTyped DEF Bump
      <4>2. admin'[a].value = admin[a].value /\ admin'[a].table = admin[a].table
        BY <1>2, <4>1 DEF Bump, TypeOK, Request
      <4>3. QED
        BY <3>1, <4>1, <4>2 DEF Genuine
    <3>2. CASE b # a
      BY <1>2, <3>2 DEF Bump, Genuine, TypeOK
    <3>3. QED
      BY <3>1, <3>2
  <2>3. QED
    BY <2>1, <2>2 DEF Genuine, Committed
<1>3. CASE BumpFails(a) \/ ReadBackFails(a)
  <2>1. UNCHANGED <<log, db, mem, snap>> /\ admin' = [admin EXCEPT ![a] = idle]
    BY <1>3 DEF BumpFails, ReadBackFails
  <2>2. \A b \in Admins : admin'[b].pc # "idle" =>
            admin'[b].value \in Committed(admin'[b].table)
    BY <2>1 DEF Genuine, TypeOK, idle
  <2>3. QED
    BY <2>1, <2>2 DEF Genuine, Committed
<1>4. CASE ReadBack(a)
  <2>1. admin[a] \in Request
    BY <1>4, RequestTyped DEF ReadBack
  <2>2. db[admin[a].table] \in Committed(admin[a].table)
    BY <2>1 DEF Genuine, Request
  <2>3. UNCHANGED <<log, db, mem, snap>>
    BY <1>4 DEF ReadBack
  <2>4. \A b \in Admins : admin'[b].pc # "idle" =>
            admin'[b].value \in Committed(admin'[b].table)
    BY <1>4, <2>1, <2>2 DEF ReadBack, Genuine, TypeOK, Request
  <2>5. QED
    BY <2>3, <2>4 DEF Genuine, Committed
<1>5. CASE UpdateMemory(a)
  <2>1. admin[a] \in Request
    BY <1>5, RequestTyped DEF UpdateMemory
  <2>2. admin[a].value \in Committed(admin[a].table)
    BY <1>5 DEF UpdateMemory, Genuine
  <2>3. UNCHANGED <<log, db, snap>>
    BY <1>5 DEF UpdateMemory
  <2>4. \A i \in Instances, t \in Tables : mem'[i][t] \in Committed(t)
    BY <1>5, <2>1, <2>2 DEF UpdateMemory, Genuine, TypeOK, Request
  <2>5. \A b \in Admins : admin'[b].pc # "idle" =>
            admin'[b].value \in Committed(admin'[b].table)
    BY <1>5 DEF UpdateMemory, Genuine, TypeOK, idle
  <2>6. QED
    BY <2>3, <2>4, <2>5 DEF Genuine, Committed
<1>6. QED
  BY <1>1, <1>2, <1>3, <1>4, <1>5 DEF AdminStep

\* A process moves committed content from SQLite to its snapshot and memory.
LEMMA InstanceStepGenuine ==
    ASSUME TypeOK, Genuine, NEW i \in Instances, InstanceStep(i)
    PROVE  Genuine'
<1> USE ConfigSyncAssumption DEF dbVars, watchVars
<1>0. \A t \in Tables : Empty[t] \in Committed(t)
  BY DEF Empty, Committed
<1>1. CASE FirstVersion(i) \/ Poll(i) \/ Restart(i)
  BY <1>1 DEF FirstVersion, Poll, Restart, Genuine, Committed
<1>2. ASSUME NEW t \in Tables, ReadTable(i, t)
      PROVE  Genuine'
  <2>1. UNCHANGED <<log, db, mem, admin>> /\ snap' = [snap EXCEPT ![i][t] = db[t]]
    BY <1>2 DEF ReadTable
  <2>2. \A j \in Instances, u \in Tables : snap'[j][u] \in Committed(u)
    BY <2>1 DEF Genuine, TypeOK
  <2>3. QED
    BY <2>1, <2>2 DEF Genuine, Committed
<1>3. CASE FetchFails(i)
  <2>1. UNCHANGED <<log, db, mem, admin>> /\ snap' = [snap EXCEPT ![i] = Empty]
    BY <1>3 DEF FetchFails, DropTick
  <2>2. \A j \in Instances, u \in Tables : snap'[j][u] \in Committed(u)
    BY <1>0, <2>1 DEF Genuine, TypeOK
  <2>3. QED
    BY <2>1, <2>2 DEF Genuine, Committed
<1>4. ASSUME NEW t \in Tables, Swap(i, t)
      PROVE  Genuine'
  <2>1. UNCHANGED <<log, db, admin>> /\ mem' = [mem EXCEPT ![i][t] = snap[i][t]]
    BY <1>4 DEF Swap
  <2>2. snap' = snap \/ snap' = [snap EXCEPT ![i] = Empty]
    BY <1>4 DEF Swap, DropTick
  <2>3. \A j \in Instances, u \in Tables : mem'[j][u] \in Committed(u)
    BY <2>1 DEF Genuine, TypeOK
  <2>4. \A j \in Instances, u \in Tables : snap'[j][u] \in Committed(u)
    BY <1>0, <2>2 DEF Genuine, TypeOK
  <2>5. QED
    BY <2>1, <2>3, <2>4 DEF Genuine, Committed
<1>5. CASE Crash(i)
  <2>1. /\ UNCHANGED <<log, db>>
        /\ mem' = [mem EXCEPT ![i] = Empty]
        /\ snap' = [snap EXCEPT ![i] = Empty]
        /\ admin' = [a \in Admins |-> IF Host[a] = i THEN idle ELSE admin[a]]
    BY <1>5 DEF Crash, DropTick
  <2>2. \A j \in Instances, u \in Tables :
            mem'[j][u] \in Committed(u) /\ snap'[j][u] \in Committed(u)
    BY <1>0, <2>1 DEF Genuine, TypeOK
  <2>3. \A a \in Admins : admin'[a].pc # "idle" =>
            admin'[a].value \in Committed(admin'[a].table)
    BY <2>1 DEF Genuine, idle
  <2>4. QED
    BY <2>1, <2>2, <2>3 DEF Genuine, Committed
<1>6. ASSUME NEW t \in Tables, Load(i, t)
      PROVE  Genuine'
  <2>1. UNCHANGED <<log, db, snap, admin>> /\ mem' = [mem EXCEPT ![i][t] = db[t]]
    BY <1>6 DEF Load
  <2>2. \A j \in Instances, u \in Tables : mem'[j][u] \in Committed(u)
    BY <2>1 DEF Genuine, TypeOK
  <2>3. QED
    BY <2>1, <2>2 DEF Genuine, Committed
<1>7. QED
  BY <1>1, <1>2, <1>3, <1>4, <1>5, <1>6 DEF InstanceStep

\* No process ever shows content that nobody committed.
LEMMA GenuineInvariant == Spec => []Genuine
<1>1. TypeOK /\ Genuine /\ [Next]_vars => Genuine'
  <2> SUFFICES ASSUME TypeOK, Genuine, [Next]_vars
               PROVE  Genuine'
    OBVIOUS
  <2>1. CASE UNCHANGED vars
    BY <2>1 DEF vars, Genuine, Committed
  <2>2. QED
    BY <2>1, AdminStepGenuine, InstanceStepGenuine DEF Next
<1>2. QED
  BY <1>1, InitGenuine, TypeCorrect, PTL DEF Spec

-----------------------------------------------------------------------------
(***************************************************************************)
(* Every step is a step of ReplicatedConfig or leaves its variables alone. *)
(***************************************************************************)

\* What a process has acknowledged is a published version.
LEMMA AcknowledgedTyped ==
    ASSUME IInv, NEW i \in Instances
    PROVE  Acknowledged(i) \in Nat /\ Acknowledged(i) <= version
  BY DEF Acknowledged, IInv, TypeOK, VersionBounds

\* A step that concerns one process, and lets it acknowledge no less, shows
\* committed contents up to date with what it has acknowledged.
LEMMA ShowStep ==
    ASSUME IInv, IInv', Genuine', NEW i \in Instances,
           UNCHANGED <<log, version>>,
           \A j \in Instances \ {i} :
               mem'[j] = mem[j] /\ Acknowledged(j)' = Acknowledged(j),
           Acknowledged(i)' >= Acknowledged(i)
    PROVE  R!Show(i)
<1> DEFINE v == [t \in Locked |-> mem'[i][t]]
           k == Acknowledged(i)'
           L == {e \in log : e.table \in Locked}
<1>1. v \in [Locked -> {0} \cup EditNumber]
  BY DEF Locked, IInv, TypeOK
<1>2. k \in Acknowledged(i)..version
  BY AcknowledgedTyped DEF Acknowledged, IInv, TypeOK, VersionBounds
<1>3. \A t \in Locked : v[t] \in {0} \cup {e.edit : e \in {f \in L : f.table = t}}
  BY DEF Genuine, Committed, Locked
<1>4. ASSUME NEW e \in L, e.at < k
      PROVE  v[e.table] >= e.edit
  <2>1. e \in log' /\ Discipline[e.table] = "locked" /\ e.at \in Nat
    BY DEF Locked, IInv, TypeOK, Edit
  <2>2. synced'[i] /\ e.at < known'[i]
    BY <1>4, <2>1 DEF Acknowledged
  <2>3. mem'[i][e.table] >= e.edit
    BY <2>1, <2>2 DEF IInv, Covers
  <2>4. QED
    BY <2>3
<1>5. [j \in Instances |-> [t \in Locked |-> mem'[j][t]]]
        = [[j \in Instances |-> [t \in Locked |-> mem[j][t]]] EXCEPT ![i] = v]
  OBVIOUS
<1>6. [j \in Instances |-> Acknowledged(j)']
        = [[j \in Instances |-> Acknowledged(j)] EXCEPT ![i] = k]
  OBVIOUS
<1>7. Acknowledged(i) = [j \in Instances |-> Acknowledged(j)][i]
  OBVIOUS
<1> HIDE DEF v, k
<1>8. QED
  BY <1>1, <1>2, <1>3, <1>4, <1>5, <1>6, <1>7
  DEF R!Show, R!UpToDate, R!Contents

\* A step that leaves log, version, memory and acknowledgements alone stutters.
LEMMA StutterStep ==
    ASSUME UNCHANGED <<log, version, mem, known, synced>>
    PROVE  UNCHANGED R!vars
  BY DEF R!vars, Acknowledged

\* Committing a row of a "locked" state is a commit, any other a stutter.
LEMMA WriteRowStep ==
    ASSUME IInv, NEW a \in Admins, NEW t \in Tables, WriteRow(a, t)
    PROVE  [R!Next]_(R!vars)
<1>1. /\ UNCHANGED <<version, mem, known, synced>>
      /\ log' = log \cup {[edit |-> edits + 1, table |-> t, at |-> version]}
      /\ edits + 1 \in EditNumber
  BY ConfigSyncAssumption DEF WriteRow, watchVars, IInv, TypeOK, EditNumber
<1>2. CASE t \in Locked
  <2>1. {e \in log : e.table \in Locked}' = {e \in log : e.table \in Locked}
            \cup {[edit |-> edits + 1, table |-> t, at |-> version]}
    BY <1>1, <1>2 DEF Locked
  <2>2. \A e \in log : e.edit < edits + 1
    BY DEF IInv, LogBounds, TypeOK, Edit, EditNumber
  <2>3. R!Commit(t, edits + 1)
    BY <1>1, <2>1, <2>2 DEF R!Commit, Acknowledged
  <2>4. R!Next
    BY <1>1, <1>2, <2>3 DEF R!Next, R!Commit
  <2>5. QED
    BY <2>4
<1>3. CASE t \notin Locked
  <2>1. {e \in log : e.table \in Locked}' = {e \in log : e.table \in Locked}
    BY <1>1, <1>3 DEF Locked
  <2>2. QED
    BY <1>1, <2>1 DEF R!vars, Acknowledged
<1>4. QED
  BY <1>2, <1>3

\* Every other step of a request publishes, shows, or stutters.
LEMMA AdminStepRefines ==
    ASSUME IInv, IInv', Genuine', NEW a \in Admins, AdminStep(a)
    PROVE  [R!Next]_(R!vars)
<1> USE DEF dbVars, watchVars
<1>1. CASE \E t \in Tables : WriteRow(a, t)
  BY <1>1, WriteRowStep
<1>2. CASE Bump(a)
  <2>1. UNCHANGED <<log, mem, known, synced>> /\ version' = version + 1
    BY <1>2 DEF Bump, BumpedVersion
  <2>2. R!Publish
    BY <2>1 DEF R!Publish, Acknowledged
  <2>3. QED
    BY <2>2 DEF R!Next
<1>3. CASE BumpFails(a) \/ ReadBack(a) \/ ReadBackFails(a)
  BY <1>3, StutterStep DEF BumpFails, ReadBack, ReadBackFails
<1>4. CASE UpdateMemory(a)
  <2>1. /\ UNCHANGED <<log, version, known, synced>> /\ Host[a] \in Instances
        /\ mem' = [mem EXCEPT ![Host[a]][admin[a].table] = admin[a].value]
    BY <1>4, ConfigSyncAssumption DEF UpdateMemory
  <2>2. \A j \in Instances : Acknowledged(j)' = Acknowledged(j)
    BY <2>1 DEF Acknowledged
  <2>3. \A j \in Instances \ {Host[a]} : mem'[j] = mem[j]
    BY <2>1 DEF IInv, TypeOK
  <2>4. Acknowledged(Host[a])' >= Acknowledged(Host[a])
    BY <2>1, <2>2, AcknowledgedTyped
  <2>5. R!Show(Host[a])
    BY <2>1, <2>2, <2>3, <2>4, ShowStep
  <2>6. QED
    BY <2>1, <2>5 DEF R!Next
<1>5. QED
  BY <1>1, <1>2, <1>3, <1>4 DEF AdminStep

\* Every step of a process shows, loses, or stutters.
LEMMA InstanceStepRefines ==
    ASSUME IInv, IInv', Genuine', NEW i \in Instances, InstanceStep(i)
    PROVE  [R!Next]_(R!vars)
<1> USE DEF dbVars, watchVars
<1>0. TypeOK
  BY DEF IInv
<1>1. CASE FirstVersion(i)
  <2>1. UNCHANGED <<log, version, mem, synced>> /\ ~synced[i]
    BY <1>1 DEF FirstVersion, IInv, OffIsBlank
  <2>2. \A j \in Instances \ {i} : known'[j] = known[j]
    BY <1>0, <1>1 DEF FirstVersion, TypeOK
  <2>3. \A j \in Instances : Acknowledged(j)' = Acknowledged(j)
    BY <2>1, <2>2 DEF Acknowledged
  <2>4. QED
    BY <2>1, <2>3 DEF R!vars
<1>2. CASE Poll(i) \/ Restart(i) \/ \E t \in Tables : ReadTable(i, t)
  BY <1>2, StutterStep DEF Poll, Restart, ReadTable
<1>3. CASE FetchFails(i)
  <2>1. known'[i] = known[i] /\ \A j \in Instances \ {i} : known'[j] = known[j]
    BY <1>0, <1>3 DEF FetchFails, NextKnownVersion, TypeOK
  <2>2. UNCHANGED <<log, version, mem, synced>>
    BY <1>3 DEF FetchFails
  <2>3. QED
    BY <2>1, <2>2 DEF R!vars, Acknowledged
<1>4. ASSUME NEW t \in Tables, Swap(i, t)
      PROVE  R!Show(i)
  <2>1. UNCHANGED <<log, version>> /\ mem' = [mem EXCEPT ![i][t] = snap[i][t]]
    BY <1>4 DEF Swap
  <2>2. \A j \in Instances \ {i} : mem'[j] = mem[j]
    BY <1>0, <2>1 DEF TypeOK
  <2>3. CASE todo[i] = {t}
    <3>1. /\ known' = [known EXCEPT ![i] = NextKnownVersion(known[i], current[i], TRUE)]
          /\ synced' = [synced EXCEPT ![i] = TRUE]
      BY <1>4, <2>3 DEF Swap
    <3>2. \A j \in Instances \ {i} : Acknowledged(j)' = Acknowledged(j)
      BY <1>0, <3>1 DEF Acknowledged, TypeOK
    <3>3. known'[i] = NextKnownVersion(known[i], current[i], TRUE) /\ synced'[i]
      BY <1>0, <3>1 DEF TypeOK
    <3>4. known'[i] >= known[i] /\ known'[i] \in Nat
      BY <1>0, <3>3 DEF NextKnownVersion, TypeOK
    <3>5. Acknowledged(i)' >= Acknowledged(i)
      <4>1. Acknowledged(i)' = known'[i]
        BY <3>3 DEF Acknowledged
      <4>2. Acknowledged(i) \in {0, known[i]} /\ known[i] \in Nat
        BY <1>0 DEF Acknowledged, TypeOK
      <4>3. QED
        BY <3>4, <4>1, <4>2
    <3>6. QED
      BY <2>1, <2>2, <3>2, <3>5, ShowStep
  <2>4. CASE todo[i] # {t}
    <3>1. UNCHANGED <<known, synced>>
      BY <1>4, <2>4 DEF Swap
    <3>2. \A j \in Instances : Acknowledged(j)' = Acknowledged(j)
      BY <3>1 DEF Acknowledged
    <3>3. Acknowledged(i)' >= Acknowledged(i)
      BY <3>2, AcknowledgedTyped
    <3>4. QED
      BY <2>1, <2>2, <3>2, <3>3, ShowStep
  <2>5. QED
    BY <2>3, <2>4
<1>5. CASE Crash(i)
  <2>1. /\ UNCHANGED <<log, version>>
        /\ mem' = [mem EXCEPT ![i] = Empty]
        /\ synced' = [synced EXCEPT ![i] = FALSE]
        /\ known' = [known EXCEPT ![i] = 0]
    BY <1>5 DEF Crash
  <2>2. Acknowledged(i)' = 0 /\ \A j \in Instances \ {i} : Acknowledged(j)' = Acknowledged(j)
    BY <1>0, <2>1 DEF Acknowledged, TypeOK
  <2>3. \A j \in Instances \ {i} : mem'[j] = mem[j]
    BY <1>0, <2>1 DEF TypeOK
  <2>4. \A t \in Locked : mem'[i][t] = 0
    BY <1>0, <2>1 DEF TypeOK, Empty, Locked
  <2>5. [j \in Instances |-> [t \in Locked |-> mem'[j][t]]]
          = [[j \in Instances |-> [t \in Locked |-> mem[j][t]]] EXCEPT ![i] = [t \in Locked |-> 0]]
    BY <2>3, <2>4
  <2>6. [j \in Instances |-> Acknowledged(j)']
          = [[j \in Instances |-> Acknowledged(j)] EXCEPT ![i] = 0]
    BY <2>2
  <2>7. R!Lose(i)
    BY <2>1, <2>5, <2>6 DEF R!Lose
  <2>8. QED
    BY <2>7 DEF R!Next
<1>6. ASSUME NEW t \in Tables, Load(i, t)
      PROVE  R!Show(i)
  <2>1. UNCHANGED <<log, version, known, synced>> /\ mem' = [mem EXCEPT ![i][t] = db[t]]
    BY <1>6 DEF Load
  <2>2. \A j \in Instances \ {i} : mem'[j] = mem[j]
    BY <1>0, <2>1 DEF TypeOK
  <2>3. \A j \in Instances : Acknowledged(j)' = Acknowledged(j)
    BY <2>1 DEF Acknowledged
  <2>4. Acknowledged(i)' >= Acknowledged(i)
    BY <2>3, AcknowledgedTyped
  <2>5. QED
    BY <2>1, <2>2, <2>3, <2>4, ShowStep
<1>7. QED
  BY <1>1, <1>2, <1>3, <1>4, <1>5, <1>6 DEF InstanceStep, R!Next

\* The initial state is the initial state of ReplicatedConfig.
LEMMA InitRefines == Init => R!Init
  BY ConfigSyncAssumption DEF Init, R!Init, Acknowledged, Empty, Locked

\* The processes implement ReplicatedConfig.
THEOREM Refinement == Spec => ImplementsReplicatedConfig
<1>1. IInv /\ IInv' /\ Genuine' /\ [Next]_vars => [R!Next]_(R!vars)
  <2> SUFFICES ASSUME IInv, IInv', Genuine', [Next]_vars
               PROVE  [R!Next]_(R!vars)
    OBVIOUS
  <2>1. CASE UNCHANGED vars
    BY <2>1, StutterStep DEF vars
  <2>2. QED
    BY <2>1, AdminStepRefines, InstanceStepRefines DEF Next
<1>2. QED
  BY <1>1, InitRefines, InductiveInvariant, GenuineInvariant, PTL
  DEF Spec, ImplementsReplicatedConfig, R!Spec

=============================================================================
