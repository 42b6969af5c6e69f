-------------------------- MODULE ReplicatedConfig --------------------------
(***************************************************************************)
(* What configuration replication promises, with no word about rows,       *)
(* locks, snapshots or polling: ConfigSync implements it for the states    *)
(* whose handlers hold the lock throughout.                                *)
(*                                                                         *)
(* A replica shows only contents that were committed.  It acknowledges     *)
(* published versions, never fewer than before unless it loses everything, *)
(* and shows every edit that was committed before a version it has         *)
(* acknowledged was published.  A replica may go back to an older content, *)
(* but not behind what it has acknowledged.                                *)
(***************************************************************************)
EXTENDS Naturals

CONSTANTS
    Replicas,      \* the processes
    States,        \* the replicated states
    Edits          \* the numbers an edit can have

VARIABLES
    log,           \* the committed edits: number, state, version at the time
    published,     \* the version counter
    acked,         \* acked[i]: the version replica i has acknowledged
    view           \* view[i][t]: the edit whose content replica i shows

vars == <<log, published, acked, view>>

\* The contents a state has had, the one before every edit included.
Contents(t) == {0} \cup {e.edit : e \in {f \in log : f.table = t}}

\* A replica that shows v is up to date with version k.
UpToDate(v, k) == \A e \in log : e.at < k => v[e.table] >= e.edit

Init ==
    /\ log = {}
    /\ published = 0
    /\ acked = [i \in Replicas |-> 0]
    /\ view = [i \in Replicas |-> [t \in States |-> 0]]

\* An edit is committed, newer than every earlier one, no replica involved.
Commit(t, n) ==
    /\ \A e \in log : e.edit < n
    /\ log' = log \cup {[edit |-> n, table |-> t, at |-> published]}
    /\ UNCHANGED <<published, acked, view>>

\* A version is published; it covers every edit committed so far.
Publish ==
    /\ published' = published + 1
    /\ UNCHANGED <<log, acked, view>>

\* Replica i shows other contents, acknowledges a version, or both.
Show(i) ==
    \E v \in [States -> {0} \cup Edits], k \in acked[i]..published :
        /\ \A t \in States : v[t] \in Contents(t)
        /\ UpToDate(v, k)
        /\ view' = [view EXCEPT ![i] = v]
        /\ acked' = [acked EXCEPT ![i] = k]
        /\ UNCHANGED <<log, published>>

\* Replica i crashes: it shows nothing and has acknowledged nothing.
Lose(i) ==
    /\ view' = [view EXCEPT ![i] = [t \in States |-> 0]]
    /\ acked' = [acked EXCEPT ![i] = 0]
    /\ UNCHANGED <<log, published>>

Next ==
    \/ \E t \in States : \E n \in Edits : Commit(t, n)
    \/ Publish
    \/ \E i \in Replicas : Show(i) \/ Lose(i)

Spec == Init /\ [][Next]_vars

=============================================================================
