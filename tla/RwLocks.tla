------------------------------- MODULE RwLocks -------------------------------
(***************************************************************************)
(* The RwLocks of one process around its in-memory states (main.rs), and   *)
(* the handlers and tasks that take them.  A handler is a script: the      *)
(* guards it takes and drops, in the order of its source, with everything  *)
(* between two of them left out.  HandlerLocks has the scripts.            *)
(*                                                                         *)
(* tokio::sync::RwLock is fair: it serves its requests in arrival order.   *)
(* A lock is therefore one queue of guards and of requests for a guard,    *)
(* and a request is a guard as soon as nothing ahead of it conflicts.      *)
(***************************************************************************)
EXTENDS Naturals, Sequences, SequencesExt

CONSTANTS
    Tasks,     \* requests and background tasks that may run at a time
    Locks,     \* the RwLocks
    Handlers,  \* the handlers they may run
    Script     \* Script[h]: the guards h takes and drops

\* A drop tells how many steps back its guard was taken.
Step == [do : {"read", "write", "drop"}, lock : Locks, back : Nat]

ASSUME ScriptAssumption == Script \in [Handlers -> Seq(Step)]

VARIABLES
    task,   \* task[t]: what t runs, and the next step of its script
    queue   \* queue[l]: the guards of l and the requests for one, oldest first

vars == <<task, queue>>

Idle == [pc |-> 0]
Running == [pc : Nat \ {0}, handler : Handlers, leaving : BOOLEAN]
Request == [task : Tasks, step : Nat, mode : {"read", "write"}]

Init ==
    /\ task = [t \in Tasks |-> Idle]
    /\ queue = [l \in Locks |-> <<>>]

\* A lock that lets readers pass the writers that wait.
ReadersFirst(q, r) ==
    LET writers == {i \in 2..Len(q) : q[i].mode = "write"} IN
    IF r.mode = "read" /\ writers # {} THEN InsertAt(q, Min(writers), r) ELSE Append(q, r)

\* A request goes to the end of the queue.
Enqueue(q, r) == Append(q, r)

\* Request i of queue q has its guard: nothing ahead of it conflicts with it.
Granted(q, i) == \A j \in 1..i - 1 : q[i].mode = "read" /\ q[j].mode = "read"

Waits(t) ==
    \E l \in Locks : \E i \in DOMAIN queue[l] :
        queue[l][i].task = t /\ ~Granted(queue[l], i)

Busy(t) == task[t].pc # 0
Program(t) == Script[task[t].handler]
Current(t) == Program(t)[task[t].pc]

\* t runs, does not wait, and has a step left.
CanStep(t) ==
    /\ Busy(t)
    /\ ~task[t].leaving
    /\ ~Waits(t)
    /\ task[t].pc \in DOMAIN Program(t)

-----------------------------------------------------------------------------
Begin(t, h) ==
    /\ ~Busy(t)
    /\ task' = [task EXCEPT ![t] = [pc |-> 1, handler |-> h, leaving |-> FALSE]]
    /\ UNCHANGED queue

\* `.read().await` or `.write().await`: t goes on once the request is granted.
Acquire(t) ==
    /\ CanStep(t)
    /\ Current(t).do # "drop"
    /\ queue' = [queue EXCEPT ![Current(t).lock] =
                    Enqueue(@, [task |-> t, step |-> task[t].pc, mode |-> Current(t).do])]
    /\ task' = [task EXCEPT ![t].pc = @ + 1]

\* A DropGuard without the `drop`: the guard lives to the end of the handler.
KeepGuard(t) ==
    /\ CanStep(t)
    /\ Current(t).do = "drop"
    /\ task' = [task EXCEPT ![t].pc = @ + 1]
    /\ UNCHANGED queue

\* `drop(guard)`, or the end of the block or statement the guard lives in.
DropGuard(t) ==
    LET l == Current(t).lock IN
    /\ CanStep(t)
    /\ Current(t).do = "drop"
    /\ \E i \in DOMAIN queue[l] :
        /\ queue[l][i].task = t
        /\ queue[l][i].step + Current(t).back = task[t].pc
        /\ queue' = [queue EXCEPT ![l] = RemoveAt(@, i)]
    /\ task' = [task EXCEPT ![t].pc = @ + 1]

\* The handler returns: at its end, or early because a check, a query or a
\* write to SQLite failed.
Leave(t) ==
    /\ Busy(t)
    /\ ~task[t].leaving
    /\ ~Waits(t)
    /\ task' = [task EXCEPT ![t].leaving = TRUE]
    /\ UNCHANGED queue

\* The guards still held are dropped one after the other.
Unwind(t) ==
    /\ Busy(t)
    /\ task[t].leaving
    /\ \E l \in Locks : \E i \in DOMAIN queue[l] :
        /\ queue[l][i].task = t
        /\ queue' = [queue EXCEPT ![l] = RemoveAt(@, i)]
    /\ UNCHANGED task

End(t) ==
    /\ Busy(t)
    /\ task[t].leaving
    /\ \A l \in Locks : \A i \in DOMAIN queue[l] : queue[l][i].task # t
    /\ task' = [task EXCEPT ![t] = Idle]
    /\ UNCHANGED queue

Proceed(t) == Acquire(t) \/ DropGuard(t) \/ Leave(t) \/ Unwind(t) \/ End(t)

Next == \E t \in Tasks : (\E h \in Handlers : Begin(t, h)) \/ Proceed(t)

Spec == Init /\ [][Next]_vars

\* The executor polls every task that can run, and what a handler awaits between
\* two steps (a query, an HTTP call) ends.
FairSpec == Spec /\ \A t \in Tasks : WF_vars(Proceed(t))

-----------------------------------------------------------------------------
(***************************************************************************)
(* Properties.                                                             *)
(***************************************************************************)

\* A task runs one handler, and the requests of a lock are those of tasks.
TypeOK ==
    /\ task \in [Tasks -> {Idle} \cup Running]
    /\ queue \in [Locks -> Seq(Request)]

\* t cannot go on before u has dropped a guard or has had its turn.
WaitsFor(t, u) ==
    \E l \in Locks : \E i \in DOMAIN queue[l], j \in DOMAIN queue[l] :
        /\ j < i
        /\ queue[l][i].task = t
        /\ queue[l][j].task = u
        /\ queue[l][i].mode = "write" \/ queue[l][j].mode = "write"

\* No set of handlers in which each waits for another one, or for itself: such a
\* set never wakes up again, and every later request of those locks joins it.
NoDeadlock ==
    ~ \E D \in SUBSET Tasks : D # {} /\ \A t \in D : \E u \in D : WaitsFor(t, u)

\* Whoever starts a handler ends it, however many readers and writers keep
\* coming: the locks let nobody starve.
RequestsEnd == \A t \in Tasks : Busy(t) ~> ~Busy(t)

-----------------------------------------------------------------------------
(***************************************************************************)
(* The order that keeps handlers from deadlocking.                         *)
(***************************************************************************)

\* The guard that step m of script s takes is still there at step n.
HeldAt(s, m, n) ==
    /\ m < n
    /\ s[m].do # "drop"
    /\ \A k \in m + 1..n - 1 : s[k].do = "drop" => m + s[k].back # k

\* Script s takes a lock only while all that it holds are of a higher level.
Ordered(s, Level) ==
    \A m, n \in DOMAIN s :
        HeldAt(s, m, n) /\ s[n].do # "drop" => Level[s[n].lock] < Level[s[m].lock]

=============================================================================
