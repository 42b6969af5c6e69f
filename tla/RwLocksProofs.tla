---------------------------- MODULE RwLocksProofs ----------------------------
(***************************************************************************)
(* Proofs about RwLocks: handlers that take the locks in one order cannot  *)
(* deadlock, however many run, over however many locks; and most handlers  *)
(* of mvt-rs take them in one.                                             *)
(***************************************************************************)
EXTENDS RwLocks, HandlerLocks, SequenceTheorems, WellFoundedInduction, TLAPS

\* Every request or guard of a lock is one that its task's handler has taken and
\* has not dropped.
RequestsAreHeld ==
    \A l \in Locks : \A i \in DOMAIN queue[l] :
        LET e == queue[l][i] IN
        /\ Busy(e.task)
        /\ e.step \in DOMAIN Program(e.task)
        /\ HeldAt(Program(e.task), e.step, task[e.task].pc)
        /\ Program(e.task)[e.step].lock = l

\* A step of a handler makes one request.
OneRequestPerStep ==
    \A l \in Locks : \A i, j \in DOMAIN queue[l] :
        queue[l][i].task = queue[l][j].task /\ queue[l][i].step = queue[l][j].step
            => i = j

\* A handler that waits has stopped right after the request it waits for.
WaitersStand ==
    \A l \in Locks : \A i \in DOMAIN queue[l] :
        ~Granted(queue[l], i) =>
            /\ ~task[queue[l][i].task].leaving
            /\ queue[l][i].step + 1 = task[queue[l][i].task].pc

IInv ==
    /\ TypeOK
    /\ RequestsAreHeld
    /\ OneRequestPerStep
    /\ WaitersStand

-----------------------------------------------------------------------------
(***************************************************************************)
(* Queues.                                                                 *)
(***************************************************************************)

\* A new request changes nothing for the older ones.
LEMMA EnqueueFacts ==
    ASSUME NEW q \in Seq(Request), NEW r \in Request
    PROVE  /\ Enqueue(q, r) \in Seq(Request)
           /\ DOMAIN Enqueue(q, r) = 1..Len(q) + 1
           /\ DOMAIN q = 1..Len(q) /\ Len(q) \in Nat
           /\ \A i \in DOMAIN q : Enqueue(q, r)[i] = q[i]
           /\ Enqueue(q, r)[Len(q) + 1] = r
           /\ \A i \in DOMAIN q : Granted(q, i) => Granted(Enqueue(q, r), i)
<1>1. /\ Enqueue(q, r) \in Seq(Request)
      /\ DOMAIN Enqueue(q, r) = 1..Len(q) + 1
      /\ DOMAIN q = 1..Len(q) /\ Len(q) \in Nat
      /\ \A i \in DOMAIN q : Enqueue(q, r)[i] = q[i]
      /\ Enqueue(q, r)[Len(q) + 1] = r
  BY DEF Enqueue
<1>2. ASSUME NEW i \in DOMAIN q, Granted(q, i)
      PROVE  Granted(Enqueue(q, r), i)
  BY <1>1, <1>2 DEF Granted
<1>3. QED
  BY <1>1, <1>2

\* When a guard or a request goes, the others keep their order, and no guard is
\* taken back.
LEMMA RemoveFacts ==
    ASSUME NEW q \in Seq(Request), NEW i \in DOMAIN q
    PROVE  /\ RemoveAt(q, i) \in Seq(Request)
           /\ \A j \in DOMAIN RemoveAt(q, i) :
                LET k == IF j < i THEN j ELSE j + 1 IN
                /\ j \in Nat /\ k \in DOMAIN q /\ k # i
                /\ RemoveAt(q, i)[j] = q[k]
                /\ Granted(q, k) => Granted(RemoveAt(q, i), j)
<1>1. /\ Len(q) \in Nat /\ DOMAIN q = 1..Len(q) /\ i \in 1..Len(q)
      /\ \A k \in 1..Len(q) : q[k] \in Request
  OBVIOUS
<1>2. /\ SubSeq(q, 1, i - 1) \in Seq(Request) /\ Len(SubSeq(q, 1, i - 1)) = i - 1
      /\ \A k \in 1..i - 1 : SubSeq(q, 1, i - 1)[k] = q[k]
  BY <1>1
<1>3. /\ SubSeq(q, i + 1, Len(q)) \in Seq(Request)
      /\ Len(SubSeq(q, i + 1, Len(q))) = Len(q) - i
      /\ \A k \in 1..Len(q) - i : SubSeq(q, i + 1, Len(q))[k] = q[i + k]
  <2>1. /\ SubSeq(q, i + 1, Len(q)) \in Seq(Request)
        /\ Len(SubSeq(q, i + 1, Len(q))) = Len(q) - i
    BY <1>1
  <2>2. ASSUME NEW k \in 1..Len(q) - i
        PROVE  SubSeq(q, i + 1, Len(q))[k] = q[i + k]
    BY <1>1, SubSeqProperties
  <2>3. QED
    BY <2>1, <2>2
<1>4. /\ RemoveAt(q, i) \in Seq(Request)
      /\ Len(RemoveAt(q, i)) = Len(q) - 1
      /\ DOMAIN RemoveAt(q, i) = 1..Len(q) - 1
      /\ \A j \in 1..Len(q) - 1 :
            RemoveAt(q, i)[j] = IF j < i THEN q[j] ELSE q[j + 1]
  <2> DEFINE before == SubSeq(q, 1, i - 1)
             after == SubSeq(q, i + 1, Len(q))
  <2>1. /\ before \in Seq(Request) /\ Len(before) = i - 1
        /\ \A k \in 1..i - 1 : before[k] = q[k]
    BY <1>2
  <2>2. /\ after \in Seq(Request) /\ Len(after) = Len(q) - i
        /\ \A k \in 1..Len(q) - i : after[k] = q[i + k]
    BY <1>3
  <2>3. RemoveAt(q, i) = before \o after
    BY DEF RemoveAt
  <2> HIDE DEF before, after
  <2>4. /\ before \o after \in Seq(Request)
        /\ Len(before \o after) = Len(q) - 1
        /\ \A j \in 1..Len(q) - 1 :
            (before \o after)[j] = IF j <= i - 1 THEN before[j] ELSE after[j - (i - 1)]
    <3>1. /\ before \o after \in Seq(Request)
          /\ Len(before \o after) = Len(before) + Len(after)
          /\ \A j \in 1..Len(before) + Len(after) :
                (before \o after)[j] =
                    IF j <= Len(before) THEN before[j] ELSE after[j - Len(before)]
      BY <2>1, <2>2, ConcatProperties
    <3>2. Len(before) = i - 1 /\ Len(before) + Len(after) = Len(q) - 1
      BY <1>1, <2>1, <2>2
    <3>3. QED
      BY <3>1, <3>2
  <2>5. ASSUME NEW j \in 1..Len(q) - 1
        PROVE  RemoveAt(q, i)[j] = IF j < i THEN q[j] ELSE q[j + 1]
    <3>1. CASE j < i
      BY <1>1, <2>1, <2>3, <2>4, <3>1
    <3>2. CASE ~(j < i)
      <4>1. j - (i - 1) \in 1..Len(q) - i /\ i + (j - (i - 1)) = j + 1 /\ ~(j <= i - 1)
        BY <1>1, <3>2
      <4>2. after[j - (i - 1)] = q[j + 1]
        BY <2>2, <4>1
      <4>3. RemoveAt(q, i)[j] = after[j - (i - 1)]
        BY <2>3, <2>4, <4>1
      <4>4. QED
        BY <3>2, <4>2, <4>3
    <3>3. QED
      BY <3>1, <3>2
  <2>6. RemoveAt(q, i) \in Seq(Request) /\ Len(RemoveAt(q, i)) = Len(q) - 1
    BY <2>3, <2>4
  <2>7. DOMAIN RemoveAt(q, i) = 1..Len(q) - 1
    BY <2>6
  <2>8. QED
    BY <2>5, <2>6, <2>7
<1>5. ASSUME NEW j \in DOMAIN RemoveAt(q, i), NEW k, k = IF j < i THEN j ELSE j + 1
      PROVE  /\ j \in Nat /\ k \in DOMAIN q /\ k # i
             /\ RemoveAt(q, i)[j] = q[k]
  BY <1>1, <1>4, <1>5
<1>6. ASSUME NEW j \in DOMAIN RemoveAt(q, i), NEW k, k = IF j < i THEN j ELSE j + 1,
             Granted(q, k)
      PROVE  Granted(RemoveAt(q, i), j)
  <2> SUFFICES ASSUME NEW u \in 1..j - 1
               PROVE  RemoveAt(q, i)[j].mode = "read" /\ RemoveAt(q, i)[u].mode = "read"
    BY DEF Granted
  <2>1. u \in DOMAIN RemoveAt(q, i) /\ u \in 1..Len(q) - 1
    BY <1>1, <1>4
  <2>2. (IF u < i THEN u ELSE u + 1) \in 1..k - 1
    BY <1>1, <1>4, <1>6
  <2>3. /\ RemoveAt(q, i)[j] = q[k]
        /\ RemoveAt(q, i)[u] = q[IF u < i THEN u ELSE u + 1]
    BY <1>4, <1>5, <1>6, <2>1
  <2>4. QED
    BY <1>6, <2>2, <2>3 DEF Granted
<1>7. QED
  BY <1>4, <1>5, <1>6

-----------------------------------------------------------------------------
(***************************************************************************)
(* The invariant is inductive.                                             *)
(***************************************************************************)

\* The invariant holds initially.
LEMMA InitInv == Init => IInv
  BY DEF Init, Idle, IInv, TypeOK, RequestsAreHeld, OneRequestPerStep, WaitersStand

\* What the type invariant says of one request.
LEMMA QueueTyped ==
    ASSUME TypeOK, NEW l \in Locks
    PROVE  /\ queue[l] \in Seq(Request)
           /\ \A i \in DOMAIN queue[l] :
                /\ i \in Nat
                /\ queue[l][i].task \in Tasks /\ queue[l][i].step \in Nat
<1>1. queue[l] \in Seq(Request)
  BY DEF TypeOK
<1>2. \A i \in DOMAIN queue[l] : i \in Nat /\ queue[l][i] \in Request
  BY <1>1
<1>3. QED
  BY <1>1, <1>2 DEF Request

\* A step that leaves the locks alone keeps the invariant if it changes only a
\* handler that has no request, or only marks one as leaving that does not wait.
LEMMA QueueUnchangedInv ==
    ASSUME IInv, NEW t \in Tasks, NEW r \in {Idle} \cup Running,
           UNCHANGED queue, task' = [task EXCEPT ![t] = r],
           \/ \A l \in Locks : \A i \in DOMAIN queue[l] : queue[l][i].task # t
           \/ ~Waits(t) /\ Busy(t) /\ r.pc = task[t].pc /\ r.handler = task[t].handler
    PROVE  IInv'
<1>1. TypeOK
  BY DEF IInv
<1>2. TypeOK'
  BY <1>1 DEF TypeOK
<1>3. \A u \in Tasks : task'[u] = IF u = t THEN r ELSE task[u]
  BY <1>1 DEF TypeOK
<1>4. \A l \in Locks : \A i \in DOMAIN queue[l] :
        LET u == queue[l][i].task IN
        /\ u \in Tasks
        /\ task'[u].pc = task[u].pc /\ task'[u].handler = task[u].handler
        /\ task'[u] = task[u] \/ ~Waits(u)
  BY <1>1, <1>3, QueueTyped
<1>5. RequestsAreHeld'
  <2> SUFFICES ASSUME NEW l \in Locks, NEW i \in DOMAIN queue'[l]
               PROVE  LET e == queue'[l][i] IN
                      /\ task'[e.task].pc # 0
                      /\ e.step \in DOMAIN Script[task'[e.task].handler]
                      /\ HeldAt(Script[task'[e.task].handler], e.step, task'[e.task].pc)
                      /\ Script[task'[e.task].handler][e.step].lock = l
    BY DEF RequestsAreHeld, Busy, Program
  <2>1. /\ queue' = queue /\ i \in DOMAIN queue[l]
        /\ task'[queue[l][i].task].pc = task[queue[l][i].task].pc
        /\ task'[queue[l][i].task].handler = task[queue[l][i].task].handler
    BY <1>4
  <2>2. LET e == queue[l][i] IN
        /\ task[e.task].pc # 0
        /\ e.step \in DOMAIN Script[task[e.task].handler]
        /\ HeldAt(Script[task[e.task].handler], e.step, task[e.task].pc)
        /\ Script[task[e.task].handler][e.step].lock = l
    BY <2>1 DEF IInv, RequestsAreHeld, Busy, Program
  <2>3. QED
    BY <2>1, <2>2
<1>6. OneRequestPerStep'
  BY DEF IInv, OneRequestPerStep
<1>7. WaitersStand'
  <2> SUFFICES ASSUME NEW l \in Locks, NEW i \in DOMAIN queue[l], ~Granted(queue[l], i)
               PROVE  /\ ~task'[queue[l][i].task].leaving
                      /\ queue[l][i].step + 1 = task'[queue[l][i].task].pc
    BY DEF WaitersStand, Granted
  <2>1. Waits(queue[l][i].task)
    BY DEF Waits
  <2>2. task'[queue[l][i].task] = task[queue[l][i].task]
    BY <1>4, <2>1
  <2>3. QED
    BY <2>2 DEF IInv, WaitersStand
<1>8. QED
  BY <1>2, <1>5, <1>6, <1>7 DEF IInv

\* A new request is the only one of its step, and its handler stops behind it.
LEMMA AcquireInv ==
    ASSUME IInv, NEW t \in Tasks, Acquire(t)
    PROVE  IInv'
<1> DEFINE l0 == Current(t).lock
           n == task[t].pc
           r == [task |-> t, step |-> n, mode |-> Current(t).do]
<1>1. TypeOK
  BY DEF IInv
<1>2. /\ task[t] \in Running /\ n \in DOMAIN Program(t) /\ n \in Nat
      /\ Program(t) \in Seq(Step)
      /\ ~task[t].leaving /\ ~Waits(t)
  BY <1>1, ScriptAssumption DEF Acquire, CanStep, Busy, TypeOK, Idle, Running, Program
<1>3. Current(t) \in Step /\ Current(t).do # "drop"
  BY <1>2 DEF Current, Acquire
<1>4. l0 \in Locks /\ r \in Request
  BY <1>2, <1>3 DEF Step, Request
<1>5. /\ queue' = [queue EXCEPT ![l0] = Enqueue(queue[l0], r)]
      /\ task' = [task EXCEPT ![t].pc = n + 1]
  BY DEF Acquire
<1>6. /\ task'[t] \in Running
      /\ task'[t].pc = n + 1 /\ task'[t].handler = task[t].handler
      /\ task'[t].leaving = task[t].leaving
      /\ \A u \in Tasks : u # t => task'[u] = task[u]
  BY <1>1, <1>2, <1>5 DEF TypeOK, Running
<1>7. queue[l0] \in Seq(Request) /\ \A l \in Locks : queue[l] \in Seq(Request)
  BY <1>1, <1>4 DEF TypeOK
<1>8. /\ queue'[l0] = Enqueue(queue[l0], r)
      /\ \A l \in Locks : l # l0 => queue'[l] = queue[l]
  BY <1>1, <1>4, <1>5 DEF TypeOK
<1> HIDE DEF l0, n, r
<1>9. /\ queue'[l0] \in Seq(Request)
      /\ DOMAIN queue[l0] = 1..Len(queue[l0]) /\ Len(queue[l0]) \in Nat
      /\ DOMAIN queue'[l0] = 1..Len(queue[l0]) + 1
      /\ \A i \in DOMAIN queue[l0] : queue'[l0][i] = queue[l0][i]
      /\ queue'[l0][Len(queue[l0]) + 1] = r
      /\ \A i \in DOMAIN queue[l0] : Granted(queue[l0], i) => Granted(queue'[l0], i)
  <2>1. /\ Enqueue(queue[l0], r) \in Seq(Request)
        /\ DOMAIN queue[l0] = 1..Len(queue[l0]) /\ Len(queue[l0]) \in Nat
        /\ DOMAIN Enqueue(queue[l0], r) = 1..Len(queue[l0]) + 1
        /\ \A i \in DOMAIN queue[l0] : Enqueue(queue[l0], r)[i] = queue[l0][i]
        /\ Enqueue(queue[l0], r)[Len(queue[l0]) + 1] = r
        /\ \A i \in DOMAIN queue[l0] :
            Granted(queue[l0], i) => Granted(Enqueue(queue[l0], r), i)
    BY <1>4, <1>7, EnqueueFacts
  <2>2. QED
    BY <1>8, <2>1
<1>10. TypeOK'
  BY <1>1, <1>4, <1>5, <1>6, <1>7, <1>8, <1>9 DEF TypeOK
<1>11. ASSUME NEW l \in Locks, NEW i \in DOMAIN queue'[l]
       PROVE  \/ /\ i \in DOMAIN queue[l] /\ queue'[l][i] = queue[l][i]
                 /\ Granted(queue[l], i) => Granted(queue'[l], i)
              \/ l = l0 /\ i = Len(queue[l0]) + 1 /\ queue'[l][i] = r
  <2>1. CASE l = l0
    BY <1>9, <2>1
  <2>2. CASE l # l0
    BY <1>8, <2>2
  <2>3. QED
    BY <2>1, <2>2
<1>12. ASSUME NEW l \in Locks, NEW i \in DOMAIN queue[l], queue[l][i].task = t
       PROVE  /\ Granted(queue[l], i)
              /\ queue[l][i].step \in Nat /\ queue[l][i].step < n
              /\ HeldAt(Program(t), queue[l][i].step, n + 1)
  <2>1. Granted(queue[l], i)
    BY <1>2, <1>12 DEF Waits
  <2>2. /\ HeldAt(Program(t), queue[l][i].step, n)
        /\ queue[l][i].step \in Nat
    BY <1>1, <1>12, QueueTyped DEF IInv, RequestsAreHeld, n
  <2>3. HeldAt(Program(t), queue[l][i].step, n + 1)
    BY <1>2, <1>3, <2>2 DEF HeldAt, Current, n
  <2>4. QED
    BY <2>1, <2>2, <2>3 DEF HeldAt
<1>13. RequestsAreHeld'
  <2> SUFFICES ASSUME NEW l \in Locks, NEW i \in DOMAIN queue'[l]
               PROVE  LET e == queue'[l][i] IN
                      /\ task'[e.task].pc # 0
                      /\ e.step \in DOMAIN Script[task'[e.task].handler]
                      /\ HeldAt(Script[task'[e.task].handler], e.step, task'[e.task].pc)
                      /\ Script[task'[e.task].handler][e.step].lock = l
    BY DEF RequestsAreHeld, Busy, Program
  <2>1. CASE i \in DOMAIN queue[l] /\ queue'[l][i] = queue[l][i] /\ queue[l][i].task # t
    <3>1. queue[l][i].task \in Tasks
      BY <1>1, <2>1, QueueTyped
    <3>2. task'[queue[l][i].task] = task[queue[l][i].task]
      BY <1>6, <2>1, <3>1
    <3>3. LET e == queue[l][i] IN
          /\ task[e.task].pc # 0
          /\ e.step \in DOMAIN Script[task[e.task].handler]
          /\ HeldAt(Script[task[e.task].handler], e.step, task[e.task].pc)
          /\ Script[task[e.task].handler][e.step].lock = l
      BY <2>1 DEF IInv, RequestsAreHeld, Busy, Program
    <3>4. QED
      BY <2>1, <3>2, <3>3
  <2>2. CASE i \in DOMAIN queue[l] /\ queue'[l][i] = queue[l][i] /\ queue[l][i].task = t
    <3>1. HeldAt(Program(t), queue[l][i].step, n + 1)
      BY <1>12, <2>2
    <3>2. /\ queue[l][i].step \in DOMAIN Program(t)
          /\ Program(t)[queue[l][i].step].lock = l
      BY <2>2 DEF IInv, RequestsAreHeld
    <3>3. QED
      BY <1>2, <1>6, <2>2, <3>1, <3>2 DEF Program
  <2>3. CASE l = l0 /\ queue'[l][i] = r
    <3>1. r.task = t /\ r.step = n
      BY DEF r
    <3>2. HeldAt(Program(t), n, n + 1)
      BY <1>2, <1>3 DEF HeldAt, Current, n
    <3>3. QED
      BY <1>2, <1>6, <2>3, <3>1, <3>2 DEF Program, Current, l0, n
  <2>4. QED
    BY <1>11, <2>1, <2>2, <2>3
<1>14. OneRequestPerStep'
  <2> SUFFICES ASSUME NEW l \in Locks, NEW i \in DOMAIN queue'[l], NEW j \in DOMAIN queue'[l],
                      queue'[l][i].task = queue'[l][j].task,
                      queue'[l][i].step = queue'[l][j].step
               PROVE  i = j
    BY DEF OneRequestPerStep
  <2>1. r.task = t /\ r.step = n /\ n \in Nat
    BY <1>2 DEF r
  <2>2. QED
    BY <1>11, <1>12, <2>1 DEF IInv, OneRequestPerStep
<1>15. WaitersStand'
  <2> SUFFICES ASSUME NEW l \in Locks, NEW i \in DOMAIN queue'[l], ~Granted(queue'[l], i)
               PROVE  /\ ~task'[queue'[l][i].task].leaving
                      /\ queue'[l][i].step + 1 = task'[queue'[l][i].task].pc
    BY DEF WaitersStand, Granted
  <2>1. CASE queue'[l][i] = r
    BY <1>2, <1>6, <2>1 DEF r
  <2>2. CASE i \in DOMAIN queue[l] /\ queue'[l][i] = queue[l][i] /\ ~Granted(queue[l], i)
    <3>1. queue[l][i].task # t /\ queue[l][i].task \in Tasks
      BY <1>1, <1>12, <2>2, QueueTyped
    <3>2. task'[queue[l][i].task] = task[queue[l][i].task]
      BY <1>6, <3>1
    <3>3. QED
      BY <2>2, <3>2 DEF IInv, WaitersStand
  <2>3. QED
    BY <1>11, <2>1, <2>2
<1>16. QED
  BY <1>10, <1>13, <1>14, <1>15 DEF IInv

\* When one request goes, every other one stands as before.
LEMMA RemoveInv ==
    ASSUME TypeOK, NEW l0 \in Locks, NEW i0 \in DOMAIN queue[l0],
           queue' = [queue EXCEPT ![l0] = RemoveAt(queue[l0], i0)]
    PROVE  /\ queue' \in [Locks -> Seq(Request)]
           /\ \A l \in Locks : \A i \in DOMAIN queue'[l] :
                LET k == IF l = l0 /\ i >= i0 THEN i + 1 ELSE i IN
                /\ i \in Nat
                /\ k \in DOMAIN queue[l]
                /\ l = l0 => k # i0
                /\ queue'[l][i] = queue[l][k]
                /\ Granted(queue[l], k) => Granted(queue'[l], i)
<1>1. /\ queue[l0] \in Seq(Request)
      /\ queue'[l0] = RemoveAt(queue[l0], i0)
      /\ \A l \in Locks : l # l0 => queue'[l] = queue[l]
  BY DEF TypeOK
<1>2. queue' \in [Locks -> Seq(Request)]
  BY <1>1, RemoveFacts DEF TypeOK
<1>3. ASSUME NEW l \in Locks, NEW i \in DOMAIN queue'[l],
             NEW k, k = IF l = l0 /\ i >= i0 THEN i + 1 ELSE i
      PROVE  /\ i \in Nat
             /\ k \in DOMAIN queue[l]
             /\ l = l0 => k # i0
             /\ queue'[l][i] = queue[l][k]
             /\ Granted(queue[l], k) => Granted(queue'[l], i)
  <2>1. CASE l = l0
    <3>1. i \in DOMAIN RemoveAt(queue[l0], i0) /\ i \in Nat /\ i0 \in Nat
      BY <1>1, <2>1, RemoveFacts
    <3>2. k = IF i < i0 THEN i ELSE i + 1
      BY <1>3, <2>1, <3>1
    <3>3. LET q == queue[l0]
              m == IF i < i0 THEN i ELSE i + 1
          IN  /\ m \in DOMAIN q /\ m # i0
              /\ RemoveAt(q, i0)[i] = q[m]
              /\ Granted(q, m) => Granted(RemoveAt(q, i0), i)
      <4>1. /\ queue[l0] \in Seq(Request) /\ i0 \in DOMAIN queue[l0]
            /\ i \in DOMAIN RemoveAt(queue[l0], i0)
        BY <1>1, <3>1
      <4>2. \A q \in Seq(Request) : \A d \in DOMAIN q : \A j \in DOMAIN RemoveAt(q, d) :
                LET m == IF j < d THEN j ELSE j + 1 IN
                /\ m \in DOMAIN q /\ m # d
                /\ RemoveAt(q, d)[j] = q[m]
                /\ Granted(q, m) => Granted(RemoveAt(q, d), j)
        BY RemoveFacts
      <4>3. QED
        BY <4>1, <4>2
    <3>4. queue'[l] = RemoveAt(queue[l0], i0) /\ queue[l] = queue[l0]
      BY <1>1, <2>1
    <3>5. QED
      BY <3>1, <3>2, <3>3, <3>4
  <2>2. CASE l # l0
    <3>1. queue'[l] = queue[l] /\ k = i
      BY <1>1, <1>3, <2>2
    <3>2. i \in Nat
      BY <3>1, QueueTyped
    <3>3. QED
      BY <2>2, <3>1, <3>2
  <2>3. QED
    BY <2>1, <2>2
<1>4. QED
  BY <1>2, <1>3

\* A guard that is dropped was taken where the script says, and the handler goes
\* on with the others.
LEMMA DropGuardInv ==
    ASSUME IInv, NEW t \in Tasks, DropGuard(t)
    PROVE  IInv'
<1> DEFINE n == task[t].pc
<1>1. TypeOK
  BY DEF IInv
<1>2. /\ task[t] \in Running /\ n \in DOMAIN Program(t) /\ n \in Nat
      /\ Program(t) \in Seq(Step)
      /\ ~task[t].leaving /\ ~Waits(t)
  BY <1>1, ScriptAssumption DEF DropGuard, CanStep, Busy, TypeOK, Idle, Running, Program
<1>3. Current(t) \in Step /\ Current(t).do = "drop"
  BY <1>2 DEF Current, DropGuard
<1>4. Current(t).lock \in Locks /\ Current(t).back \in Nat
  BY <1>3 DEF Step
<1> DEFINE l0 == Current(t).lock
<1>5. PICK i0 \in DOMAIN queue[l0] :
        /\ queue[l0][i0].task = t
        /\ queue[l0][i0].step + Current(t).back = n
        /\ queue' = [queue EXCEPT ![l0] = RemoveAt(queue[l0], i0)]
  BY DEF DropGuard
<1>b. task' = [task EXCEPT ![t].pc = n + 1]
  BY DEF DropGuard
<1>6. /\ task'[t] \in Running
      /\ task'[t].pc = n + 1 /\ task'[t].handler = task[t].handler
      /\ task'[t].leaving = task[t].leaving
      /\ \A u \in Tasks : u # t => task'[u] = task[u]
  BY <1>1, <1>2, <1>b DEF TypeOK, Running
<1>a. l0 \in Locks
  BY <1>4
<1> HIDE DEF n, l0
<1> DEFINE Old(l, i) == IF l = l0 /\ i >= i0 THEN i + 1 ELSE i
<1>7. /\ queue' \in [Locks -> Seq(Request)]
      /\ \A l \in Locks : \A i \in DOMAIN queue'[l] :
            /\ i \in Nat
            /\ Old(l, i) \in DOMAIN queue[l]
            /\ l = l0 => Old(l, i) # i0
            /\ queue'[l][i] = queue[l][Old(l, i)]
            /\ Granted(queue[l], Old(l, i)) => Granted(queue'[l], i)
  BY <1>1, <1>5, <1>a, RemoveInv
<1>8. i0 \in Nat /\ queue[l0][i0].step \in Nat
  BY <1>1, <1>a, QueueTyped
<1>9. TypeOK'
  BY <1>1, <1>6, <1>7, <1>b DEF TypeOK
<1>10. ASSUME NEW l \in Locks, NEW k \in DOMAIN queue[l], queue[l][k].task = t,
              l = l0 => k # i0
       PROVE  /\ Granted(queue[l], k)
              /\ queue[l][k].step \in DOMAIN Program(t)
              /\ Program(t)[queue[l][k].step].lock = l
              /\ HeldAt(Program(t), queue[l][k].step, n + 1)
  <2> DEFINE m == queue[l][k].step
  <2>1. Granted(queue[l], k)
    BY <1>2, <1>10 DEF Waits
  <2>2. /\ HeldAt(Program(t), m, n) /\ m \in Nat
        /\ m \in DOMAIN Program(t) /\ Program(t)[m].lock = l
    BY <1>1, <1>10, QueueTyped DEF IInv, RequestsAreHeld, n
  <2>3. m + Current(t).back # n
    <3>1. SUFFICES ASSUME m = queue[l0][i0].step
                   PROVE  FALSE
      BY <1>4, <1>5, <1>8, <2>2
    <3>2. Program(t)[queue[l0][i0].step].lock = l0
      BY <1>5, <1>a DEF IInv, RequestsAreHeld
    <3>3. l = l0
      BY <2>2, <3>1, <3>2
    <3>4. QED
      BY <1>5, <1>10, <3>1, <3>3 DEF IInv, OneRequestPerStep
  <2>4. HeldAt(Program(t), m, n + 1)
    BY <1>2, <2>2, <2>3 DEF HeldAt, Current, n
  <2>5. QED
    BY <2>1, <2>2, <2>4
<1>11. RequestsAreHeld'
  <2> SUFFICES ASSUME NEW l \in Locks, NEW i \in DOMAIN queue'[l]
               PROVE  LET e == queue'[l][i] IN
                      /\ task'[e.task].pc # 0
                      /\ e.step \in DOMAIN Script[task'[e.task].handler]
                      /\ HeldAt(Script[task'[e.task].handler], e.step, task'[e.task].pc)
                      /\ Script[task'[e.task].handler][e.step].lock = l
    BY DEF RequestsAreHeld, Busy, Program
  <2> DEFINE k == Old(l, i)
  <2>1. /\ k \in DOMAIN queue[l] /\ queue'[l][i] = queue[l][k]
        /\ l = l0 => k # i0
        /\ queue[l][k].task \in Tasks
    BY <1>1, <1>7, QueueTyped
  <2> HIDE DEF k, Old
  <2>2. CASE queue[l][k].task # t
    <3>1. task'[queue[l][k].task] = task[queue[l][k].task]
      BY <1>6, <2>1, <2>2
    <3>2. LET e == queue[l][k] IN
          /\ task[e.task].pc # 0
          /\ e.step \in DOMAIN Script[task[e.task].handler]
          /\ HeldAt(Script[task[e.task].handler], e.step, task[e.task].pc)
          /\ Script[task[e.task].handler][e.step].lock = l
      BY <2>1 DEF IInv, RequestsAreHeld, Busy, Program
    <3>3. QED
      BY <2>1, <3>1, <3>2
  <2>3. CASE queue[l][k].task = t
    <3>1. /\ queue[l][k].step \in DOMAIN Program(t)
          /\ Program(t)[queue[l][k].step].lock = l
          /\ HeldAt(Program(t), queue[l][k].step, n + 1)
      BY <1>10, <2>1, <2>3
    <3>2. QED
      BY <1>2, <1>6, <2>1, <2>3, <3>1 DEF Program
  <2>4. QED
    BY <2>2, <2>3
<1>12. OneRequestPerStep'
  <2> SUFFICES ASSUME NEW l \in Locks, NEW i \in DOMAIN queue'[l], NEW j \in DOMAIN queue'[l],
                      queue'[l][i].task = queue'[l][j].task,
                      queue'[l][i].step = queue'[l][j].step
               PROVE  i = j
    BY DEF OneRequestPerStep
  <2> DEFINE ki == Old(l, i)
             kj == Old(l, j)
  <2>a. /\ ki \in DOMAIN queue[l] /\ queue'[l][i] = queue[l][ki]
        /\ kj \in DOMAIN queue[l] /\ queue'[l][j] = queue[l][kj]
    BY <1>7
  <2> HIDE DEF Old, ki, kj
  <2>b. ki = kj
    BY <2>a DEF IInv, OneRequestPerStep
  <2>1. Old(l, i) = Old(l, j)
    BY <2>b DEF ki, kj
  <2> USE DEF Old
  <2>2. QED
    BY <1>7, <1>8, <2>1
<1>13. WaitersStand'
  <2> SUFFICES ASSUME NEW l \in Locks, NEW i \in DOMAIN queue'[l], ~Granted(queue'[l], i)
               PROVE  /\ ~task'[queue'[l][i].task].leaving
                      /\ queue'[l][i].step + 1 = task'[queue'[l][i].task].pc
    BY DEF WaitersStand, Granted
  <2> DEFINE k == Old(l, i)
  <2>1. /\ k \in DOMAIN queue[l] /\ queue'[l][i] = queue[l][k]
        /\ l = l0 => k # i0
        /\ ~Granted(queue[l], k)
        /\ queue[l][k].task \in Tasks
    BY <1>1, <1>7, QueueTyped
  <2> HIDE DEF k, Old
  <2>2. queue[l][k].task # t
    BY <1>10, <2>1
  <2>3. task'[queue[l][k].task] = task[queue[l][k].task]
    BY <1>6, <2>1, <2>2
  <2>4. QED
    BY <2>1, <2>3 DEF IInv, WaitersStand
<1>14. QED
  BY <1>9, <1>11, <1>12, <1>13 DEF IInv

\* A handler that returns drops its guards; none of its requests waits any more.
LEMMA UnwindInv ==
    ASSUME IInv, NEW t \in Tasks, Unwind(t)
    PROVE  IInv'
<1>1. TypeOK
  BY DEF IInv
<1>2. task' = task /\ task[t].leaving
  BY DEF Unwind
<1>3. PICK l0 \in Locks : \E i \in DOMAIN queue[l0] :
        /\ queue[l0][i].task = t
        /\ queue' = [queue EXCEPT ![l0] = RemoveAt(queue[l0], i)]
  BY DEF Unwind
<1>4. PICK i0 \in DOMAIN queue[l0] :
        /\ queue[l0][i0].task = t
        /\ queue' = [queue EXCEPT ![l0] = RemoveAt(queue[l0], i0)]
  BY <1>3
<1> DEFINE Old(l, i) == IF l = l0 /\ i >= i0 THEN i + 1 ELSE i
<1>5. /\ queue' \in [Locks -> Seq(Request)]
      /\ \A l \in Locks : \A i \in DOMAIN queue'[l] :
            /\ i \in Nat
            /\ Old(l, i) \in DOMAIN queue[l]
            /\ l = l0 => Old(l, i) # i0
            /\ queue'[l][i] = queue[l][Old(l, i)]
            /\ Granted(queue[l], Old(l, i)) => Granted(queue'[l], i)
  BY <1>1, <1>4, RemoveInv
<1>6. i0 \in Nat
  BY <1>1, QueueTyped
<1>7. \A l \in Locks : \A i, j \in DOMAIN queue'[l] : Old(l, i) = Old(l, j) => i = j
  BY <1>5, <1>6
<1> HIDE DEF Old
<1>8. TypeOK'
  BY <1>1, <1>2, <1>5 DEF TypeOK
<1>9. RequestsAreHeld'
  <2> SUFFICES ASSUME NEW l \in Locks, NEW i \in DOMAIN queue'[l]
               PROVE  LET e == queue'[l][i] IN
                      /\ task'[e.task].pc # 0
                      /\ e.step \in DOMAIN Script[task'[e.task].handler]
                      /\ HeldAt(Script[task'[e.task].handler], e.step, task'[e.task].pc)
                      /\ Script[task'[e.task].handler][e.step].lock = l
    BY DEF RequestsAreHeld, Busy, Program
  <2>1. Old(l, i) \in DOMAIN queue[l] /\ queue'[l][i] = queue[l][Old(l, i)]
    BY <1>5
  <2>2. LET e == queue[l][Old(l, i)] IN
        /\ task[e.task].pc # 0
        /\ e.step \in DOMAIN Script[task[e.task].handler]
        /\ HeldAt(Script[task[e.task].handler], e.step, task[e.task].pc)
        /\ Script[task[e.task].handler][e.step].lock = l
    BY <2>1 DEF IInv, RequestsAreHeld, Busy, Program
  <2>3. QED
    BY <1>2, <2>1, <2>2
<1>10. OneRequestPerStep'
  BY <1>5, <1>7 DEF IInv, OneRequestPerStep
<1>11. WaitersStand'
  <2> SUFFICES ASSUME NEW l \in Locks, NEW i \in DOMAIN queue'[l], ~Granted(queue'[l], i)
               PROVE  /\ ~task'[queue'[l][i].task].leaving
                      /\ queue'[l][i].step + 1 = task'[queue'[l][i].task].pc
    BY DEF WaitersStand, Granted
  <2>1. /\ Old(l, i) \in DOMAIN queue[l] /\ queue'[l][i] = queue[l][Old(l, i)]
        /\ ~Granted(queue[l], Old(l, i))
    BY <1>5
  <2>2. QED
    BY <1>2, <2>1 DEF IInv, WaitersStand
<1>12. QED
  BY <1>8, <1>9, <1>10, <1>11 DEF IInv

\* A task that runs nothing has no request, so it may take any handler.
LEMMA BeginInv ==
    ASSUME IInv, NEW t \in Tasks, NEW h \in Handlers, Begin(t, h)
    PROVE  IInv'
<1> DEFINE r == [pc |-> 1, handler |-> h, leaving |-> FALSE]
<1>1. r \in {Idle} \cup Running
  BY DEF Running
<1>2. \A l \in Locks : \A i \in DOMAIN queue[l] : queue[l][i].task # t
  BY DEF IInv, RequestsAreHeld, Begin
<1>3. UNCHANGED queue /\ task' = [task EXCEPT ![t] = r]
  BY DEF Begin
<1>4. QED
  BY <1>1, <1>2, <1>3, QueueUnchangedInv

\* A handler may return at any point where it waits for nothing.
LEMMA LeaveInv ==
    ASSUME IInv, NEW t \in Tasks, Leave(t)
    PROVE  IInv'
<1> DEFINE r == [task[t] EXCEPT !.leaving = TRUE]
<1>1. task[t] \in Running
  BY DEF IInv, TypeOK, Leave, Busy, Idle
<1>2. /\ r \in {Idle} \cup Running
      /\ r.pc = task[t].pc /\ r.handler = task[t].handler
  BY <1>1 DEF Running
<1>3. UNCHANGED queue /\ task' = [task EXCEPT ![t] = r] /\ ~Waits(t) /\ Busy(t)
  BY DEF Leave
<1>4. QED
  BY <1>2, <1>3, QueueUnchangedInv

\* A handler ends with none of its guards left.
LEMMA EndInv ==
    ASSUME IInv, NEW t \in Tasks, End(t)
    PROVE  IInv'
<1>1. /\ \A l \in Locks : \A i \in DOMAIN queue[l] : queue[l][i].task # t
      /\ UNCHANGED queue /\ task' = [task EXCEPT ![t] = Idle]
  BY DEF End
<1>2. QED
  BY <1>1, QueueUnchangedInv

\* The requests of the locks are at all times what the scripts of the running
\* handlers have taken and not dropped, each once, and a handler that waits has
\* stopped right behind its last request.
THEOREM InductiveInvariant == Spec => []IInv
<1>1. Init => IInv
  BY InitInv
<1>2. IInv /\ [Next]_vars => IInv'
  <2> SUFFICES ASSUME IInv, [Next]_vars
               PROVE  IInv'
    OBVIOUS
  <2>1. CASE UNCHANGED vars
    BY <2>1, SMTT(20) DEF vars, IInv, TypeOK, RequestsAreHeld, OneRequestPerStep, WaitersStand,
                Busy, Program, Granted
  <2>2. ASSUME NEW t \in Tasks, NEW h \in Handlers, Begin(t, h)
        PROVE  IInv'
    BY <2>2, BeginInv
  <2>3. ASSUME NEW t \in Tasks, Acquire(t)
        PROVE  IInv'
    BY <2>3, AcquireInv
  <2>4. ASSUME NEW t \in Tasks, DropGuard(t)
        PROVE  IInv'
    BY <2>4, DropGuardInv
  <2>5. ASSUME NEW t \in Tasks, Leave(t)
        PROVE  IInv'
    BY <2>5, LeaveInv
  <2>6. ASSUME NEW t \in Tasks, Unwind(t)
        PROVE  IInv'
    BY <2>6, UnwindInv
  <2>7. ASSUME NEW t \in Tasks, End(t)
        PROVE  IInv'
    BY <2>7, EndInv
  <2>8. QED
    BY <2>1, <2>2, <2>3, <2>4, <2>5, <2>6, <2>7 DEF Next, Proceed
<1>3. QED
  BY <1>1, <1>2, PTL DEF Spec

-----------------------------------------------------------------------------
(***************************************************************************)
(* Deadlock.                                                               *)
(***************************************************************************)

\* A set of numbers that is not empty has a least one.
LEMMA LeastNumber ==
    ASSUME NEW T, T \subseteq Nat, T # {}
    PROVE  \E x \in T : \A y \in T : x <= y
<1>1. PICK x \in T : \A y \in T : ~(<<y, x>> \in OpToRel(<, Nat))
  BY NatLessThanWellFounded, WFMin
<1>2. \A y \in T : ~(y < x)
  BY <1>1 DEF OpToRel
<1>3. QED
  BY <1>2

\* A task that waits has stopped behind the request it waits for, and that is
\* the only one of its requests that can be at that step.
LEMMA BlockedFacts ==
    ASSUME IInv, NEW l \in Locks, NEW i \in DOMAIN queue[l], ~Granted(queue[l], i)
    PROVE  LET e == queue[l][i] IN
           /\ e.task \in Tasks /\ e.step \in Nat
           /\ e.step \in DOMAIN Program(e.task)
           /\ Program(e.task)[e.step].lock = l
           /\ Program(e.task)[e.step].do # "drop"
           /\ task[e.task].pc = e.step + 1
<1>1. TypeOK
  BY DEF IInv
<1>2. queue[l][i].task \in Tasks /\ queue[l][i].step \in Nat
  BY <1>1, QueueTyped
<1>3. QED
  BY <1>2 DEF IInv, RequestsAreHeld, WaitersStand, HeldAt

\* What a waiting task still holds is of a higher level than what it waits for.
LEMMA HeldAreHigher ==
    ASSUME IInv, NEW Level \in [Locks -> Nat],
           \A h \in Handlers : Ordered(Script[h], Level),
           NEW l \in Locks, NEW i \in DOMAIN queue[l], ~Granted(queue[l], i),
           NEW k \in Locks, NEW j \in DOMAIN queue[k], Granted(queue[k], j),
           queue[l][i].task = queue[k][j].task
    PROVE  Level[l] < Level[k]
<1> DEFINE t == queue[l][i].task
           n == queue[l][i].step
           m == queue[k][j].step
<1>1. /\ t \in Tasks /\ n \in Nat /\ n \in DOMAIN Program(t)
      /\ Program(t)[n].lock = l /\ Program(t)[n].do # "drop"
      /\ task[t].pc = n + 1
  BY BlockedFacts
<1>2. /\ m \in Nat /\ m \in DOMAIN Program(t) /\ Program(t)[m].lock = k
      /\ HeldAt(Program(t), m, n + 1)
  BY <1>1, QueueTyped DEF IInv, RequestsAreHeld
<1>3. m # n
  BY <1>1, <1>2 DEF IInv, OneRequestPerStep
<1>4. HeldAt(Program(t), m, n)
  BY <1>1, <1>2, <1>3, SMTT(20) DEF HeldAt
<1>5. Ordered(Program(t), Level)
  <2>1. task[t] \in {Idle} \cup Running
    BY <1>1 DEF IInv, TypeOK
  <2>2. task[t] # Idle
    BY <1>1 DEF Idle
  <2>3. task[t].handler \in Handlers
    BY <2>1, <2>2 DEF Running
  <2>4. QED
    BY <2>3 DEF Program
<1>6. Level[Program(t)[n].lock] < Level[Program(t)[m].lock]
  BY <1>1, <1>2, <1>4, <1>5 DEF Ordered
<1>7. QED
  BY <1>1, <1>2, <1>6

\* Nobody waits for the holders of the lowest lock for ever: of the tasks of a
\* deadlock, take one that waits for the lowest lock, as early in its queue as any.
\* What is ahead of it is a guard, whose owner waits for a lower lock.
LEMMA OrderedAreFree ==
    ASSUME IInv, NEW Level \in [Locks -> Nat],
           \A h \in Handlers : Ordered(Script[h], Level)
    PROVE  NoDeadlock
<1> SUFFICES ASSUME NEW D \in SUBSET Tasks, D # {},
                    \A t \in D : \E u \in D : WaitsFor(t, u)
             PROVE  FALSE
  BY DEF NoDeadlock
<1> DEFINE WaitsAt(l) == {i \in DOMAIN queue[l] :
                            queue[l][i].task \in D /\ ~Granted(queue[l], i)}
           Levels == {Level[l] : l \in {k \in Locks : WaitsAt(k) # {}}}
<1>1. ASSUME NEW t \in D
      PROVE  \E l \in Locks : \E i \in WaitsAt(l), j \in DOMAIN queue[l] :
                queue[l][i].task = t /\ j < i /\ queue[l][j].task \in D
  <2>1. PICK u \in D : WaitsFor(t, u)
    OBVIOUS
  <2>2. PICK l \in Locks : \E i \in DOMAIN queue[l], j \in DOMAIN queue[l] :
            /\ j < i /\ queue[l][i].task = t /\ queue[l][j].task = u
            /\ queue[l][i].mode = "write" \/ queue[l][j].mode = "write"
    BY <2>1 DEF WaitsFor
  <2>3. PICK i \in DOMAIN queue[l], j \in DOMAIN queue[l] :
            /\ j < i /\ queue[l][i].task = t /\ queue[l][j].task = u
            /\ queue[l][i].mode = "write" \/ queue[l][j].mode = "write"
    BY <2>2
  <2>4. j \in 1..i - 1
    <3>1. queue[l] \in Seq(Request)
      BY DEF IInv, TypeOK
    <3>2. QED
      BY <2>3, <3>1
  <2>5. ~Granted(queue[l], i)
    BY <2>3, <2>4 DEF Granted
  <2>6. QED
    BY <2>3, <2>5
<1>2. Levels # {} /\ Levels \subseteq Nat
  BY <1>1
<1>3. PICK l0 \in Locks : /\ WaitsAt(l0) # {}
                          /\ \A l \in Locks : WaitsAt(l) # {} => Level[l0] <= Level[l]
  <2>1. PICK x \in Levels : \A y \in Levels : x <= y
    BY <1>2, LeastNumber
  <2>2. QED
    BY <2>1
<1>4. WaitsAt(l0) \subseteq Nat
  BY QueueTyped DEF IInv
<1>5. PICK i0 \in WaitsAt(l0) : \A i \in WaitsAt(l0) : i0 <= i
  BY <1>3, <1>4, LeastNumber
<1> HIDE DEF Levels
<1>6. PICK j0 \in DOMAIN queue[l0] : j0 < i0 /\ queue[l0][j0].task \in D
  <2> DEFINE t == queue[l0][i0].task
  <2>1. PICK l \in Locks : \E i \in WaitsAt(l), j \in DOMAIN queue[l] :
            queue[l][i].task = t /\ j < i /\ queue[l][j].task \in D
    BY <1>1, <1>5
  <2>2. PICK i \in WaitsAt(l), j \in DOMAIN queue[l] :
            queue[l][i].task = t /\ j < i /\ queue[l][j].task \in D
    BY <2>1
  <2>3. l = l0 /\ queue[l][i].step = queue[l0][i0].step
    BY <1>5, <2>2, BlockedFacts
  <2>4. i = i0
    BY <1>5, <2>2, <2>3 DEF IInv, OneRequestPerStep
  <2>5. QED
    BY <2>2, <2>3, <2>4
<1>7. Granted(queue[l0], j0)
  BY <1>4, <1>5, <1>6, QueueTyped DEF IInv
<1>8. QED
  <2> DEFINE u == queue[l0][j0].task
  <2>1. PICK l \in Locks : \E i \in WaitsAt(l) : queue[l][i].task = u
    BY <1>1, <1>6
  <2>2. PICK i \in WaitsAt(l) : queue[l][i].task = u
    BY <2>1
  <2>3. Level[l] < Level[l0]
    BY <1>6, <1>7, <2>2, HeldAreHigher
  <2>4. Level[l0] <= Level[l]
    BY <1>3, <2>2
  <2>5. QED
    BY <2>3, <2>4

\* Handlers that all take the locks from high to low, whatever the order of the
\* locks is, never deadlock, though the queues are fair and writers wait in them:
\* the order of update_category and delete_category (categories, then catalog),
\* and what a handler that holds one lock at a time trivially has.
THEOREM OrderedHandlersDoNotDeadlock ==
    ASSUME NEW Level \in [Locks -> Nat],
           \A h \in Handlers : Ordered(Script[h], Level)
    PROVE  Spec => []NoDeadlock
<1>1. IInv => NoDeadlock
  BY OrderedAreFree
<1>2. QED
  BY <1>1, InductiveInvariant, PTL

-----------------------------------------------------------------------------
(***************************************************************************)
(* Scripts put together.                                                   *)
(***************************************************************************)

\* A script that keeps to the order, and one that holds nothing at its end.
Good(s, Level) == s \in Seq(Step) /\ Ordered(s, Level)
Free(s, Level) == Good(s, Level) /\ \A m \in DOMAIN s : ~HeldAt(s, m, Len(s) + 1)

\* A script that holds nothing at its end may be followed by any that keeps to the
\* order.
LEMMA Followed ==
    ASSUME NEW Level, NEW a, NEW b, Free(a, Level), Good(b, Level)
    PROVE  Good(a \o b, Level) /\ (Free(b, Level) => Free(a \o b, Level))
<1> DEFINE s == a \o b
           la == Len(a)
           lb == Len(b)
           ls == Len(s)
<1>1. /\ a \in Seq(Step) /\ b \in Seq(Step) /\ s \in Seq(Step)
      /\ la \in Nat /\ lb \in Nat /\ ls = la + lb
      /\ DOMAIN a = 1..la /\ DOMAIN b = 1..lb /\ DOMAIN s = 1..ls
  BY DEF Free, Good
<1>2. /\ \A k \in 1..la : s[k] = a[k]
      /\ \A k \in 1..lb : s[la + k] = b[k]
  BY <1>1
<1>4. ASSUME NEW c \in Seq(Step), NEW k \in DOMAIN c PROVE c[k].back \in Nat
  <2>1. c[k] \in Step
    OBVIOUS
  <2> QED
    BY <2>1 DEF Step
<1> HIDE DEF s, la, lb, ls
<1>3. la \in Nat /\ lb \in Nat /\ ls = la + lb
  BY <1>1
<1>5. ASSUME NEW m \in 1..la, NEW n \in 1..(ls + 1), HeldAt(s, m, n)
      PROVE  n \in 1..la /\ HeldAt(a, m, n)
  <2>1. CASE n <= la
    <3>1. \A k \in m + 1..n - 1 : k \in 1..la
      BY <1>1, <2>1
    <3> QED
      BY <1>1, <1>2, <1>5, <2>1, <3>1 DEF HeldAt
  <2>2. CASE n > la
    <3>0. a[m].do # "drop" /\ m < la + 1 /\ ~HeldAt(a, m, la + 1)
      BY <1>1, <1>2, <1>5 DEF Free, HeldAt, la
    <3>3. m + 1..(la + 1) - 1 = m + 1..la
      BY <1>1
    <3>1. PICK k \in m + 1..la : a[k].do = "drop" /\ m + a[k].back = k
      BY <3>0, <3>3 DEF HeldAt
    <3>2. k \in 1..la /\ k \in m + 1..n - 1
      BY <1>1, <2>2
    <3> QED
      BY <1>2, <1>5, <3>1, <3>2 DEF HeldAt
  <2> QED
    BY <1>1, <2>1, <2>2
<1>6. ASSUME NEW m \in 1..lb, NEW n \in 1..(lb + 1), HeldAt(s, la + m, la + n)
      PROVE  HeldAt(b, m, n)
  <2>1. m < n /\ b[m].do # "drop"
    BY <1>1, <1>2, <1>6 DEF HeldAt
  <2>2. ASSUME NEW k \in m + 1..n - 1, b[k].do = "drop" PROVE m + b[k].back # k
    <3>1. k \in 1..lb /\ la + k \in la + m + 1..la + n - 1
      BY <1>1
    <3>2. s[la + k] = b[k]
      BY <1>2, <3>1
    <3>3. la + m + b[k].back # la + k
      BY <1>3, <1>6, <2>2, <3>1, <3>2 DEF HeldAt
    <3>4. b[k].back \in Nat
      BY <1>1, <1>4, <3>1
    <3> DEFINE back == b[k].back
    <3> HIDE DEF back
    <3>5. back \in Nat /\ la + m + back # la + k
      BY <3>3, <3>4 DEF back
    <3>6. m + back # k
      BY <1>3, <3>5
    <3> QED
      BY <3>6 DEF back
  <2> QED
    BY <2>1, <2>2 DEF HeldAt
<1>7. \A n \in 1..(ls + 1) : n > la => n - la \in 1..(lb + 1) /\ n = la + (n - la)
  BY <1>1
<1>8. ASSUME NEW m \in DOMAIN s, NEW n \in DOMAIN s, HeldAt(s, m, n), s[n].do # "drop"
      PROVE  Level[s[n].lock] < Level[s[m].lock]
  <2>1. CASE m <= la
    <3>1. m \in 1..la /\ n \in 1..(ls + 1)
      BY <1>1, <2>1
    <3>2. n \in 1..la /\ HeldAt(a, m, n)
      BY <1>5, <1>8, <3>1
    <3> QED
      BY <1>1, <1>2, <1>8, <3>1, <3>2 DEF Free, Good, Ordered
  <2>2. CASE m > la
    <3> DEFINE i == m - la
               j == n - la
    <3>1. m < n
      BY <1>8 DEF HeldAt
    <3>4. m \in 1..la + lb /\ n \in 1..la + lb
      BY <1>1
    <3>2. i \in 1..lb /\ j \in 1..lb /\ m = la + i /\ n = la + j
      BY <1>3, <2>2, <3>1, <3>4
    <3> HIDE DEF i, j
    <3>3. HeldAt(b, i, j)
      BY <1>1, <1>6, <1>8, <3>2
    <3>5. s[m] = b[i] /\ s[n] = b[j] /\ i \in DOMAIN b /\ j \in DOMAIN b
      BY <1>1, <1>2, <3>2
    <3> QED
      BY <1>8, <3>3, <3>5 DEF Good, Ordered
  <2> QED
    BY <1>1, <2>1, <2>2
<1>9. ASSUME Free(b, Level), NEW m \in DOMAIN s, HeldAt(s, m, ls + 1)
      PROVE  FALSE
  <2>1. CASE m <= la
    <3>1. m \in 1..la /\ ls + 1 \in 1..(ls + 1) /\ ls + 1 \notin 1..la
      BY <1>1, <2>1
    <3> QED
      BY <1>5, <1>9, <3>1
  <2>2. CASE m > la
    <3> DEFINE i == m - la
    <3>1. i \in 1..lb /\ m = la + i /\ ls + 1 = la + (lb + 1)
          /\ lb + 1 \in 1..(lb + 1)
      BY <1>1, <2>2
    <3> HIDE DEF i
    <3>2. HeldAt(b, i, lb + 1)
      BY <1>6, <1>9, <3>1
    <3> QED
      BY <1>1, <1>9, <3>1, <3>2 DEF Free, lb
  <2> QED
    BY <1>1, <2>1, <2>2
<1> QED
  BY <1>1, <1>8, <1>9 DEF s, la, lb, ls, Good, Free, Ordered


-----------------------------------------------------------------------------
(***************************************************************************)
(* The handlers of mvt-rs.                                                 *)
(***************************************************************************)

\* What a handler holds when it takes a lock is of a higher level.
LockLevel == [l \in Locks |-> IF l = categories THEN 2 ELSE IF l = catalog THEN 1 ELSE 0]

\* The process has the locks of main.rs, and runs handlers that keep to the order.
OrderedServer ==
    /\ {catalog, categories, auth, styles} \subseteq Locks
    /\ catalog # categories /\ auth # categories /\ auth # catalog
    /\ styles # categories /\ styles # catalog
    /\ Handlers \subseteq DOMAIN OrderedScript
    /\ \A h \in Handlers : Script[h] = OrderedScript[h]

Keeps(s) == Good(s, LockLevel)
Frees(s) == Free(s, LockLevel)

LEMMA Joining ==
    ASSUME NEW a, NEW b, Frees(a)
    PROVE  /\ Keeps(b) => Keeps(a \o b)
           /\ Frees(b) => Frees(a \o b)
BY Followed DEF Keeps, Frees, Free

\* A guard that is dropped at once.
LEMMA Glancing ==
    ASSUME NEW l \in Locks
    PROVE  Frees(Glance(l)) /\ Frees(Replace(l))
<1>1. ASSUME NEW mode \in {"read", "write"}
      PROVE  Frees(<< [do |-> mode, lock |-> l, back |-> 0],
                      [do |-> "drop", lock |-> l, back |-> 1] >>)
  <2> DEFINE s == << [do |-> mode, lock |-> l, back |-> 0],
                     [do |-> "drop", lock |-> l, back |-> 1] >>
  <2>1. /\ s \in Seq(Step) /\ Len(s) = 2 /\ DOMAIN s = {1, 2}
        /\ s[1].do = mode /\ s[2].do = "drop" /\ s[2].back = 1
    BY DEF Step
  <2> HIDE DEF s
  <2>2. \A m \in DOMAIN s : ~HeldAt(s, m, 3)
    <3>1. 2 \in 1 + 1..3 - 1
      OBVIOUS
    <3> QED
      BY <2>1, <3>1 DEF HeldAt
  <2>3. Ordered(s, LockLevel)
    BY <2>1 DEF Ordered, HeldAt
  <2>4. Len(s) + 1 = 3
    BY <2>1
  <2> QED
    BY <2>1, <2>2, <2>3, <2>4 DEF Frees, Free, Good, s
<1> QED
  BY <1>1 DEF Glance, Replace, Read, Write

\* A guard that is kept.
LEMMA Keeping ==
    ASSUME NEW l \in Locks
    PROVE  Keeps(<< Read(l) >>) /\ Keeps(<< Write(l) >>)
<1>1. ASSUME NEW mode \in {"read", "write"}
      PROVE  Keeps(<< [do |-> mode, lock |-> l, back |-> 0] >>)
  <2> DEFINE s == << [do |-> mode, lock |-> l, back |-> 0] >>
  <2>1. s \in Seq(Step) /\ DOMAIN s = {1}
    BY DEF Step
  <2> HIDE DEF s
  <2>2. \A m, n \in DOMAIN s : ~HeldAt(s, m, n)
    BY <2>1 DEF HeldAt
  <2> QED
    BY <2>1, <2>2 DEF Keeps, Good, Ordered, s
<1> QED
  BY <1>1 DEF Read, Write


\* What the middleware and the pages have in common.
LEMMA Sessions ==
    ASSUME OrderedServer
    PROVE  Frees(get_session_data) /\ Frees(require_user_admin) /\ Frees(admin_page)
BY Glancing, Joining DEF OrderedServer, get_session_data, require_user_admin, admin_page

\* The handlers that hold more than one guard.
LEMMA HoldingSeveral ==
    ASSUME OrderedServer
    PROVE  /\ Keeps(<< Read(categories) >> \o Glance(catalog))
           /\ Keeps(<< Read(categories), Read(catalog), Read(auth) >>)
           /\ Keeps(<< Write(categories), Write(catalog) >> \o Replace(styles))
<1> USE DEF Read, Write, Glance, Replace
<1>1. /\ LockLevel[categories] = 2 /\ LockLevel[catalog] = 1
      /\ LockLevel[auth] = 0 /\ LockLevel[styles] = 0
      /\ {catalog, categories, auth, styles} \subseteq Locks
  BY DEF OrderedServer, LockLevel
<1>2. Keeps(<< Read(categories), Read(catalog), Read(auth) >>)
  <2> DEFINE s == << Read(categories), Read(catalog), Read(auth) >>
  <2>1. /\ s \in Seq(Step) /\ DOMAIN s = {1, 2, 3}
        /\ s[1].lock = categories /\ s[2].lock = catalog /\ s[3].lock = auth
    BY <1>1 DEF Step
  <2> HIDE DEF s
  <2>2. Ordered(s, LockLevel)
    BY <1>1, <2>1 DEF Ordered, HeldAt
  <2> QED
    BY <2>1, <2>2 DEF Keeps, Good, s
<1>3. Keeps(<< Read(categories) >> \o Glance(catalog))
  <2> DEFINE s == << Read(categories) >> \o Glance(catalog)
  <2>1. << Read(categories) >> \in Seq(Step) /\ Glance(catalog) \in Seq(Step)
    BY <1>1 DEF Step
  <2>2. /\ s \in Seq(Step) /\ DOMAIN s = {1, 2, 3}
        /\ s[1].lock = categories /\ s[2].lock = catalog /\ s[3].do = "drop"
    BY <2>1
  <2> HIDE DEF s
  <2>3. Ordered(s, LockLevel)
    BY <1>1, <2>2 DEF Ordered, HeldAt
  <2> QED
    BY <2>2, <2>3 DEF Keeps, Good, s
<1>4. Keeps(<< Write(categories), Write(catalog) >> \o Replace(styles))
  <2> DEFINE s == << Write(categories), Write(catalog) >> \o Replace(styles)
  <2>1. << Write(categories), Write(catalog) >> \in Seq(Step) /\ Replace(styles) \in Seq(Step)
    BY <1>1 DEF Step
  <2>2. /\ s \in Seq(Step) /\ DOMAIN s = {1, 2, 3, 4}
        /\ s[1].lock = categories /\ s[2].lock = catalog /\ s[3].lock = styles /\ s[4].do = "drop"
    BY <2>1
  <2> HIDE DEF s
  <2>3. Ordered(s, LockLevel)
    BY <1>1, <2>2 DEF Ordered, HeldAt
  <2> QED
    BY <2>2, <2>3 DEF Keeps, Good, s
<1> QED
  BY <1>2, <1>3, <1>4

\* Every script of OrderedScript takes the locks from high to low.
LEMMA ScriptsAreOrdered ==
    ASSUME OrderedServer, NEW h \in DOMAIN OrderedScript
    PROVE  Keeps(OrderedScript[h])
<1>1. \A l \in {catalog, categories, auth, styles} :
        Frees(Glance(l)) /\ Frees(Replace(l)) /\ Keeps(<< Read(l) >>) /\ Keeps(<< Write(l) >>)
  BY Glancing, Keeping DEF OrderedServer
<1>2. \A s : Frees(s) => Keeps(s)
  BY DEF Frees, Keeps, Free
<1>3. Keeps(open_tile) /\ Keeps(public_page) /\ Keeps(map_page)
  BY <1>1, <1>2, Joining, Sessions DEF open_tile, get_request_user, public_page, map_page
<1>4. Keeps(admin_page) /\ Keeps(users_page) /\ Keeps(groups_page) /\ Keeps(categories_page)
  BY <1>1, <1>2, Joining, Sessions DEF users_page, groups_page, categories_page
<1>5. Keeps(edit_layer_page)
  BY Joining, Sessions, HoldingSeveral DEF edit_layer_page
<1>6. Keeps(style_page)
  <2>1. admin_page \in Seq(Step) /\ << Read(categories) >> \in Seq(Step)
        /\ Glance(catalog) \in Seq(Step)
    BY <1>1, Sessions DEF Frees, Free, Keeps, Good
  <2>2. style_page = admin_page \o (<< Read(categories) >> \o Glance(catalog))
    BY <2>1, ConcatAssociative DEF style_page
  <2> QED
    BY <2>2, Joining, Sessions, HoldingSeveral
<1>7. /\ Keeps(catalog_table) /\ Keeps(login_form) /\ Keeps(layer_switch) /\ Keeps(clear_cache)
      /\ Keeps(auth_edit) /\ Keeps(change_password) /\ Keeps(new_category)
      /\ Keeps(reload_styles_cache) /\ Keeps(style_document)
  BY <1>1, <1>2 DEF catalog_table, login_form, style_document, layer_switch, clear_cache, auth_edit,
                    change_password, new_category, reload_styles_cache
<1>8. /\ Keeps(layer_api) /\ Keeps(update_group) /\ Keeps(delete_group) /\ Keeps(delete_category)
      /\ Keeps(apply_snapshot)
  BY <1>1, <1>2, Joining DEF layer_api, update_group, delete_group, delete_category, apply_snapshot
<1>9. Keeps(update_category)
  BY HoldingSeveral DEF update_category
<1> QED
  BY <1>3, <1>4, <1>5, <1>6, <1>7, <1>8, <1>9 DEF OrderedScript

\* The handlers of OrderedScript never deadlock, whatever requests and background
\* tasks run them at a time, and wherever each of them returns: the pages of admins
\* (but for those of new layers and the form of a layer), the edits, the watcher's
\* swap, styles and legends, and the tiles of layers that are open to everybody.
THEOREM ServerDoesNotDeadlock ==
    ASSUME OrderedServer
    PROVE  Spec => []NoDeadlock
<1>1. LockLevel \in [Locks -> Nat]
  BY DEF LockLevel
<1>2. \A h \in Handlers : Ordered(Script[h], LockLevel)
  BY ScriptsAreOrdered DEF OrderedServer, Keeps, Good
<1>3. QED
  BY <1>1, <1>2, OrderedHandlersDoNotDeadlock

=============================================================================
