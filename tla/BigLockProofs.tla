---------------------------- MODULE BigLockProofs ----------------------------
(***************************************************************************)
(* Mutual exclusion, service in order of arrival and the absence of lost   *)
(* wake-ups of the scheduler lock, for any number of threads, any number   *)
(* of futex words and any counter width that can tell the threads apart.   *)
(***************************************************************************)
EXTENDS BigLock, FiniteSetTheorems, TLAPS

\* Counter arithmetic modulo MaxTicket + 1, for two values below it.
Plus(h, k) == IF h + k <= MaxTicket THEN h + k ELSE h + k - MaxTicket - 1

\* Where a thread has drawn a ticket that it has not handed on.
Waiting == Holding \cup {"read", "test", "wait", "asleep"}

\* The arrivals queue is what the counters and the tickets encode: it lists
\* each queued thread once, and its i-th thread holds ticket head + i - 1.
QueueInv ==
    /\ tail = Plus(head, Len(arrivals))
    /\ \A i \in 1..Len(arrivals) :
         /\ pc[arrivals[i]] \in Waiting
         /\ ticket[arrivals[i]] = Plus(head, i - 1)
    /\ \A i, j \in 1..Len(arrivals) : arrivals[i] = arrivals[j] => i = j
    /\ \A t \in Threads : pc[t] \in Waiting => \E i \in 1..Len(arrivals) : arrivals[i] = t
    /\ \A t \in Threads : pc[t] \in Holding => ticket[t] = head

TicketInv ==
    impl = "ticket" =>
        /\ QueueInv
        /\ \A t \in Threads : pc[t] # "put"

\* The pipe holds the token exactly while nobody holds the lock.
TokenInv ==
    impl = "generic" =>
        /\ arrivals = <<>>
        /\ tokens \in {0, 1}
        /\ tokens = 1 => \A t \in Threads : ~Holds(t)
        /\ MutualExclusion
        /\ \A t \in Threads : pc[t] \in {"off", "want", "got", "run", "put", "out", "fini"}

\* Which states of the thread table go with which point of the code.
StatusInv ==
    \A t \in Threads :
        /\ status[t] = "Empty" <=> pc[t] = "off"
        /\ status[t] = "Runnable" <=> pc[t] \in {"run", "fini"}
        /\ pc[t] \in {"run", "fini"} => owner = t /\ running = t
        /\ owner = t => pc[t] \in {"run", "fini"}
        /\ running = t => pc[t] \in {"run", "fini"}
        /\ status[t] = "Zombie" => pc[t] \in {"bump", "put", "peek", "poke", "wake", "out"}

\* A thread whose turn it is and that sleeps, or is about to without the
\* kernel noticing, has a waker that has not reached the matching step.
WakeInv ==
    \A t \in Threads : ticket[t] = head =>
        /\ pc[t] = "asleep" =>
             \E u \in Threads : pc[u] \in {"peek", "poke", "wake"} /\ wakeup[u] = head
        /\ pc[t] = "wait" /\ seen[t] =>
             \E u \in Threads : pc[u] \in {"peek", "poke"} /\ wakeup[u] = head

IInv == TypeOK /\ TicketInv /\ TokenInv /\ StatusInv /\ WakeInv /\ FiniIsLast
-----------------------------------------------------------------------------
(* The queue never outgrows the thread table, so never the counters.       *)

\* A sequence of distinct threads is at most N long: tail cannot catch head.
LEMMA QueueShort ==
    ASSUME NEW q \in Seq(Threads),
           \A i, j \in 1..Len(q) : q[i] = q[j] => i = j
    PROVE  Len(q) <= N
<1> DEFINE L == Len(q)
<1>1. L \in Nat /\ q \in [1..L -> Threads]
  OBVIOUS
<1>2. IsFiniteSet(Threads) /\ Cardinality(Threads) = N
  BY FS_Interval, SlotsAssumption DEF Threads
<1>3. IsFiniteSet(1..L) /\ Cardinality(1..L) = L
  BY <1>1, FS_Interval, SMTT(30)
<1>4. ~(Cardinality(Threads) < Cardinality(1..L))
  <2>1. SUFFICES ASSUME Cardinality(Threads) < Cardinality(1..L) PROVE FALSE
    OBVIOUS
  <2>2. \E i, j \in 1..L : i # j /\ q[i] = q[j]
    BY <1>1, <1>2, <1>3, <2>1, FS_PigeonHole
  <2>. QED BY <2>2
<1>. QED BY <1>1, <1>2, <1>3, <1>4, SlotsAssumption

\* A thread past the head test is the first of the queue: two tickets of
\* queued threads differ modulo the counter width.
LEMMA HolderIsFirst ==
    ASSUME TypeOK, QueueInv, impl = "ticket", NEW t \in Threads, Holds(t)
    PROVE  Len(arrivals) >= 1 /\ arrivals[1] = t
<1>1. Len(arrivals) <= N
  BY QueueShort DEF TypeOK, QueueInv
<1>2. PICK i \in 1..Len(arrivals) : arrivals[i] = t
  BY DEF QueueInv, Waiting, Holds, Holding
<1>3. Plus(head, i - 1) = head
  BY <1>2 DEF QueueInv, Holds
<1>4. Len(arrivals) \in Nat /\ head \in 0..MaxTicket
  BY DEF TypeOK
<1>5. i = 1
  BY <1>1, <1>3, <1>4, SlotsAssumption, TicketsAssumption DEF Plus
<1>. QED BY <1>2, <1>4, <1>5

\* Mutual exclusion of either implementation, from the invariant.
LEMMA InvImpliesExclusion ==
    ASSUME IInv
    PROVE  MutualExclusion /\ FirstComeFirstServed
<1>1. CASE impl = "ticket"
  BY <1>1, HolderIsFirst DEF IInv, TicketInv, MutualExclusion, FirstComeFirstServed
<1>2. CASE impl = "generic"
  BY <1>2 DEF IInv, TokenInv, FirstComeFirstServed
<1>. QED BY <1>1, <1>2 DEF IInv, TypeOK

-----------------------------------------------------------------------------
(* Each part of the invariant is preserved.                                *)

Action(t) == Step(t) \/ ReleaseBigLock(t) \/ Return(t) \/ ThreadExit(t) \/ Clone(t) \/ Fork(t)

\* The type invariant: the counters wrap within their range.
LEMMA TypeStep ==
    ASSUME IInv, NEW t \in Threads, Action(t)
    PROVE  TypeOK'
<1>a. MaxTicket \in Nat /\ MaxTicket >= 1 /\ N \in Nat
  BY SlotsAssumption, TicketsAssumption
<1>1. CASE TakeTicket(t)
  BY <1>1, <1>a DEF IInv, TypeOK, Goto, lock, Threads, None, Labels, Statuses, Inc, TakeTicket
<1>2. CASE ReadFutex(t)
  BY <1>2, <1>a DEF IInv, TypeOK, Goto, lock, Threads, None, Labels, Statuses, Inc, ReadFutex
<1>3. CASE TestHead(t)
  BY <1>3, <1>a, Zenon DEF IInv, TypeOK, Goto, lock, Threads, None, Labels, Statuses, Inc, TestHead
<1>4. CASE FutexWait(t)
  BY <1>4, <1>a DEF IInv, TypeOK, Goto, lock, Threads, None, Labels, Statuses, Inc, FutexWait
<1>5. CASE SemaDown(t)
  BY <1>5, <1>a DEF IInv, TypeOK, Goto, lock, Threads, None, Labels, Statuses, Inc, SemaDown
<1>6. CASE AcquireBigLock(t)
  BY <1>6, <1>a DEF IInv, TypeOK, Goto, lock, Threads, None, Labels, Statuses, Inc, AcquireBigLock
<1>7. CASE BumpHead(t)
  <2>1. impl = "ticket"
    BY <1>7, Zenon DEF IInv, TypeOK, TokenInv, BumpHead
  <2>2. arrivals # <<>>
    BY <1>7, <2>1, InvImpliesExclusion DEF FirstComeFirstServed, Holds, Holding, BumpHead
  <2>3. arrivals' \in Seq(Threads)
    BY <1>7, <2>2 DEF IInv, TypeOK, BumpHead
  <2>4. head' \in 0..MaxTicket /\ wakeup' \in [Threads -> 0..MaxTicket]
    BY <1>7, <1>a DEF IInv, TypeOK, BumpHead, Inc
  <2>. QED BY <1>7, <1>a, <2>3, <2>4, SMTT(30) DEF IInv, TypeOK, BumpHead, Goto, Labels
<1>8. CASE PeekTail(t)
  <2>1. wakeup' \in [Threads -> 0..MaxTicket]
    BY <1>8, <1>a DEF IInv, TypeOK, PeekTail
  <2>2. pc' \in [Threads -> Labels]
    BY <1>8, Zenon DEF IInv, TypeOK, PeekTail, Goto, Labels
  <2>. QED BY <1>8, <2>1, <2>2 DEF IInv, TypeOK, PeekTail, lock
<1>9. CASE Poke(t)
  BY <1>9, <1>a DEF IInv, TypeOK, Goto, lock, Threads, None, Labels, Statuses, Inc, Poke
<1>10. CASE FutexWake(t)
  BY <1>10, <1>a DEF IInv, TypeOK, Goto, lock, Threads, None, Labels, Statuses, Inc, FutexWake
<1>11. CASE SemaUp(t)
  BY <1>11, <1>a DEF IInv, TypeOK, Goto, lock, Threads, None, Labels, Statuses, Inc, SemaUp
<1>12. CASE Vanish(t)
  BY <1>12, <1>a DEF IInv, TypeOK, Goto, lock, Threads, None, Labels, Statuses, Inc, Vanish
<1>13. CASE ReleaseBigLock(t)
  BY <1>13, <1>a DEF IInv, TypeOK, Goto, lock, Threads, None, Labels, Statuses, Inc, ReleaseBigLock, Leave
<1>14. CASE Return(t)
  BY <1>14, <1>a DEF IInv, TypeOK, Goto, lock, Threads, None, Labels, Statuses, Inc, Return
<1>15. CASE ThreadExit(t)
  BY <1>15, <1>a, Zenon DEF IInv, TypeOK, Goto, lock, Threads, None, Labels, Statuses, Inc, ThreadExit, Leave
<1>16. CASE Clone(t)
  BY <1>16, <1>a DEF IInv, TypeOK, Goto, lock, Threads, None, Labels, Statuses, Inc, Clone
<1>17. CASE Fork(t)
  <2>1. arrivals' \in Seq(Threads)
    BY <1>17 DEF Fork
  <2>2. tail' \in 0..MaxTicket /\ head' \in 0..MaxTicket
    BY <1>17, <1>a DEF Fork
  <2>3. pc' \in [Threads -> Labels]
    BY <1>17 DEF Fork, Labels
  <2>4. status' \in [Threads -> Statuses]
    BY <1>17 DEF IInv, TypeOK, Fork, Statuses
  <2>. QED BY <1>17, <1>a, <2>1, <2>2, <2>3, <2>4 DEF IInv, TypeOK, Fork
<1>. QED BY <1>1, <1>2, <1>3, <1>4, <1>5, <1>6, <1>7, <1>8, <1>9,
            <1>10, <1>11, <1>12, <1>13, <1>14, <1>15, <1>16, <1>17 DEF Action, Step

\* The thread table agrees with where each thread is.
LEMMA StatusStep ==
    ASSUME IInv, NEW t \in Threads, Action(t)
    PROVE  StatusInv'
<1>a. \A u \in Threads : Holds(t) /\ Holds(u) => t = u
  BY InvImpliesExclusion DEF MutualExclusion
<1>b. 0 \notin Threads
  BY DEF Threads
<1>1. CASE TakeTicket(t)
  BY <1>1, <1>a, <1>b DEF IInv, TypeOK, StatusInv, Goto, lock, Threads, None, Living, Holds, Holding, TakeTicket
<1>2. CASE ReadFutex(t)
  BY <1>2, <1>a, <1>b DEF IInv, TypeOK, StatusInv, Goto, lock, Threads, None, Living, Holds, Holding, ReadFutex
<1>3. CASE TestHead(t)
  BY <1>3, <1>a, <1>b, ZenonT(30) DEF IInv, TypeOK, StatusInv, Goto, lock, Threads, None, Living, Holds, Holding, TestHead
<1>4. CASE FutexWait(t)
  BY <1>4, <1>a, <1>b DEF IInv, TypeOK, StatusInv, Goto, lock, Threads, None, Living, Holds, Holding, FutexWait
<1>5. CASE SemaDown(t)
  BY <1>5, <1>a, <1>b DEF IInv, TypeOK, StatusInv, Goto, lock, Threads, None, Living, Holds, Holding, SemaDown
<1>6. CASE AcquireBigLock(t)
  BY <1>6, <1>a, <1>b DEF IInv, TypeOK, StatusInv, Goto, lock, Threads, None, Living, Holds, Holding, AcquireBigLock
<1>7. CASE BumpHead(t)
  BY <1>7, <1>a, <1>b DEF IInv, TypeOK, StatusInv, Goto, lock, Threads, None, Living, Holds, Holding, BumpHead
<1>8. CASE PeekTail(t)
  BY <1>8, <1>a, <1>b, ZenonT(30) DEF IInv, TypeOK, StatusInv, Goto, lock, Threads, None, Living, Holds, Holding, PeekTail
<1>9. CASE Poke(t)
  BY <1>9, <1>a, <1>b DEF IInv, TypeOK, StatusInv, Goto, lock, Threads, None, Living, Holds, Holding, Poke
<1>10. CASE FutexWake(t)
  BY <1>10, <1>a, <1>b DEF IInv, TypeOK, StatusInv, Goto, lock, Threads, None, Living, Holds, Holding, FutexWake
<1>11. CASE SemaUp(t)
  BY <1>11, <1>a, <1>b DEF IInv, TypeOK, StatusInv, Goto, lock, Threads, None, Living, Holds, Holding, SemaUp
<1>12. CASE Vanish(t)
  BY <1>12, <1>a, <1>b DEF IInv, TypeOK, StatusInv, Goto, lock, Threads, None, Living, Holds, Holding, Vanish
<1>13. CASE ReleaseBigLock(t)
  BY <1>13, <1>a, <1>b DEF IInv, TypeOK, StatusInv, Goto, lock, Threads, None, Living, Holds, Holding, ReleaseBigLock, Leave
<1>14. CASE Return(t)
  BY <1>14, <1>a, <1>b DEF IInv, TypeOK, StatusInv, Goto, lock, Threads, None, Living, Holds, Holding, Return
<1>15. CASE ThreadExit(t)
  <2>1. CASE Leave(t, "Zombie")
    BY <2>1, <1>a, <1>b DEF IInv, TypeOK, StatusInv, Goto, None, Holds, Holding, Leave
  <2>2. CASE pc[t] = "run" /\ Goto(t, "fini") /\ UNCHANGED <<status, running, owner>>
    BY <2>2 DEF IInv, TypeOK, StatusInv, Goto
  <2>. QED BY <1>15, <2>1, <2>2 DEF ThreadExit, lock
<1>16. CASE Clone(t)
  BY <1>16, <1>a, <1>b DEF IInv, TypeOK, StatusInv, Goto, lock, Threads, None, Living, Holds, Holding, Clone
<1>17. CASE Fork(t)
  BY <1>17, <1>a, <1>b, SMTT(30) DEF IInv, TypeOK, StatusInv, Goto, lock, Threads, None, Living, Holds, Holding, Fork
<1>. QED BY <1>1, <1>2, <1>3, <1>4, <1>5, <1>6, <1>7, <1>8, <1>9,
            <1>10, <1>11, <1>12, <1>13, <1>14, <1>15, <1>16, <1>17 DEF Action, Step

\* Nothing wakes a thread once the last one shuts down.
LEMMA FiniStep ==
    ASSUME IInv, NEW t \in Threads, Action(t)
    PROVE  FiniIsLast'
<1>a. \A u \in Threads : Holds(t) /\ Holds(u) => t = u
  BY InvImpliesExclusion DEF MutualExclusion
<1>1. CASE TakeTicket(t)
  BY <1>1, <1>a DEF IInv, TypeOK, StatusInv, FiniIsLast, Goto, lock, Living, Holds, Holding, TakeTicket
<1>2. CASE ReadFutex(t)
  BY <1>2, <1>a DEF IInv, TypeOK, StatusInv, FiniIsLast, Goto, lock, Living, Holds, Holding, ReadFutex
<1>3. CASE TestHead(t)
  BY <1>3, <1>a, ZenonT(30) DEF IInv, TypeOK, StatusInv, FiniIsLast, Goto, lock, Living, Holds, Holding, TestHead
<1>4. CASE FutexWait(t)
  BY <1>4, <1>a DEF IInv, TypeOK, StatusInv, FiniIsLast, Goto, lock, Living, Holds, Holding, FutexWait
<1>5. CASE SemaDown(t)
  BY <1>5, <1>a DEF IInv, TypeOK, StatusInv, FiniIsLast, Goto, lock, Living, Holds, Holding, SemaDown
<1>6. CASE AcquireBigLock(t)
  BY <1>6, <1>a DEF IInv, TypeOK, StatusInv, FiniIsLast, Goto, lock, Living, Holds, Holding, AcquireBigLock
<1>7. CASE BumpHead(t)
  BY <1>7, <1>a DEF IInv, TypeOK, StatusInv, FiniIsLast, Goto, lock, Living, Holds, Holding, BumpHead
<1>8. CASE PeekTail(t)
  <2>1. /\ \E l \in {"poke", "out"} : pc' = [pc EXCEPT ![t] = l]
        /\ status' = status
    BY <1>8 DEF PeekTail, Goto
  <2>. QED BY <1>8, <2>1 DEF IInv, TypeOK, StatusInv, FiniIsLast, PeekTail
<1>9. CASE Poke(t)
  BY <1>9, <1>a DEF IInv, TypeOK, StatusInv, FiniIsLast, Goto, lock, Living, Holds, Holding, Poke
<1>10. CASE FutexWake(t)
  BY <1>10, <1>a DEF IInv, TypeOK, StatusInv, FiniIsLast, Goto, lock, Living, Holds, Holding, FutexWake
<1>11. CASE SemaUp(t)
  BY <1>11, <1>a DEF IInv, TypeOK, StatusInv, FiniIsLast, Goto, lock, Living, Holds, Holding, SemaUp
<1>12. CASE Vanish(t)
  BY <1>12, <1>a DEF IInv, TypeOK, StatusInv, FiniIsLast, Goto, lock, Living, Holds, Holding, Vanish
<1>13. CASE ReleaseBigLock(t)
  BY <1>13, <1>a DEF IInv, TypeOK, StatusInv, FiniIsLast, Goto, lock, Living, Holds, Holding, ReleaseBigLock, Leave
<1>14. CASE Return(t)
  BY <1>14, <1>a DEF IInv, TypeOK, StatusInv, FiniIsLast, Goto, lock, Living, Holds, Holding, Return
<1>15. CASE ThreadExit(t)
  <2>1. CASE Leave(t, "Zombie")
    BY <2>1, <1>a DEF IInv, TypeOK, StatusInv, FiniIsLast, Goto, Holds, Holding, Leave
  <2>2. CASE pc[t] = "run" /\ Goto(t, "fini") /\ UNCHANGED status /\ \A u \in Threads \ {t} : ~Living(u)
    BY <2>2, <1>a DEF IInv, TypeOK, StatusInv, FiniIsLast, Goto, Living, Holds, Holding
  <2>. QED BY <1>15, <2>1, <2>2 DEF ThreadExit
<1>16. CASE Clone(t)
  BY <1>16, <1>a DEF IInv, TypeOK, StatusInv, FiniIsLast, Goto, lock, Living, Holds, Holding, Clone
<1>17. CASE Fork(t)
  BY <1>17, <1>a DEF IInv, TypeOK, StatusInv, FiniIsLast, Goto, lock, Living, Holds, Holding, Fork
<1>. QED BY <1>1, <1>2, <1>3, <1>4, <1>5, <1>6, <1>7, <1>8, <1>9,
            <1>10, <1>11, <1>12, <1>13, <1>14, <1>15, <1>16, <1>17 DEF Action, Step

\* A step that leaves the counters and the queue alone keeps the encoding if
\* it changes neither who is queued nor lets a thread in out of turn.
LEMMA QueueFrame ==
    ASSUME TypeOK, QueueInv, UNCHANGED <<head, tail, arrivals, ticket>>,
           \A u \in Threads : (pc'[u] \in Waiting) <=> (pc[u] \in Waiting),
           \A u \in Threads : pc'[u] \in Holding => ticket[u] = head
    PROVE  QueueInv'
<1>1. \A i \in 1..Len(arrivals) : arrivals[i] \in Threads
  BY DEF TypeOK
<1>. QED BY <1>1 DEF QueueInv

\* Drawing a ticket extends the queue by the next counter value.
LEMMA QueueTake ==
    ASSUME IInv, NEW t \in Threads, TakeTicket(t)
    PROVE  QueueInv'
<1>1. QueueInv /\ TypeOK
  BY DEF IInv, TicketInv, TakeTicket
<1> DEFINE L == Len(arrivals)
<1>2. pc[t] \notin Waiting
  BY DEF TakeTicket, Waiting, Holds, Holding
<1>3. \A i \in 1..L : arrivals[i] # t
  BY <1>1, <1>2 DEF QueueInv
<1>4. /\ L \in Nat /\ arrivals' = Append(arrivals, t) /\ Len(arrivals') = L + 1
      /\ \A i \in 1..L : arrivals'[i] = arrivals[i]
      /\ arrivals'[L + 1] = t
  BY <1>1 DEF TypeOK, TakeTicket
<1>5. \A i, j \in 1..(L + 1) : arrivals'[i] = arrivals'[j] => i = j
  BY <1>1, <1>3, <1>4 DEF QueueInv
<1>6. arrivals' \in Seq(Threads)
  BY TypeStep DEF Action, Step, TypeOK
<1>7. L + 1 <= N
  BY <1>4, <1>5, <1>6, QueueShort
<1>8. head' = head /\ head \in 0..MaxTicket /\ tail' = Inc(tail) /\ tail \in 0..MaxTicket
  BY <1>1 DEF TypeOK, TakeTicket
<1>9. tail' = Plus(head', Len(arrivals'))
  BY <1>1, <1>4, <1>7, <1>8, SlotsAssumption, TicketsAssumption DEF QueueInv, Plus, Inc
<1>10. \A u \in Threads : (pc'[u] \in Waiting) <=> (pc[u] \in Waiting \/ u = t)
  BY <1>1 DEF TypeOK, TakeTicket, Goto, Waiting, Holds, Holding
<1>11. \A u \in Threads : pc'[u] \in Holding => Holds(u) /\ u # t
  BY <1>1 DEF TypeOK, TakeTicket, Goto, Holds, Holding
<1>12. ticket' = [ticket EXCEPT ![t] = tail] /\ ticket \in [Threads -> 0..MaxTicket]
  BY <1>1 DEF TypeOK, TakeTicket
<1>13. \A i \in 1..(L + 1) : pc'[arrivals'[i]] \in Waiting /\ ticket'[arrivals'[i]] = Plus(head, i - 1)
  <2>1. SUFFICES ASSUME NEW i \in 1..(L + 1)
                 PROVE  pc'[arrivals'[i]] \in Waiting /\ ticket'[arrivals'[i]] = Plus(head, i - 1)
    OBVIOUS
  <2>2. CASE i = L + 1
    <3>1. Plus(head, i - 1) = tail
      BY <1>1, <1>4, <2>2 DEF QueueInv
    <3>. QED BY <1>4, <1>10, <1>12, <2>2, <3>1
  <2>3. CASE i \in 1..L
    <3>1. arrivals[i] \in Threads /\ arrivals'[i] = arrivals[i] /\ arrivals[i] # t
      BY <1>1, <1>3, <1>4, <2>3, SMTT(30) DEF TypeOK
    <3>. QED BY <1>1, <1>10, <1>12, <2>3, <3>1 DEF QueueInv
  <2>. QED BY <1>4, <2>2, <2>3
<1>14. \A u \in Threads : pc'[u] \in Waiting => \E i \in 1..(L + 1) : arrivals'[i] = u
  BY <1>1, <1>4, <1>10 DEF QueueInv
<1>15. \A u \in Threads : pc'[u] \in Holding => ticket'[u] = head
  BY <1>1, <1>11, <1>12 DEF QueueInv, Holds
<1>. QED BY <1>4, <1>5, <1>8, <1>9, <1>13, <1>14, <1>15, Zenon DEF QueueInv

\* Releasing drops the first of the queue and moves the head to the next.
LEMMA QueueBump ==
    ASSUME IInv, impl = "ticket", NEW t \in Threads, BumpHead(t)
    PROVE  QueueInv'
<1>1. QueueInv /\ TypeOK
  BY DEF IInv, TicketInv
<1> DEFINE L == Len(arrivals)
<1>2. L \in Nat /\ L >= 1 /\ arrivals[1] = t
  BY <1>1, HolderIsFirst DEF BumpHead, Holds, Holding, TypeOK
<1>3. L <= N
  BY <1>1, QueueShort DEF TypeOK, QueueInv
<1>4. /\ arrivals' = Tail(arrivals) /\ Len(arrivals') = L - 1
      /\ \A i \in 1..(L - 1) : arrivals'[i] = arrivals[i + 1]
  BY <1>1, <1>2 DEF TypeOK, BumpHead
<1>5. head' = Inc(head) /\ head \in 0..MaxTicket /\ tail' = tail
  BY <1>1 DEF TypeOK, BumpHead
<1>6. tail' = Plus(head', L - 1)
  BY <1>1, <1>2, <1>3, <1>5, SlotsAssumption, TicketsAssumption DEF QueueInv, Plus, Inc
<1>7. \A i \in 1..(L - 1) : arrivals[i + 1] \in Threads /\ arrivals[i + 1] # t
  <2>1. SUFFICES ASSUME NEW i \in 1..(L - 1)
                 PROVE  arrivals[i + 1] \in Threads /\ arrivals[i + 1] # t
    OBVIOUS
  <2>2. i + 1 \in 1..L /\ 1 \in 1..L /\ i + 1 # 1
    BY <1>2
  <2>3. arrivals[i + 1] \in Threads
    BY <1>1, <2>2 DEF TypeOK
  <2>4. \A a, b \in 1..L : arrivals[a] = arrivals[b] => a = b
    BY <1>1 DEF QueueInv
  <2>. QED BY <1>2, <2>2, <2>3, <2>4
<1>8. \A u \in Threads : (pc'[u] \in Waiting) <=> (pc[u] \in Waiting /\ u # t)
  BY <1>1 DEF TypeOK, BumpHead, Goto, Waiting, Holds, Holding
<1>9. \A i \in 1..(L - 1) : pc'[arrivals'[i]] \in Waiting /\ ticket'[arrivals'[i]] = Plus(head', i - 1)
  <2>1. SUFFICES ASSUME NEW i \in 1..(L - 1)
                 PROVE  pc'[arrivals'[i]] \in Waiting /\ ticket'[arrivals'[i]] = Plus(head', i - 1)
    OBVIOUS
  <2>2. i + 1 \in 1..L /\ arrivals'[i] = arrivals[i + 1]
    BY <1>2, <1>4
  <2>3. pc[arrivals[i + 1]] \in Waiting /\ ticket[arrivals[i + 1]] = Plus(head, i)
    BY <1>1, <1>2, <2>2 DEF QueueInv
  <2>4. ticket'[arrivals[i + 1]] = ticket[arrivals[i + 1]]
    BY <1>1, <1>7, SMTT(30) DEF TypeOK, BumpHead
  <2>5. Plus(head, i) = Plus(head', i - 1)
    BY <1>2, <1>3, <1>5, SlotsAssumption, TicketsAssumption DEF Plus, Inc
  <2>. QED BY <1>7, <1>8, <2>2, <2>3, <2>4, <2>5
<1>10. \A i, j \in 1..(L - 1) : arrivals'[i] = arrivals'[j] => i = j
  <2>1. SUFFICES ASSUME NEW i \in 1..(L - 1), NEW j \in 1..(L - 1), arrivals'[i] = arrivals'[j]
                 PROVE  i = j
    OBVIOUS
  <2>2. i + 1 \in 1..L /\ j + 1 \in 1..L /\ arrivals[i + 1] = arrivals[j + 1]
    BY <1>2, <1>4, <2>1
  <2>3. i + 1 = j + 1
    BY <1>1, <2>2 DEF QueueInv
  <2>. QED BY <1>2, <2>3
<1>11. \A u \in Threads : pc'[u] \in Waiting => \E i \in 1..(L - 1) : arrivals'[i] = u
  <2>1. SUFFICES ASSUME NEW u \in Threads, pc'[u] \in Waiting
                 PROVE  \E i \in 1..(L - 1) : arrivals'[i] = u
    OBVIOUS
  <2>2. PICK k \in 1..L : arrivals[k] = u
    BY <1>1, <1>8, <2>1 DEF QueueInv
  <2>3. k # 1
    BY <1>2, <1>8, <2>1, <2>2
  <2>4. k - 1 \in 1..(L - 1) /\ arrivals'[k - 1] = u
    BY <1>2, <1>4, <2>2, <2>3
  <2>. QED BY <2>4
<1>12. \A u \in Threads : pc'[u] \notin Holding
  <2>1. \A u \in Threads : Holds(u) => u = t
    BY <1>1, <1>2, HolderIsFirst
  <2>. QED BY <1>1, <2>1 DEF TypeOK, BumpHead, Goto, Holds, Holding
<1>. QED BY <1>4, <1>6, <1>9, <1>10, <1>11, <1>12 DEF QueueInv

\* The tickets keep encoding the queue.
LEMMA TicketStep ==
    ASSUME IInv, NEW t \in Threads, Action(t)
    PROVE  TicketInv'
<1>a. impl' = impl
  BY DEF Action, Step, TakeTicket, ReadFutex, TestHead, FutexWait, SemaDown, AcquireBigLock,
         BumpHead, PeekTail, Poke, FutexWake, SemaUp, Vanish, ReleaseBigLock, Return,
         ThreadExit, Leave, Clone, Fork
<1>b. SUFFICES ASSUME impl = "ticket" PROVE QueueInv' /\ \A u \in Threads : pc'[u] # "put"
  BY <1>a DEF TicketInv
<1>1. CASE TakeTicket(t)
  BY <1>1, <1>b, QueueTake, Zenon DEF IInv, TypeOK, TicketInv, TakeTicket, Goto
<1>2. CASE ReadFutex(t)
  <2>1. TypeOK /\ QueueInv /\ UNCHANGED <<head, tail, arrivals, ticket>>
    BY <1>2, <1>b DEF IInv, TicketInv, ReadFutex, lock
  <2>2. \A u \in Threads : (pc'[u] \in Waiting) <=> (pc[u] \in Waiting)
    BY <1>2, <2>1 DEF TypeOK, ReadFutex, Goto, Waiting, Holding
  <2>3. \A u \in Threads : pc'[u] \in Holding => ticket[u] = head
    BY <1>2, <2>1 DEF TypeOK, ReadFutex, Goto, QueueInv, Holding
  <2>4. \A u \in Threads : pc'[u] # "put"
    BY <1>2, <1>b, <2>1, SMTT(30) DEF IInv, TypeOK, TicketInv, ReadFutex, Goto
  <2>. QED BY <2>1, <2>2, <2>3, <2>4, QueueFrame
<1>3. CASE TestHead(t)
  <2>1. TypeOK /\ QueueInv /\ UNCHANGED <<head, tail, arrivals, ticket>>
    BY <1>3, <1>b DEF IInv, TicketInv, TestHead, lock
  <2>2. \A u \in Threads : (pc'[u] \in Waiting) <=> (pc[u] \in Waiting)
    BY <1>3, <2>1 DEF TypeOK, TestHead, Goto, Waiting, Holding
  <2>3. \A u \in Threads : pc'[u] \in Holding => ticket[u] = head
    BY <1>3, <2>1 DEF TypeOK, TestHead, Goto, QueueInv, Holding
  <2>4. \A u \in Threads : pc'[u] # "put"
    BY <1>3, <1>b, <2>1 DEF IInv, TypeOK, TicketInv, TestHead, Goto
  <2>. QED BY <2>1, <2>2, <2>3, <2>4, QueueFrame
<1>4. CASE FutexWait(t)
  <2>1. TypeOK /\ QueueInv /\ UNCHANGED <<head, tail, arrivals, ticket>>
    BY <1>4, <1>b DEF IInv, TicketInv, FutexWait, lock
  <2>2. \A u \in Threads : (pc'[u] \in Waiting) <=> (pc[u] \in Waiting)
    BY <1>4, <2>1 DEF TypeOK, FutexWait, Goto, Waiting, Holding
  <2>3. \A u \in Threads : pc'[u] \in Holding => ticket[u] = head
    BY <1>4, <2>1 DEF TypeOK, FutexWait, Goto, QueueInv, Holding
  <2>4. \A u \in Threads : pc'[u] # "put"
    BY <1>4, <1>b, <2>1 DEF IInv, TypeOK, TicketInv, FutexWait, Goto
  <2>. QED BY <2>1, <2>2, <2>3, <2>4, QueueFrame
<1>5. CASE SemaDown(t)
  BY <1>5, <1>b DEF SemaDown
<1>6. CASE AcquireBigLock(t)
  <2>1. TypeOK /\ QueueInv /\ UNCHANGED <<head, tail, arrivals, ticket>>
    BY <1>6, <1>b DEF IInv, TicketInv, AcquireBigLock, lock
  <2>2. \A u \in Threads : (pc'[u] \in Waiting) <=> (pc[u] \in Waiting)
    BY <1>6, <2>1 DEF TypeOK, AcquireBigLock, Goto, Waiting, Holding
  <2>3. \A u \in Threads : pc'[u] \in Holding => ticket[u] = head
    BY <1>6, <2>1 DEF TypeOK, AcquireBigLock, Goto, QueueInv, Holding
  <2>4. \A u \in Threads : pc'[u] # "put"
    BY <1>6, <1>b, <2>1 DEF IInv, TypeOK, TicketInv, AcquireBigLock, Goto
  <2>. QED BY <2>1, <2>2, <2>3, <2>4, QueueFrame
<1>7. CASE BumpHead(t)
  BY <1>7, <1>b, QueueBump, Zenon DEF IInv, TypeOK, TicketInv, BumpHead, Goto
<1>8. CASE PeekTail(t)
  <2>1. TypeOK /\ QueueInv /\ UNCHANGED <<head, tail, arrivals, ticket>>
    BY <1>8, <1>b DEF IInv, TicketInv, PeekTail, lock
  <2>2. \A u \in Threads : (pc'[u] \in Waiting) <=> (pc[u] \in Waiting)
    BY <1>8, <2>1 DEF TypeOK, PeekTail, Goto, Waiting, Holding
  <2>3. \A u \in Threads : pc'[u] \in Holding => ticket[u] = head
    BY <1>8, <2>1 DEF TypeOK, PeekTail, Goto, QueueInv, Holding
  <2>4. \A u \in Threads : pc'[u] # "put"
    BY <1>8, <1>b, <2>1, SMTT(30) DEF IInv, TypeOK, TicketInv, PeekTail, Goto
  <2>. QED BY <2>1, <2>2, <2>3, <2>4, QueueFrame
<1>9. CASE Poke(t)
  <2>1. TypeOK /\ QueueInv /\ UNCHANGED <<head, tail, arrivals, ticket>>
    BY <1>9, <1>b DEF IInv, TicketInv, Poke, lock
  <2>2. \A u \in Threads : (pc'[u] \in Waiting) <=> (pc[u] \in Waiting)
    BY <1>9, <2>1 DEF TypeOK, Poke, Goto, Waiting, Holding
  <2>3. \A u \in Threads : pc'[u] \in Holding => ticket[u] = head
    BY <1>9, <2>1 DEF TypeOK, Poke, Goto, QueueInv, Holding
  <2>4. \A u \in Threads : pc'[u] # "put"
    BY <1>9, <1>b, <2>1, SMTT(30) DEF IInv, TypeOK, TicketInv, Poke, Goto
  <2>. QED BY <2>1, <2>2, <2>3, <2>4, QueueFrame
<1>10. CASE FutexWake(t)
  <2>1. TypeOK /\ QueueInv /\ UNCHANGED <<head, tail, arrivals, ticket>>
    BY <1>10, <1>b DEF IInv, TicketInv, FutexWake, lock
  <2>2. \A u \in Threads : (pc'[u] \in Waiting) <=> (pc[u] \in Waiting)
    BY <1>10, <2>1 DEF TypeOK, FutexWake, Goto, Waiting, Holding
  <2>3. \A u \in Threads : pc'[u] \in Holding => ticket[u] = head
    BY <1>10, <2>1 DEF TypeOK, FutexWake, Goto, QueueInv, Holding
  <2>4. \A u \in Threads : pc'[u] # "put"
    BY <1>10, <1>b, <2>1 DEF IInv, TypeOK, TicketInv, FutexWake, Goto
  <2>. QED BY <2>1, <2>2, <2>3, <2>4, QueueFrame
<1>11. CASE SemaUp(t)
  BY <1>11, <1>b DEF IInv, TicketInv, SemaUp
<1>12. CASE Vanish(t)
  <2>1. TypeOK /\ QueueInv /\ UNCHANGED <<head, tail, arrivals, ticket>>
    BY <1>12, <1>b DEF IInv, TicketInv, Vanish, lock
  <2>2. \A u \in Threads : (pc'[u] \in Waiting) <=> (pc[u] \in Waiting)
    BY <1>12, <2>1 DEF TypeOK, Vanish, Goto, Waiting, Holding
  <2>3. \A u \in Threads : pc'[u] \in Holding => ticket[u] = head
    BY <1>12, <2>1 DEF TypeOK, Vanish, Goto, QueueInv, Holding
  <2>4. \A u \in Threads : pc'[u] # "put"
    BY <1>12, <1>b, <2>1 DEF IInv, TypeOK, TicketInv, Vanish, Goto
  <2>. QED BY <2>1, <2>2, <2>3, <2>4, QueueFrame
<1>13. CASE ReleaseBigLock(t)
  <2>1. TypeOK /\ QueueInv /\ UNCHANGED <<head, tail, arrivals, ticket>>
    BY <1>13, <1>b DEF IInv, TicketInv, ReleaseBigLock, Leave, lock
  <2>2. \A u \in Threads : (pc'[u] \in Waiting) <=> (pc[u] \in Waiting)
    BY <1>13, <2>1 DEF TypeOK, ReleaseBigLock, Leave, Goto, Waiting, Holding
  <2>3. \A u \in Threads : pc'[u] \in Holding => ticket[u] = head
    BY <1>13, <2>1 DEF TypeOK, ReleaseBigLock, Leave, Goto, QueueInv, Holding
  <2>4. \A u \in Threads : pc'[u] # "put"
    BY <1>13, <1>b, <2>1 DEF IInv, TypeOK, TicketInv, ReleaseBigLock, Leave, Goto
  <2>. QED BY <2>1, <2>2, <2>3, <2>4, QueueFrame
<1>14. CASE Return(t)
  <2>1. TypeOK /\ QueueInv /\ UNCHANGED <<head, tail, arrivals, ticket>>
    BY <1>14, <1>b DEF IInv, TicketInv, Return, lock
  <2>2. \A u \in Threads : (pc'[u] \in Waiting) <=> (pc[u] \in Waiting)
    BY <1>14, <2>1 DEF TypeOK, Return, Goto, Waiting, Holding
  <2>3. \A u \in Threads : pc'[u] \in Holding => ticket[u] = head
    BY <1>14, <2>1 DEF TypeOK, Return, Goto, QueueInv, Holding
  <2>4. \A u \in Threads : pc'[u] # "put"
    BY <1>14, <1>b, <2>1 DEF IInv, TypeOK, TicketInv, Return, Goto
  <2>. QED BY <2>1, <2>2, <2>3, <2>4, QueueFrame
<1>15. CASE ThreadExit(t)
  <2>1. TypeOK /\ QueueInv /\ UNCHANGED <<head, tail, arrivals, ticket>>
    BY <1>15, <1>b DEF IInv, TicketInv, ThreadExit, Leave, lock
  <2>2. \A u \in Threads : (pc'[u] \in Waiting) <=> (pc[u] \in Waiting)
    BY <1>15, <2>1 DEF TypeOK, ThreadExit, Leave, Goto, Waiting, Holding
  <2>3. \A u \in Threads : pc'[u] \in Holding => ticket[u] = head
    BY <1>15, <2>1 DEF TypeOK, ThreadExit, Leave, Goto, QueueInv, Holding
  <2>4. \A u \in Threads : pc'[u] # "put"
    BY <1>15, <1>b, <2>1 DEF IInv, TypeOK, TicketInv, ThreadExit, Leave, Goto
  <2>. QED BY <2>1, <2>2, <2>3, <2>4, QueueFrame
<1>16. CASE Clone(t)
  <2>1. TypeOK /\ QueueInv /\ UNCHANGED <<head, tail, arrivals, ticket>>
    BY <1>16, <1>b DEF IInv, TicketInv, Clone, lock
  <2>2. \A u \in Threads : (pc'[u] \in Waiting) <=> (pc[u] \in Waiting)
    BY <1>16, <2>1 DEF IInv, StatusInv, TypeOK, Clone, Goto, Waiting, Holding
  <2>3. \A u \in Threads : pc'[u] \in Holding => ticket[u] = head
    BY <1>16, <2>1 DEF TypeOK, Clone, Goto, QueueInv, Holding
  <2>4. \A u \in Threads : pc'[u] # "put"
    BY <1>16, <1>b, <2>1 DEF IInv, TypeOK, TicketInv, Clone, Goto
  <2>. QED BY <2>1, <2>2, <2>3, <2>4, QueueFrame
<1>17. CASE Fork(t)
  <2>1. arrivals' = <<t>> /\ Len(arrivals') = 1 /\ arrivals'[1] = t
    BY <1>17, <1>b DEF Fork
  <2>2. tail' = Plus(head', 1) /\ Plus(head', 0) = 0 /\ head' = 0
    BY <1>17, <1>b, SlotsAssumption, TicketsAssumption DEF Fork, Plus
  <2>3. ticket' = [u \in Threads |-> 0] /\ pc' = [u \in Threads |-> IF u = t THEN "run" ELSE "off"]
    BY <1>17 DEF Fork
  <2>4. \A i \in 1..1 : i = 1 /\ i - 1 = 0
    BY SMTT(30)
  <2>. QED BY <2>1, <2>2, <2>3, <2>4 DEF QueueInv, Waiting, Holding
<1>. QED BY <1>1, <1>2, <1>3, <1>4, <1>5, <1>6, <1>7, <1>8, <1>9,
            <1>10, <1>11, <1>12, <1>13, <1>14, <1>15, <1>16, <1>17, SMTT(30) DEF Action, Step

\* The pipe holds the token exactly when the lock is free.
LEMMA TokenStep ==
    ASSUME IInv, NEW t \in Threads, Action(t)
    PROVE  TokenInv'
<1>1. CASE TakeTicket(t)
  BY <1>1 DEF IInv, TypeOK, TokenInv, MutualExclusion, Holds, Holding, Goto, lock, TakeTicket
<1>2. CASE ReadFutex(t)
  BY <1>2 DEF IInv, TypeOK, TokenInv, MutualExclusion, Holds, Holding, Goto, lock, ReadFutex
<1>3. CASE TestHead(t)
  BY <1>3, Zenon DEF IInv, TypeOK, TokenInv, MutualExclusion, Holds, Holding, Goto, lock, TestHead
<1>4. CASE FutexWait(t)
  BY <1>4 DEF IInv, TypeOK, TokenInv, MutualExclusion, Holds, Holding, Goto, lock, FutexWait
<1>5. CASE SemaDown(t)
  BY <1>5 DEF IInv, TypeOK, TokenInv, MutualExclusion, Holds, Holding, Goto, lock, SemaDown
<1>6. CASE AcquireBigLock(t)
  BY <1>6 DEF IInv, TypeOK, TokenInv, MutualExclusion, Holds, Holding, Goto, lock, AcquireBigLock
<1>7. CASE BumpHead(t)
  BY <1>7 DEF IInv, TypeOK, TokenInv, MutualExclusion, Holds, Holding, Goto, lock, BumpHead
<1>8. CASE PeekTail(t)
  BY <1>8, Zenon DEF IInv, TypeOK, TokenInv, MutualExclusion, Holds, Holding, Goto, lock, PeekTail
<1>9. CASE Poke(t)
  BY <1>9 DEF IInv, TypeOK, TokenInv, MutualExclusion, Holds, Holding, Goto, lock, Poke
<1>10. CASE FutexWake(t)
  BY <1>10 DEF IInv, TypeOK, TokenInv, MutualExclusion, Holds, Holding, Goto, lock, FutexWake
<1>11. CASE SemaUp(t)
  BY <1>11 DEF IInv, TypeOK, TokenInv, MutualExclusion, Holds, Holding, Goto, lock, SemaUp
<1>12. CASE Vanish(t)
  BY <1>12 DEF IInv, TypeOK, TokenInv, MutualExclusion, Holds, Holding, Goto, lock, Vanish
<1>13. CASE ReleaseBigLock(t)
  BY <1>13 DEF IInv, TypeOK, TokenInv, MutualExclusion, Holds, Holding, Goto, lock, ReleaseBigLock, Leave
<1>14. CASE Return(t)
  BY <1>14 DEF IInv, TypeOK, TokenInv, MutualExclusion, Holds, Holding, Goto, lock, Return
<1>15. CASE ThreadExit(t)
  BY <1>15, ZenonT(30) DEF IInv, TypeOK, TokenInv, MutualExclusion, Holds, Holding, Goto, lock, ThreadExit, Leave
<1>16. CASE Clone(t)
  BY <1>16 DEF IInv, TypeOK, TokenInv, MutualExclusion, Holds, Holding, Goto, lock, Clone
<1>17. CASE Fork(t)
  BY <1>17 DEF IInv, TypeOK, TokenInv, MutualExclusion, Holds, Holding, Goto, lock, Fork
<1>. QED BY <1>1, <1>2, <1>3, <1>4, <1>5, <1>6, <1>7, <1>8, <1>9,
            <1>10, <1>11, <1>12, <1>13, <1>14, <1>15, <1>16, <1>17 DEF Action, Step

\* A sleeping thread whose turn has come keeps a waker.
LEMMA WakeStep ==
    ASSUME IInv, NEW t \in Threads, Action(t)
    PROVE  WakeInv'
<1>1. CASE TakeTicket(t)
  BY <1>1, Zenon DEF IInv, TypeOK, WakeInv, Goto, lock, TakeTicket
<1>2. CASE ReadFutex(t)
  BY <1>2, Zenon DEF IInv, TypeOK, WakeInv, Goto, lock, ReadFutex
<1>3. CASE TestHead(t)
  BY <1>3, Zenon DEF IInv, TypeOK, WakeInv, Goto, lock, TestHead
<1>4. CASE FutexWait(t)
  BY <1>4, Zenon DEF IInv, TypeOK, WakeInv, Goto, lock, FutexWait
<1>5. CASE SemaDown(t)
  BY <1>5, Zenon DEF IInv, TypeOK, WakeInv, Goto, lock, SemaDown
<1>6. CASE AcquireBigLock(t)
  BY <1>6, Zenon DEF IInv, TypeOK, WakeInv, Goto, lock, AcquireBigLock
<1>7. CASE BumpHead(t)
  BY <1>7 DEF IInv, TypeOK, WakeInv, Goto, lock, BumpHead
<1>8. CASE PeekTail(t)
  <2>1. TypeOK /\ WakeInv /\ UNCHANGED <<head, ticket, seen>>
    BY <1>8 DEF IInv, PeekTail, lock
  <2>2. CASE pc' = [pc EXCEPT ![t] = "poke"] /\ UNCHANGED wakeup
    BY <1>8, <2>1, <2>2 DEF TypeOK, WakeInv, PeekTail
  <2>3. CASE tail = wakeup[t] /\ Goto(t, "out") /\ wakeup' = [wakeup EXCEPT ![t] = 0]
    <3>1. CASE wakeup[t] # head
      BY <1>8, <2>1, <2>3, <3>1 DEF TypeOK, WakeInv, PeekTail, Goto
    <3>2. CASE wakeup[t] = head
      <4>1. impl = "ticket" /\ QueueInv
        BY <1>8, <2>1, Zenon DEF IInv, TypeOK, TicketInv, TokenInv, PeekTail
      <4>2. Len(arrivals) <= N /\ Len(arrivals) \in Nat
        BY <2>1, <4>1, QueueShort DEF TypeOK, QueueInv
      <4>3. Len(arrivals) = 0
        BY <2>1, <2>3, <3>2, <4>1, <4>2, SlotsAssumption, TicketsAssumption, SMTT(30)
           DEF TypeOK, QueueInv, Plus
      <4>4. \A u \in Threads : pc[u] \notin Waiting
        BY <4>1, <4>3 DEF QueueInv
      <4>. QED BY <2>1, <2>3, <4>4, SMTT(30) DEF TypeOK, WakeInv, Goto, Waiting
    <3>. QED BY <3>1, <3>2
  <2>. QED BY <1>8, <2>2, <2>3 DEF PeekTail, Goto
<1>9. CASE Poke(t)
  BY <1>9, Zenon DEF IInv, TypeOK, WakeInv, Goto, lock, Poke
<1>10. CASE FutexWake(t)
  BY <1>10, Zenon DEF IInv, TypeOK, WakeInv, Goto, lock, FutexWake
<1>11. CASE SemaUp(t)
  BY <1>11, Zenon DEF IInv, TypeOK, WakeInv, Goto, lock, SemaUp
<1>12. CASE Vanish(t)
  BY <1>12, Zenon DEF IInv, TypeOK, WakeInv, Goto, lock, Vanish
<1>13. CASE ReleaseBigLock(t)
  BY <1>13, ZenonT(30) DEF IInv, TypeOK, WakeInv, Goto, lock, ReleaseBigLock, Leave
<1>14. CASE Return(t)
  BY <1>14, Zenon DEF IInv, TypeOK, WakeInv, Goto, lock, Return
<1>15. CASE ThreadExit(t)
  BY <1>15, ZenonT(30) DEF IInv, TypeOK, WakeInv, Goto, lock, ThreadExit, Leave
<1>16. CASE Clone(t)
  BY <1>16, ZenonT(30) DEF IInv, StatusInv, TypeOK, WakeInv, Goto, lock, Clone
<1>17. CASE Fork(t)
  BY <1>17 DEF IInv, TypeOK, WakeInv, Goto, lock, Fork
<1>. QED BY <1>1, <1>2, <1>3, <1>4, <1>5, <1>6, <1>7, <1>8, <1>9,
            <1>10, <1>11, <1>12, <1>13, <1>14, <1>15, <1>16, <1>17 DEF Action, Step

-----------------------------------------------------------------------------
\* The initial state of either implementation satisfies the invariant.
LEMMA InitIInv == Init => IInv
<1>1. SUFFICES ASSUME Init PROVE IInv
  OBVIOUS
<1>2. N \in Nat /\ N >= 1 /\ MaxTicket \in Nat
  BY SlotsAssumption, TicketsAssumption
<1>3. TypeOK
  BY <1>1, <1>2 DEF Init, TypeOK, Threads, None, Labels, Statuses
<1>4. TicketInv
  BY <1>1, <1>2 DEF Init, TicketInv, QueueInv, Plus, Waiting, Holding
<1>5. TokenInv
  BY <1>1 DEF Init, TokenInv, MutualExclusion, Holds, Holding
<1>6. StatusInv
  BY <1>1 DEF Init, StatusInv, Threads, None
<1>7. WakeInv /\ FiniIsLast
  BY <1>1 DEF Init, WakeInv, FiniIsLast
<1>. QED BY <1>3, <1>4, <1>5, <1>6, <1>7 DEF IInv

\* A stuttering step changes nothing the invariant reads.
LEMMA StutterIInv == IInv /\ UNCHANGED vars => IInv'
  BY DEF IInv, TypeOK, TicketInv, QueueInv, TokenInv, MutualExclusion, Holds, StatusInv,
         WakeInv, FiniIsLast, vars, lock

\* The invariant holds in every reachable state.
THEOREM Invariant == Spec => []IInv
<1>1. IInv /\ [Next]_vars => IInv'
  <2>1. SUFFICES ASSUME IInv, [Next]_vars PROVE IInv'
    OBVIOUS
  <2>2. CASE UNCHANGED vars
    BY <2>1, <2>2, StutterIInv
  <2>3. CASE Next
    <3>1. PICK t \in Threads : Action(t)
      BY <2>3 DEF Next, Action
    <3>. QED BY <2>1, <3>1, TypeStep, TicketStep, TokenStep, StatusStep, WakeStep, FiniStep
         DEF IInv
  <2>. QED BY <2>1, <2>2, <2>3
<1>. QED BY InitIInv, <1>1, PTL DEF Spec

\* For any number of threads, at most one is between acquiring and releasing
\* the scheduler lock, whichever implementation is used: the memlog callbacks
\* of two threads never overlap.  The ticket lock serves threads in the order
\* they asked, for every counter width that exceeds the number of threads.
THEOREM LockIsExclusive == Spec => []LockPassedInOrder
<1>1. IInv => LockPassedInOrder
  BY InvImpliesExclusion DEF LockPassedInOrder
<1>. QED BY Invariant, <1>1, PTL

\* The assertions of the lock and the scheduler never fail, and slots are
\* reused only when free.
THEOREM SchedulerAssertions == Spec => []AssertionsHold
<1>1. IInv => AssertionsHold
  <2>1. SUFFICES ASSUME IInv, NEW t \in Threads, pc[t] = "got"
                 PROVE  owner = None /\ running = None
    BY DEF IInv, StatusInv, AssertionsHold
  <2>2. \A u \in Threads : pc[u] \notin {"run", "fini"}
    BY <2>1, InvImpliesExclusion DEF MutualExclusion, Holds, Holding
  <2>. QED BY <2>1, <2>2, SMTT(30) DEF IInv, TypeOK, StatusInv
<1>. QED BY Invariant, <1>1, PTL

\* The shutdown actions and the tool's fini run when no other thread can.
THEOREM ShutdownIsLast == Spec => []FiniIsLast
<1>1. IInv => FiniIsLast
  BY DEF IInv
<1>. QED BY Invariant, <1>1, PTL

\* No interleaving of a waiter's read, test and sleep with a releaser's
\* increment, poke and wake loses a wake-up.
THEOREM WakeupsArrive == Spec => []NoLostWakeup
<1>1. IInv => NoLostWakeup
  BY DEF IInv, WakeInv, NoLostWakeup
<1>. QED BY Invariant, <1>1, PTL
=============================================================================
