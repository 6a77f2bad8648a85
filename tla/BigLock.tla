------------------------------- MODULE BigLock -------------------------------
(***************************************************************************)
(* The scheduler lock of the Valgrind core.  A thread runs guest code, and *)
(* with it every callback of the memlog tool, only while it holds the lock *)
(* (m_scheduler/scheduler.c); the other modules rely on that when they     *)
(* make one callback one step.  Both implementations are modelled: the     *)
(* ticket lock over futexes (ticket-lock-linux.c, --fair-sched=yes|try)    *)
(* and the token passed through a pipe (sema.c, the default).  Threads are *)
(* created and exit, yield, block in system calls, and fork.               *)
(***************************************************************************)
EXTENDS Integers, Sequences, FiniteSets

CONSTANTS
    N,           \* number of thread slots (VG_N_THREADS)
    MaxTicket,   \* largest value of head and tail (2^32 - 1)
    FutexCount   \* TL_FUTEX_COUNT

ASSUME SlotsAssumption   == N \in Nat \ {0}
ASSUME TicketsAssumption == MaxTicket \in Nat /\ N <= MaxTicket
ASSUME FutexAssumption   == FutexCount \in Nat \ {0}

Threads == 1..N
None    == 0     \* VG_INVALID_THREADID, and the owner of a free lock

VARIABLES
    impl,      \* which implementation scheduler_init_phase1 chose
    pc,        \* pc[t]: where the thread in slot t is ("off": no thread)
    status,    \* VG_(threads)[t].status
    running,   \* VG_(running_tid)
    owner,     \* the lock's owner / owner_lwpid
    head, tail,       \* struct sched_lock
    ticket, wakeup,   \* locals ticket and wakeup_ticket (0 once dead)
    seen,             \* seen[t]: the futex word of t's ticket still has the
                      \* value t last read into futex_value
    tokens,    \* bytes in the semaphore's pipe
    arrivals   \* history: ticket holders that have not released, in order

lock == <<owner, head, tail, tokens, arrivals>>
vars == <<impl, pc, status, running, lock, ticket, seen, wakeup>>

Statuses == {"Empty", "Init", "Runnable", "WaitSys", "Yielding", "Zombie"}

\* Wrap-around of the unsigned counters.
Inc(n) == IF n = MaxTicket THEN 0 ELSE n + 1
Slot(n) == n % FutexCount

Goto(t, l) == pc' = [pc EXCEPT ![t] = l]

-----------------------------------------------------------------------------
(* scheduler_init_phase1: the lock is created free, thread 1 is the main   *)
(* thread and is about to take it.                                         *)
Init ==
    /\ impl \in {"ticket", "generic"}
    /\ pc = [t \in Threads |-> IF t = 1 THEN "want" ELSE "off"]
    /\ status = [t \in Threads |-> IF t = 1 THEN "Init" ELSE "Empty"]
    /\ running = None
    /\ owner = None
    /\ head = 0 /\ tail = 0
    /\ ticket = [t \in Threads |-> 0]
    /\ seen = [t \in Threads |-> FALSE]
    /\ wakeup = [t \in Threads |-> 0]
    /\ tokens = IF impl = "generic" THEN 1 ELSE 0
    /\ arrivals = <<>>

(* acquire_sched_lock of the ticket lock, one shared access per step.      *)
TakeTicket(t) ==
    /\ pc[t] = "want" /\ impl = "ticket"
    /\ ticket' = [ticket EXCEPT ![t] = tail]
    /\ tail' = Inc(tail)
    /\ arrivals' = Append(arrivals, t)
    /\ Goto(t, "read")
    /\ UNCHANGED <<impl, status, running, owner, head, seen, wakeup, tokens>>

ReadFutex(t) ==
    /\ pc[t] = "read"
    /\ seen' = [seen EXCEPT ![t] = TRUE]
    /\ Goto(t, "test")
    /\ UNCHANGED <<impl, status, running, lock, ticket, wakeup>>

\* Mutant: compares the futex index of the tickets, not the tickets.
TestHeadMasked(t) ==
    /\ pc[t] = "test"
    /\ Goto(t, IF Slot(ticket[t]) = Slot(head) THEN "got" ELSE "wait")
    /\ UNCHANGED <<impl, status, running, lock, ticket, seen, wakeup>>

TestHead(t) ==
    /\ pc[t] = "test"
    /\ \/ ticket[t] = head /\ Goto(t, "got") /\ seen' = [seen EXCEPT ![t] = FALSE]
       \/ ticket[t] # head /\ Goto(t, "wait") /\ UNCHANGED seen
    /\ UNCHANGED <<impl, status, running, lock, ticket, wakeup>>

\* Mutant: sleeps whatever the value of the futex word.
FutexWaitBlind(t) ==
    /\ pc[t] = "wait"
    /\ Goto(t, "asleep")
    /\ seen' = [seen EXCEPT ![t] = FALSE]
    /\ UNCHANGED <<impl, status, running, lock, ticket, wakeup>>

\* FUTEX_WAIT compares and sleeps atomically; EAGAIN goes round the loop.
FutexWait(t) ==
    /\ pc[t] = "wait"
    /\ Goto(t, IF seen[t] THEN "asleep" ELSE "read")
    /\ seen' = [seen EXCEPT ![t] = FALSE]
    /\ UNCHANGED <<impl, status, running, lock, ticket, wakeup>>

(* sema_down: block until the pipe holds a token, and take it.             *)
SemaDown(t) ==
    /\ pc[t] = "want" /\ impl = "generic"
    /\ tokens > 0
    /\ tokens' = tokens - 1
    /\ Goto(t, "got")
    /\ UNCHANGED <<impl, status, running, owner, head, tail, arrivals,
                   ticket, seen, wakeup>>

(* The end of acquire_sched_lock / sema_down and of acquire_BigLock.       *)
AcquireBigLock(t) ==
    /\ pc[t] = "got"
    /\ owner' = t
    /\ status' = [status EXCEPT ![t] = "Runnable"]
    /\ running' = t
    /\ Goto(t, "run")
    /\ UNCHANGED <<impl, head, tail, tokens, arrivals, ticket, seen, wakeup>>

\* Mutant: the owner is left set.
LeaveOwned(t, s) ==
    /\ pc[t] = "run"
    /\ status' = [status EXCEPT ![t] = s]
    /\ running' = None
    /\ Goto(t, IF impl = "ticket" THEN "bump" ELSE "put")
    /\ UNCHANGED <<impl, lock, ticket, seen, wakeup>>

(* release_BigLock / exit_thread: leave the thread in state s, clear        *)
(* running_tid and the owner, then hand the lock over.                      *)
Leave(t, s) ==
    /\ pc[t] = "run"
    /\ status' = [status EXCEPT ![t] = s]
    /\ running' = None
    /\ owner' = None
    /\ Goto(t, IF impl = "ticket" THEN "bump" ELSE "put")
    /\ UNCHANGED <<impl, head, tail, tokens, arrivals, ticket, seen, wakeup>>

ReleaseBigLock(t) == \E s \in {"WaitSys", "Yielding"} : Leave(t, s)

(* release_sched_lock of the ticket lock, one shared access per step.      *)
BumpHead(t) ==
    /\ pc[t] = "bump"
    /\ head' = Inc(head)
    /\ wakeup' = [wakeup EXCEPT ![t] = head']
    /\ ticket' = [ticket EXCEPT ![t] = 0]
    /\ arrivals' = Tail(arrivals)
    /\ Goto(t, "peek")
    /\ UNCHANGED <<impl, status, running, owner, tail, tokens, seen>>

PeekTail(t) ==
    /\ pc[t] = "peek"
    /\ \/ tail # wakeup[t] /\ Goto(t, "poke") /\ UNCHANGED wakeup
       \/ tail = wakeup[t] /\ Goto(t, "out") /\ wakeup' = [wakeup EXCEPT ![t] = 0]
    /\ UNCHANGED <<impl, status, running, lock, ticket, seen>>

Poke(t) ==
    /\ pc[t] = "poke"
    /\ seen' = [u \in Threads |-> seen[u] /\ Slot(ticket[u]) # Slot(wakeup[t])]
    /\ Goto(t, "wake")
    /\ UNCHANGED <<impl, status, running, owner, head, tail, tokens, arrivals, ticket, wakeup>>

\* FUTEX_WAKE of every sleeper on that futex word.
FutexWake(t) ==
    /\ pc[t] = "wake"
    /\ pc' = [u \in Threads |->
                IF u = t THEN "out"
                ELSE IF pc[u] = "asleep" /\ Slot(ticket[u]) = Slot(wakeup[t])
                THEN "read" ELSE pc[u]]
    /\ wakeup' = [wakeup EXCEPT ![t] = 0]
    /\ UNCHANGED <<impl, status, running, lock, ticket, seen>>

(* sema_up: write the token back.                                          *)
SemaUp(t) ==
    /\ pc[t] = "put"
    /\ tokens' = tokens + 1
    /\ Goto(t, "out")
    /\ UNCHANGED <<impl, status, running, owner, head, tail, arrivals,
                   ticket, seen, wakeup>>

(* The system call or sched_yield is over: acquire_BigLock again.          *)
Return(t) ==
    /\ pc[t] = "out" /\ status[t] \in {"WaitSys", "Yielding"}
    /\ Goto(t, "want")
    /\ UNCHANGED <<impl, status, running, lock, ticket, seen, wakeup>>

(* run_a_thread_NORETURN: the last living thread keeps the lock and runs   *)
(* the shutdown actions, which call the tool's fini; another one leaves as *)
(* a zombie, and its slot is marked Empty by the thread's last instruction.*)
\* Mutant: counts only the thread that is running.
LivingRunnable(t) == status[t] = "Runnable"
Living(t) == status[t] \notin {"Empty", "Zombie"}

\* Mutant: the thread leaves without releasing the lock.
ThreadExitHolding(t) ==
    /\ pc[t] = "run"
    /\ \E u \in Threads \ {t} : Living(u)
    /\ status' = [status EXCEPT ![t] = "Zombie"]
    /\ running' = None
    /\ owner' = None
    /\ Goto(t, "out")
    /\ UNCHANGED <<impl, head, tail, tokens, arrivals, ticket, seen, wakeup>>

ThreadExit(t) ==
    /\ pc[t] = "run"
    /\ \/ /\ \A u \in Threads \ {t} : ~Living(u)
          /\ Goto(t, "fini")
          /\ UNCHANGED <<impl, status, running, lock, ticket, seen, wakeup>>
       \/ /\ \E u \in Threads \ {t} : Living(u)
          /\ Leave(t, "Zombie")

Vanish(t) ==
    /\ pc[t] = "out" /\ status[t] = "Zombie"
    /\ status' = [status EXCEPT ![t] = "Empty"]
    /\ Goto(t, "off")
    /\ UNCHANGED <<impl, running, lock, ticket, seen, wakeup>>

(* clone: alloc_ThreadState takes the first Empty slot, and the new thread *)
(* starts in thread_wrapper, which takes the lock first.                   *)
Clone(t) ==
    /\ pc[t] = "run"
    /\ \E u \in Threads :
         /\ status[u] = "Empty" /\ \A v \in 1..(u - 1) : status[v] # "Empty"
         /\ status' = [status EXCEPT ![u] = "Init"]
         /\ Goto(u, "want")
    /\ UNCHANGED <<impl, running, lock, ticket, seen, wakeup>>

(* fork, followed into the child: sched_fork_cleanup empties every other   *)
(* slot, makes a new lock and takes it.                                    *)
Fork(t) ==
    /\ pc[t] = "run"
    /\ pc' = [u \in Threads |-> IF u = t THEN "run" ELSE "off"]
    /\ status' = [u \in Threads |-> IF u = t THEN status[t] ELSE "Empty"]
    /\ owner' = t
    /\ head' = 0
    /\ tail' = IF impl = "ticket" THEN 1 ELSE 0
    /\ ticket' = [u \in Threads |-> 0]
    /\ seen' = [u \in Threads |-> FALSE]
    /\ wakeup' = [u \in Threads |-> 0]
    /\ arrivals' = IF impl = "ticket" THEN <<t>> ELSE <<>>
    /\ tokens' = 0
    /\ UNCHANGED <<impl, running>>

\* Steps a thread takes by itself once it has started them.
Step(t) ==
    \/ TakeTicket(t) \/ ReadFutex(t) \/ TestHead(t) \/ FutexWait(t)
    \/ SemaDown(t) \/ AcquireBigLock(t)
    \/ BumpHead(t) \/ PeekTail(t) \/ Poke(t) \/ FutexWake(t) \/ SemaUp(t)
    \/ Vanish(t)

Next == \E t \in Threads :
            \/ Step(t) \/ ReleaseBigLock(t) \/ Return(t)
            \/ ThreadExit(t) \/ Clone(t) \/ Fork(t)

(* The kernel keeps scheduling every thread that can run, and a thread     *)
(* gives the lock up when its quantum ends or it blocks or exits; nothing  *)
(* says a system call returns.                                             *)
Fairness == \A t \in Threads :
                /\ WF_vars(Step(t))
                /\ WF_vars(ReleaseBigLock(t) \/ ThreadExit(t))

Spec == Init /\ [][Next]_vars /\ Fairness

-----------------------------------------------------------------------------
(* Properties.                                                             *)

Labels == {"off", "want", "read", "test", "wait", "asleep", "got", "run",
           "bump", "peek", "poke", "wake", "put", "out", "fini"}

\* The thread is between a successful acquire_sched_lock and the step of
\* release_sched_lock that lets the next thread in.
Holding  == {"got", "run", "fini", "bump", "put"}
Holds(t) == pc[t] \in Holding

\* Type invariant of the lock, the thread table and the threads' locals.
TypeOK ==
    /\ impl \in {"ticket", "generic"}
    /\ pc \in [Threads -> Labels]
    /\ status \in [Threads -> Statuses]
    /\ running \in Threads \cup {None} /\ owner \in Threads \cup {None}
    /\ head \in 0..MaxTicket /\ tail \in 0..MaxTicket
    /\ ticket \in [Threads -> 0..MaxTicket]
    /\ seen \in [Threads -> BOOLEAN]
    /\ wakeup \in [Threads -> 0..MaxTicket]
    /\ tokens \in Nat
    /\ arrivals \in Seq(Threads)

\* At most one thread is between acquiring and releasing the lock.
MutualExclusion ==
    \A t, u \in Threads : Holds(t) /\ Holds(u) => t = u

\* Whoever is past the head test of the ticket lock drew the oldest ticket
\* still out.
FirstComeFirstServed ==
    \A t \in Threads : impl = "ticket" /\ Holds(t) =>
        arrivals # <<>> /\ arrivals[1] = t

\* Whatever the implementation and the interleaving of yields, exits, clones
\* and forks, one thread at a time has the lock; and the ticket lock goes to
\* threads in the order of their fetch_and_add on tail, also when the
\* counters have wrapped.
LockPassedInOrder == MutualExclusion /\ FirstComeFirstServed

\* The assertions of acquire_sched_lock, sema_down, acquire_BigLock,
\* release_BigLock and sema_up: a thread that gets the lock finds no owner,
\* no running thread and itself not Runnable; one that is about to give it
\* up is the owner, the running thread, and Runnable.  And the comment in
\* run_a_thread_NORETURN: a slot is Empty, and so can be given with its stack
\* to a new thread, only when its old thread runs no more.
AssertionsHold ==
    \A t \in Threads :
        /\ pc[t] = "got" => owner = None /\ running = None /\ status[t] # "Runnable"
        /\ pc[t] \in {"run", "fini"} => owner = t /\ running = t /\ status[t] = "Runnable"
        /\ status[t] = "Empty" => pc[t] = "off"

\* A thread never sleeps through its turn: when the head of the ticket lock
\* reaches a sleeping thread's ticket, the thread that moved the head has
\* still to wake that futex word.
NoLostWakeup ==
    \A t \in Threads : pc[t] = "asleep" /\ ticket[t] = head =>
        \E u \in Threads : /\ pc[u] \in {"peek", "poke", "wake"}
                           /\ wakeup[u] = head

\* The shutdown actions, and so the tool's fini, run when no other thread can
\* ever run guest code again: the others are gone or on their way out.
FiniIsLast ==
    \A t, u \in Threads : pc[t] = "fini" /\ u # t =>
        pc[u] = "off" \/ status[u] = "Zombie"

\* Under the ticket lock every thread that asks for the lock gets it, unless
\* a fork leaves it behind in the parent or the program shuts down.
Served ==
    \A t \in Threads : (pc[t] = "read") ~> (pc[t] \in {"run", "off"})

=============================================================================
