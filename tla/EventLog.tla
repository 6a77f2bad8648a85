------------------------------ MODULE EventLog ------------------------------
(***************************************************************************)
(* What Memlog promises, with no tree and no buffer: there is a set of     *)
(* watched blocks; opening and closing one is recorded, a store is         *)
(* recorded exactly when its address lies in a watched block, and the      *)
(* trace is in program order.  A killed process loses the end of the       *)
(* trace, fewer than MaxLogEntries events of it.                           *)
(***************************************************************************)
EXTENDS Integers, Sequences

CONSTANTS
    Blocks,         \* the <<start, size>> pairs that may ever be watched
    StoredLanes,    \* the <<addr, value>> pairs that may ever be stored
    MaxLogEntries   \* events that may be in flight

VARIABLES
    live,           \* the watched blocks
    trace,          \* the recorded events, oldest first
    process         \* the traced process: "running", "exited" or "killed"

vars == <<live, trace, process>>

AllocEvent(b) == [type |-> "ALLOC", addr |-> b[1], arg |-> b[2]]
FreeEvent(b) == [type |-> "FREE", addr |-> b[1], arg |-> b[2]]
StoreEvent(s) == [type |-> "STORE", addr |-> s[1], arg |-> s[2]]

\* Some watched block contains the address.
Watched(a) == \E b \in live : b[1] <= a /\ a < b[1] + b[2]

Init ==
    /\ live = {}
    /\ trace = <<>>
    /\ process = "running"

Open(b) ==
    /\ process = "running"
    /\ live' = live \cup {b}
    /\ trace' = Append(trace, AllocEvent(b))
    /\ process' = process

Close(b) ==
    /\ process = "running"
    /\ b \in live
    /\ live' = live \ {b}
    /\ trace' = Append(trace, FreeEvent(b))
    /\ process' = process

\* A reallocation: the new block opens before the old one closes.
Move(b, c) ==
    /\ process = "running"
    /\ b \in live
    /\ c \notin live
    /\ live' = (live \cup {c}) \ {b}
    /\ trace' = Append(Append(trace, AllocEvent(c)), FreeEvent(b))
    /\ process' = process

\* A store is recorded if and only if it starts in a watched block; one that
\* does not is a stuttering step.
Record(s) ==
    /\ process = "running"
    /\ Watched(s[1])
    /\ trace' = Append(trace, StoreEvent(s))
    /\ UNCHANGED <<live, process>>

\* The process ends normally: nothing is lost.
Stop ==
    /\ process = "running"
    /\ process' = "exited"
    /\ live' = {}
    /\ trace' = trace

\* The process is killed: a bounded tail is lost, nothing else.
Lose ==
    /\ process = "running"
    /\ process' = "killed"
    /\ live' = {}
    /\ \E n \in 0 .. Len(trace) :
          /\ Len(trace) - n < MaxLogEntries
          /\ trace' = SubSeq(trace, 1, n)

Next ==
    \/ \E b \in Blocks : Open(b) \/ Close(b)
    \/ \E b, c \in Blocks : Move(b, c)
    \/ \E s \in StoredLanes : Record(s)
    \/ Stop
    \/ Lose

Spec == Init /\ [][Next]_vars
=============================================================================
