----------------------------- MODULE Instrument -----------------------------
(***************************************************************************)
(* Running code instrumented by wire_memlog.  A superblock is a sequence   *)
(* of guest instructions, each of one statement that writes memory (module *)
(* IR).  wire_memlog puts the calls of log_store in front of the statement *)
(* they report, so a store is logged before it happens; a store that       *)
(* faults has been logged, and is logged again when the signal handler     *)
(* repairs the page and the instruction is run a second time.              *)
(* Memory is modelled byte by byte: stores of different widths overlap and *)
(* a narrow one keeps what is around it.  The log is modelled by what a    *)
(* reader makes of it, who applies each line to an image of the memory as  *)
(* the line comes.  A line "0x<addr> 0x<value>" does not say how many of   *)
(* the eight bytes of the value were stored: the reader is told.           *)
(* Every address is taken as tracked; module Memlog is about which are.    *)
(***************************************************************************)
EXTENDS IR

CONSTANTS
    Superblocks,    \* the sequences of statements the program may run
    Addrs,          \* the addresses of the bytes they write
    Faulting,       \* addresses whose first access faults
    MaxSuperblocks  \* bound on the superblocks of a behaviour

\* A statement that writes memory.
IsStatement(st) ==
    /\ st.tag \in WriteTags /\ st.ty \in Types /\ st.addr \in Nat
    /\ st.data \in [1 .. Width(st.ty) -> Byte]
    /\ Targets(st) \subseteq Addrs

ASSUME ProgramOK ==
    /\ Addrs \subseteq Nat /\ Faulting \subseteq Addrs /\ MaxSuperblocks \in Nat
    /\ \A sb \in Superblocks :
           Len(sb) \in Nat /\ DOMAIN sb = 1 .. Len(sb) /\ \A i \in DOMAIN sb : IsStatement(sb[i])

VARIABLES
    code,       \* what is left of the instrumented superblock, by instruction
    mem,        \* guest memory, by byte
    image,      \* history: the memory as the reader of the log has it
    bad,        \* addresses whose next access faults
    running,    \* the program has not been killed by a fault
    dark,       \* history: addresses last written by a statement without calls
    fetched     \* superblocks run so far

vars == <<code, mem, image, bad, running, dark, fetched>>

\* The bytes a call reports: those of the value stored, or of a lane of it.
Reported(ty) == Width(ty) \div Lanes(ty)

Call(line, width) == [op |-> "log_store", line |-> line, width |-> width]
Exec(st) == [op |-> "stmt", stmt |-> st]
Calls(st) == [i \in DOMAIN LogCalls(st) |-> Call(LogCalls(st)[i], Reported(st.ty))]

\* Mutant: the calls come after the statement.
WireStatementAfter(st) == <<Exec(st)>> \o Calls(st)

\* An instruction of the instrumented superblock.
WireStatement(st) == Append(Calls(st), Exec(st))

\* The instrumented superblock.
WireMemlog(sb) == [i \in DOMAIN sb |-> WireStatement(sb[i])]

---------------------------------------------------------------------------

Fetch(sb) ==
    /\ running /\ code = <<>>
    /\ fetched < MaxSuperblocks
    /\ code' = WireMemlog(sb)
    /\ fetched' = fetched + 1
    /\ UNCHANGED <<mem, image, bad, running, dark>>

\* The next operation, and what is left after it.
Op == Head(Head(code))
Rest == IF Len(Head(code)) = 1 THEN Tail(code) ELSE <<Tail(Head(code))>> \o Tail(code)

\* Memory m with the first width bytes of data written at a, in order.
Written(m, a, data, width) ==
    [b \in DOMAIN m |-> IF b \in a .. (a + width - 1) THEN data[b - a + 1] ELSE m[b]]

LogStore ==
    /\ running /\ code # <<>> /\ Op.op = "log_store"
    /\ image' = Written(image, Op.line[1], Op.line[2], Op.width)
    /\ code' = Rest
    /\ UNCHANGED <<mem, bad, running, dark, fetched>>

AtStatement == running /\ code # <<>> /\ Op.op = "stmt"
Hits(st) == Targets(st) \cap bad

\* The statement writes its bytes.
Execute ==
    /\ AtStatement
    /\ Hits(Op.stmt) = {}
    /\ mem' = Written(mem, Op.stmt.addr, Op.stmt.data, Width(Op.stmt.ty))
    /\ dark' = IF Calls(Op.stmt) = <<>> THEN dark \cup Targets(Op.stmt) ELSE dark \ Targets(Op.stmt)
    /\ code' = Rest
    /\ UNCHANGED <<image, bad, running, fetched>>

\* The statement faults, the program repairs the page and the instruction is
\* translated and run again, its calls included.
FaultAndRetry ==
    /\ AtStatement
    /\ Hits(Op.stmt) # {}
    /\ bad' = bad \ Hits(Op.stmt)
    /\ code' = <<WireStatement(Op.stmt)>> \o Tail(code)
    /\ UNCHANGED <<mem, image, running, dark, fetched>>

\* The statement faults and the program dies of it.
FaultAndDie ==
    /\ AtStatement
    /\ Hits(Op.stmt) # {}
    /\ running' = FALSE
    /\ UNCHANGED <<code, mem, image, bad, dark, fetched>>

Init ==
    /\ code = <<>>
    /\ mem = [a \in Addrs |-> 0]
    /\ image = [a \in Addrs |-> 0]
    /\ bad = Faulting
    /\ running = TRUE
    /\ dark = {}
    /\ fetched = 0

Next ==
    \/ \E sb \in Superblocks : Fetch(sb)
    \/ LogStore
    \/ Execute
    \/ FaultAndRetry
    \/ FaultAndDie

Spec == Init /\ [][Next]_vars

---------------------------------------------------------------------------
(* Properties. *)

\* The running superblock holds calls and statements of the program.
TypeOK ==
    /\ \A i \in DOMAIN code : \A j \in DOMAIN code[i] : code[i][j].op \in {"log_store", "stmt"}
    /\ mem \in [Addrs -> Byte] /\ image \in [Addrs -> Byte]
    /\ bad \subseteq Faulting
    /\ running \in BOOLEAN
    /\ dark \subseteq Addrs
    /\ fetched \in 0 .. MaxSuperblocks

\* The bytes of the statement that is run next: its calls may have been
\* made, the statement not.
InFlight ==
    IF code = <<>> THEN {}
    ELSE UNION {Targets(Head(code)[i].stmt) : i \in {j \in DOMAIN Head(code) : Head(code)[j].op = "stmt"}}

\* A reader who applies the lines of the log, each with the width of its
\* store, has the program's memory, byte by byte, at every moment, through
\* overlapping stores, faults and repeated instructions, but for the bytes of
\* the store about to be run and those whose last writer is a statement
\* wire_memlog skips (guarded stores, CAS, store-conditional, dirty calls,
\* F16 and decimal floats): each value is logged as it is stored, where it is
\* stored, in the order of the stores.
ReplayGivesMemory ==
    /\ TypeOK
    /\ \A a \in Addrs \ (InFlight \cup dark) : image[a] = mem[a]
=============================================================================
