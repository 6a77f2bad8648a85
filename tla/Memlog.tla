------------------------------- MODULE Memlog -------------------------------
(***************************************************************************)
(* The tracker of ml_main.c in logging mode (--mx-round=no): the malloc    *)
(* replacement, the client requests, the log_store helper and the event    *)
(* buffer.  The red-black tree is used through what it promises, an        *)
(* ordered map (modules RBTree and OrderedMap); client memory contents and *)
(* stack traces are left out.  Valgrind runs one client thread at a time   *)
(* and never switches inside a superblock, so the helpers of one store run *)
(* back to back: while todo is not empty no other handler runs.            *)
(***************************************************************************)
EXTENDS IR

CONSTANTS
    Payloads,               \* addresses VG_(cli_malloc) can return
    ArenaLo, ArenaHi,       \* the client arena is [ArenaLo, ArenaHi)
    Sizes,                  \* sizes the program requests
    Regions,                \* <<addr, size>> pairs of MEMLOG_TRACK_BLOCK
    Stores,                 \* store statements the program executes (see IR)
    MinBlockSize,           \* --min-block-size
    MaxLogEntries,          \* MAX_LOG_ENTRIES
    ReallocZeroBytesFrees,  \* --realloc-zero-bytes-frees
    Usable(_)               \* VG_(cli_malloc_usable_size) of a requested size

ASSUME ConstantsOK ==
    /\ Payloads \subseteq Nat
    /\ ArenaLo \in Nat /\ ArenaHi \in Nat
    /\ \A p \in Payloads : ArenaLo <= p /\ p < ArenaHi
    /\ Sizes \subseteq Nat
    /\ Regions \subseteq Nat \X (Nat \ {0})
    /\ MinBlockSize \in Nat \ {0}
    /\ MaxLogEntries \in Nat \ {0}
    /\ ReallocZeroBytesFrees \in BOOLEAN
    /\ \A n \in Sizes \cup {1} : Usable(n) \in Nat /\ Usable(n) >= n

ASSUME StoresOK ==
    \A st \in Stores : LogCalls(st) \in Seq(Nat \X Words)

VARIABLES
    heap,       \* requested size of the live block at a payload, or 0
    tracked,    \* tracked_blocks: req_szB of the node with this key, or 0
    log,        \* log_buffer[0 .. log_count-1] and what has been printed
    todo,       \* log_store calls left of the store being executed
    process,    \* the traced process: "running", "exited" or "killed"
    asked       \* history: regions tracked by the client and not untracked

vars == <<heap, tracked, log, todo, process, asked>>

\* Addresses a tracked block can start at.
Start == Payloads \cup {r[1] : r \in Regions}

\* The <<address, value>> pairs the stores of the program log.
StoredLanes == UNION {{LogCalls(st)[i] : i \in DOMAIN LogCalls(st)} : st \in Stores}

---------------------------------------------------------------------------
(* The event buffer. *)

AllocEvent(a, n) == [type |-> "ALLOC", addr |-> a, arg |-> n]

FreeEvent(a, n) == [type |-> "FREE", addr |-> a, arg |-> n]
StoreEvent(a, v) == [type |-> "STORE", addr |-> a, arg |-> v]
Event == [type : {"ALLOC", "FREE", "STORE"}, addr : Nat, arg : Nat \cup Words]

FlushLogBuffer(l) == [buf |-> <<>>, out |-> l.out \o l.buf]

\* Mutant: a full buffer is not flushed until one entry too late.
AddToBufferLate(l, e) ==
    LET m == [buf |-> Append(l.buf, e), out |-> l.out]
    IN  IF Len(m.buf) > MaxLogEntries THEN FlushLogBuffer(m) ELSE m

AddToBuffer(l, e) ==
    LET m == [buf |-> Append(l.buf, e), out |-> l.out]
    IN  IF Len(m.buf) >= MaxLogEntries THEN FlushLogBuffer(m) ELSE m

---------------------------------------------------------------------------
(* Block tracking.  t stands for the value of tracked, which a handler may *)
(* change more than once.                                                  *)

InsertBlock(t, p, n) == IF t[p] > 0 THEN t ELSE [t EXCEPT ![p] = n]

\* rb_search_leq(a) is the node p.
SearchLeq(t, p, a) ==
    /\ t[p] > 0 /\ p <= a
    /\ \A q \in Start : t[q] > 0 /\ q <= a => q <= p

\* Mutant: the end of the block is taken as part of it.
FindBlockClosed(t, p, a) == SearchLeq(t, p, a) /\ a <= p + t[p]

\* find_block_containing(a) is the block at p.
FindBlock(t, p, a) == SearchLeq(t, p, a) /\ a < p + t[p]

IsTracked(a) == \E p \in Start : FindBlock(tracked, p, a)

---------------------------------------------------------------------------
(* The malloc replacement. *)

\* The external allocator may place n bytes at p.
Fits(p, n) ==
    /\ heap[p] = 0
    /\ p + Usable(n) <= ArenaHi
    /\ \A q \in Payloads : heap[q] > 0 =>
          p + Usable(n) <= q \/ q + Usable(heap[q]) <= p

\* new_block never asks for 0 bytes.
AtLeastOne(n) == IF n = 0 THEN 1 ELSE n

NewTracked(t, p, n) == IF n >= MinBlockSize THEN InsertBlock(t, p, n) ELSE t
NewLog(l, p, n) ==
    IF n >= MinBlockSize THEN AddToBuffer(l, AllocEvent(p, n)) ELSE l

\* Mutant: the node of a dead block stays in the tree.
DieTrackedKeeps(t, p) == t

DieTracked(t, p) == IF FindBlock(t, p, p) THEN [t EXCEPT ![p] = 0] ELSE t
DieLog(l, t, p) ==
    IF FindBlock(t, p, p) THEN AddToBuffer(l, FreeEvent(p, t[p])) ELSE l

\* malloc, calloc, memalign and the operators new, when they succeed.  A
\* failed allocation changes nothing.
NewBlock(p, size) ==
    LET n == AtLeastOne(size) IN
    /\ process = "running" /\ todo = <<>>
    /\ Fits(p, n)
    /\ heap' = [heap EXCEPT ![p] = n]
    /\ tracked' = NewTracked(tracked, p, n)
    /\ log' = NewLog(log, p, n)
    /\ UNCHANGED <<todo, process, asked>>

\* free, the operators delete, and realloc(p, 0) when it frees.
DieBlock(p) ==
    /\ process = "running" /\ todo = <<>>
    /\ heap[p] > 0
    /\ heap' = [heap EXCEPT ![p] = 0]
    /\ tracked' = DieTracked(tracked, p)
    /\ log' = DieLog(log, tracked, p)
    /\ UNCHANGED <<todo, process, asked>>

\* Mutant: a block that is not tracked is taken as empty.
OldSizeZero(p) ==
    IF IsTracked(p) THEN tracked[CHOOSE q \in Start : FindBlock(tracked, q, p)] ELSE 0

\* ml_realloc's old_szB: the size of the tracked block that contains p, not
\* necessarily one that starts at p, else what the allocator can use.
OldSize(p) ==
    IF IsTracked(p)
    THEN tracked[CHOOSE q \in Start : FindBlock(tracked, q, p)]
    ELSE Usable(heap[p])

Lesser(m, n) == IF m < n THEN m ELSE n

\* Bytes ml_realloc copies from the old block to a new one of n bytes.
Copied(p, n) == Lesser(OldSize(p), n)

\* realloc(p, size) of a live block, moved to q: allocate, copy, free.
Realloc(p, q, size) ==
    LET n == AtLeastOne(size)
        t == NewTracked(tracked, q, n)
    IN
    /\ process = "running" /\ todo = <<>>
    /\ heap[p] > 0
    /\ size = 0 => ~ReallocZeroBytesFrees
    /\ Fits(q, n)
    /\ heap' = [heap EXCEPT ![q] = n, ![p] = 0]
    /\ tracked' = DieTracked(t, p)
    /\ log' = DieLog(NewLog(log, q, n), t, p)
    /\ UNCHANGED <<todo, process, asked>>

---------------------------------------------------------------------------
(* Client requests. *)

TrackBlock(r) ==
    /\ process = "running" /\ todo = <<>>
    /\ tracked' = InsertBlock(tracked, r[1], r[2])
    /\ log' = AddToBuffer(log, AllocEvent(r[1], r[2]))
    /\ asked' = asked \cup {r}
    /\ UNCHANGED <<heap, todo, process>>

UntrackBlock(a) ==
    /\ process = "running" /\ todo = <<>>
    /\ tracked' = DieTracked(tracked, a)
    /\ log' = DieLog(log, tracked, a)
    /\ asked' = {r \in asked : r[1] # a}
    /\ UNCHANGED <<heap, todo, process>>

---------------------------------------------------------------------------
(* Stores. *)

\* The program reaches an instrumented store: its helpers are to run.
Store(st) ==
    /\ process = "running" /\ todo = <<>>
    /\ todo' = LogCalls(st)
    /\ UNCHANGED <<heap, tracked, log, process, asked>>

\* One call of log_store.
LogStore ==
    /\ process = "running" /\ todo # <<>>
    /\ LET a == Head(todo)[1]
           v == Head(todo)[2]
       IN  log' = IF IsTracked(a) THEN AddToBuffer(log, StoreEvent(a, v)) ELSE log
    /\ todo' = Tail(todo)
    /\ UNCHANGED <<heap, tracked, process, asked>>

---------------------------------------------------------------------------
(* The end of the process. *)

\* Mutant: the end of the program does not flush.
FiniWithoutFlush ==
    /\ process = "running" /\ todo = <<>>
    /\ process' = "exited"
    /\ log' = [buf |-> <<>>, out |-> log.out]
    /\ tracked' = [p \in Start |-> 0]
    /\ UNCHANGED <<heap, todo, asked>>

\* ml_fini: flush, then drop the tree.
Fini ==
    /\ process = "running" /\ todo = <<>>
    /\ process' = "exited"
    /\ log' = FlushLogBuffer(log)
    /\ tracked' = [p \in Start |-> 0]
    /\ UNCHANGED <<heap, todo, asked>>

\* The process is killed (SIGKILL, or it replaces itself with execve): the
\* buffer is gone, but for the entries a flush had printed by then.
Kill ==
    /\ process = "running"
    /\ process' = "killed"
    /\ \E k \in 0 .. Len(log.buf) :
          log' = [buf |-> <<>>, out |-> log.out \o SubSeq(log.buf, 1, k)]
    /\ tracked' = [p \in Start |-> 0]
    /\ todo' = <<>>
    /\ UNCHANGED <<heap, asked>>

Init ==
    /\ heap = [p \in Payloads |-> 0]
    /\ tracked = [p \in Start |-> 0]
    /\ log = [buf |-> <<>>, out |-> <<>>]
    /\ todo = <<>>
    /\ process = "running"
    /\ asked = {}

Next ==
    \/ \E p \in Payloads, n \in Sizes : NewBlock(p, n)
    \/ \E p \in Payloads : DieBlock(p)
    \/ \E p, q \in Payloads, n \in Sizes : Realloc(p, q, n)
    \/ \E r \in Regions : TrackBlock(r)
    \/ \E r \in Regions : UntrackBlock(r[1])
    \/ \E st \in Stores : Store(st)
    \/ LogStore
    \/ Fini
    \/ Kill

Spec == Init /\ [][Next]_vars

---------------------------------------------------------------------------
(* Properties. *)

\* Every variable of the tracker has its type.
TypeOK ==
    /\ heap \in [Payloads -> Nat]
    /\ tracked \in [Start -> Nat]
    /\ log \in [buf : Seq(Event), out : Seq(Event)]
    /\ todo \in Seq(StoredLanes)
    /\ process \in {"running", "exited", "killed"}
    /\ asked \subseteq Regions

\* add_to_buffer always writes inside log_buffer: between handlers there is
\* room for one more entry.
BufferHasRoom == Len(log.buf) < MaxLogEntries

\* Tracked client regions neither overlap one another nor the client arena.
RegionsApart ==
    /\ \A r \in Regions : r[1] + r[2] <= ArenaLo \/ ArenaHi <= r[1]
    /\ \A r, s \in Regions : r # s => r[1] + r[2] <= s[1] \/ s[1] + s[2] <= r[1]

\* The blocks whose stores are to be logged: live heap blocks of at least the
\* minimum size, and regions the client asked for.
WatchedBlocks ==
    IF process = "running"
    THEN {<<p, heap[p]>> : p \in {q \in Payloads : heap[q] >= MinBlockSize}}
         \cup asked
    ELSE {}

InWatchedBlock(a) == \E b \in WatchedBlocks : b[1] <= a /\ a < b[1] + b[2]

\* Live heap blocks lie in the arena, apart from each other.
HeapApart ==
    \A p \in Payloads :
       /\ heap[p] \in Sizes \cup {0, 1}
       /\ heap[p] > 0 => p + Usable(heap[p]) <= ArenaHi
       /\ \A q \in Payloads : heap[p] > 0 /\ heap[q] > 0 /\ p # q =>
             p + Usable(heap[p]) <= q \/ q + Usable(heap[q]) <= p

\* A heap block is tracked, with its size, exactly when it has at least the
\* minimum size.
HeapTracked ==
    \A p \in Payloads : tracked[p] = IF heap[p] >= MinBlockSize THEN heap[p] ELSE 0

\* The other tracked blocks are the regions the client asked for.
RegionsTracked ==
    /\ \A r \in asked : tracked[r[1]] = r[2]
    /\ \A a \in Start \ Payloads : tracked[a] > 0 => <<a, tracked[a]>> \in asked

\* The tree, the heap and the client's requests agree after any sequence of
\* handlers, given RegionsApart; the tree is dropped with the process.
Consistent ==
    /\ HeapApart
    /\ process = "running" => HeapTracked /\ RegionsTracked
    /\ process # "running" => \A a \in Start : tracked[a] = 0

\* The lookup log_store relies on is exact, whatever was allocated, freed,
\* moved, tracked and untracked before: it finds a block at every address of
\* a watched block and at no other address (the ends included, where a block
\* begins right after another).
LookupExact ==
    /\ \A a \in ArenaLo .. ArenaHi : IsTracked(a) <=> InWatchedBlock(a)
    /\ \A r \in Regions : \A a \in r[1] .. (r[1] + r[2]) :
          IsTracked(a) <=> InWatchedBlock(a)

\* Whatever live block is passed to realloc next, with whatever size, the
\* copy keeps every byte the program may have stored in it (or all that fit)
\* and reads nothing beyond what the allocator gave.
ReallocCopiesBlock ==
    \A p \in Payloads, n \in Sizes :
       process = "running" /\ heap[p] > 0 =>
          /\ Lesser(heap[p], n) <= Copied(p, n)
          /\ Copied(p, n) <= Lesser(Usable(heap[p]), n)

\* What memlog.h says of MEMLOG_TRACK_BLOCK: stores to the region will be
\* logged, that is, log_store finds a block at every address of a region that
\* was tracked and not untracked.
AskedRegionLogged ==
    process = "running" => \A r \in asked : \A a \in r[1] .. (r[1] + r[2] - 1) : IsTracked(a)

Blocks == (Payloads \X (Sizes \cup {1})) \cup Regions

EL == INSTANCE EventLog WITH
         live <- WatchedBlocks, trace <- log.out \o log.buf, process <- process

\* The tool implements the unbuffered event log: the printed events followed
\* by the buffered ones are the allocations, frees and stores in program
\* order, a store being there exactly when its address was in a watched
\* block, and only a kill loses events, fewer than the buffer holds.
ImplementsEventLog == EL!Spec
=============================================================================
