------------------------------- MODULE Parser -------------------------------
(***************************************************************************)
(* tools/parser.py on a log written by the tool.  The log is the trace of  *)
(* module EventLog, which Memlog implements; parse_log then reads it line  *)
(* by line and splits the stores into one file per block and generation.   *)
(* One action is one iteration of the loop over the lines.  Files are      *)
(* written through an LRU cache of handles; what a handle has not written  *)
(* back is lost when the parser is killed, and the parser is then started  *)
(* again on the same log and the same output directory.                    *)
(***************************************************************************)
EXTENDS Integers, Sequences, FiniteSets, Functions

CONSTANTS
    Blocks, StoredLanes, MaxLogEntries, \* as in EventLog
    MaxTrace,       \* bound on the events of a log
    Retrack,        \* a client may track a region that is tracked
    MaxOpen,        \* max_open_files
    MaxCrashes,     \* bound on the times the parser is killed
    MaxCrashTrace,  \* bound on the events of a log whose parser is killed
    DeleteInput     \* --delete-input

ASSUME ParserConstantsOK ==
    /\ Blocks \subseteq Nat \X (Nat \ {0})
    /\ StoredLanes \subseteq Nat \X Nat
    /\ {MaxOpen, MaxLogEntries} \subseteq Nat \ {0}
    /\ {MaxTrace, MaxCrashes, MaxCrashTrace} \subseteq Nat
    /\ {Retrack, DeleteInput} \subseteq BOOLEAN

VARIABLES
    live, trace, process,   \* the traced program (EventLog)
    cut,        \* lines of the last event that are not in the log file
    status,     \* "tracing", "parsing", "finalizing", "done" or "raised"
    pos, line,  \* the next line: the event and the line of the event
    inside,     \* inside_alloc and inside_free: "alloc", "free" or "none"
    building,   \* current_building, or NoAlloc
    liveList,   \* live_list (starts_sorted holds the starts of its members)
    stacks,     \* live_allocs
    usage,      \* address_usage_count
    alloc,      \* the fields of the LiveAlloc objects in liveList
    files,      \* the file cache and the temporary files
    out,        \* the .stores files
    input,      \* the log is still there
    crashes     \* times the parser was killed

tracer == <<live, trace, process, cut>>
reader == <<pos, line, inside, building>>
allocs == <<liveList, stacks, usage, alloc>>
disk == <<files, out, input>>
vars == <<tracer, status, reader, allocs, disk, crashes>>

E == INSTANCE EventLog

(* Operations on lists.  They are those of SequencesExt, which is not      *)
(* extended here because the prover would carry all of it along.           *)
Last(s) == s[Len(s)]
Front(s) == SubSeq(s, 1, Len(s) - 1)
InsertAt(s, i, e) == SubSeq(s, 1, i - 1) \o <<e>> \o SubSeq(s, i, Len(s))
RemoveAt(s, i) == SubSeq(s, 1, i - 1) \o SubSeq(s, i + 1, Len(s))

Starts == {b[1] : b \in Blocks}
NoAlloc == <<>>

\* A LiveAlloc, and its temporary file, by start, size and usage_num.
Start(id) == id[1]
End(id) == id[1] + id[2]

\* Mutant: the first byte is not part of the block.
HoldsOpen(id, a) == Start(id) < a /\ a < End(id)

Holds(id, a) == Start(id) <= a /\ a < End(id)

---------------------------------------------------------------------------
(* The lines of a log, as flush_log_buffer prints them. *)

Line(k) == [kind |-> k]
Header(e) == [kind |-> "header", addr |-> e.addr, size |-> e.arg]

LinesOf(e) ==
    CASE e.type = "ALLOC" -> <<Line("alloc_start"), Header(e), Line("frame"), Line("alloc_end")>>
      [] e.type = "FREE" -> <<Line("free_start"), Header(e), Line("frame"), Line("free_end")>>
      [] e.type = "STORE" -> <<[kind |-> "store", addr |-> e.addr, value |-> e.arg]>>

\* The log file is the lines of the events of the trace, but for the last
\* ones of a print that was cut.
CurrentLine == LinesOf(trace[pos])[line]
AtEnd == pos > Len(trace) \/ (pos = Len(trace) /\ line > Len(LinesOf(trace[pos])) - cut)

---------------------------------------------------------------------------
(* The file cache.  f.handles lists the open files, least recently used    *)
(* first; f.buf is what they have not written back; f.tmp maps every       *)
(* temporary file that exists to its contents.                             *)

RemoveFrom(s, x) == RemoveAt(s, CHOOSE i \in DOMAIN s : s[i] = x)

Without(f, p) == [q \in DOMAIN f \ {p} |-> f[q]]
With(f, p, c) == [q \in DOMAIN f \cup {p} |-> IF q = p THEN c ELSE f[q]]

\* close_path
ClosePath(f, p) ==
    IF p \in Range(f.handles)
    THEN [handles |-> RemoveFrom(f.handles, p),
          buf |-> Without(f.buf, p),
          tmp |-> [f.tmp EXCEPT ![p] = @ \o f.buf[p]]]
    ELSE f

\* _evict_if_needed
EvictIfNeeded(f) == IF Len(f.handles) < MaxOpen THEN f ELSE ClosePath(f, Head(f.handles))

\* open(path, "a")
OpenPath(f, p) ==
    [handles |-> Append(f.handles, p),
     buf |-> With(f.buf, p, <<>>),
     tmp |-> IF p \in DOMAIN f.tmp THEN f.tmp ELSE With(f.tmp, p, <<>>)]

\* write_line
WriteLine(f, p, l) ==
    LET g == IF p \in Range(f.handles)
             THEN [f EXCEPT !.handles = Append(RemoveFrom(@, p), p)]
             ELSE OpenPath(EvictIfNeeded(f), p)
    IN  [g EXCEPT !.buf[p] = Append(@, l)]

\* close_all
CloseAll(f) ==
    [handles |-> <<>>, buf |-> <<>>,
     tmp |-> [p \in DOMAIN f.tmp |-> f.tmp[p] \o (IF p \in Range(f.handles) THEN f.buf[p] ELSE <<>>)]]

---------------------------------------------------------------------------
(* The live allocations. *)

\* Mutant: the allocation goes to the end of the list.
AddUnsorted(id) ==
    /\ liveList' = Append(liveList, id)
    /\ stacks' = [stacks EXCEPT ![Start(id)] = Append(@, id)]
    /\ alloc' = With(alloc, id, [count |-> 0, aligned32 |-> TRUE, aligned64 |-> TRUE,
                                 framed |-> FALSE])

\* _add: before every member with the same or a larger start.
Add(id) ==
    LET i == Cardinality({j \in DOMAIN liveList : Start(liveList[j]) < Start(id)}) + 1
    IN  /\ liveList' = InsertAt(liveList, i, id)
        /\ stacks' = [stacks EXCEPT ![Start(id)] = Append(@, id)]
        /\ alloc' = With(alloc, id, [count |-> 0, aligned32 |-> TRUE, aligned64 |-> TRUE,
                                     framed |-> FALSE])

\* _remove
RemoveAlloc(id) ==
    /\ liveList' = RemoveFrom(liveList, id)
    /\ stacks' = [stacks EXCEPT ![Start(id)] = Front(@)]
    /\ alloc' = Without(alloc, id)

\* The live allocations that hold address a.
Holders(a) == {j \in DOMAIN liveList : Holds(liveList[j], a)}

\* The one that a store to a is written to: by bisection the last that does
\* not start behind a, else the first that holds a.
Found(a) ==
    LET p == Cardinality({j \in DOMAIN liveList : Start(liveList[j]) <= a})
    IN  IF p \in Holders(a) THEN liveList[p]
        ELSE liveList[CHOOSE j \in Holders(a) : \A k \in Holders(a) : j <= k]

TypeName(o) ==
    IF ~o.aligned32 THEN "object" ELSE IF o.aligned64 THEN "64bits" ELSE "32bits"

\* Mutant: a file with one store is taken for empty.
FinalizeOne(id) ==
    LET o == alloc[id]
        f == ClosePath(files, id)
    IN  /\ files' = [f EXCEPT !.tmp = Without(@, id)]
        /\ out' = IF o.count <= 1 THEN out ELSE With(out, <<id, TypeName(o)>>, f.tmp[id])

\* close_and_finalize: the file is closed, then removed if it has no stores,
\* else renamed after the alignment of its offsets.
Finalize(id) ==
    LET o == alloc[id]
        f == ClosePath(files, id)
    IN  /\ files' = [f EXCEPT !.tmp = Without(@, id)]
        /\ out' = IF o.count = 0 THEN out ELSE With(out, <<id, TypeName(o)>>, f.tmp[id])

---------------------------------------------------------------------------
(* The loop over the lines. *)

Reading(k) == status = "parsing" /\ ~AtEnd /\ CurrentLine.kind = k

NextLine ==
    /\ IF line < Len(LinesOf(trace[pos])) THEN line' = line + 1 /\ pos' = pos
       ELSE line' = 1 /\ pos' = pos + 1
    /\ UNCHANGED <<tracer, status, input, crashes>>

\* Mutant: the last store alone decides the alignment.
WriteStoreLast(id, a, value) ==
    LET offset == a - Start(id) IN
    /\ files' = WriteLine(files, id, <<offset, value>>)
    /\ alloc' = [alloc EXCEPT ![id] =
           [count |-> @.count + 1,
            aligned32 |-> offset % 4 = 0,
            aligned64 |-> offset % 8 = 0,
            framed |-> @.framed]]

\* write_store
WriteStore(id, a, value) ==
    LET offset == a - Start(id) IN
    /\ files' = WriteLine(files, id, <<offset, value>>)
    /\ alloc' = [alloc EXCEPT ![id] =
           [count |-> @.count + 1,
            aligned32 |-> @.aligned32 /\ offset % 4 = 0,
            aligned64 |-> @.aligned64 /\ offset % 8 = 0,
            framed |-> @.framed]]

\* A store in no live allocation is a ValueError, which ends the parser.
OnStore ==
    /\ Reading("store")
    /\ LET a == CurrentLine.addr IN
       IF Holders(a) = {}
       THEN status' = "raised" /\ UNCHANGED <<pos, line, files, alloc, tracer, input, crashes>>
       ELSE WriteStore(Found(a), a, CurrentLine.value) /\ NextLine
    /\ UNCHANGED <<inside, building, liveList, stacks, usage, out>>

OnAllocStart ==
    /\ Reading("alloc_start")
    /\ inside' = "alloc"
    /\ building' = NoAlloc
    /\ NextLine
    /\ UNCHANGED <<allocs, files, out>>

\* The stack of the allocation heads its file.
OnAllocEnd ==
    /\ Reading("alloc_end")
    /\ files' = IF building # NoAlloc /\ alloc[building].framed
                THEN WriteLine(files, building, "#") ELSE files
    /\ inside' = "none"
    /\ building' = NoAlloc
    /\ NextLine
    /\ UNCHANGED <<allocs, out>>

OnFreeDelimiter ==
    /\ Reading("free_start") \/ Reading("free_end")
    /\ inside' = IF Reading("free_start") THEN "free" ELSE "none"
    /\ NextLine
    /\ UNCHANGED <<building, allocs, files, out>>

OnAllocHeader ==
    /\ Reading("header") /\ inside = "alloc"
    /\ LET a == CurrentLine.addr
           id == <<a, CurrentLine.size, usage[a] + 1>>
       IN  /\ usage' = [usage EXCEPT ![a] = @ + 1]
           /\ Add(id)
           /\ building' = id
    /\ NextLine
    /\ UNCHANGED <<inside, files, out>>

\* A line of the stack trace: kept for an allocation, skipped for a free.
OnFrame ==
    /\ Reading("frame")
    /\ alloc' = IF inside = "alloc" /\ building # NoAlloc
                THEN [alloc EXCEPT ![building].framed = TRUE] ELSE alloc
    /\ NextLine
    /\ UNCHANGED <<inside, building, liveList, stacks, usage, files, out>>

\* The latest allocation at the address ends.
OnFreeHeader ==
    /\ Reading("header") /\ inside = "free"
    /\ LET s == stacks[CurrentLine.addr]
       IN  IF s = <<>> THEN UNCHANGED <<allocs, files, out>>
           ELSE Finalize(Last(s)) /\ RemoveAlloc(Last(s)) /\ UNCHANGED usage
    /\ NextLine
    /\ UNCHANGED <<inside, building>>

EndOfLog ==
    /\ status = "parsing" /\ AtEnd
    /\ status' = "finalizing"
    /\ UNCHANGED <<tracer, reader, allocs, disk, crashes>>

\* The loop over the allocations that were never freed.
FinalizeNext ==
    /\ status = "finalizing" /\ liveList # <<>>
    /\ Finalize(Head(liveList))
    /\ RemoveAlloc(Head(liveList))
    /\ UNCHANGED <<tracer, status, reader, usage, input, crashes>>

\* close_all, and the log is deleted if that was asked for.
Finish ==
    /\ status = "finalizing" /\ liveList = <<>>
    /\ files' = CloseAll(files)
    /\ input' = ~DeleteInput
    /\ status' = "done"
    /\ UNCHANGED <<tracer, reader, allocs, out, crashes>>

---------------------------------------------------------------------------
(* Around the parser. *)

NoFiles == [handles |-> <<>>, buf |-> <<>>, tmp |-> <<>>]

\* What Memlog's tracker guarantees of the blocks it opens (its Consistent):
\* they are apart from the watched ones, unless a region is tracked again.
MayOpen(b) ==
    \A c \in live : (b = c /\ Retrack) \/ b[1] + b[2] <= c[1] \/ c[1] + c[2] <= b[1]

\* The program is traced.
Trace ==
    /\ status = "tracing"
    /\ \/ \E b \in Blocks : E!Open(b) /\ MayOpen(b)
       \/ \E b \in Blocks : E!Close(b)
       \/ \E b, c \in Blocks : E!Move(b, c) /\ MayOpen(c)
       \/ \E s \in StoredLanes : E!Record(s)
       \/ E!Stop
       \/ E!Lose
    /\ Len(trace') <= MaxTrace
    /\ UNCHANGED <<cut, status, reader, allocs, disk, crashes>>

\* parse_log is called on the log of a program that ended; the last event may
\* be cut, when the program was killed while a flush printed it.
StartParser ==
    /\ status = "tracing" /\ process # "running"
    /\ cut' \in 0 .. (IF trace = <<>> THEN 0 ELSE Len(LinesOf(Last(trace))) - 1)
    /\ status' = "parsing"
    /\ UNCHANGED <<live, trace, process, reader, allocs, disk, crashes>>

\* The parser is killed: of each open file all or nothing of what its handle
\* holds is written, and the parser is started again.
Crash ==
    /\ status \in {"parsing", "finalizing"}
    /\ crashes < MaxCrashes /\ Len(trace) <= MaxCrashTrace
    /\ crashes' = crashes + 1
    /\ \E saved \in SUBSET Range(files.handles) :
          files' = [NoFiles EXCEPT !.tmp =
                       [p \in DOMAIN files.tmp |->
                           files.tmp[p] \o (IF p \in saved THEN files.buf[p] ELSE <<>>)]]
    /\ status' = "parsing"
    /\ pos' = 1 /\ line' = 1 /\ inside' = "none" /\ building' = NoAlloc
    /\ liveList' = <<>> /\ alloc' = <<>>
    /\ stacks' = [a \in Starts |-> <<>>]
    /\ usage' = [a \in Starts |-> 0]
    /\ UNCHANGED <<tracer, out, input>>

Init ==
    /\ E!Init
    /\ cut = 0
    /\ status = "tracing"
    /\ pos = 1 /\ line = 1 /\ inside = "none" /\ building = NoAlloc
    /\ liveList = <<>> /\ alloc = <<>>
    /\ stacks = [a \in Starts |-> <<>>]
    /\ usage = [a \in Starts |-> 0]
    /\ files = NoFiles
    /\ out = <<>>
    /\ input = TRUE
    /\ crashes = 0

Parse ==
    \/ OnStore \/ OnAllocStart \/ OnAllocHeader \/ OnFrame \/ OnAllocEnd
    \/ OnFreeDelimiter \/ OnFreeHeader
    \/ EndOfLog \/ FinalizeNext \/ Finish

Next == Trace \/ StartParser \/ Parse \/ Crash

Spec == Init /\ [][Next]_vars

---------------------------------------------------------------------------
(* Properties. *)

\* The reader is inside at most one section, allocations and handles are
\* those of the log (part of ListsAgree).
TypeOK ==
    /\ status \in {"tracing", "parsing", "finalizing", "done", "raised"}
    /\ pos \in 1 .. Len(trace) + 1 /\ line \in 1 .. 4
    /\ inside \in {"none", "alloc", "free"}
    /\ DOMAIN alloc = Range(liveList)
    /\ DOMAIN files.buf = Range(files.handles)
    /\ DOMAIN files.buf \subseteq DOMAIN files.tmp
    /\ crashes \in 0 .. MaxCrashes

\* A log written by the tool never makes the parser raise: at every STORE
\* line some live allocation holds the address, whatever was freed, reused,
\* tracked twice or cut off by a kill before; and there are never more open
\* files than allowed, none of them of an allocation that has ended.
NeverRaises ==
    /\ status # "raised"
    /\ Len(files.handles) <= MaxOpen
    /\ Range(files.handles) \subseteq Range(liveList)

\* live_list stays sorted by start and agrees with the stacks of live_allocs,
\* which is what the bisection and the FREE handler rely on.
ListsAgree ==
    /\ TypeOK
    /\ status \in {"parsing", "done"} =>
       /\ \A i, j \in DOMAIN liveList : i < j => Start(liveList[i]) <= Start(liveList[j])
       /\ \A a \in Starts : Range(stacks[a]) = {id \in Range(liveList) : Start(id) = a}

\* Which generation of its address an ALLOC event opens.
Generation(i) ==
    Cardinality({j \in 1 .. i : trace[j].type = "ALLOC" /\ trace[j].addr = trace[i].addr})

\* The event opens or closes a block at address a.
Delimits(e, a) == e.type # "STORE" /\ e.addr = a

\* Offsets and values of the stores to the block opened by event i, up to the
\* next event that closes or opens a block there.
StoresOf(i) ==
    LET b == trace[i]
        mine == {j \in i + 1 .. Len(trace) :
                    /\ trace[j].type = "STORE"
                    /\ b.addr <= trace[j].addr /\ trace[j].addr < b.addr + b.arg
                    /\ \A k \in i + 1 .. j : ~Delimits(trace[k], b.addr)}
        nth(n) == CHOOSE j \in mine : Cardinality({k \in mine : k <= j}) = n
    IN  [n \in 1 .. Cardinality(mine) |-> <<trace[nth(n)].addr - b.addr, trace[nth(n)].arg>>]

TypeOf(stores) ==
    LET multiples(n) == \A k \in DOMAIN stores : stores[k][1] % n = 0
    IN  IF multiples(8) THEN "64bits" ELSE IF multiples(4) THEN "32bits" ELSE "object"

\* The .stores files of a log: one for each ALLOC whose block is stored to.
Expected ==
    LET opened == {i \in DOMAIN trace : trace[i].type = "ALLOC" /\ StoresOf(i) # <<>>}
        name(i) == <<<<trace[i].addr, trace[i].arg, Generation(i)>>, TypeOf(StoresOf(i))>>
    IN  [f \in {name(i) : i \in opened} |->
            LET i == CHOOSE k \in opened : name(k) = f IN <<"#">> \o StoresOf(i)]

\* No block was tracked again while it was still open.
EachOpenedOnce ==
    \A i, j \in DOMAIN trace :
       i < j /\ trace[i].type = "ALLOC" /\ trace[j].type = "ALLOC" /\ trace[i].addr = trace[j].addr
          => \E k \in i .. j : trace[k].type = "FREE" /\ trace[k].addr = trace[i].addr

\* What the README says of the .stores files: there is one for each reuse of
\* an address that is stored to, with the stack of the allocation and then a
\* line for every store to it, in order and nothing else.  It holds of a
\* parser that was not killed, on a log that tracks no region twice.
FilesExact ==
    status = "done" /\ crashes = 0 /\ EachOpenedOnce => out = Expected /\ files = NoFiles

\* Lines of the output about value v at address a.
Copies(a, v) ==
    LET lines == UNION {{f} \X DOMAIN out[f] : f \in DOMAIN out}
        is(f, n) == out[f][n] # "#" /\ out[f][n] = <<a - Start(f[1]), v>>
    IN  Cardinality({l \in lines : is(l[1], l[2])})

\* No store is lost: when the parser is done, or the log is deleted, each
\* STORE line has a line of its own in the output, also after the parser was
\* killed at any point and started again, and whatever was tracked twice.
StoresKept ==
    status = "done" \/ ~input =>
       \A s \in StoredLanes :
          Cardinality({i \in DOMAIN trace : trace[i] = E!StoreEvent(s)}) <= Copies(s[1], s[2])
=============================================================================
