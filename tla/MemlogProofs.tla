---------------------------- MODULE MemlogProofs ----------------------------
(***************************************************************************)
(* Proofs about Memlog for every arena, allocator, set of stores, minimum  *)
(* size and buffer size.                                                   *)
(***************************************************************************)
EXTENDS Memlog, SequenceTheorems, TLAPS

LogType == [buf : Seq(Event), out : Seq(Event)]

Trace(l) == l.out \o l.buf

(***************************************************************************)
(* The event buffer.                                                       *)
(***************************************************************************)

\* Appending to the second of two sequences appends to their concatenation.
LEMMA ConcatAppend ==
  ASSUME NEW S, NEW s \in Seq(S), NEW t \in Seq(S), NEW e \in S
  PROVE  s \o Append(t, e) = Append(s \o t, e)
<1>1. Append(t, e) = t \o <<e>> /\ Append(s \o t, e) = (s \o t) \o <<e>>
  BY AppendIsConcat, ConcatProperties
<1>2. <<e>> \in Seq(S)
  OBVIOUS
<1> QED
  BY <1>1, <1>2, ConcatAssociative

\* flush_log_buffer empties the buffer and keeps the events in order.
LEMMA FlushLemma ==
  ASSUME NEW l \in LogType
  PROVE  /\ FlushLogBuffer(l) \in LogType
         /\ FlushLogBuffer(l).buf = <<>>
         /\ Trace(FlushLogBuffer(l)) = Trace(l)
<1>1. l.out \o l.buf \in Seq(Event)
  BY ConcatProperties DEF LogType
<1>2. (l.out \o l.buf) \o <<>> = l.out \o l.buf
  BY <1>1, ConcatEmptySeq
<1> QED
  BY <1>1, <1>2 DEF FlushLogBuffer, LogType, Trace

\* add_to_buffer adds one event at the end of the log, printed or not, and
\* leaves room for another.
LEMMA AddLemma ==
  ASSUME NEW l \in LogType, NEW e \in Event
  PROVE  /\ AddToBuffer(l, e) \in LogType
         /\ Len(AddToBuffer(l, e).buf) < MaxLogEntries
         /\ Trace(AddToBuffer(l, e)) = Append(Trace(l), e)
<1> DEFINE m == [buf |-> Append(l.buf, e), out |-> l.out]
<1>1. m \in LogType /\ m.buf = Append(l.buf, e) /\ m.out = l.out
  BY DEF LogType
<1>2. Trace(m) = Append(Trace(l), e)
  BY <1>1, ConcatAppend DEF Trace, LogType
<1> HIDE DEF m
<1>3. AddToBuffer(l, e) = IF Len(m.buf) >= MaxLogEntries THEN FlushLogBuffer(m) ELSE m
  BY DEF AddToBuffer, m
<1>4. Len(m.buf) \in Nat
  BY <1>1 DEF LogType
<1>5. CASE Len(m.buf) >= MaxLogEntries
  BY <1>1, <1>2, <1>3, <1>5, FlushLemma, ConstantsOK
<1>6. CASE Len(m.buf) < MaxLogEntries
  BY <1>1, <1>2, <1>3, <1>4, <1>6, ConstantsOK
<1> QED
  BY <1>4, <1>5, <1>6, ConstantsOK

\* A killed process keeps what was printed, a prefix of the trace.
LEMMA KillTrace ==
  ASSUME NEW l \in LogType, NEW k \in 0 .. Len(l.buf)
  PROVE  /\ SubSeq(l.buf, 1, k) \in Seq(Event)
         /\ (l.out \o SubSeq(l.buf, 1, k)) \o <<>> = SubSeq(Trace(l), 1, Len(l.out) + k)
         /\ Len(l.out) + k \in 0 .. Len(Trace(l))
         /\ Len(Trace(l)) - (Len(l.out) + k) <= Len(l.buf)
<1> DEFINE o == l.out
           u == l.buf
           b == SubSeq(u, 1, k)
           t == Trace(l)
<1>1. o \in Seq(Event) /\ u \in Seq(Event) /\ t = o \o u
  BY DEF LogType, Trace
<1> HIDE DEF o, u, t
<1>2. /\ Len(o) \in Nat /\ Len(u) \in Nat /\ t \in Seq(Event) /\ Len(t) = Len(o) + Len(u)
      /\ \A i \in 1 .. Len(t) : t[i] = IF i <= Len(o) THEN o[i] ELSE u[i - Len(o)]
  BY <1>1, ConcatProperties
<1>3. k \in Nat /\ k <= Len(u)
  BY <1>2 DEF u
<1>4. /\ b \in Seq(Event) /\ Len(b) = k
      /\ \A i \in 1 .. k : b[i] = u[i]
  BY <1>1, <1>2, <1>3, SubSeqProperties
<1> HIDE DEF b
<1>5. /\ o \o b \in Seq(Event) /\ Len(o \o b) = Len(o) + k
      /\ \A i \in 1 .. Len(o) + k : (o \o b)[i] = IF i <= Len(o) THEN o[i] ELSE b[i - Len(o)]
  BY <1>1, <1>4, ConcatProperties, Zenon
<1>6. /\ SubSeq(t, 1, Len(o) + k) \in Seq(Event) /\ Len(SubSeq(t, 1, Len(o) + k)) = Len(o) + k
      /\ \A i \in 1 .. Len(o) + k : SubSeq(t, 1, Len(o) + k)[i] = t[i]
  <2>1. \A i \in 1 .. Len(o) + k : t[i] \in Event
    BY <1>2, <1>3
  <2> QED
    BY <1>2, <1>3, <2>1, SubSeqProperties
<1>7. \A i \in 1 .. Len(o) + k : (o \o b)[i] = t[i]
  BY <1>2, <1>3, <1>4, <1>5, SMTT(30)
<1>8. o \o b = SubSeq(t, 1, Len(o) + k)
  BY <1>2, <1>3, <1>5, <1>6, <1>7, SeqEqual
<1>9. (o \o b) \o <<>> = o \o b
  BY <1>5, ConcatEmptySeq
<1>10. Len(o) + k \in 0 .. Len(t) /\ Len(t) - (Len(o) + k) <= Len(u)
  BY <1>2, <1>3
<1>11. (o \o b) \o <<>> = SubSeq(t, 1, Len(o) + k)
  BY <1>8, <1>9, Zenon
<1> QED
  BY <1>4, <1>10, <1>11, Zenon DEF o, u, t, b

(***************************************************************************)
(* Type correctness.                                                       *)
(***************************************************************************)

\* The events the handlers add are events.
LEMMA NewLogLemma ==
  ASSUME NEW l \in LogType, NEW p \in Nat, NEW n \in Nat,
         Len(l.buf) < MaxLogEntries
  PROVE  /\ NewLog(l, p, n) \in LogType
         /\ Len(NewLog(l, p, n).buf) < MaxLogEntries
<1>1. AllocEvent(p, n) \in Event
  BY DEF AllocEvent, Event
<1> QED
  BY <1>1, AddLemma DEF NewLog

\* The entry of a dead block is an event, and there is room for it.
LEMMA DieLogLemma ==
  ASSUME NEW l \in LogType, NEW p \in Nat, NEW t \in [Start -> Nat],
         p \in Start, Len(l.buf) < MaxLogEntries
  PROVE  /\ DieLog(l, t, p) \in LogType
         /\ Len(DieLog(l, t, p).buf) < MaxLogEntries
<1>1. FreeEvent(p, t[p]) \in Event
  BY DEF FreeEvent, Event
<1> QED
  BY <1>1, AddLemma DEF DieLog

\* Starts are addresses; a payload and a region's start are starts.
LEMMA StartLemma ==
  /\ Payloads \subseteq Start
  /\ Start \subseteq Nat
  /\ \A r \in Regions : r[1] \in Start /\ r[1] \in Nat /\ r[2] \in Nat /\ r[2] > 0
<1>1. \A r \in Regions : r[1] \in Nat /\ r[2] \in Nat /\ r[2] > 0
  BY ConstantsOK
<1>2. \A r \in Regions : r[1] \in Start
  BY DEF Start
<1>3. Payloads \subseteq Start
  BY DEF Start
<1>4. Start \subseteq Nat
  BY <1>1, ConstantsOK, Zenon DEF Start
<1> QED
  BY <1>1, <1>2, <1>3, <1>4

\* What a store logs, lane by lane, is an address and a value.
LEMMA LanesLemma ==
  /\ StoredLanes \subseteq Nat \X Words
  /\ \A st \in Stores : LogCalls(st) \in Seq(StoredLanes)
<1>1. ASSUME NEW st \in Stores
      PROVE  /\ LogCalls(st) \in Seq(StoredLanes)
             /\ \A i \in DOMAIN LogCalls(st) : LogCalls(st)[i] \in Nat \X Words
  <2> DEFINE s == LogCalls(st)
  <2>1. s \in Seq(Nat \X Words)
    BY StoresOK
  <2>2. \A i \in DOMAIN s : s[i] \in StoredLanes
    BY DEF StoredLanes
  <2> HIDE DEF s
  <2>3. s \in Seq(StoredLanes)
    <3>1. Len(s) \in Nat /\ DOMAIN s = 1 .. Len(s) /\ s = [i \in 1 .. Len(s) |-> s[i]]
      BY <2>1
    <3> QED
      BY <2>2, <3>1, IsASeq
  <2>4. \A i \in DOMAIN s : s[i] \in Nat \X Words
    BY <2>1, ElementOfSeq
  <2> QED
    BY <2>3, <2>4 DEF s
<1>2. ASSUME NEW x \in StoredLanes
      PROVE  x \in Nat \X Words
  <2>1. PICK st \in Stores : x \in {LogCalls(st)[i] : i \in DOMAIN LogCalls(st)}
    BY <1>2 DEF StoredLanes
  <2> QED
    BY <2>1, <1>1
<1> QED
  BY <1>1, <1>2

\* A request is for at least one byte, and the allocator gives at least that.
LEMMA SizeLemma ==
  ASSUME NEW n \in Sizes
  PROVE  /\ AtLeastOne(n) \in Nat /\ AtLeastOne(n) > 0
         /\ AtLeastOne(n) \in Sizes \cup {1}
         /\ Usable(AtLeastOne(n)) \in Nat /\ Usable(AtLeastOne(n)) >= AtLeastOne(n)
BY ConstantsOK DEF AtLeastOne

\* What the handlers do to the tree keeps it a tree of sizes.
LEMMA TrackLemma ==
  ASSUME NEW t \in [Start -> Nat], NEW p \in Start, NEW n \in Nat
  PROVE  /\ InsertBlock(t, p, n) \in [Start -> Nat]
         /\ NewTracked(t, p, n) \in [Start -> Nat]
         /\ DieTracked(t, p) \in [Start -> Nat]
BY DEF InsertBlock, NewTracked, DieTracked

\* The tracker keeps its types, and add_to_buffer never runs off the end of
\* log_buffer.
THEOREM TypeCorrect == Spec => [](TypeOK /\ BufferHasRoom)
<1> USE DEF BufferHasRoom
<1>1. Init => TypeOK /\ BufferHasRoom
  BY ConstantsOK DEF Init, TypeOK
<1>2. TypeOK /\ BufferHasRoom /\ [Next]_vars => TypeOK' /\ BufferHasRoom'
  <2> SUFFICES ASSUME TypeOK, BufferHasRoom, [Next]_vars
               PROVE  TypeOK' /\ BufferHasRoom'
    OBVIOUS
  <2> USE DEF TypeOK
  <2>0. log \in LogType /\ Payloads \subseteq Nat
    BY ConstantsOK DEF LogType
  <2>1. ASSUME NEW p \in Payloads, NEW n \in Sizes, NewBlock(p, n)
        PROVE  TypeOK' /\ BufferHasRoom'
    BY <2>0, <2>1, NewLogLemma, StartLemma, SizeLemma, TrackLemma, Zenon DEF NewBlock, LogType
  <2>2. ASSUME NEW p \in Payloads, DieBlock(p)
        PROVE  TypeOK' /\ BufferHasRoom'
    BY <2>0, <2>2, DieLogLemma, StartLemma, TrackLemma, Zenon DEF DieBlock, LogType
  <2>3. ASSUME NEW p \in Payloads, NEW q \in Payloads, NEW n \in Sizes, Realloc(p, q, n)
        PROVE  TypeOK' /\ BufferHasRoom'
    <3> DEFINE k == AtLeastOne(n)
               t == NewTracked(tracked, q, k)
               l == NewLog(log, q, k)
    <3>1. k \in Nat /\ p \in Start /\ q \in Start /\ p \in Nat /\ q \in Nat
      BY <2>0, StartLemma, SizeLemma
    <3>2. t \in [Start -> Nat]
      BY <3>1, TrackLemma, SMTT(30)
    <3>3. l \in LogType /\ Len(l.buf) < MaxLogEntries
      BY <2>0, <3>1, NewLogLemma
    <3>4. /\ heap' = [heap EXCEPT ![q] = k, ![p] = 0]
          /\ tracked' = DieTracked(t, p)
          /\ log' = DieLog(l, t, p)
          /\ UNCHANGED <<todo, process, asked>>
      BY <2>3 DEF Realloc
    <3> HIDE DEF k, t, l
    <3>5. tracked' \in [Start -> Nat]
      BY <3>1, <3>2, <3>4, TrackLemma, SMTT(30)
    <3>6. log' \in LogType /\ Len(log'.buf) < MaxLogEntries
      BY <3>1, <3>2, <3>3, <3>4, DieLogLemma, SMTT(30)
    <3>7. heap' \in [Payloads -> Nat]
      BY <3>1, <3>4
    <3> QED
      BY <3>4, <3>5, <3>6, <3>7, Zenon DEF LogType
  <2>4. ASSUME NEW r \in Regions, TrackBlock(r)
        PROVE  TypeOK' /\ BufferHasRoom'
    <3>1. AllocEvent(r[1], r[2]) \in Event
      BY StartLemma DEF AllocEvent, Event
    <3>2. log' \in LogType /\ Len(log'.buf) < MaxLogEntries
      BY <2>0, <2>4, <3>1, AddLemma DEF TrackBlock
    <3>3. tracked' \in [Start -> Nat]
      BY <2>4, StartLemma, TrackLemma, Zenon DEF TrackBlock
    <3> QED
      BY <2>4, <3>2, <3>3 DEF TrackBlock, LogType
  <2>5. ASSUME NEW r \in Regions, UntrackBlock(r[1])
        PROVE  TypeOK' /\ BufferHasRoom'
    <3>1. log' \in LogType /\ Len(log'.buf) < MaxLogEntries
      BY <2>0, <2>5, StartLemma, DieLogLemma DEF UntrackBlock
    <3>2. tracked' \in [Start -> Nat]
      BY <2>5, StartLemma, TrackLemma DEF UntrackBlock
    <3> QED
      BY <2>5, <3>1, <3>2 DEF UntrackBlock, LogType
  <2>6. ASSUME NEW st \in Stores, Store(st)
        PROVE  TypeOK' /\ BufferHasRoom'
    BY <2>6, LanesLemma DEF Store
  <2>7. CASE LogStore
    <3> DEFINE a == Head(todo)[1]
               v == Head(todo)[2]
    <3>1. Head(todo) \in Nat \X Words /\ Tail(todo) \in Seq(StoredLanes)
      BY <2>7, LanesLemma DEF LogStore
    <3>2. StoreEvent(a, v) \in Event
      BY <3>1 DEF StoreEvent, Event
    <3>3. log' \in LogType /\ Len(log'.buf) < MaxLogEntries
      BY <2>0, <2>7, <3>2, AddLemma DEF LogStore
    <3> QED
      BY <2>7, <3>1, <3>3 DEF LogStore, LogType
  <2>8. CASE Fini
    <3>1. log' \in LogType /\ Len(log'.buf) < MaxLogEntries
      BY <2>0, <2>8, FlushLemma, ConstantsOK DEF Fini
    <3>2. tracked' \in [Start -> Nat]
      BY <2>8 DEF Fini
    <3> QED
      BY <2>8, <3>1, <3>2 DEF Fini, LogType
  <2>9. CASE Kill
    <3>1. log' \in LogType /\ Len(log'.buf) < MaxLogEntries
      <4>1. PICK k \in 0 .. Len(log.buf) :
               log' = [buf |-> <<>>, out |-> log.out \o SubSeq(log.buf, 1, k)]
        BY <2>9, Zenon DEF Kill
      <4>2. log.out \o SubSeq(log.buf, 1, k) \in Seq(Event)
        BY <2>0, KillTrace, ConcatProperties DEF LogType
      <4> QED
        BY <4>1, <4>2, ConstantsOK DEF LogType
    <3>2. tracked' \in [Start -> Nat]
      BY <2>9 DEF Kill
    <3>3. todo' \in Seq(StoredLanes)
      BY <2>9, EmptySeq DEF Kill
    <3>4. process' \in {"running", "exited", "killed"}
      BY <2>9 DEF Kill
    <3> QED
      BY <2>9, <3>1, <3>2, <3>3, <3>4 DEF Kill, LogType
  <2>10. CASE UNCHANGED vars
    BY <2>10 DEF vars
  <2> QED
    BY <2>1, <2>2, <2>3, <2>4, <2>5, <2>6, <2>7, <2>8, <2>9, <2>10 DEF Next
<1> QED
  BY <1>1, <1>2, PTL DEF Spec

(***************************************************************************)
(* The tree agrees with the heap and the client's requests.                *)
(***************************************************************************)

\* die_block and UNTRACK delete the node with key p if there is one.
LEMMA DieLemma ==
  ASSUME NEW t \in [Start -> Nat], NEW p \in Start
  PROVE  /\ FindBlock(t, p, p) <=> t[p] > 0
         /\ DieTracked(t, p) = [t EXCEPT ![p] = 0]
<1>1. p \in Nat /\ t[p] \in Nat
  BY StartLemma
<1>2. FindBlock(t, p, p) <=> t[p] > 0
  BY <1>1, StartLemma DEF FindBlock, SearchLeq
<1>3. t[p] = 0 => t = [t EXCEPT ![p] = 0]
  OBVIOUS
<1>4. CASE t[p] > 0
  <2>1. FindBlock(t, p, p)
    BY <1>2, <1>4
  <2> QED
    BY <1>2, <2>1 DEF DieTracked
<1>5. CASE t[p] = 0
  <2>1. ~FindBlock(t, p, p)
    BY <1>2, <1>5
  <2>2. DieTracked(t, p) = t
    BY <2>1 DEF DieTracked
  <2> QED
    BY <1>2, <1>3, <1>5, <2>2
<1> QED
  BY <1>1, <1>4, <1>5

\* Regions that lie apart start outside the arena, at different addresses.
LEMMA ApartLemma ==
  ASSUME RegionsApart
  PROVE  /\ \A r \in Regions : r[1] \notin Payloads
         /\ \A r, s \in Regions : r[1] = s[1] => r = s
<1>1. ASSUME NEW r \in Regions, r[1] \in Payloads
      PROVE  FALSE
  BY <1>1, StartLemma, ConstantsOK DEF RegionsApart
<1>2. ASSUME NEW r \in Regions, NEW s \in Regions, r[1] = s[1], r # s
      PROVE  FALSE
  BY <1>2, StartLemma DEF RegionsApart
<1> QED
  BY <1>1, <1>2

\* A block allocated where it fits keeps live blocks apart.
LEMMA HeapApartLemma ==
  ASSUME TypeOK, HeapApart, NEW q \in Payloads, NEW n \in Sizes \cup {1}, n > 0,
         Fits(q, n), heap' = [heap EXCEPT ![q] = n]
  PROVE  HeapApart'
<1>1. heap \in [Payloads -> Nat] /\ Payloads \subseteq Nat
  BY ConstantsOK DEF TypeOK
<1>2. \A m \in Sizes \cup {1} : Usable(m) \in Nat
  BY ConstantsOK
<1> QED
  BY <1>1, <1>2, ConstantsOK DEF HeapApart, Fits

\* Freeing a block keeps the others apart.
LEMMA HeapFreeLemma ==
  ASSUME TypeOK, HeapApart, NEW p \in Payloads, heap' = [heap EXCEPT ![p] = 0]
  PROVE  HeapApart'
BY DEF HeapApart, TypeOK

\* So does moving one.
LEMMA HeapMoveLemma ==
  ASSUME TypeOK, HeapApart, NEW p \in Payloads, NEW q \in Payloads,
         NEW n \in Sizes \cup {1}, n > 0, heap[p] > 0,
         Fits(q, n), heap' = [heap EXCEPT ![q] = n, ![p] = 0]
  PROVE  HeapApart'
<1>1. heap \in [Payloads -> Nat] /\ Payloads \subseteq Nat
  BY ConstantsOK DEF TypeOK
<1>2. \A m \in Sizes \cup {1} : Usable(m) \in Nat
  BY ConstantsOK
<1> QED
  BY <1>1, <1>2, ConstantsOK DEF HeapApart, Fits

\* Provided the client's regions lie apart from each other and from the
\* arena, the tree, the heap and the client's requests always agree.
THEOREM TrackerConsistent ==
  ASSUME RegionsApart
  PROVE  Spec => []Consistent
<1>1. Init => Consistent
  <2> SUFFICES ASSUME Init PROVE Consistent
    OBVIOUS
  <2>1. HeapApart
    BY ConstantsOK DEF Init, HeapApart
  <2>2. HeapTracked /\ RegionsTracked
    BY ConstantsOK, StartLemma DEF Init, HeapTracked, RegionsTracked
  <2> QED
    BY <2>1, <2>2 DEF Init, Consistent
<1>2. TypeOK /\ Consistent /\ [Next]_vars => Consistent'
  <2> SUFFICES ASSUME TypeOK, Consistent, [Next]_vars
               PROVE  Consistent'
    OBVIOUS
  <2>0. /\ heap \in [Payloads -> Nat] /\ tracked \in [Start -> Nat]
        /\ Payloads \subseteq Nat /\ MinBlockSize \in Nat /\ MinBlockSize > 0
        /\ asked \subseteq Regions /\ HeapApart
    BY ConstantsOK DEF TypeOK, Consistent
  <2>1. ASSUME NEW p \in Payloads, NEW n \in Sizes, NewBlock(p, n)
        PROVE  Consistent'
    <3> DEFINE k == AtLeastOne(n)
    <3>1. /\ process = "running" /\ process' = "running" /\ Fits(p, k) /\ asked' = asked
          /\ heap' = [heap EXCEPT ![p] = k]
          /\ tracked' = IF k >= MinBlockSize THEN InsertBlock(tracked, p, k) ELSE tracked
      BY <2>1 DEF NewBlock, NewTracked
    <3>2. k \in Nat /\ k > 0 /\ k \in Sizes \cup {1} /\ p \in Start
      BY SizeLemma, StartLemma
    <3> HIDE DEF k
    <3>3. HeapTracked /\ RegionsTracked /\ tracked[p] = 0
      BY <2>0, <3>1 DEF Consistent, HeapTracked, Fits
    <3>4. tracked' = IF k >= MinBlockSize THEN [tracked EXCEPT ![p] = k] ELSE tracked
      BY <3>1, <3>3 DEF InsertBlock
    <3>5. HeapApart'
      BY <2>0, <3>1, <3>2, HeapApartLemma, Zenon
    <3>6. HeapTracked'
      BY <2>0, <3>1, <3>2, <3>3, <3>4, StartLemma DEF HeapTracked
    <3>7. RegionsTracked'
      BY <2>0, <3>1, <3>2, <3>3, <3>4, StartLemma, ApartLemma DEF RegionsTracked
    <3> QED
      BY <3>1, <3>5, <3>6, <3>7 DEF Consistent
  <2>2. ASSUME NEW p \in Payloads, DieBlock(p)
        PROVE  Consistent'
    <3>1. /\ process = "running" /\ process' = "running" /\ asked' = asked
          /\ heap' = [heap EXCEPT ![p] = 0]
          /\ tracked' = [tracked EXCEPT ![p] = 0]
      BY <2>0, <2>2, StartLemma, DieLemma DEF DieBlock
    <3>2. HeapTracked /\ RegionsTracked
      BY <3>1 DEF Consistent
    <3>3. HeapApart'
      BY <2>0, <3>1, HeapFreeLemma, Zenon
    <3>4. HeapTracked'
      BY <2>0, <3>1, <3>2, StartLemma DEF HeapTracked
    <3>5. RegionsTracked'
      BY <2>0, <3>1, <3>2, StartLemma, ApartLemma DEF RegionsTracked
    <3> QED
      BY <3>1, <3>3, <3>4, <3>5 DEF Consistent
  <2>3. ASSUME NEW p \in Payloads, NEW q \in Payloads, NEW n \in Sizes, Realloc(p, q, n)
        PROVE  Consistent'
    <3> DEFINE k == AtLeastOne(n)
               t == NewTracked(tracked, q, k)
    <3>1. /\ process = "running" /\ process' = "running" /\ Fits(q, k) /\ asked' = asked /\ heap[p] > 0
          /\ heap' = [heap EXCEPT ![q] = k, ![p] = 0]
          /\ tracked' = DieTracked(t, p)
      BY <2>3 DEF Realloc
    <3>2. /\ k \in Nat /\ k > 0 /\ k \in Sizes \cup {1} 
          /\ p \in Start /\ q \in Start /\ heap[q] = 0 /\ p # q
      BY <3>1, SizeLemma, StartLemma DEF Fits
    <3> HIDE DEF k
    <3>3. HeapTracked /\ RegionsTracked /\ tracked[q] = 0
      BY <2>0, <3>1, <3>2 DEF Consistent, HeapTracked
    <3>4. t = IF k >= MinBlockSize THEN [tracked EXCEPT ![q] = k] ELSE tracked
      BY <3>3 DEF NewTracked, InsertBlock
    <3>5. t \in [Start -> Nat]
      BY <2>0, <3>2, TrackLemma, Zenon
    <3> HIDE DEF t
    <3>6. tracked' = [t EXCEPT ![p] = 0]
      BY <3>1, <3>2, <3>5, DieLemma
    <3>7. HeapApart'
      BY <2>0, <3>1, <3>2, HeapMoveLemma, Zenon
    <3>8. HeapTracked'
      BY <2>0, <3>1, <3>2, <3>3, <3>4, <3>6, StartLemma, Zenon DEF HeapTracked
    <3>9. RegionsTracked'
      <4>1. \A a \in Start \ Payloads : tracked'[a] = tracked[a]
        BY <2>0, <3>2, <3>4, <3>6
      <4>2. \A r \in asked : r[1] \in Start \ Payloads
        BY <2>0, StartLemma, ApartLemma
      <4> QED
        BY <3>1, <3>3, <4>1, <4>2 DEF RegionsTracked
    <3> QED
      BY <3>1, <3>7, <3>8, <3>9 DEF Consistent
  <2>4. ASSUME NEW r \in Regions, TrackBlock(r)
        PROVE  Consistent'
    <3>1. /\ process = "running" /\ process' = "running" /\ heap' = heap /\ asked' = asked \cup {r}
          /\ tracked' = IF tracked[r[1]] > 0 THEN tracked ELSE [tracked EXCEPT ![r[1]] = r[2]]
      BY <2>4 DEF TrackBlock, InsertBlock
    <3>2. HeapTracked /\ RegionsTracked
      BY <3>1 DEF Consistent
    <3>3. r[1] \in Start \ Payloads /\ r[1] \in Nat /\ r[2] \in Nat /\ r[2] > 0
      BY StartLemma, ApartLemma
    <3>4. tracked[r[1]] > 0 => tracked[r[1]] = r[2]
      BY <2>0, <3>2, <3>3, ApartLemma, Zenon DEF RegionsTracked
    <3>5. HeapApart' /\ HeapTracked'
      BY <2>0, <3>1, <3>2, <3>3, StartLemma DEF HeapApart, HeapTracked
    <3>6. tracked'[r[1]] = r[2] /\ \A a \in Start : a # r[1] => tracked'[a] = tracked[a]
      BY <2>0, <3>1, <3>3, <3>4
    <3>7. r = <<r[1], r[2]>>
      BY ConstantsOK
    <3>8. RegionsTracked'
      BY <2>0, <3>1, <3>2, <3>3, <3>6, <3>7, StartLemma, ApartLemma DEF RegionsTracked
    <3> QED
      BY <3>1, <3>5, <3>8 DEF Consistent
  <2>5. ASSUME NEW r \in Regions, UntrackBlock(r[1])
        PROVE  Consistent'
    <3>1. /\ process = "running" /\ process' = "running" /\ heap' = heap
          /\ asked' = {s \in asked : s[1] # r[1]}
          /\ tracked' = [tracked EXCEPT ![r[1]] = 0]
      BY <2>0, <2>5, StartLemma, DieLemma, Zenon DEF UntrackBlock
    <3>2. HeapTracked /\ RegionsTracked
      BY <3>1 DEF Consistent
    <3>3. r[1] \in Start \ Payloads
      BY StartLemma, ApartLemma
    <3>4. HeapApart' /\ HeapTracked'
      BY <2>0, <3>1, <3>2, <3>3, StartLemma DEF HeapApart, HeapTracked
    <3>5. RegionsTracked'
      BY <2>0, <3>1, <3>2, <3>3, StartLemma DEF RegionsTracked
    <3> QED
      BY <3>1, <3>4, <3>5 DEF Consistent
  <2>6. ASSUME NEW st \in Stores, Store(st)
        PROVE  Consistent'
    BY <2>6 DEF Store, Consistent, HeapApart, HeapTracked, RegionsTracked
  <2>7. CASE LogStore
    BY <2>7 DEF LogStore, Consistent, HeapApart, HeapTracked, RegionsTracked
  <2>8. CASE Fini
    BY <2>8 DEF Fini, Consistent, HeapApart
  <2>9. CASE Kill
    BY <2>9 DEF Kill, Consistent, HeapApart
  <2>10. CASE UNCHANGED vars
    BY <2>10 DEF vars, Consistent, HeapApart, HeapTracked, RegionsTracked
  <2> QED
    BY <2>1, <2>2, <2>3, <2>4, <2>5, <2>6, <2>7, <2>8, <2>9, <2>10 DEF Next
<1> QED
  BY <1>1, <1>2, TypeCorrect, PTL DEF Spec

(***************************************************************************)
(* The lookup is exact.                                                    *)
(***************************************************************************)

\* Tracked blocks do not overlap.
LEMMA TrackedApart ==
  ASSUME RegionsApart, TypeOK, Consistent,
         NEW p \in Start, NEW q \in Start,
         tracked[p] > 0, tracked[q] > 0, p # q
  PROVE  p + tracked[p] <= q \/ q + tracked[q] <= p
<1>0. /\ heap \in [Payloads -> Nat] /\ tracked \in [Start -> Nat]
      /\ Payloads \subseteq Nat /\ MinBlockSize \in Nat /\ MinBlockSize > 0
      /\ p \in Nat /\ q \in Nat /\ ArenaLo \in Nat /\ ArenaHi \in Nat
      /\ asked \subseteq Regions
  BY ConstantsOK, StartLemma DEF TypeOK
<1>1. HeapApart /\ HeapTracked /\ RegionsTracked
  BY <1>0 DEF Consistent
<1>2. \A a \in Payloads : tracked[a] > 0 =>
         /\ heap[a] > 0 /\ tracked[a] = heap[a]
         /\ ArenaLo <= a /\ Usable(heap[a]) \in Nat
         /\ heap[a] <= Usable(heap[a]) /\ a + Usable(heap[a]) <= ArenaHi
  BY <1>0, <1>1, ConstantsOK DEF HeapApart, HeapTracked
<1>3. \A a \in Start \ Payloads : tracked[a] > 0 =>
         /\ <<a, tracked[a]>> \in Regions
         /\ a + tracked[a] <= ArenaLo \/ ArenaHi <= a
  BY <1>0, <1>1 DEF RegionsTracked, RegionsApart
<1>4. CASE p \in Payloads /\ q \in Payloads
  BY <1>0, <1>1, <1>2, <1>4 DEF HeapApart
<1>5. CASE p \in Payloads /\ q \notin Payloads
  <2>1. ArenaLo <= p /\ p + tracked[p] <= ArenaHi
    BY <1>0, <1>2, <1>5
  <2>2. q + tracked[q] <= ArenaLo \/ ArenaHi <= q
    BY <1>3, <1>5, Zenon
  <2> QED
    BY <1>0, <2>1, <2>2
<1>6. CASE p \notin Payloads /\ q \in Payloads
  <2>1. ArenaLo <= q /\ q + tracked[q] <= ArenaHi
    BY <1>0, <1>2, <1>6
  <2>2. p + tracked[p] <= ArenaLo \/ ArenaHi <= p
    BY <1>3, <1>6, Zenon
  <2> QED
    BY <1>0, <2>1, <2>2
<1>7. CASE p \notin Payloads /\ q \notin Payloads
  <2>1. <<p, tracked[p]>> \in Regions /\ <<q, tracked[q]>> \in Regions
    BY <1>3, <1>7
  <2>2. <<p, tracked[p]>> # <<q, tracked[q]>>
    OBVIOUS
  <2> QED
    BY <2>1, <2>2 DEF RegionsApart
<1> QED
  BY <1>4, <1>5, <1>6, <1>7

\* With no overlaps, rb_search_leq finds the block that contains an address
\* whenever there is one.
LEMMA FindIsContains ==
  ASSUME RegionsApart, TypeOK, Consistent, NEW a \in Nat, NEW p \in Start
  PROVE  FindBlock(tracked, p, a) <=> tracked[p] > 0 /\ p <= a /\ a < p + tracked[p]
<1>1. tracked \in [Start -> Nat] /\ Start \subseteq Nat
  BY StartLemma DEF TypeOK
<1>2. ASSUME tracked[p] > 0, p <= a, a < p + tracked[p],
             NEW q \in Start, tracked[q] > 0, q <= a
      PROVE  q <= p
  BY <1>1, <1>2, TrackedApart
<1> QED
  BY <1>1, <1>2 DEF FindBlock, SearchLeq

\* log_store finds a block at exactly the addresses of the watched blocks.
LEMMA LookupLemma ==
  ASSUME RegionsApart, TypeOK, Consistent, NEW a \in Nat
  PROVE  IsTracked(a) <=> InWatchedBlock(a)
<1>0. /\ tracked \in [Start -> Nat] /\ heap \in [Payloads -> Nat]
      /\ asked \subseteq Regions /\ MinBlockSize \in Nat /\ MinBlockSize > 0
      /\ Start \subseteq Nat /\ Payloads \subseteq Start
  BY StartLemma, ConstantsOK DEF TypeOK
<1>1. IsTracked(a) <=> \E p \in Start : tracked[p] > 0 /\ p <= a /\ a < p + tracked[p]
  BY FindIsContains DEF IsTracked
<1>2. CASE process # "running"
  BY <1>0, <1>1, <1>2 DEF Consistent, InWatchedBlock, WatchedBlocks
<1>3. CASE process = "running"
  <2>0. HeapTracked /\ RegionsTracked
    BY <1>3 DEF Consistent
  <2>1. ASSUME NEW p \in Start, tracked[p] > 0, p <= a, a < p + tracked[p]
        PROVE  InWatchedBlock(a)
    <3>1. <<p, tracked[p]>> \in WatchedBlocks
      <4>1. CASE p \in Payloads
        BY <1>0, <1>3, <2>0, <2>1, <4>1 DEF HeapTracked, WatchedBlocks
      <4>2. CASE p \notin Payloads
        BY <1>3, <2>0, <2>1, <4>2 DEF RegionsTracked, WatchedBlocks
      <4> QED
        BY <4>1, <4>2
    <3> QED
      BY <2>1, <3>1 DEF InWatchedBlock
  <2>2. ASSUME NEW b \in WatchedBlocks, b[1] <= a, a < b[1] + b[2]
        PROVE  \E p \in Start : tracked[p] > 0 /\ p <= a /\ a < p + tracked[p]
    <3>1. CASE b \in asked
      <4>1. b[1] \in Start /\ tracked[b[1]] = b[2] /\ b[2] \in Nat /\ b[2] > 0
        BY <1>0, <2>0, <3>1, StartLemma DEF RegionsTracked
      <4> QED
        BY <2>2, <4>1
    <3>2. CASE b \notin asked
      <4>1. PICK p \in Payloads : heap[p] >= MinBlockSize /\ b = <<p, heap[p]>>
        BY <1>3, <2>2, <3>2 DEF WatchedBlocks
      <4>2. tracked[p] = heap[p] /\ tracked[p] > 0
        BY <1>0, <2>0, <4>1 DEF HeapTracked
      <4> QED
        BY <1>0, <2>2, <4>1, <4>2
    <3> QED
      BY <3>1, <3>2
  <2> QED
    BY <1>1, <2>1, <2>2 DEF InWatchedBlock
<1> QED
  BY <1>2, <1>3 DEF TypeOK

\* Provided the client's regions lie apart, the lookup of log_store is exact
\* in every state, at every address of the arena and of the regions.
THEOREM LookupAlwaysExact ==
  ASSUME RegionsApart
  PROVE  Spec => []LookupExact
<1>1. TypeOK /\ Consistent => LookupExact
  <2> SUFFICES ASSUME TypeOK, Consistent PROVE LookupExact
    OBVIOUS
  <2>1. \A a \in ArenaLo .. ArenaHi : a \in Nat
    BY ConstantsOK
  <2>2. \A r \in Regions : \A a \in r[1] .. (r[1] + r[2]) : a \in Nat
    BY StartLemma
  <2> QED
    BY <2>1, <2>2, LookupLemma DEF LookupExact
<1> QED
  BY <1>1, TypeCorrect, TrackerConsistent, PTL

\* Provided the client's regions lie apart, realloc never loses bytes of the
\* old block nor reads beyond it.
THEOREM ReallocAlwaysCopies ==
  ASSUME RegionsApart
  PROVE  Spec => []ReallocCopiesBlock
<1>1. TypeOK /\ Consistent => ReallocCopiesBlock
  <2> SUFFICES ASSUME TypeOK, Consistent, process = "running",
                      NEW p \in Payloads, NEW n \in Sizes, heap[p] > 0
               PROVE  /\ Lesser(heap[p], n) <= Copied(p, n)
                      /\ Copied(p, n) <= Lesser(Usable(heap[p]), n)
    BY DEF ReallocCopiesBlock
  <2>0. /\ tracked \in [Start -> Nat] /\ heap[p] \in Nat /\ n \in Nat
        /\ p \in Start /\ p \in Nat /\ Start \subseteq Nat
        /\ MinBlockSize \in Nat /\ MinBlockSize > 0
    BY StartLemma, ConstantsOK DEF TypeOK
  <2>1. Usable(heap[p]) \in Nat /\ heap[p] <= Usable(heap[p])
    BY <2>0, ConstantsOK DEF Consistent, HeapApart
  <2>2. HeapTracked
    BY DEF Consistent
  <2>3. OldSize(p) = heap[p] \/ OldSize(p) = Usable(heap[p])
    <3>1. CASE IsTracked(p)
      <4> DEFINE q == CHOOSE q \in Start : FindBlock(tracked, q, p)
      <4>1. q \in Start /\ FindBlock(tracked, q, p)
        BY <3>1 DEF IsTracked
      <4>2. OldSize(p) = tracked[q]
        BY <3>1 DEF OldSize
      <4> HIDE DEF q
      <4>3. tracked[q] > 0 /\ q <= p /\ p < q + tracked[q]
        BY <2>0, <4>1, FindIsContains
      <4>4. CASE q = p
        BY <2>0, <2>2, <4>2, <4>3, <4>4 DEF HeapTracked
      <4>5. CASE q # p /\ q \in Payloads
        <5>1. tracked[q] = heap[q] /\ heap[q] > 0 /\ heap[q] \in Nat
          BY <2>0, <2>2, <4>3, <4>5 DEF HeapTracked, TypeOK
        <5>2. Usable(heap[q]) \in Nat /\ heap[q] <= Usable(heap[q])
          BY <4>5, <5>1, ConstantsOK DEF Consistent, HeapApart
        <5>3. p + Usable(heap[p]) <= q \/ q + Usable(heap[q]) <= p
          BY <4>5, <5>1 DEF Consistent, HeapApart
        <5> QED
          BY <2>0, <2>1, <4>1, <4>3, <4>5, <5>1, <5>2, <5>3
      <4>6. CASE q # p /\ q \notin Payloads
        <5>1. <<q, tracked[q]>> \in Regions
          BY <4>1, <4>3, <4>6 DEF Consistent, RegionsTracked, TypeOK
        <5>2. q + tracked[q] <= ArenaLo \/ ArenaHi <= q
          BY <5>1 DEF RegionsApart
        <5> QED
          BY <2>0, <4>1, <4>3, <5>2, ConstantsOK
      <4> QED
        BY <4>4, <4>5, <4>6
    <3>2. CASE ~IsTracked(p)
      BY <3>2 DEF OldSize
    <3> QED
      BY <3>1, <3>2
  <2> QED
    BY <2>0, <2>1, <2>3 DEF Copied, Lesser
<1> QED
  BY <1>1, TypeCorrect, TrackerConsistent, PTL

(***************************************************************************)
(* The tracker implements the unbuffered event log.                        *)
(***************************************************************************)

\* What may be watched is a block of the abstract log.
LEMMA BlocksLemma ==
  /\ \A p \in Payloads, n \in Sizes : <<p, AtLeastOne(n)>> \in Blocks
  /\ Regions \subseteq Blocks
BY SizeLemma DEF Blocks

\* Printing and keeping one more event extends the trace by it.
LEMMA NewTrace ==
  ASSUME NEW l \in LogType, NEW p \in Nat, NEW n \in Nat
  PROVE  Trace(NewLog(l, p, n)) =
            IF n >= MinBlockSize THEN Append(Trace(l), AllocEvent(p, n)) ELSE Trace(l)
<1>1. AllocEvent(p, n) \in Event
  BY DEF AllocEvent, Event
<1> QED
  BY <1>1, AddLemma, Zenon DEF NewLog

\* The death of a tracked block extends the trace by its FREE event.
LEMMA DieTrace ==
  ASSUME NEW l \in LogType, NEW t \in [Start -> Nat], NEW p \in Start
  PROVE  Trace(DieLog(l, t, p)) =
            IF t[p] > 0 THEN Append(Trace(l), FreeEvent(p, t[p])) ELSE Trace(l)
<1>1. FreeEvent(p, t[p]) \in Event
  BY StartLemma DEF FreeEvent, Event
<1>2. FindBlock(t, p, p) <=> t[p] > 0
  BY DieLemma
<1>3. CASE t[p] > 0
  BY <1>1, <1>2, <1>3, AddLemma DEF DieLog
<1>4. CASE ~(t[p] > 0)
  BY <1>2, <1>4 DEF DieLog
<1> QED
  BY <1>3, <1>4

\* Provided the client's regions lie apart, buffering and the tree are
\* invisible: Memlog implements the event log that writes every event at once
\* and looks every block up directly.
THEOREM Refinement ==
  ASSUME RegionsApart
  PROVE  Spec => ImplementsEventLog
<1>0. EL!vars = <<WatchedBlocks, Trace(log), process>>
  BY DEF EL!vars, Trace
<1>1. Init => EL!Init
  <2> SUFFICES ASSUME Init PROVE EL!Init
    OBVIOUS
  <2>1. WatchedBlocks = {}
    BY ConstantsOK DEF Init, WatchedBlocks
  <2>2. log.out \o log.buf = <<>>
    BY DEF Init
  <2> QED
    BY <2>1, <2>2 DEF Init, EL!Init
<1>2. /\ TypeOK /\ BufferHasRoom /\ Consistent /\ TypeOK'
      /\ [Next]_vars
      => [EL!Next]_(EL!vars)
  <2> SUFFICES ASSUME TypeOK, BufferHasRoom, Consistent, TypeOK', [Next]_vars
               PROVE  EL!Next \/ UNCHANGED EL!vars
    OBVIOUS
  <2>0. /\ heap \in [Payloads -> Nat] /\ tracked \in [Start -> Nat] /\ log \in LogType
        /\ Payloads \subseteq Nat /\ MinBlockSize \in Nat /\ MinBlockSize > 0
        /\ asked \subseteq Regions
    BY ConstantsOK DEF TypeOK, LogType
  <2>00. \A r \in asked : r[1] \notin Payloads
    BY <2>0, ApartLemma
  <2>1. ASSUME NEW p \in Payloads, NEW n \in Sizes, NewBlock(p, n)
        PROVE  EL!Next \/ UNCHANGED EL!vars
    <3> DEFINE k == AtLeastOne(n)
    <3>1. /\ process = "running" /\ process' = process /\ asked' = asked /\ heap[p] = 0
          /\ heap' = [heap EXCEPT ![p] = k]
          /\ log' = NewLog(log, p, k)
      BY <2>1 DEF NewBlock, Fits
    <3>2. k \in Nat /\ <<p, k>> \in Blocks /\ p \in Nat
      BY <2>0, SizeLemma, BlocksLemma
    <3> HIDE DEF k
    <3>3. Trace(log') = IF k >= MinBlockSize
                        THEN Append(Trace(log), AllocEvent(p, k)) ELSE Trace(log)
      BY <2>0, <3>1, <3>2, NewTrace
    <3>4. CASE k >= MinBlockSize
      <4>1. WatchedBlocks' = WatchedBlocks \cup {<<p, k>>}
        BY <2>0, <3>1, <3>4 DEF WatchedBlocks
      <4>2. EL!Open(<<p, k>>)
        BY <3>1, <3>3, <3>4, <4>1, Zenon DEF EL!Open, EL!AllocEvent, AllocEvent, Trace
      <4> QED
        BY <3>2, <4>2 DEF EL!Next
    <3>5. CASE ~(k >= MinBlockSize)
      <4>1. WatchedBlocks' = WatchedBlocks
        BY <2>0, <3>1, <3>2, <3>5 DEF WatchedBlocks
      <4> QED
        BY <1>0, <3>1, <3>3, <3>5, <4>1, Zenon DEF EL!vars, Trace
    <3> QED
      BY <3>4, <3>5
  <2>2. ASSUME NEW p \in Payloads, DieBlock(p)
        PROVE  EL!Next \/ UNCHANGED EL!vars
    <3>1. /\ process = "running" /\ process' = process /\ asked' = asked /\ heap[p] > 0
          /\ heap' = [heap EXCEPT ![p] = 0]
          /\ log' = DieLog(log, tracked, p)
          /\ tracked[p] = IF heap[p] >= MinBlockSize THEN heap[p] ELSE 0
      BY <2>2 DEF DieBlock, Consistent, HeapTracked
    <3>2. /\ p \in Start /\ heap[p] \in Nat /\ <<p, heap[p]>> \in Blocks
      BY <2>0, <3>1, StartLemma DEF Consistent, HeapApart, Blocks
    <3>3. Trace(log') = IF heap[p] >= MinBlockSize
                        THEN Append(Trace(log), FreeEvent(p, heap[p])) ELSE Trace(log)
      BY <2>0, <3>1, <3>2, DieTrace
    <3>4. CASE heap[p] >= MinBlockSize
      <4>1. /\ <<p, heap[p]>> \in WatchedBlocks
            /\ WatchedBlocks' = WatchedBlocks \ {<<p, heap[p]>>}
        BY <2>0, <2>00, <3>1, <3>4, SMTT(30) DEF WatchedBlocks
      <4>2. EL!Close(<<p, heap[p]>>)
        BY <3>1, <3>3, <3>4, <4>1, Zenon DEF EL!Close, EL!FreeEvent, FreeEvent, Trace
      <4> QED
        BY <3>2, <4>2 DEF EL!Next
    <3>5. CASE ~(heap[p] >= MinBlockSize)
      <4>1. WatchedBlocks' = WatchedBlocks
        BY <2>0, <3>1, <3>5 DEF WatchedBlocks
      <4> QED
        BY <3>1, <3>3, <3>5, <4>1, Zenon DEF EL!vars, Trace
    <3> QED
      BY <3>4, <3>5
  <2>3. ASSUME NEW p \in Payloads, NEW q \in Payloads, NEW n \in Sizes, Realloc(p, q, n)
        PROVE  EL!Next \/ UNCHANGED EL!vars
    <3> DEFINE k == AtLeastOne(n)
               t == NewTracked(tracked, q, k)
               l == NewLog(log, q, k)
               b == <<p, heap[p]>>
               c == <<q, k>>
    <3>1. /\ process = "running" /\ process' = process /\ asked' = asked
          /\ heap[p] > 0 /\ heap[q] = 0
          /\ heap' = [heap EXCEPT ![q] = k, ![p] = 0]
          /\ log' = DieLog(l, t, p)
          /\ HeapTracked
      BY <2>3 DEF Realloc, Fits, Consistent
    <3>2. /\ k \in Nat /\ c \in Blocks /\ p \in Start /\ q \in Start /\ q \in Nat
          /\ p # q /\ heap[p] \in Nat /\ b \in Blocks
      BY <2>0, <3>1, SizeLemma, BlocksLemma, StartLemma DEF Consistent, HeapApart, Blocks
    <3>3. t[p] = IF heap[p] >= MinBlockSize THEN heap[p] ELSE 0
      BY <2>0, <3>1, <3>2 DEF HeapTracked, NewTracked, InsertBlock
    <3>4. t \in [Start -> Nat] /\ l \in LogType
      BY <2>0, <3>2, TrackLemma, NewLogLemma, Zenon DEF BufferHasRoom
    <3>5. Trace(l) = IF k >= MinBlockSize
                     THEN Append(Trace(log), AllocEvent(q, k)) ELSE Trace(log)
      BY <2>0, <3>2, NewTrace
    <3> HIDE DEF k, t, l
    <3>6. Trace(log') = IF heap[p] >= MinBlockSize
                        THEN Append(Trace(l), FreeEvent(p, heap[p])) ELSE Trace(l)
      BY <2>0, <3>1, <3>2, <3>3, <3>4, DieTrace, SMTT(30)
    <3>7. c \notin WatchedBlocks
      BY <2>0, <2>00, <3>1, <3>2 DEF WatchedBlocks
    <3>8. CASE heap[p] >= MinBlockSize /\ k >= MinBlockSize
      <4>1. /\ b \in WatchedBlocks
            /\ WatchedBlocks' = (WatchedBlocks \cup {c}) \ {b}
        BY <2>0, <2>00, <3>1, <3>2, <3>8 DEF WatchedBlocks
      <4>2. EL!Move(b, c)
        BY <3>1, <3>5, <3>6, <3>7, <3>8, <4>1, Zenon
           DEF EL!Move, EL!FreeEvent, FreeEvent, EL!AllocEvent, AllocEvent, Trace
      <4> QED
        BY <3>2, <4>2 DEF EL!Next
    <3>9. CASE heap[p] >= MinBlockSize /\ ~(k >= MinBlockSize)
      <4>1. b \in WatchedBlocks /\ WatchedBlocks' = WatchedBlocks \ {b}
        BY <2>0, <2>00, <3>1, <3>2, <3>9 DEF WatchedBlocks
      <4>2. EL!Close(b)
        BY <3>1, <3>5, <3>6, <3>9, <4>1, Zenon DEF EL!Close, EL!FreeEvent, FreeEvent, Trace
      <4> QED
        BY <3>2, <4>2 DEF EL!Next
    <3>10. CASE ~(heap[p] >= MinBlockSize) /\ k >= MinBlockSize
      <4>1. WatchedBlocks' = WatchedBlocks \cup {c}
        BY <2>0, <3>1, <3>2, <3>10 DEF WatchedBlocks
      <4>2. EL!Open(c)
        BY <3>1, <3>5, <3>6, <3>10, <4>1, Zenon DEF EL!Open, EL!AllocEvent, AllocEvent, Trace
      <4> QED
        BY <3>2, <4>2 DEF EL!Next
    <3>11. CASE ~(heap[p] >= MinBlockSize) /\ ~(k >= MinBlockSize)
      <4>1. WatchedBlocks' = WatchedBlocks
        BY <2>0, <3>1, <3>2, <3>11 DEF WatchedBlocks
      <4> QED
        BY <3>1, <3>5, <3>6, <3>11, <4>1, Zenon DEF EL!vars, Trace
    <3> QED
      BY <3>8, <3>9, <3>10, <3>11
  <2>4. ASSUME NEW r \in Regions, TrackBlock(r)
        PROVE  EL!Next \/ UNCHANGED EL!vars
    <3>1. /\ process = "running" /\ process' = process /\ heap' = heap /\ asked' = asked \cup {r}
          /\ log' = AddToBuffer(log, AllocEvent(r[1], r[2]))
      BY <2>4 DEF TrackBlock
    <3>2. AllocEvent(r[1], r[2]) \in Event
      BY StartLemma DEF AllocEvent, Event
    <3>3. Trace(log') = Append(Trace(log), AllocEvent(r[1], r[2]))
      BY <2>0, <3>1, <3>2, AddLemma
    <3>4. WatchedBlocks' = WatchedBlocks \cup {r}
      BY <3>1 DEF WatchedBlocks
    <3>5. EL!Open(r)
      BY <3>1, <3>3, <3>4, Zenon DEF EL!Open, EL!AllocEvent, AllocEvent, Trace
    <3> QED
      BY <3>5, BlocksLemma DEF EL!Next
  <2>5. ASSUME NEW r \in Regions, UntrackBlock(r[1])
        PROVE  EL!Next \/ UNCHANGED EL!vars
    <3>1. /\ process = "running" /\ process' = process /\ heap' = heap
          /\ asked' = {s \in asked : s[1] # r[1]}
          /\ log' = DieLog(log, tracked, r[1])
      BY <2>5 DEF UntrackBlock
    <3>2. r[1] \in Start \ Payloads /\ r = <<r[1], r[2]>>
      BY StartLemma, ApartLemma, ConstantsOK
    <3>3. RegionsTracked
      BY <3>1 DEF Consistent
    <3>4. Trace(log') = IF tracked[r[1]] > 0
                        THEN Append(Trace(log), FreeEvent(r[1], tracked[r[1]])) ELSE Trace(log)
      BY <2>0, <3>1, <3>2, DieTrace
    <3>5. CASE tracked[r[1]] > 0
      <4>1. r \in asked /\ tracked[r[1]] = r[2]
        BY <2>0, <3>2, <3>3, <3>5, ApartLemma, ZenonT(30) DEF RegionsTracked
      <4>2. asked' = asked \ {r}
        BY <2>0, <3>1, <4>1, ApartLemma
      <4>3. r \in WatchedBlocks /\ WatchedBlocks' = WatchedBlocks \ {r}
        BY <3>1, <3>2, <4>1, <4>2 DEF WatchedBlocks
      <4>4. EL!Close(r)
        BY <3>1, <3>4, <3>5, <4>1, <4>3, Zenon DEF EL!Close, EL!FreeEvent, FreeEvent, Trace
      <4> QED
        BY <4>4, BlocksLemma DEF EL!Next
    <3>6. CASE ~(tracked[r[1]] > 0)
      <4>1. asked' = asked
        BY <2>0, <3>1, <3>3, <3>6, StartLemma DEF RegionsTracked
      <4>2. WatchedBlocks' = WatchedBlocks
        BY <3>1, <4>1 DEF WatchedBlocks
      <4> QED
        BY <3>1, <3>4, <3>6, <4>2, Zenon DEF EL!vars, Trace
    <3> QED
      BY <3>5, <3>6
  <2>6. ASSUME NEW st \in Stores, Store(st)
        PROVE  EL!Next \/ UNCHANGED EL!vars
    BY <2>6 DEF Store, EL!vars, WatchedBlocks
  <2>7. CASE LogStore
    <3> DEFINE s == Head(todo)
    <3>1. /\ process = "running" /\ process' = process /\ heap' = heap /\ asked' = asked
          /\ log' = IF IsTracked(s[1]) THEN AddToBuffer(log, StoreEvent(s[1], s[2])) ELSE log
      BY <2>7 DEF LogStore
    <3>2. s \in StoredLanes /\ s[1] \in Nat /\ s[2] \in Words
      BY <2>7, LanesLemma DEF LogStore, TypeOK
    <3> HIDE DEF s
    <3>3. StoreEvent(s[1], s[2]) \in Event
      BY <3>2 DEF StoreEvent, Event
    <3>4. WatchedBlocks' = WatchedBlocks
      BY <3>1 DEF WatchedBlocks
    <3>5. CASE IsTracked(s[1])
      <4>1. InWatchedBlock(s[1])
        BY <3>2, <3>5, LookupLemma
      <4>2. EL!Watched(s[1])
        BY <4>1 DEF InWatchedBlock, EL!Watched
      <4>3. Trace(log') = Append(Trace(log), StoreEvent(s[1], s[2]))
        BY <2>0, <3>1, <3>3, <3>5, AddLemma, SMTT(30)
      <4>4. EL!Record(s)
        BY <3>1, <3>4, <4>2, <4>3, Zenon DEF EL!Record, EL!StoreEvent, StoreEvent, Trace
      <4> QED
        BY <3>2, <4>4 DEF EL!Next
    <3>6. CASE ~IsTracked(s[1])
      BY <3>1, <3>4, <3>6, Zenon DEF EL!vars
    <3> QED
      BY <3>5, <3>6
  <2>8. CASE Fini
    <3>1. process = "running" /\ process' = "exited" /\ log' = FlushLogBuffer(log)
      BY <2>8 DEF Fini
    <3>2. Trace(log') = Trace(log)
      BY <2>0, <3>1, FlushLemma, SMTT(30)
    <3>3. WatchedBlocks' = {}
      BY <3>1 DEF WatchedBlocks
    <3>4. EL!Stop
      BY <3>1, <3>2, <3>3 DEF EL!Stop, Trace
    <3> QED
      BY <3>4 DEF EL!Next
  <2>9. CASE Kill
    <3>1. process = "running" /\ process' = "killed"
      BY <2>9 DEF Kill
    <3>2. WatchedBlocks' = {}
      BY <3>1 DEF WatchedBlocks
    <3>3. PICK k \in 0 .. Len(log.buf) :
             log' = [buf |-> <<>>, out |-> log.out \o SubSeq(log.buf, 1, k)]
      BY <2>9, Zenon DEF Kill
    <3>4. /\ Trace(log') = SubSeq(Trace(log), 1, Len(log.out) + k)
          /\ Len(log.out) + k \in 0 .. Len(Trace(log))
          /\ Len(Trace(log)) - (Len(log.out) + k) < MaxLogEntries
      <4>1. Trace(log') = (log.out \o SubSeq(log.buf, 1, k)) \o <<>>
        BY <3>3, Zenon DEF Trace
      <4>2. Len(log.buf) \in Nat /\ Len(log.out) \in Nat /\ Len(Trace(log)) \in Nat
        BY <2>0, ConcatProperties DEF LogType, Trace
      <4>3. /\ Trace(log') = SubSeq(Trace(log), 1, Len(log.out) + k)
            /\ Len(log.out) + k \in 0 .. Len(Trace(log))
            /\ Len(Trace(log)) - (Len(log.out) + k) <= Len(log.buf)
        BY <2>0, <4>1, KillTrace, Zenon
      <4>4. Len(Trace(log)) - (Len(log.out) + k) < MaxLogEntries
        <5> DEFINE d == Len(Trace(log)) - (Len(log.out) + k)
                   m == Len(log.buf)
        <5>1. d \in Int /\ m \in Nat /\ d <= m /\ m < MaxLogEntries /\ MaxLogEntries \in Nat
          <6>1. k \in Int
            BY <4>2
          <6>2. d \in Int
            BY <4>2, <6>1
          <6>3. m < MaxLogEntries
            BY DEF BufferHasRoom
          <6> QED
            BY <4>2, <4>3, <6>2, <6>3, ConstantsOK, Zenon
        <5> HIDE DEF d, m
        <5>2. d < MaxLogEntries
          BY <5>1
        <5> QED
          BY <5>2 DEF d
      <4> QED
        BY <4>3, <4>4
    <3>5. EL!Lose
      BY <3>1, <3>2, <3>4, Zenon DEF EL!Lose, Trace
    <3> QED
      BY <3>5 DEF EL!Next
  <2>10. CASE UNCHANGED vars
    BY <2>10 DEF vars, EL!vars, WatchedBlocks
  <2> QED
    BY <2>1, <2>2, <2>3, <2>4, <2>5, <2>6, <2>7, <2>8, <2>9, <2>10 DEF Next
<1> QED
  BY <1>1, <1>2, TypeCorrect, TrackerConsistent, PTL DEF Spec, EL!Spec, ImplementsEventLog
=============================================================================
