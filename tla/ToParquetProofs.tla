-------------------------- MODULE ToParquetProofs --------------------------
(***************************************************************************)
(* What to_parquet.py promises, for any list of archives, batch size and   *)
(* pipe capacity, whatever arrives, fails or is killed on the way.         *)
(***************************************************************************)
EXTENDS ToParquet, SequenceTheorems, WellFoundedInduction, TLAPS

Busy == pc \in {"read", "join", "wait", "check", "flush", "close"}

Archive == [data : Seq(Nat), mtime : Nat]
Parquet == [rows : Seq(Nat), footer : BOOLEAN, mtime : Nat]
Conv == [feeder : {"none", "feed", "close", "done"}, pos : Nat \ {0}, err : BOOLEAN,
         stdin : Seq(Nat), eof : BOOLEAN, proc : {"none", "run", "ok", "bad"},
         stdout : Seq(Nat), got : Nat, buf : Seq(Nat),
         writer : BOOLEAN, failed : BOOLEAN, changed : BOOLEAN]

Types ==
    /\ clock \in 1..MaxClock /\ version \in 1..MaxVersion
    /\ raw \in [Stems -> {NoFile} \cup Archive]
    /\ db \in [Stems -> {NoFile} \cup Parquet]
    /\ views \subseteq Stems /\ allStores \subseteq Stems
    /\ pc \in {"idle", "next", "read", "join", "wait", "check", "flush", "close"}
    /\ todo \subseteq Stems
    /\ opts \in [pixz : BOOLEAN, force : BOOLEAN]
    /\ conv \in Conv
    /\ doubt \in [Stems -> BOOLEAN] /\ cut \subseteq Stems

\* The files: an archive has one member or all of them, a parquet no more
\* than all, and no parquet is from the future.
FileInv ==
    /\ \A s \in Stems : raw[s] # NoFile => Len(raw[s].data) \in {1, Members}
    /\ \A s \in Stems : db[s] # NoFile =>
           Len(db[s].rows) <= Members /\ db[s].mtime \in 1..clock

\* Only archives that exist are looked at, and convert_archive has locals
\* only while it runs.
TodoInv ==
    /\ \A s \in todo : raw[s] # NoFile
    /\ Busy => todo # {}
    /\ ~ Busy => conv = Idle

\* The stores read so far: those of the open file and those of the batch.
Rows == (IF conv.writer THEN db[cur].rows ELSE << >>) \o conv.buf

\* The sequence q is the part of data behind its first n members.
PartOf(q, data, n) == \A i \in 1..Len(q) : q[i] = data[n + i]

\* Every member is in one place between the feeder and the open file.
CountInv ==
    Busy =>
        /\ Len(Rows) = conv.got /\ conv.got <= Members
        /\ Len(conv.buf) < BatchRows
        /\ Len(conv.stdin) <= PipeCap /\ Len(conv.stdout) <= PipeCap
        /\ opts.pixz => conv.got + Len(conv.stdout) + Len(conv.stdin) = conv.pos - 1
        /\ ~ opts.pixz => conv.stdout = << >> /\ conv.stdin = << >>

\* Unless the archive changed, the places one after the other hold its
\* beginning.
DataInv ==
    Busy /\ ~ conv.changed =>
        /\ conv.got + Len(conv.stdout) + Len(conv.stdin) <= Len(raw[cur].data)
        /\ PartOf(Rows, raw[cur].data, 0)
        /\ PartOf(conv.stdout, raw[cur].data, conv.got)
        /\ PartOf(conv.stdin, raw[cur].data, conv.got + Len(conv.stdout))

\* An open file is in doubt.
WriterInv == Busy /\ conv.writer => doubt[cur] /\ db[cur] # NoFile

\* With pixz: its input ends with the feeder, it succeeds only on a whole
\* archive, and the loop over the members ends at the last of them, at the
\* end of the output or with an exception.
PixzInv ==
    Busy /\ opts.pixz =>
        /\ conv.proc # "none" /\ conv.feeder # "none"
        /\ conv.eof => conv.feeder = "done"
        /\ conv.proc = "ok" => conv.eof /\ conv.stdin = << >> /\ conv.pos - 1 = Members
        /\ pc # "read" =>
             conv.got = Members \/ conv.failed
               \/ (conv.proc \in {"ok", "bad"} /\ conv.stdout = << >>)
        /\ pc \in {"check", "flush", "close"} => conv.proc # "run"

NoPixzInv ==
    Busy /\ ~ opts.pixz => conv.feeder = "none" /\ conv.proc = "none"

\* Past the check of the outcome every member was read, if pixz read them,
\* and the file is closed with its last batch in it.
LastInv ==
    /\ pc \in {"flush", "close"} /\ opts.pixz => conv.got = Members
    /\ pc = "close" => conv.writer /\ conv.buf = << >>

\* What the views are over can be read (the second half of
\* AllStoresReadable).
CatInv ==
    /\ allStores \subseteq views
    /\ \A s \in views : db[s] # NoFile /\ (db[s].footer \/ Writing(s) \/ s \in cut)

ConvInv == CountInv /\ DataInv /\ WriterInv /\ PixzInv /\ NoPixzInv /\ LastInv
ResultInv == FileInv /\ SkippedIsCurrent
IInv == Types /\ TodoInv /\ ConvInv /\ ResultInv /\ CatInv
-----------------------------------------------------------------------------
(* The order of the archives. *)

\* The order of the natural numbers is well-founded.
LEMMA LessWellFounded == IsWellFoundedOn({p \in Nat \X Nat : p[1] < p[2]}, Nat)
<1>1. OpToRel(<, Nat) = {p \in Nat \X Nat : p[1] < p[2]}
  BY Zenon DEF OpToRel
<1>. QED BY <1>1, NatLessThanWellFounded, Zenon

\* A set of natural numbers has a least one.
LEMMA LeastNat ==
    ASSUME NEW S \in SUBSET Nat, S # {}
    PROVE  \E n \in S : \A m \in S : n <= m
<1>1. PICK n \in S : \A m \in S : ~ (<<m, n>> \in {p \in Nat \X Nat : p[1] < p[2]})
  BY LessWellFounded, WFMin, Zenon
<1>2. \A m \in S : ~ (m < n)
  <2>. SUFFICES ASSUME NEW m \in S, m < n PROVE FALSE
    OBVIOUS
  <2>1. <<m, n>> \in Nat \X Nat /\ <<m, n>>[1] < <<m, n>>[2]
    OBVIOUS
  <2>. QED BY <1>1, <2>1, Zenon
<1>. QED BY <1>2

\* There is always a next archive among those still to look at.
LEMMA FirstIn ==
    ASSUME NEW S \in SUBSET Stems, S # {}
    PROVE  First(S) \in S
<1>. DEFINE I == {i \in DOMAIN Order : Order[i] \in S}
<1>1. DOMAIN Order = 1..Len(Order) /\ Len(Order) \in Nat
  BY OrderAssumption
<1>2. I \in SUBSET Nat /\ I # {}
  BY <1>1 DEF Stems, Range
<1>3. PICK i \in I : \A j \in I : i <= j
  BY <1>2, LeastNat, Zenon
<1>4. \A t \in S \ {Order[i]} : Before(Order[i], t)
  <2>. SUFFICES ASSUME NEW t \in S \ {Order[i]} PROVE Before(Order[i], t)
    OBVIOUS
  <2>1. PICK j \in DOMAIN Order : Order[j] = t
    BY DEF Stems, Range
  <2>2. j \in I /\ j # i
    BY <2>1
  <2>. QED BY <2>1, <2>2, <1>1, <1>3 DEF Before
<1>. QED BY <1>4 DEF First

\* It is the archive that is converted.
LEMMA CurIn == Types /\ todo # {} => cur \in todo /\ cur \in Stems
BY FirstIn DEF cur, Types

-----------------------------------------------------------------------------
(* Parts of an archive that grow and shrink at their ends. *)

\* A member is added behind a part.
LEMMA AppendPart ==
    ASSUME NEW q \in Seq(Nat), NEW data \in Seq(Nat), NEW n \in Nat, NEW x,
           PartOf(q, data, n), x = data[n + Len(q) + 1]
    PROVE  PartOf(Append(q, x), data, n)
BY DEF PartOf

\* A part as long as the data is all of it.
LEMMA WholePart ==
    ASSUME NEW q \in Seq(Nat), NEW data \in Seq(Nat), Len(data) = Len(q), PartOf(q, data, 0)
    PROVE  q = data
<1>1. \A i \in 1..Len(q) : q[i] = data[i]
  BY SMTT(30) DEF PartOf
<1>. QED BY <1>1, SeqEqual

\* The first member of a part is taken.
LEMMA TailPart ==
    ASSUME NEW q \in Seq(Nat), NEW data \in Seq(Nat), NEW n \in Nat,
           PartOf(q, data, n), q # << >>
    PROVE  Head(q) = data[n + 1] /\ PartOf(Tail(q), data, n + 1)
BY DEF PartOf

-----------------------------------------------------------------------------
\* Nothing is there yet.
LEMMA InitInv == Init => IInv
<1>. SUFFICES ASSUME Init PROVE IInv
  OBVIOUS
<1>. USE SizesAssumption DEF Init, Busy
<1>1. Types
  BY DEF Types, Idle, Conv, NoOpts
<1>2. TodoInv /\ ConvInv
  BY DEF TodoInv, ConvInv, CountInv, DataInv, WriterInv, PixzInv, NoPixzInv, LastInv
<1>3. ResultInv /\ CatInv
  BY DEF ResultInv, FileInv, SkippedIsCurrent, CatInv
<1>. QED BY <1>1, <1>2, <1>3 DEF IInv

\* The archive that is converted exists.
LEMMA CurArchive ==
    Types /\ TodoInv /\ Busy => /\ todo # {} /\ cur \in todo /\ cur \in Stems
                               /\ raw[cur] # NoFile /\ raw[cur] \in Archive
BY CurIn DEF Types, TodoInv

\* A thread or a process of the conversion takes a step: files, catalog and
\* the list of archives stay.
LEMMA ResultStays ==
    ResultInv /\ UNCHANGED <<files, db, catalog, doubt>> => ResultInv'
BY DEF ResultInv, FileInv, SkippedIsCurrent, UpToDate, files, catalog

\* So does what is said of the views, as long as the same file is open.
LEMMA CatStays ==
    CatInv /\ UNCHANGED <<db, catalog, cut, todo>> /\ conv'.writer = conv.writer => CatInv'
BY DEF CatInv, Writing, cur, catalog

\* The fields that say where the members are.
flow == <<conv.pos, conv.stdin, conv.stdout, conv.got, conv.buf, conv.writer, conv.changed>>

\* A step that leaves them alone keeps what is said of them.
LEMMA FlowStays ==
    Busy /\ CountInv /\ DataInv /\ WriterInv /\ UNCHANGED <<flow, files, db, todo, opts, doubt>>
        => CountInv' /\ DataInv' /\ WriterInv'
<1>. SUFFICES ASSUME Busy, CountInv, DataInv, WriterInv, UNCHANGED <<flow, files, db, todo, opts, doubt>>
              PROVE  CountInv' /\ DataInv' /\ WriterInv'
  OBVIOUS
<1>. USE DEF flow, files
<1>1. cur' = cur /\ Rows' = Rows
  BY DEF cur, Rows
<1>. QED BY <1>1 DEF CountInv, DataInv, WriterInv

\* The same of the last steps of convert_archive.
LEMMA LastStays ==
    LastInv /\ UNCHANGED <<flow, opts>> /\ (pc' = pc \/ pc' \notin {"flush", "close"}) => LastInv'
BY DEF LastInv, flow

\* The feeder thread: a member goes from the archive into pixz's input.
LEMMA FeederStep == IInv /\ Feeder => Types' /\ TodoInv' /\ ConvInv'
<1>. SUFFICES ASSUME IInv, Feeder PROVE Types' /\ TodoInv' /\ ConvInv'
  OBVIOUS
<1>. USE DEF Feeder, files, catalog, history, Busy
<1>0. Types /\ TodoInv /\ CountInv /\ DataInv /\ WriterInv /\ PixzInv /\ NoPixzInv /\ LastInv
  BY DEF IInv, ConvInv
<1>1. Busy /\ opts.pixz
  <2>1. conv.feeder \in {"feed", "close"}
    BY DEF Write, ReadAll, BrokenPipe, CloseStdin
  <2>2. Idle.feeder = "none"
    BY DEF Idle
  <2>. QED BY <1>0, <2>1, <2>2 DEF TodoInv, NoPixzInv
<1>2. cur \in Stems /\ raw[cur] # NoFile /\ raw[cur] \in Archive /\ todo # {}
  BY <1>0, <1>1, CurArchive
<1>3. cur' = cur
  BY DEF cur
<1>4. CASE Write
  <2>. DEFINE x == raw[cur].data[conv.pos]
  <2>1. /\ x \in Nat /\ conv.pos <= Len(raw[cur].data) /\ Len(conv.stdin) < PipeCap
        /\ PipeCap \in Nat /\ raw[cur].data \in Seq(Nat) /\ Len(raw[cur].data) \in Nat
        /\ conv.stdin \in Seq(Nat) /\ conv.stdout \in Seq(Nat) /\ conv.got \in Nat
        /\ conv.pos \in Nat
    BY <1>0, <1>2, <1>4, SizesAssumption, SMTT(30) DEF Types, Conv, Archive, Write
  <2>2. Append(conv.stdin, x) \in Seq(Nat) /\ conv.pos + 1 \in Nat \ {0}
    BY <2>1
  <2>3. conv' \in Conv /\ conv' = [conv EXCEPT !.pos = conv.pos + 1, !.stdin = Append(conv.stdin, x)]
    BY <1>0, <1>4, <2>2, Zenon DEF Types, Conv, Write
  <2>4. Types' /\ TodoInv'
    BY <1>0, <1>1, <2>3 DEF Types, TodoInv
  <2>5. Rows' = Rows
    BY <1>0, <1>3, <2>3, ZenonT(30) DEF Rows, Types, Conv
  <2>6. conv.got + Len(conv.stdout) + Len(conv.stdin) + 1 = conv.pos
    BY <1>0, <1>1, <2>1 DEF CountInv
  <2>7. CountInv'
    <3>1. /\ conv'.got = conv.got /\ conv'.stdout = conv.stdout /\ conv'.buf = conv.buf
          /\ conv'.pos = conv.pos + 1
      BY <1>0, <2>3 DEF Types, Conv
    <3>2. Len(conv'.stdin) = Len(conv.stdin) + 1
      BY <1>0, <2>1, <2>3 DEF Types, Conv
    <3>3. Len(conv'.stdin) <= PipeCap
      BY <2>1, <3>2
    <3>4. conv'.got + Len(conv'.stdout) + Len(conv'.stdin) = conv'.pos - 1
      <4>1. conv.got + Len(conv.stdout) + (Len(conv.stdin) + 1) = (conv.pos + 1) - 1
        <5>1. conv.got + Len(conv.stdout) + Len(conv.stdin) = conv.pos - 1
          BY <1>0, <1>1 DEF CountInv
        <5>2. Len(conv.stdout) \in Nat /\ Len(conv.stdin) \in Nat
          BY <2>1
        <5>3. PICK g \in Nat, o \in Nat, i \in Nat, p \in Nat :
                 g = conv.got /\ o = Len(conv.stdout) /\ i = Len(conv.stdin) /\ p = conv.pos
          BY <2>1, <5>2
        <5>4. g + o + i = p - 1
          BY <5>1, <5>3
        <5>5. g + o + (i + 1) = (p + 1) - 1
          BY <5>4
        <5>. QED BY <5>3, <5>5
      <4>. QED BY <3>1, <3>2, <4>1
    <3>. QED BY <1>0, <1>1, <2>5, <3>1, <3>3, <3>4, Zenon DEF CountInv
  <2>8. DataInv'
    <3>. SUFFICES ASSUME ~ conv.changed PROVE DataInv'
      BY <1>0, <2>3 DEF DataInv, Types, Conv
    <3>1. PartOf(conv.stdin, raw[cur].data, conv.got + Len(conv.stdout))
      BY <1>0, <1>1 DEF DataInv
    <3>2. conv.got + Len(conv.stdout) \in Nat
      BY <2>1
    <3>3. x = raw[cur].data[conv.got + Len(conv.stdout) + Len(conv.stdin) + 1]
      BY <2>6
    <3>4. PartOf(Append(conv.stdin, x), raw[cur].data, conv.got + Len(conv.stdout))
      BY <2>1, <3>1, <3>2, <3>3, AppendPart, Zenon
    <3>. QED BY <1>0, <1>1, <1>3, <2>1, <2>3, <2>5, <2>6, <3>4, SMTT(30) DEF DataInv, Types, Conv
  <2>9. WriterInv' /\ PixzInv' /\ NoPixzInv'
    BY <1>0, <1>1, <1>3, <1>4, <2>3 DEF WriterInv, PixzInv, NoPixzInv, Types, Conv, Write
  <2>10. LastInv'
    BY <1>0, <2>3 DEF LastInv, Types, Conv
  <2>. QED BY <2>4, <2>7, <2>8, <2>9, <2>10 DEF ConvInv
<1>5. CASE ReadAll \/ BrokenPipe \/ CloseStdin
  <2>1. conv' \in Conv /\ conv'.proc = conv.proc /\ UNCHANGED flow
    BY <1>0, <1>5, ZenonT(30) DEF ReadAll, BrokenPipe, CloseStdin, FeederRaises, Types, Conv, flow
  <2>2. Types' /\ TodoInv'
    BY <1>0, <1>1, <2>1 DEF Types, TodoInv
  <2>3. CountInv' /\ DataInv' /\ WriterInv'
    BY <1>0, <1>1, <2>1, FlowStays
  <2>4. PixzInv' /\ NoPixzInv'
    BY <1>0, <1>1, <1>5, ZenonT(30) DEF PixzInv, NoPixzInv, ReadAll, BrokenPipe, CloseStdin, FeederRaises, Types, Conv
  <2>5. LastInv'
    BY <1>0, <2>1, LastStays
  <2>. QED BY <2>2, <2>3, <2>4, <2>5 DEF ConvInv
<1>. QED BY <1>4, <1>5
\* ReadError is FeederRaises with its guard.
LEMMA ReadErrorStep == IInv /\ ReadError => Types' /\ TodoInv' /\ ConvInv'
<1>. SUFFICES ASSUME IInv, ReadError PROVE Types' /\ TodoInv' /\ ConvInv'
  OBVIOUS
<1>. USE DEF ReadError, FeederRaises, files, catalog, history, Busy
<1>0. Types /\ TodoInv /\ CountInv /\ DataInv /\ WriterInv /\ PixzInv /\ NoPixzInv /\ LastInv
  BY DEF IInv, ConvInv
<1>1. Busy /\ opts.pixz
  BY <1>0 DEF TodoInv, NoPixzInv, Idle
<1>2. conv' \in Conv /\ conv'.proc = conv.proc /\ UNCHANGED flow
  BY <1>0, Zenon DEF Types, Conv, flow
<1>3. Types' /\ TodoInv'
  BY <1>0, <1>1, <1>2 DEF Types, TodoInv
<1>4. CountInv' /\ DataInv' /\ WriterInv'
  BY <1>0, <1>1, <1>2, FlowStays
<1>5. PixzInv' /\ NoPixzInv'
  BY <1>0, <1>1 DEF PixzInv, NoPixzInv, Types, Conv
<1>6. LastInv'
  BY <1>0, <1>2, LastStays
<1>. QED BY <1>3, <1>4, <1>5, <1>6 DEF ConvInv

\* The pixz process: a member goes from its input to its output.
LEMMA PixzStep == IInv /\ (Pixz \/ PixzFails) => Types' /\ TodoInv' /\ ConvInv'
<1>. SUFFICES ASSUME IInv, Pixz \/ PixzFails PROVE Types' /\ TodoInv' /\ ConvInv'
  OBVIOUS
<1>. USE DEF Pixz, PixzFails, files, catalog, history, Busy
<1>0. Types /\ TodoInv /\ CountInv /\ DataInv /\ WriterInv /\ PixzInv /\ NoPixzInv /\ LastInv
  BY DEF IInv, ConvInv
<1>1. Busy /\ opts.pixz
  BY <1>0 DEF TodoInv, NoPixzInv, Idle
<1>2. cur \in Stems /\ raw[cur] # NoFile /\ raw[cur] \in Archive /\ todo # {}
  BY <1>0, <1>1, CurArchive
<1>3. cur' = cur
  BY DEF cur
<1>4. CASE PixzEnds \/ PixzFails
  <2>1. conv' \in Conv /\ UNCHANGED flow
    BY <1>0, <1>4, ZenonT(30) DEF PixzEnds, Types, Conv, flow
  <2>2. Types' /\ TodoInv'
    BY <1>0, <1>1, <1>4, <2>1 DEF Types, TodoInv
  <2>3. CountInv' /\ DataInv' /\ WriterInv'
    BY <1>0, <1>1, <1>4, <2>1, FlowStays
  <2>4. PixzInv' /\ NoPixzInv'
    BY <1>0, <1>1, <1>4, ZenonT(30) DEF PixzEnds, PixzInv, NoPixzInv, Types, Conv
  <2>5. LastInv'
    BY <1>0, <1>4, <2>1, LastStays
  <2>. QED BY <2>2, <2>3, <2>4, <2>5 DEF ConvInv
<1>5. CASE Pixz /\ Decompress
  <2>. DEFINE data == raw[cur].data
              out == Append(conv.stdout, Head(conv.stdin))
  <2>1. /\ data \in Seq(Nat) /\ PipeCap \in Nat /\ conv.stdin \in Seq(Nat)
        /\ conv.stdin # << >> /\ conv.stdout \in Seq(Nat) /\ Len(conv.stdout) < PipeCap
    BY <1>0, <1>2, <1>5, SizesAssumption, SMTT(30) DEF Types, Conv, Archive, Decompress
  <2>2. out \in Seq(Nat) /\ Tail(conv.stdin) \in Seq(Nat) /\ Head(conv.stdin) \in Nat
    BY <2>1
  <2>3. conv' \in Conv /\ conv' = [conv EXCEPT !.stdin = Tail(conv.stdin), !.stdout = out]
    BY <1>0, <1>5, <2>2, Zenon DEF Types, Conv, Decompress
  <2>4. Types' /\ TodoInv'
    BY <1>0, <1>1, <1>5, <2>3 DEF Types, TodoInv
  <2>5. Rows' = Rows
    BY <1>0, <1>3, <1>5, <2>3, Zenon DEF Rows, Types, Conv
  <2>6. /\ conv'.got = conv.got /\ conv'.pos = conv.pos /\ conv'.buf = conv.buf
        /\ conv'.stdin = Tail(conv.stdin) /\ conv'.stdout = out
    BY <1>0, <2>3 DEF Types, Conv
  <2>7. PICK g \in Nat, o \in Nat, i \in Nat, p \in Nat :
           g = conv.got /\ o = Len(conv.stdout) /\ i = Len(conv.stdin) /\ p = conv.pos
    <3>1. conv.got \in Nat /\ conv.pos \in Nat
      BY <1>0 DEF Types, Conv
    <3>2. Len(conv.stdout) \in Nat /\ Len(conv.stdin) \in Nat
      BY <2>1
    <3>. QED BY <3>1, <3>2
  <2>8. Len(conv'.stdin) = i - 1 /\ Len(conv'.stdout) = o + 1 /\ i - 1 \in Nat
    BY <2>1, <2>6, <2>7
  <2>9. g + o + i = p - 1 /\ o < PipeCap /\ i <= PipeCap
    BY <1>0, <1>1, <2>1, <2>7, SMTT(30) DEF CountInv
  <2>10. CountInv'
    <3>1. g + (o + 1) + (i - 1) = p - 1 /\ o + 1 <= PipeCap /\ i - 1 <= PipeCap
      BY <2>1, <2>9, SMTT(30)
    <3>2. conv'.got + Len(conv'.stdout) + Len(conv'.stdin) = conv'.pos - 1
      BY <2>6, <2>7, <2>8, <3>1
    <3>3. Len(conv'.stdin) <= PipeCap /\ Len(conv'.stdout) <= PipeCap
      BY <2>8, <3>1
    <3>. QED BY <1>0, <1>1, <1>5, <2>5, <2>6, <3>2, <3>3, Zenon DEF CountInv
  <2>11. DataInv'
    <3>. SUFFICES ASSUME ~ conv.changed PROVE DataInv'
      BY <1>0, <1>5, <2>3 DEF DataInv, Types, Conv
    <3>1. /\ g + o + i <= Len(data) /\ PartOf(conv.stdout, data, g)
          /\ PartOf(conv.stdin, data, g + o) /\ PartOf(Rows, data, 0)
      BY <1>0, <1>1, <2>7 DEF DataInv
    <3>2. Head(conv.stdin) = data[(g + o) + 1] /\ PartOf(Tail(conv.stdin), data, (g + o) + 1)
      <4>1. g + o \in Nat
        OBVIOUS
      <4>. QED BY <2>1, <3>1, <4>1, TailPart, Zenon
    <3>3. PartOf(out, data, g)
      BY <2>1, <2>7, <3>1, <3>2, AppendPart, Zenon
    <3>4. (g + o) + 1 = g + (o + 1) /\ g + (o + 1) + (i - 1) = g + o + i
      OBVIOUS
    <3>5. raw'[cur'].data = data
      BY <1>3, <1>5
    <3>6. PartOf(conv'.stdin, data, conv'.got + Len(conv'.stdout))
      BY <2>6, <2>7, <2>8, <3>2, <3>4
    <3>7. PartOf(conv'.stdout, data, conv'.got)
      BY <2>6, <2>7, <3>3
    <3>8. conv'.got + Len(conv'.stdout) + Len(conv'.stdin) <= Len(data)
      BY <2>6, <2>7, <2>8, <3>1, <3>4, SMTT(30)
    <3>. QED BY <2>5, <3>1, <3>5, <3>6, <3>7, <3>8, SMTT(30) DEF DataInv
  <2>12. WriterInv' /\ NoPixzInv'
    BY <1>0, <1>1, <1>3, <1>5, <2>3, SMTT(30) DEF WriterInv, NoPixzInv, Types, Conv
  <2>13. PixzInv'
    BY <1>0, <1>1, <1>5, <2>3, SMTT(30) DEF PixzInv, Types, Conv
  <2>14. LastInv'
    BY <1>0, <1>5, <2>3, SMTT(30) DEF LastInv, Types, Conv
  <2>. QED BY <2>4, <2>10, <2>11, <2>12, <2>13, <2>14 DEF ConvInv
<1>. QED BY <1>4, <1>5

LoopEnd == EndLoop \/ LoopRaises \/ Join \/ JoinTimesOut \/ Wait \/ WaitTimesOut

\* The loop over the members ends, and cleanup waits for feeder and process.
LEMMA LoopEndStep == IInv /\ LoopEnd => Types' /\ TodoInv' /\ ConvInv'
<1>. SUFFICES ASSUME IInv, LoopEnd PROVE Types' /\ TodoInv' /\ ConvInv'
  OBVIOUS
<1>. USE DEF files, catalog, history
<1>0. Types /\ TodoInv /\ CountInv /\ DataInv /\ WriterInv /\ PixzInv /\ NoPixzInv /\ LastInv
  BY DEF IInv, ConvInv
<1>1. CASE EndLoop \/ LoopRaises
  <2>1. PICK b \in BOOLEAN :
           /\ pc = "read" /\ conv' = [conv EXCEPT !.failed = b]
           /\ b \/ conv.got = Members \/ NoMoreInput
           /\ pc' = IF opts.pixz THEN "join" ELSE "check"
           /\ UNCHANGED <<files, db, catalog, todo, opts, history>>
    BY <1>1, ZenonT(30) DEF EndLoop, LoopRaises, LeaveLoop
  <2>2. conv' \in Conv /\ UNCHANGED flow /\ conv'.failed = b
        /\ conv'.feeder = conv.feeder /\ conv'.proc = conv.proc /\ conv'.eof = conv.eof
    BY <1>0, <2>1, Zenon DEF Types, Conv, flow
  <2>3. Busy /\ Busy' /\ pc' \in {"join", "check"} /\ (opts.pixz => pc' = "join")
    BY <2>1 DEF Busy
  <2>4. Types' /\ TodoInv'
    BY <1>0, <2>1, <2>2, <2>3 DEF Types, TodoInv
  <2>5. CountInv' /\ DataInv' /\ WriterInv'
    BY <1>0, <2>1, <2>2, <2>3, FlowStays
  <2>6. PixzInv' /\ NoPixzInv'
    BY <1>0, <2>1, <2>2, <2>3, SMTT(30) DEF PixzInv, NoPixzInv, NoMoreInput, flow
  <2>7. LastInv'
    BY <1>0, <2>1, <2>2, <2>3, LastStays
  <2>. QED BY <2>4, <2>5, <2>6, <2>7 DEF ConvInv
<1>2. CASE Join \/ JoinTimesOut \/ Wait \/ WaitTimesOut
  <2>1. /\ UNCHANGED <<files, db, catalog, todo, opts, history>>
        /\ pc \in {"join", "wait"} /\ pc' = IF pc = "join" THEN "wait" ELSE "check"
        /\ \/ conv' = conv /\ (pc = "join" \/ conv.proc # "run")
           \/ conv' = [conv EXCEPT !.proc = "bad"] /\ conv.proc = "run"
    BY <1>2 DEF Join, JoinTimesOut, Wait, WaitTimesOut
  <2>2. /\ conv' \in Conv /\ UNCHANGED flow /\ conv'.failed = conv.failed
        /\ conv'.feeder = conv.feeder /\ conv'.eof = conv.eof
        /\ conv'.proc = conv.proc \/ (conv'.proc = "bad" /\ conv.proc = "run")
        /\ pc' = "check" => conv'.proc # "run"
    BY <1>0, <2>1, ZenonT(30) DEF Types, Conv, flow
  <2>3. Busy /\ Busy' /\ pc' \in {"wait", "check"} /\ pc # "read"
    BY <2>1 DEF Busy
  <2>4. Types' /\ TodoInv'
    BY <1>0, <2>1, <2>2, <2>3 DEF Types, TodoInv
  <2>5. CountInv' /\ DataInv' /\ WriterInv'
    BY <1>0, <2>1, <2>2, <2>3, FlowStays
  <2>6. PixzInv' /\ NoPixzInv'
    BY <1>0, <2>1, <2>2, <2>3, SMTT(30) DEF PixzInv, NoPixzInv, flow
  <2>7. LastInv'
    BY <1>0, <2>1, <2>2, <2>3, LastStays
  <2>. QED BY <2>4, <2>5, <2>6, <2>7 DEF ConvInv
<1>. QED BY <1>1, <1>2 DEF LoopEnd

\* None of these steps opens or closes a file.
LEMMA WriterStays ==
    Types /\ (Feeder \/ ReadError \/ Pixz \/ PixzFails \/ LoopEnd) => conv'.writer = conv.writer
<1>. SUFFICES ASSUME Types, Feeder \/ ReadError \/ Pixz \/ PixzFails \/ LoopEnd
              PROVE  conv'.writer = conv.writer
  OBVIOUS
<1>0. conv \in Conv
  BY DEF Types
<1>1. CASE Feeder \/ ReadError
  <2>1. CASE Write
    BY <1>0, <2>1 DEF Write, Conv
  <2>2. CASE ReadAll \/ CloseStdin
    BY <1>0, <2>2, ZenonT(30) DEF ReadAll, CloseStdin, Conv
  <2>3. CASE FeederRaises
    BY <1>0, <2>3 DEF FeederRaises, Conv
  <2>. QED BY <1>1, <2>1, <2>2, <2>3, Zenon DEF Feeder, ReadError, BrokenPipe
<1>2. CASE Pixz \/ PixzFails
  <2>1. CASE Decompress
    BY <1>0, <2>1 DEF Decompress, Conv
  <2>2. CASE PixzEnds
    BY <1>0, <2>2 DEF PixzEnds, Conv
  <2>3. CASE PixzFails
    BY <1>0, <2>3 DEF PixzFails, Conv
  <2>. QED BY <1>2, <2>1, <2>2, <2>3, Zenon DEF Pixz
<1>3. CASE LoopEnd
  BY <1>0, <1>3, SMTT(30) DEF LoopEnd, EndLoop, LoopRaises, LeaveLoop, Join, JoinTimesOut, Wait, WaitTimesOut, Conv
<1>. QED BY <1>1, <1>2, <1>3

-----------------------------------------------------------------------------
(* The loop over the members. *)

\* Two sequences one after the other grow at the end.
LEMMA ConcatAppend ==
    ASSUME NEW q \in Seq(Nat), NEW r \in Seq(Nat), NEW x \in Nat
    PROVE  q \o Append(r, x) = Append(q \o r, x) /\ q \o << >> = q
OBVIOUS

\* The stores read so far are a sequence of stores.
LEMMA RowsType == Types /\ TodoInv /\ WriterInv /\ Busy => Rows \in Seq(Nat) /\ Len(Rows) \in Nat
<1>. SUFFICES ASSUME Types, TodoInv, WriterInv, Busy PROVE Rows \in Seq(Nat)
  OBVIOUS
<1>1. cur \in Stems
  BY CurArchive
<1>2. conv.writer => db[cur] \in Parquet
  BY <1>1 DEF Types, WriterInv
<1>3. conv.writer => db[cur].rows \in Seq(Nat)
  BY <1>2 DEF Parquet
<1>. QED BY <1>3 DEF Rows, Types, Conv

\* The file of the archive that is converted is written: the others stay, and
\* if it is in doubt or right, what is promised of the files holds.
LEMMA ParquetWritten ==
    ASSUME Types, ResultInv, cur \in Stems, NEW f \in Parquet, NEW d \in BOOLEAN,
           UNCHANGED <<files, catalog>>,
           db' = [db EXCEPT ![cur] = f], doubt' = [doubt EXCEPT ![cur] = d],
           Len(f.rows) <= Members, f.mtime \in 1..clock,
           d \/ (f.footer /\ f.rows = raw[cur].data)
    PROVE  /\ db' \in [Stems -> {NoFile} \cup Parquet] /\ doubt' \in [Stems -> BOOLEAN]
           /\ db'[cur] = f /\ f # NoFile /\ doubt'[cur] = d
           /\ ResultInv'
<1>. USE DEF files, catalog
<1>1. clock \in Nat \ {0}
  BY SizesAssumption DEF Types
<1>2. f # NoFile
  BY <1>1 DEF NoFile
<1>3. /\ db' \in [Stems -> {NoFile} \cup Parquet] /\ doubt' \in [Stems -> BOOLEAN]
      /\ db'[cur] = f /\ doubt'[cur] = d
  BY DEF Types
<1>4. \A s \in Stems : s # cur => db'[s] = db[s] /\ doubt'[s] = doubt[s]
  BY DEF Types
<1>5. FileInv'
  BY <1>1, <1>3, <1>4 DEF ResultInv, FileInv
<1>6. SkippedIsCurrent'
  BY <1>3, <1>4 DEF ResultInv, SkippedIsCurrent, UpToDate
<1>. QED BY <1>2, <1>3, <1>5, <1>6, SMTT(30) DEF ResultInv

\* What is said of the views holds if the file is readable, open or known to
\* be cut short, or has no view.
LEMMA CatWritten ==
    ASSUME Types, CatInv, cur \in Stems, NEW f \in Parquet, f # NoFile,
           UNCHANGED catalog, db' = [db EXCEPT ![cur] = f], cut \ {cur} \subseteq cut',
           f.footer \/ (conv'.writer /\ cur' = cur) \/ cur \in cut' \/ cur \notin views
    PROVE  CatInv'
<1>1. db'[cur] = f /\ \A s \in Stems : s # cur => db'[s] = db[s]
  BY DEF Types
<1>2. views' = views /\ allStores' = allStores /\ views \subseteq Stems
  BY DEF catalog, Types
<1>. SUFFICES ASSUME NEW s \in views
              PROVE  db'[s] # NoFile /\ (db'[s].footer \/ (conv'.writer /\ cur' = s) \/ s \in cut')
  BY <1>2 DEF CatInv, Writing
<1>3. CASE s = cur
  BY <1>1, <1>3
<1>4. CASE s # cur
  BY <1>1, <1>2, <1>4 DEF CatInv, Writing
<1>. QED BY <1>3, <1>4

\* A batch is written behind what the file holds, or begins a new file.
LEMMA FlushStep ==
    ASSUME Types, TodoInv, ResultInv, CatInv, Busy, UNCHANGED <<files, catalog, todo>>,
           NEW c \in Conv, c.writer = conv.writer, Flush(c), NEW rows \in Seq(Nat),
           rows = (IF conv.writer THEN db[cur].rows ELSE << >>) \o c.buf, Len(rows) <= Members
    PROVE  /\ db' \in [Stems -> {NoFile} \cup Parquet] /\ doubt' \in [Stems -> BOOLEAN]
           /\ cut' \subseteq Stems
           /\ conv' \in Conv /\ conv' = [c EXCEPT !.buf = << >>, !.writer = TRUE]
           /\ Rows' = rows /\ db'[cur] # NoFile /\ doubt'[cur] = TRUE
           /\ ResultInv' /\ CatInv'
<1>. DEFINE f == [rows |-> rows, footer |-> FALSE, mtime |-> clock]
<1>1. cur \in Stems
  BY CurArchive
<1>2. cur' = cur
  BY DEF cur
<1>3. clock \in Nat /\ clock \in 1..clock
  BY SizesAssumption DEF Types
<1>4. f \in Parquet /\ f.rows = rows /\ f.mtime = clock
  BY <1>3, ZenonT(30) DEF Parquet
<1>5. /\ db' = [db EXCEPT ![cur] = f] /\ doubt' = [doubt EXCEPT ![cur] = TRUE]
      /\ cut' = cut \ {cur} /\ conv' = [c EXCEPT !.buf = << >>, !.writer = TRUE]
  BY DEF Flush
<1>6. conv' \in Conv /\ conv'.writer = TRUE /\ conv'.buf = << >>
  <2>1. << >> \in Seq(Nat)
    OBVIOUS
  <2>. QED BY <1>5, <2>1, ZenonT(30) DEF Conv
<1>. HIDE DEF f
<1>7. /\ db' \in [Stems -> {NoFile} \cup Parquet] /\ doubt' \in [Stems -> BOOLEAN]
      /\ db'[cur] = f /\ f # NoFile /\ doubt'[cur] = TRUE /\ ResultInv'
  BY <1>1, <1>3, <1>4, <1>5, ParquetWritten, ZenonT(30)
<1>8. CatInv'
  BY <1>1, <1>2, <1>4, <1>5, <1>6, <1>7, CatWritten, ZenonT(30)
<1>9. Rows' = rows \o << >> /\ rows \o << >> = rows
  BY <1>2, <1>4, <1>6, <1>7, ConcatAppend, ZenonT(30) DEF Rows
<1>. QED BY <1>5, <1>6, <1>7, <1>8, <1>9 DEF Types

\* What Consume does to the batch and the file, with or without a flush.
LEMMA ConsumeStep ==
    ASSUME IInv, pc = "read", conv.got < Members, UNCHANGED <<files, catalog, pc, todo, opts>>,
           NEW c \in Conv, NEW row \in Nat, Consume(c, row),
           c.got = conv.got /\ c.buf = conv.buf /\ c.writer = conv.writer
    PROVE  /\ conv' \in Conv /\ db' \in [Stems -> {NoFile} \cup Parquet]
           /\ doubt' \in [Stems -> BOOLEAN] /\ cut' \subseteq Stems
           /\ conv'.got = conv.got + 1 /\ conv'.stdout = c.stdout
           /\ conv'.pos = c.pos /\ conv'.stdin = c.stdin
           /\ conv'.feeder = c.feeder /\ conv'.proc = c.proc /\ conv'.eof = c.eof
           /\ conv'.changed = c.changed
           /\ Rows' = Append(Rows, row) /\ Len(conv'.buf) < BatchRows
           /\ WriterInv' /\ ResultInv' /\ CatInv'
<1>. USE DEF files, catalog, Busy
<1>0. Types /\ TodoInv /\ CountInv /\ WriterInv /\ ResultInv /\ CatInv
  BY DEF IInv, ConvInv
<1>1. cur \in Stems /\ cur' = cur
  <2>1. cur \in Stems
    BY <1>0, CurArchive
  <2>2. cur' = cur
    BY DEF cur
  <2>. QED BY <2>1, <2>2
<1>. DEFINE base == IF conv.writer THEN db[cur].rows ELSE << >>
            buf == Append(conv.buf, row)
            d == [c EXCEPT !.got = c.got + 1, !.buf = Append(c.buf, row)]
<1>2. Rows \in Seq(Nat) /\ Len(Rows) = conv.got
  BY <1>0, RowsType DEF CountInv
<1>3. base \in Seq(Nat) /\ conv.buf \in Seq(Nat) /\ conv.got \in Nat
  BY <1>0, <1>1 DEF Types, Conv, WriterInv, Parquet
<1>4. buf \in Seq(Nat) /\ base \o buf = Append(base \o conv.buf, row)
  <2>1. buf \in Seq(Nat)
    BY <1>3
  <2>. HIDE DEF base
  <2>. QED BY <1>3, <2>1, ConcatAppend, Zenon
<1>5. base \o buf = Append(Rows, row)
  BY <1>4, Zenon DEF Rows
<1>6. /\ d \in Conv /\ d.buf = buf /\ d.writer = conv.writer /\ d.got = conv.got + 1
      /\ d.stdout = c.stdout /\ d.pos = c.pos /\ d.stdin = c.stdin
      /\ d.feeder = c.feeder /\ d.proc = c.proc /\ d.eof = c.eof /\ d.changed = c.changed
  <2>1. Append(c.buf, row) = buf /\ c.got + 1 \in Nat
    BY <1>3
  <2>. QED BY <1>3, <1>4, <2>1, Zenon DEF Conv
<1>. HIDE DEF base, buf, d
<1>7. CASE Len(buf) >= BatchRows
  <2>1. Flush(d)
    BY <1>6, <1>7, Zenon DEF Consume, d
  <2>2. base \o buf \in Seq(Nat) /\ Len(base \o buf) <= Members
    <3>1. Len(Append(Rows, row)) = conv.got + 1 /\ Append(Rows, row) \in Seq(Nat)
      BY <1>2
    <3>. QED BY <1>3, <1>5, <3>1, SizesAssumption, SMTT(30)
  <2>3. base \o buf = (IF conv.writer THEN db[cur].rows ELSE << >>) \o d.buf
    BY <1>6, Zenon DEF base
  <2>6. /\ db' \in [Stems -> {NoFile} \cup Parquet] /\ doubt' \in [Stems -> BOOLEAN]
        /\ cut' \subseteq Stems
        /\ conv' \in Conv /\ conv' = [d EXCEPT !.buf = << >>, !.writer = TRUE]
        /\ Rows' = base \o buf /\ db'[cur] # NoFile /\ doubt'[cur] = TRUE
        /\ ResultInv' /\ CatInv'
    BY <1>0, <1>6, <2>1, <2>2, <2>3, FlushStep, ZenonT(30)
  <2>7. /\ conv' \in Conv /\ conv'.got = conv.got + 1 /\ conv'.stdout = c.stdout
        /\ conv'.pos = c.pos /\ conv'.stdin = c.stdin
        /\ conv'.feeder = c.feeder /\ conv'.proc = c.proc /\ conv'.eof = c.eof
        /\ conv'.changed = c.changed /\ conv'.buf = << >> /\ conv'.writer = TRUE
    <3>3. /\ conv'.got = d.got /\ conv'.stdout = d.stdout /\ conv'.pos = d.pos
          /\ conv'.stdin = d.stdin /\ conv'.feeder = d.feeder /\ conv'.proc = d.proc
          /\ conv'.eof = d.eof /\ conv'.changed = d.changed
          /\ conv'.buf = << >> /\ conv'.writer = TRUE
      BY <1>6, <2>6 DEF Conv
    <3>. QED BY <1>6, <2>6, <3>3, SMTT(30)
  <2>8. Rows' = Append(Rows, row)
    BY <1>5, <2>6
  <2>9. Len(conv'.buf) < BatchRows
    BY <2>7, SizesAssumption, SMTT(30)
  <2>10. WriterInv'
    BY <1>1, <2>6, SMTT(30) DEF WriterInv
  <2>. QED BY <2>6, <2>7, <2>8, <2>9, <2>10
<1>8. CASE ~ (Len(buf) >= BatchRows)
  <2>1. conv' = d /\ db' = db /\ doubt' = doubt /\ cut' = cut
    BY <1>6, <1>8, Zenon DEF Consume, d, history
  <2>2. Rows' = Append(Rows, row)
    BY <1>1, <1>5, <1>6, <2>1, ZenonT(30) DEF Rows, base
  <2>3. Len(conv'.buf) < BatchRows
    BY <1>4, <1>6, <1>8, <2>1, SizesAssumption
  <2>4. WriterInv'
    BY <1>0, <1>1, <1>6, <2>1 DEF WriterInv
  <2>5. ResultInv' /\ CatInv'
    BY <1>0, <1>6, <2>1, ResultStays, CatStays
  <2>. QED BY <1>0, <1>6, <2>1, <2>2, <2>3, <2>4, <2>5, SMTT(30) DEF Types
<1>. QED BY <1>7, <1>8

\* A member is read into the batch, and perhaps the batch flushed.
LEMMA ReadMemberStep == IInv /\ ReadMember => IInv'
<1>. SUFFICES ASSUME IInv, ReadMember PROVE IInv'
  OBVIOUS
<1>. USE DEF files, catalog, Busy
<1>0. Types /\ TodoInv /\ CountInv /\ DataInv /\ WriterInv /\ PixzInv /\ NoPixzInv /\ LastInv
  BY DEF IInv, ConvInv
<1>1. pc = "read" /\ conv.got < Members /\ UNCHANGED <<files, catalog, pc, todo, opts>>
  BY DEF ReadMember
<1>2. cur \in Stems /\ raw[cur] \in Archive /\ todo # {} /\ cur' = cur
  <2>1. cur \in Stems /\ raw[cur] \in Archive /\ todo # {}
    BY <1>0, <1>1, CurArchive, SMTT(30)
  <2>. QED BY <1>1, <2>1 DEF cur
<1>. DEFINE data == raw[cur].data
<1>3. /\ data \in Seq(Nat) /\ conv \in Conv /\ conv.stdout \in Seq(Nat)
      /\ conv.stdin \in Seq(Nat) /\ conv.got \in Nat /\ conv.pos \in Nat
  BY <1>0, <1>2 DEF Archive, Types, Conv
<1>4. Rows \in Seq(Nat) /\ Len(Rows) = conv.got
  BY <1>0, <1>1, RowsType DEF CountInv
<1>5. PICK g \in Nat, o \in Nat, i \in Nat, p \in Nat :
         g = conv.got /\ o = Len(conv.stdout) /\ i = Len(conv.stdin) /\ p = conv.pos
  <2>1. Len(conv.stdout) \in Nat /\ Len(conv.stdin) \in Nat
    BY <1>3
  <2>. QED BY <1>3, <2>1
\* The row that is read and what is left in the pipe.
<1>6. PICK c \in Conv, row \in Nat :
         /\ Consume(c, row)
         /\ c.got = conv.got /\ c.buf = conv.buf /\ c.writer = conv.writer
         /\ c.pos = conv.pos /\ c.stdin = conv.stdin /\ c.feeder = conv.feeder
         /\ c.proc = conv.proc /\ c.eof = conv.eof /\ c.changed = conv.changed
         /\ opts.pixz => /\ conv.stdout # << >> /\ row = Head(conv.stdout)
                         /\ c.stdout = Tail(conv.stdout)
         /\ ~ opts.pixz => g < Len(data) /\ row = data[g + 1] /\ c.stdout = conv.stdout
  <2>1. CASE opts.pixz
    <3>. DEFINE c == [conv EXCEPT !.stdout = Tail(conv.stdout)]
    <3>1. conv.stdout # << >> /\ Consume(c, Head(conv.stdout))
      BY <2>1 DEF ReadMember
    <3>2. Tail(conv.stdout) \in Seq(Nat) /\ Head(conv.stdout) \in Nat
      BY <1>3, <3>1, SMTT(30)
    <3>3. /\ c \in Conv /\ c.stdout = Tail(conv.stdout)
          /\ c.got = conv.got /\ c.buf = conv.buf /\ c.writer = conv.writer
          /\ c.pos = conv.pos /\ c.stdin = conv.stdin /\ c.feeder = conv.feeder
          /\ c.proc = conv.proc /\ c.eof = conv.eof /\ c.changed = conv.changed
      BY <1>3, <3>2, Zenon DEF Conv
    <3>. HIDE DEF c
    <3>. QED BY <2>1, <3>1, <3>2, <3>3, Zenon
  <2>2. CASE ~ opts.pixz
    <3>1. g < Len(data) /\ Consume(conv, data[g + 1])
      BY <1>5, <2>2 DEF ReadMember
    <3>2. data[g + 1] \in Nat
      BY <1>3, <3>1, SMTT(30)
    <3>. QED BY <1>3, <2>2, <3>1, <3>2, Zenon
  <2>. QED BY <2>1, <2>2
<1>7. /\ conv' \in Conv /\ db' \in [Stems -> {NoFile} \cup Parquet]
      /\ doubt' \in [Stems -> BOOLEAN] /\ cut' \subseteq Stems
      /\ conv'.got = conv.got + 1 /\ conv'.stdout = c.stdout
      /\ conv'.pos = c.pos /\ conv'.stdin = c.stdin
      /\ conv'.feeder = c.feeder /\ conv'.proc = c.proc /\ conv'.eof = c.eof
      /\ conv'.changed = c.changed
      /\ Rows' = Append(Rows, row) /\ Len(conv'.buf) < BatchRows
      /\ WriterInv' /\ ResultInv' /\ CatInv'
  BY <1>1, <1>6, ConsumeStep, Zenon
<1>8. Types' /\ TodoInv'
  BY <1>0, <1>1, <1>2, <1>7, SMTT(30) DEF Types, TodoInv
<1>9. PixzInv' /\ NoPixzInv'
  BY <1>0, <1>1, <1>6, <1>7, SMTT(30) DEF PixzInv, NoPixzInv
<1>10. Len(Rows') = g + 1 /\ g + 1 <= Members
  BY <1>1, <1>4, <1>5, <1>6, <1>7, SizesAssumption, SMTT(30)
<1>11. Len(conv'.stdout) = IF opts.pixz THEN o - 1 ELSE o
  <2>1. opts.pixz => Len(Tail(conv.stdout)) = o - 1
    BY <1>3, <1>5, <1>6
  <2>. QED BY <1>5, <1>6, <1>7, <2>1, ZenonT(30)
<1>12. CountInv'
  <2>1. o <= PipeCap /\ i <= PipeCap /\ (opts.pixz => g + o + i = p - 1)
    BY <1>0, <1>1, <1>5, SMTT(30) DEF CountInv
  <2>2. Len(conv'.stdout) <= PipeCap /\ Len(conv'.stdin) <= PipeCap
    BY <1>5, <1>6, <1>7, <1>11, <2>1, SizesAssumption, SMTT(30)
  <2>3. opts.pixz => conv'.got + Len(conv'.stdout) + Len(conv'.stdin) = conv'.pos - 1
    <3>1. opts.pixz => (g + 1) + (o - 1) + i = p - 1
      BY <2>1
    <3>. QED BY <1>5, <1>6, <1>7, <1>11, <3>1, SMTT(30)
  <2>4. ~ opts.pixz => conv'.stdout = << >> /\ conv'.stdin = << >>
    BY <1>0, <1>1, <1>6, <1>7, SMTT(30) DEF CountInv
  <2>. QED BY <1>1, <1>5, <1>7, <1>10, <2>2, <2>3, <2>4 DEF CountInv
<1>13. DataInv'
  <2>. SUFFICES ASSUME ~ conv.changed PROVE DataInv'
    BY <1>6, <1>7, SMTT(30) DEF DataInv
  <2>1. /\ g + o + i <= Len(data) /\ PartOf(Rows, data, 0)
        /\ PartOf(conv.stdout, data, g) /\ PartOf(conv.stdin, data, g + o)
    BY <1>0, <1>1, <1>5, SMTT(30) DEF DataInv
  <2>2. raw'[cur'].data = data
    BY <1>1, <1>2, SMTT(30)
  <2>3. row = data[g + 1] => PartOf(Rows', data, 0)
    <3>1. 0 + Len(Rows) + 1 = g + 1
      BY <1>4, <1>5
    <3>. QED BY <1>3, <1>4, <1>7, <2>1, <3>1, AppendPart, Zenon
  <2>4. CASE opts.pixz
    <3>1. row = data[g + 1] /\ PartOf(c.stdout, data, g + 1)
      BY <1>3, <1>6, <2>1, <2>4, TailPart, SMTT(30)
    <3>2. PartOf(Rows', data, 0)
      BY <2>3, <3>1
    <3>3. (g + 1) + (o - 1) = g + o /\ (g + 1) + (o - 1) + i = g + o + i
      OBVIOUS
    <3>4. PartOf(conv'.stdin, data, conv'.got + Len(conv'.stdout))
      BY <1>5, <1>6, <1>7, <1>11, <2>1, <2>4, <3>3, SMTT(30)
    <3>5. conv'.got + Len(conv'.stdout) + Len(conv'.stdin) <= Len(data)
      BY <1>5, <1>6, <1>7, <1>11, <2>1, <2>4, <3>3, SMTT(30)
    <3>6. PartOf(conv'.stdout, data, conv'.got)
      BY <1>5, <1>7, <3>1, SMTT(30)
    <3>. QED BY <2>2, <3>2, <3>4, <3>5, <3>6 DEF DataInv
  <2>5. CASE ~ opts.pixz
    <3>1. conv'.stdout = << >> /\ conv'.stdin = << >>
      BY <1>0, <1>1, <1>6, <1>7, <2>5, SMTT(30) DEF CountInv
    <3>2. row = data[g + 1] /\ g < Len(data)
      BY <1>6, <2>5
    <3>3. PartOf(Rows', data, 0)
      BY <2>3, <3>2
    <3>4. PartOf(conv'.stdout, data, conv'.got) /\ PartOf(conv'.stdin, data, conv'.got + Len(conv'.stdout))
      BY <3>1 DEF PartOf
    <3>5. conv'.got + Len(conv'.stdout) + Len(conv'.stdin) <= Len(data)
      BY <1>3, <1>5, <1>7, <3>1, <3>2, SMTT(30)
    <3>. QED BY <2>2, <3>3, <3>4, <3>5, SMTT(30) DEF DataInv
  <2>. QED BY <2>4, <2>5, SMTT(30)
<1>14. LastInv'
  BY <1>1 DEF LastInv
<1>. QED BY <1>7, <1>8, <1>9, <1>12, <1>13, <1>14, SMTT(30) DEF IInv, ConvInv

-----------------------------------------------------------------------------
(* The end of convert_archive. *)

\* With pixz, no exception means that every member was read.
LEMMA AllRead ==
    IInv /\ pc = "check" /\ opts.pixz /\ ~ Raised => conv.got = Members
<1>. SUFFICES ASSUME IInv, pc = "check", opts.pixz, ~ Raised PROVE conv.got = Members
  OBVIOUS
<1>1. Types /\ CountInv /\ PixzInv /\ Busy
  BY DEF IInv, ConvInv, Busy
<1>2. ~ conv.failed /\ conv.proc = "ok"
  BY DEF Raised
<1>3. conv.stdin = << >> /\ conv.pos - 1 = Members /\ (conv.got = Members \/ conv.stdout = << >>)
  BY <1>1, <1>2 DEF PixzInv
<1>4. conv.got + Len(conv.stdout) + Len(conv.stdin) = conv.pos - 1 /\ conv.got \in Nat
  BY <1>1 DEF CountInv, Types, Conv
<1>. QED BY <1>3, <1>4

\* Between two conversions convert_archive has no locals to speak of.
LEMMA NotBusyConv == ~ Busy' => ConvInv'
BY DEF ConvInv, CountInv, DataInv, WriterInv, PixzInv, NoPixzInv, LastInv, Busy

\* The run ends early: an open file stays in doubt and, if it has a view and
\* no footer, is remembered as cut short.
LEMMA AbandonStep ==
    ASSUME IInv, NEW b \in BOOLEAN, NEW t \in 1..clock, Abandon(b, t)
    PROVE  IInv'
<1>0. Types /\ TodoInv /\ WriterInv /\ ResultInv /\ CatInv
  BY DEF IInv, ConvInv
<1>1. /\ UNCHANGED <<files, catalog, doubt>> /\ pc' = "idle" /\ todo' = {}
      /\ conv' = Idle /\ opts' = NoOpts
  BY DEF Abandon, Exit
<1>2. Idle \in Conv /\ Idle.writer = FALSE /\ NoOpts \in [pixz : BOOLEAN, force : BOOLEAN]
  BY DEF Idle, Conv, NoOpts
<1>3. db' \in [Stems -> {NoFile} \cup Parquet] /\ cut' \subseteq Stems /\ ResultInv' /\ CatInv'
  <2>1. CASE ~ conv.writer
    <3>1. db' = db /\ cut' = cut
      BY <2>1 DEF Abandon
    <3>2. CatInv'
      BY <1>0, <1>1, <2>1, <3>1 DEF CatInv, Writing, catalog
    <3>. QED BY <1>0, <1>1, <3>1, <3>2, ResultStays, SMTT(30) DEF Types
  <2>2. CASE conv.writer
    <3>1. Busy
      BY <1>0, <1>2, <2>2 DEF TodoInv
    <3>2. cur \in Stems
      BY <1>0, <3>1, CurArchive
    <3>3. db[cur] # NoFile /\ doubt[cur] /\ db[cur] \in Parquet
      BY <1>0, <2>2, <3>1, <3>2, SMTT(30) DEF WriterInv, Types
    <3>. DEFINE f == [rows |-> IF b THEN db[cur].rows ELSE << >>, footer |-> b, mtime |-> t]
    <3>4. db' = [db EXCEPT ![cur] = f] /\ cut' = IF ~ b THEN cut \cup ({cur} \cap views) ELSE cut
      <4>1. db' = [db EXCEPT ![cur] = [rows |-> IF b THEN @.rows ELSE << >>, footer |-> b, mtime |-> t]]
        BY <2>2 DEF Abandon
      <4>2. cut' = IF ~ b THEN cut \cup ({cur} \cap views) ELSE cut
        BY <2>2, Zenon DEF Abandon
      <4>. QED BY <1>0, <3>2, <4>1, <4>2, Zenon DEF Types
    <3>5. t \in Nat /\ f.mtime = t /\ f.footer = b
      BY <1>0, SizesAssumption DEF Types
    <3>6. f \in Parquet /\ Len(f.rows) <= Members
      <4>1. db[cur].rows \in Seq(Nat) /\ Len(db[cur].rows) <= Members
        BY <1>0, <3>2, <3>3 DEF Parquet, ResultInv, FileInv
      <4>2. << >> \in Seq(Nat) /\ Len(<< >>) <= Members
        BY SizesAssumption
      <4>. QED BY <3>5, <4>1, <4>2 DEF Parquet
    <3>7. doubt' = [doubt EXCEPT ![cur] = TRUE]
      BY <1>0, <1>1, <3>2, <3>3 DEF Types
    <3>. HIDE DEF f
    <3>8. db' \in [Stems -> {NoFile} \cup Parquet] /\ f # NoFile /\ ResultInv'
      BY <1>0, <1>1, <3>2, <3>4, <3>5, <3>6, <3>7, ParquetWritten, ZenonT(30)
    <3>9. cut' \subseteq Stems /\ cut \ {cur} \subseteq cut' /\ (b \/ cur \in cut' \/ cur \notin views)
      BY <1>0, <3>2, <3>4 DEF Types
    <3>10. CatInv'
      BY <1>0, <1>1, <3>2, <3>4, <3>5, <3>6, <3>8, <3>9, CatWritten, ZenonT(30)
    <3>. QED BY <3>8, <3>9, <3>10
  <2>. QED BY <2>1, <2>2
<1>4. Types' /\ TodoInv'
  BY <1>0, <1>1, <1>2, <1>3, SMTT(30) DEF Types, TodoInv, files, catalog, Busy
<1>5. ConvInv'
  BY <1>1, NotBusyConv DEF Busy
<1>. QED BY <1>3, <1>4, <1>5 DEF IInv

\* convert_archive raises, or the program is killed.
LEMMA CutShortStep == IInv /\ (Raise \/ Kill) => IInv'
<1>. SUFFICES ASSUME IInv, Raise \/ Kill PROVE IInv'
  OBVIOUS
<1>0. Types /\ TodoInv /\ WriterInv /\ FileInv
  BY DEF IInv, ConvInv, ResultInv
<1>1. clock \in 1..clock
  BY <1>0, SizesAssumption DEF Types
<1>2. CASE Raise
  BY <1>1, <1>2, AbandonStep, Zenon DEF Raise
<1>3. CASE Kill
  <2>. DEFINE t == IF conv.writer THEN db[cur].mtime ELSE clock
  <2>1. Abandon(FALSE, t)
    BY <1>3, ZenonT(30) DEF Kill
  <2>2. t \in 1..clock
    <3>1. conv.writer => Busy
      BY <1>0 DEF TodoInv, Idle
    <3>2. conv.writer => cur \in Stems /\ db[cur] # NoFile
      BY <1>0, <3>1, CurArchive DEF WriterInv
    <3>. QED BY <1>0, <1>1, <3>2 DEF FileInv
  <2>. HIDE DEF t
  <2>. QED BY <2>1, <2>2, AbandonStep, Zenon
<1>. QED BY <1>2, <1>3

\* Cleanup found nothing wrong: the last batch is to come.
LEMMA CheckStep == IInv /\ Check => IInv'
<1>. SUFFICES ASSUME IInv, Check PROVE IInv'
  OBVIOUS
<1>0. Types /\ TodoInv /\ CountInv /\ DataInv /\ WriterInv /\ PixzInv /\ NoPixzInv
      /\ ResultInv /\ CatInv
  BY DEF IInv, ConvInv
<1>1. CASE Raised
  BY <1>1, CutShortStep DEF Check
<1>2. CASE ~ Raised
  <2>1. /\ pc = "check" /\ pc' = "flush" /\ Busy /\ Busy'
        /\ UNCHANGED <<files, db, catalog, todo, opts, conv, doubt, cut>>
    BY <1>2 DEF Check, Busy, history
  <2>2. opts.pixz => conv.got = Members
    BY <1>2, <2>1, AllRead
  <2>3. Types' /\ TodoInv'
    BY <1>0, <2>1 DEF Types, TodoInv, files, catalog
  <2>4. CountInv' /\ DataInv' /\ WriterInv'
    BY <1>0, <2>1, FlowStays DEF flow
  <2>5. PixzInv' /\ NoPixzInv' /\ LastInv'
    BY <1>0, <2>1, <2>2, SMTT(30) DEF PixzInv, NoPixzInv, LastInv
  <2>6. ResultInv' /\ CatInv'
    BY <1>0, <2>1, ResultStays, CatStays
  <2>. QED BY <2>3, <2>4, <2>5, <2>6 DEF IInv, ConvInv
<1>. QED BY <1>1, <1>2

\* The last batch is written.
LEMMA LastFlushStep == IInv /\ LastFlush => IInv'
<1>. SUFFICES ASSUME IInv, LastFlush PROVE IInv'
  OBVIOUS
<1>0. Types /\ TodoInv /\ CountInv /\ DataInv /\ WriterInv /\ PixzInv /\ NoPixzInv /\ LastInv
      /\ ResultInv /\ CatInv
  BY DEF IInv, ConvInv
<1>1. /\ pc = "flush" /\ pc' = "close" /\ Busy /\ Busy' /\ conv \in Conv
      /\ UNCHANGED <<files, catalog, todo, opts>>
  BY <1>0 DEF LastFlush, Busy, Types
<1>2. cur' = cur /\ raw' = raw
  BY <1>1 DEF cur, files
<1>3. Rows \in Seq(Nat) /\ Len(Rows) <= Members
  BY <1>0, <1>1, RowsType, SizesAssumption, SMTT(30) DEF CountInv
<1>4. CASE conv.writer /\ conv.buf = << >>
  <2>1. UNCHANGED <<db, conv, doubt, cut>>
    BY <1>4 DEF LastFlush, history
  <2>2. Types' /\ TodoInv'
    BY <1>0, <1>1, <2>1 DEF Types, TodoInv, files, catalog
  <2>3. CountInv' /\ DataInv' /\ WriterInv'
    BY <1>0, <1>1, <2>1, FlowStays DEF flow
  <2>4. PixzInv' /\ NoPixzInv' /\ LastInv'
    BY <1>0, <1>1, <1>4, <2>1, SMTT(30) DEF PixzInv, NoPixzInv, LastInv
  <2>5. ResultInv' /\ CatInv'
    BY <1>0, <1>1, <2>1, ResultStays, CatStays
  <2>. QED BY <2>2, <2>3, <2>4, <2>5 DEF IInv, ConvInv
<1>5. CASE ~ (conv.writer /\ conv.buf = << >>)
  <2>1. Flush(conv)
    BY <1>5, Zenon DEF LastFlush
  <2>2. Rows = (IF conv.writer THEN db[cur].rows ELSE << >>) \o conv.buf
    BY Zenon DEF Rows
  <2>3. /\ db' \in [Stems -> {NoFile} \cup Parquet] /\ doubt' \in [Stems -> BOOLEAN]
        /\ cut' \subseteq Stems
        /\ conv' \in Conv /\ conv' = [conv EXCEPT !.buf = << >>, !.writer = TRUE]
        /\ Rows' = Rows /\ db'[cur] # NoFile /\ doubt'[cur] = TRUE
        /\ ResultInv' /\ CatInv'
    BY <1>0, <1>1, <1>3, <2>1, <2>2, FlushStep, ZenonT(30)
  <2>4. /\ conv'.got = conv.got /\ conv'.stdout = conv.stdout /\ conv'.pos = conv.pos
        /\ conv'.stdin = conv.stdin /\ conv'.feeder = conv.feeder /\ conv'.proc = conv.proc
        /\ conv'.eof = conv.eof /\ conv'.changed = conv.changed /\ conv'.failed = conv.failed
        /\ conv'.buf = << >> /\ conv'.writer = TRUE
    BY <1>1, <2>3 DEF Conv
  <2>5. Types' /\ TodoInv'
    BY <1>0, <1>1, <2>3 DEF Types, TodoInv, files, catalog
  <2>6. CountInv'
    <3>1. Len(conv'.buf) < BatchRows
      BY <2>4, SizesAssumption, SMTT(30)
    <3>. QED BY <1>0, <1>1, <2>3, <2>4, <3>1, SMTT(30) DEF CountInv
  <2>7. DataInv'
    BY <1>0, <1>1, <1>2, <2>3, <2>4, SMTT(30) DEF DataInv
  <2>8. WriterInv'
    BY <1>2, <2>3 DEF WriterInv
  <2>9. PixzInv' /\ NoPixzInv' /\ LastInv'
    BY <1>0, <1>1, <2>4, SMTT(30) DEF PixzInv, NoPixzInv, LastInv
  <2>. QED BY <2>3, <2>5, <2>6, <2>7, <2>8, <2>9 DEF IInv, ConvInv
<1>. QED BY <1>4, <1>5

\* The file that is closed is right or in doubt.
LEMMA CloseStep == IInv /\ CloseWriter => IInv'
<1>. SUFFICES ASSUME IInv, CloseWriter PROVE IInv'
  OBVIOUS
<1>0. Types /\ TodoInv /\ CountInv /\ DataInv /\ WriterInv /\ LastInv /\ ResultInv /\ CatInv
  BY DEF IInv, ConvInv
<1>. DEFINE d == conv.changed \/ (~ opts.pixz /\ conv.got < Members)
<1>1. /\ pc = "close" /\ db' = [db EXCEPT ![cur].footer = TRUE, ![cur].mtime = clock]
      /\ doubt' = [doubt EXCEPT ![cur] = d]
      /\ todo' = todo \ {cur} /\ pc' = "next" /\ conv' = Idle
      /\ UNCHANGED <<files, catalog, opts, cut>> /\ Busy
  BY DEF CloseWriter, Busy
<1>2. cur \in Stems /\ raw[cur] # NoFile /\ raw[cur] \in Archive /\ todo # {}
  BY <1>0, <1>1, CurArchive, SMTT(30)
<1>3. conv.writer /\ conv.buf = << >> /\ db[cur] # NoFile /\ db[cur] \in Parquet
  BY <1>0, <1>1, <1>2, SMTT(30) DEF LastInv, WriterInv, Types
<1>4. PICK r \in Parquet : r = db[cur]
  BY <1>3
<1>. DEFINE f == [r EXCEPT !.footer = TRUE, !.mtime = clock]
<1>5. clock \in Nat /\ clock \in 1..clock
  BY <1>0, SizesAssumption DEF Types
<1>6. f \in Parquet /\ f.mtime = clock /\ f.rows = r.rows /\ f.footer = TRUE
  BY <1>4, <1>5, Zenon DEF Parquet
<1>7. db' = [db EXCEPT ![cur] = f]
  BY <1>0, <1>1, <1>2, <1>4, ZenonT(30) DEF Types
<1>8. Rows = r.rows /\ Rows \in Seq(Nat) /\ Len(Rows) = conv.got /\ conv.got \in Nat
      /\ conv.got <= Members
  <2>1. r.rows \in Seq(Nat)
    BY DEF Parquet
  <2>2. Rows = r.rows \o << >>
    BY <1>3, <1>4 DEF Rows
  <2>. QED BY <1>0, <1>1, <2>1, <2>2, ConcatAppend DEF CountInv, Types, Conv
<1>9. d \/ f.rows = raw[cur].data
  <2>. SUFFICES ASSUME ~ d PROVE Rows = raw[cur].data
    BY <1>6, <1>8
  <2>1. raw[cur].data \in Seq(Nat) /\ Len(raw[cur].data) \in {1, Members}
    BY <1>0, <1>2 DEF Archive, ResultInv, FileInv
  <2>2. conv.got = Members
    BY <1>0, <1>1, <1>8, SizesAssumption, SMTT(30) DEF LastInv
  <2>3. PartOf(Rows, raw[cur].data, 0)
    BY <1>0, <1>1 DEF DataInv
  <2>4. conv.got <= Len(raw[cur].data)
    <3>1. conv.got + Len(conv.stdout) + Len(conv.stdin) <= Len(raw[cur].data)
      BY <1>0, <1>1 DEF DataInv
    <3>2. Len(conv.stdout) \in Nat /\ Len(conv.stdin) \in Nat
      BY <1>0 DEF Types, Conv
    <3>. QED BY <1>8, <2>1, <3>1, <3>2, SMTT(30)
  <2>5. Len(raw[cur].data) = Len(Rows)
    <3>. DEFINE n == Len(raw[cur].data)
    <3>1. n \in {1, Members} /\ Members <= n
      BY <2>1, <2>2, <2>4, Zenon
    <3>. HIDE DEF n
    <3>2. n = Members
      BY <3>1, SizesAssumption
    <3>3. Len(Rows) = Members
      BY <1>8, <2>2, Zenon
    <3>. QED BY <3>2, <3>3, Zenon DEF n
  <2>. QED BY <1>8, <2>1, <2>3, <2>5, WholePart, SMTT(30)
<1>10. d \in BOOLEAN /\ Len(f.rows) <= Members
  BY <1>0, <1>6, <1>8 DEF Types, Conv
<1>. HIDE DEF d, f
<1>11. /\ db' \in [Stems -> {NoFile} \cup Parquet] /\ doubt' \in [Stems -> BOOLEAN]
       /\ f # NoFile /\ ResultInv'
  BY <1>0, <1>1, <1>2, <1>5, <1>6, <1>7, <1>9, <1>10, ParquetWritten, ZenonT(30)
<1>12. CatInv'
  BY <1>0, <1>1, <1>2, <1>6, <1>7, <1>11, CatWritten, ZenonT(30)
<1>13. Idle \in Conv
  BY DEF Idle, Conv
<1>14. Types' /\ TodoInv'
  BY <1>0, <1>1, <1>11, <1>13, ZenonT(30) DEF Types, TodoInv, files, catalog, Busy
<1>15. ConvInv'
  BY <1>1, NotBusyConv DEF Busy
<1>. QED BY <1>11, <1>12, <1>14, <1>15 DEF IInv

-----------------------------------------------------------------------------
(* The other steps. *)

\* An archive is skipped or opened.
LEMMA NextArchiveStep == IInv /\ NextArchive => IInv'
<1>. SUFFICES ASSUME IInv, NextArchive PROVE IInv'
  OBVIOUS
<1>. USE DEF files, catalog, history
<1>0. Types /\ TodoInv /\ ResultInv /\ CatInv
  BY DEF IInv
<1>1. pc = "next" /\ todo # {} /\ UNCHANGED <<files, db, catalog, opts, doubt, cut>>
  BY DEF NextArchive
<1>2. ResultInv'
  BY <1>0, <1>1, ResultStays, SMTT(30)
<1>3. conv = Idle /\ Idle \in Conv
  BY <1>0, <1>1 DEF TodoInv, Busy, Types
<1>. DEFINE NoWriter == conv'.writer = FALSE
<1>9. NoWriter => CatInv'
  BY <1>0, <1>1, <1>3 DEF CatInv, Writing, Idle
<1>4. CASE pc' = "next"
  <2>1. conv' = conv /\ todo' \subseteq todo /\ NoWriter
    BY <1>1, <1>3, <1>4 DEF NextArchive, Idle
  <2>2. Types' /\ TodoInv'
    BY <1>0, <1>1, <1>3, <1>4, <2>1, SMTT(30) DEF Types, TodoInv, Busy
  <2>3. ConvInv'
    BY <1>4, NotBusyConv DEF Busy
  <2>. QED BY <1>2, <1>9, <2>1, <2>2, <2>3 DEF IInv
<1>5. CASE pc' # "next"
  <2>1. pc' = "read" /\ todo' = todo /\ cur' = cur
    BY <1>1, <1>5, SMTT(30) DEF NextArchive, cur
  <2>2. /\ conv' \in Conv /\ conv'.stdin = << >> /\ conv'.stdout = << >> /\ conv'.buf = << >>
        /\ conv'.got = 0 /\ conv'.pos = 1 /\ conv'.writer = FALSE /\ conv'.changed = FALSE
        /\ conv'.eof = FALSE
        /\ opts.pixz => conv'.feeder = "feed" /\ conv'.proc = "run"
        /\ ~ opts.pixz => conv'.feeder = "none" /\ conv'.proc = "none"
    <3>1. CASE opts.pixz
      <4>1. conv' = [Idle EXCEPT !.feeder = "feed", !.proc = "run"]
        BY <1>1, <1>5, <3>1 DEF NextArchive
      <4>. QED BY <1>3, <3>1, <4>1, ZenonT(30) DEF Idle, Conv
    <3>2. CASE ~ opts.pixz
      <4>1. conv' = Idle
        BY <1>1, <1>5, <3>2, SMTT(30) DEF NextArchive
      <4>. QED BY <1>3, <3>2, <4>1 DEF Idle
    <3>. QED BY <3>1, <3>2, Zenon
  <2>3. Types' /\ TodoInv'
    BY <1>0, <1>1, <2>1, <2>2, SMTT(30) DEF Types, TodoInv, Busy
  <2>4. Rows' = << >>
    BY <2>2 DEF Rows
  <2>5. CountInv'
    BY <2>2, <2>4, SizesAssumption, SMTT(30) DEF CountInv
  <2>6. DataInv'
    <3>1. raw[cur] \in Archive
      BY <1>0, <1>1, CurIn, SMTT(30) DEF TodoInv, Types
    <3>2. Len(raw[cur].data) \in Nat
      BY <3>1 DEF Archive
    <3>. QED BY <1>1, <2>1, <2>2, <2>4, <3>2, SMTT(30) DEF DataInv, PartOf
  <2>7. WriterInv' /\ PixzInv' /\ NoPixzInv' /\ LastInv'
    BY <1>1, <2>1, <2>2 DEF WriterInv, PixzInv, NoPixzInv, LastInv
  <2>. QED BY <1>2, <1>9, <2>2, <2>3, <2>5, <2>6, <2>7, SMTT(30) DEF IInv, ConvInv
<1>. QED BY <1>4, <1>5

\* main begins or ends, or time passes.
LEMMA OutsideStep == IInv /\ (Tick \/ Start \/ Refresh) => IInv'
<1>. SUFFICES ASSUME IInv, Tick \/ Start \/ Refresh PROVE IInv'
  OBVIOUS
<1>. USE DEF files, catalog, history
<1>0. Types /\ TodoInv /\ ConvInv /\ ResultInv /\ CatInv
  BY DEF IInv
<1>1. CASE Tick
  <2>1. UNCHANGED <<raw, db, catalog, pc, todo, opts, conv, doubt, cut>> /\ clock' = clock + 1
        /\ version' = version /\ clock' \in 1..MaxClock
    BY <1>0, <1>1, SizesAssumption, SMTT(30) DEF Tick, Types
  <2>2. Types'
    BY <1>0, <2>1, SMTT(30) DEF Types
  <2>3. TodoInv' /\ ConvInv'
    BY <1>0, <2>1, ZenonT(30) DEF TodoInv, Busy, ConvInv, CountInv, DataInv, WriterInv, PixzInv, NoPixzInv, LastInv, Rows, cur
  <2>4. FileInv'
    BY <1>0, <2>1, SizesAssumption DEF ResultInv, FileInv, Types
  <2>5. SkippedIsCurrent' /\ CatInv'
    BY <1>0, <2>1, CatStays DEF ResultInv, SkippedIsCurrent, UpToDate
  <2>. QED BY <2>2, <2>3, <2>4, <2>5, SMTT(30) DEF IInv, ResultInv
<1>2. CASE Start
  <2>1. /\ UNCHANGED <<files, db, catalog, conv, doubt, cut>> /\ pc = "idle" /\ pc' = "next"
        /\ todo' = {s \in Stems : raw[s] # NoFile} /\ opts' \in [pixz : BOOLEAN, force : BOOLEAN]
    BY <1>2 DEF Start
  <2>2. Types' /\ TodoInv'
    BY <1>0, <2>1 DEF Types, TodoInv, Busy
  <2>3. ConvInv' /\ ResultInv'
    BY <1>0, <2>1, NotBusyConv, ResultStays, SMTT(30) DEF Busy
  <2>4. CatInv'
    BY <1>0, <2>1 DEF CatInv, Writing, TodoInv, Busy, Idle
  <2>. QED BY <2>2, <2>3, <2>4 DEF IInv
<1>3. CASE Refresh
  <2>1. /\ UNCHANGED <<files, db, doubt>> /\ pc = "next" /\ pc' = "idle" /\ todo' = {}
        /\ conv' = Idle /\ opts' = NoOpts
    BY <1>3, SMTT(30) DEF Refresh, Exit
  <2>2. Idle \in Conv /\ Idle.writer = FALSE /\ NoOpts \in [pixz : BOOLEAN, force : BOOLEAN]
    BY DEF Idle, Conv, NoOpts
  <2>3. conv = Idle
    BY <1>0, <2>1 DEF TodoInv, Busy
  <2>4. \A s \in views : s \in Stems /\ db[s] # NoFile /\ (db[s].footer \/ s \in cut)
    BY <1>0, <2>2, <2>3 DEF CatInv, Types, Writing
  <2>. DEFINE bad == {s \in Parquets : ~ db[s].footer}
  <2>5. views' \subseteq Stems /\ allStores' \subseteq views' /\ cut' \subseteq Stems /\ CatInv'
    <3>1. CASE bad = {}
      <4>1. views' = views \cup Parquets /\ allStores' = Parquets /\ cut' = {}
        BY <1>3, <3>1 DEF Refresh
      <4>2. \A s \in views' : s \in Stems /\ db[s] # NoFile /\ db[s].footer
        BY <2>4, <3>1, <4>1 DEF Parquets
      <4>. QED BY <2>1, <4>1, <4>2 DEF CatInv
    <3>2. CASE bad # {}
      <4>1. /\ views' = views \cup {s \in Parquets : \A t \in bad : Before(s, t)}
            /\ allStores' = allStores /\ cut' = cut
        BY <1>3, <3>2 DEF Refresh
      <4>2. \A s \in Stems : ~ Before(s, s)
        BY OrderAssumption DEF Before, IsInjective
      <4>3. \A s \in views' : s \in views \/ (s \in Stems /\ db[s] # NoFile /\ db[s].footer)
        BY <4>1, <4>2 DEF Parquets
      <4>. QED BY <1>0, <2>1, <2>4, <4>1, <4>3 DEF CatInv, Types
    <3>. QED BY <3>1, <3>2
  <2>6. Types' /\ TodoInv'
    BY <1>0, <2>1, <2>2, <2>5, SMTT(30) DEF Types, TodoInv, Busy
  <2>7. ConvInv'
    BY <2>1, NotBusyConv, SMTT(30) DEF Busy
  <2>8. ResultInv'
    BY <1>0, <2>1, SMTT(30) DEF ResultInv, FileInv, SkippedIsCurrent, UpToDate
  <2>. QED BY <2>5, <2>6, <2>7, <2>8, SMTT(30) DEF IInv
<1>. QED BY <1>1, <1>2, <1>3

\* An archive gets new contents.
LEMMA InstallStep ==
    ASSUME IInv, NEW s \in Stems, NEW data \in Seq(Nat), NEW t \in 1..clock,
           Len(data) \in {1, Members}, Install(s, data, t), version' \in 1..MaxVersion
    PROVE  IInv'
<1>. USE DEF catalog
<1>0. Types /\ TodoInv /\ CountInv /\ DataInv /\ WriterInv /\ PixzInv /\ NoPixzInv /\ LastInv
      /\ ResultInv /\ CatInv
  BY DEF IInv, ConvInv
<1>. DEFINE a == [data |-> data, mtime |-> t]
<1>1. t \in Nat /\ t # -1 /\ clock \in Nat
  BY <1>0, SizesAssumption, SMTT(30) DEF Types
<1>2. a \in Archive /\ a # NoFile /\ a.data = data /\ a.mtime = t
  BY <1>1 DEF Archive, NoFile
<1>3. raw' = [raw EXCEPT ![s] = a] /\ UNCHANGED <<clock, db, catalog, pc, todo, opts, cut>>
  BY DEF Install
<1>. HIDE DEF a
<1>4. raw' \in [Stems -> {NoFile} \cup Archive] /\ raw'[s] = a /\ \A u \in Stems : u # s => raw'[u] = raw[u]
  BY <1>0, <1>2, <1>3, SMTT(30) DEF Types
<1>5. /\ doubt' \in [Stems -> BOOLEAN] /\ (t <= db[s].mtime => doubt'[s])
      /\ \A u \in Stems : (doubt[u] => doubt'[u]) /\ (u # s => doubt'[u] = doubt[u])
  <2>1. doubt' = [doubt EXCEPT ![s] = doubt[s] \/ t <= db[s].mtime]
    BY DEF Install
  <2>2. doubt \in [Stems -> BOOLEAN]
    BY <1>0 DEF Types
  <2>3. (doubt[s] \/ t <= db[s].mtime) \in BOOLEAN
    OBVIOUS
  <2>. QED BY <2>1, <2>2, <2>3, Zenon
<1>6. /\ conv' \in Conv
      /\ \/ conv' = conv /\ ~ (Busy /\ cur = s)
         \/ conv' = [conv EXCEPT !.changed = TRUE] /\ Busy
  BY <1>0, ZenonT(30) DEF Install, Converting, Busy, Types, Conv
<1>7. /\ conv'.stdin = conv.stdin /\ conv'.stdout = conv.stdout /\ conv'.buf = conv.buf
      /\ conv'.got = conv.got /\ conv'.pos = conv.pos /\ conv'.writer = conv.writer
      /\ conv'.feeder = conv.feeder /\ conv'.proc = conv.proc /\ conv'.eof = conv.eof
      /\ conv'.failed = conv.failed /\ conv \in Conv
  BY <1>0, <1>6, SMTT(30) DEF Types, Conv
<1>8. conv'.changed = TRUE \/ (conv'.changed = conv.changed /\ ~ (Busy /\ cur = s))
  BY <1>6, <1>7 DEF Conv
<1>9. cur' = cur /\ Rows' = Rows /\ Busy' = Busy
  BY <1>3, <1>7 DEF cur, Rows, Busy
<1>10. Types' /\ TodoInv'
  <2>1. Types'
    BY <1>0, <1>3, <1>4, <1>5, <1>6, SMTT(30) DEF Types
  <2>2. TodoInv'
    BY <1>0, <1>2, <1>3, <1>4, <1>6, <1>9, SMTT(30) DEF TodoInv, Types
  <2>. QED BY <2>1, <2>2
<1>11. CountInv'
  BY <1>0, <1>3, <1>7, <1>9, SMTT(30) DEF CountInv
<1>12. DataInv'
  <2>. SUFFICES ASSUME Busy, ~ conv'.changed PROVE DataInv'
    BY <1>9 DEF DataInv
  <2>1. cur \in Stems /\ cur # s /\ ~ conv.changed
    BY <1>0, <1>8, CurArchive, SMTT(30)
  <2>2. raw'[cur'] = raw[cur]
    BY <1>4, <1>9, <2>1, SMTT(30)
  <2>. QED BY <1>0, <1>7, <1>9, <2>1, <2>2, SMTT(30) DEF DataInv
<1>13. WriterInv'
  <2>. SUFFICES ASSUME Busy, conv.writer PROVE doubt'[cur] /\ db[cur] # NoFile
    BY <1>3, <1>7, <1>9, SMTT(30) DEF WriterInv
  <2>. QED BY <1>0, <1>5, CurArchive, SMTT(30) DEF WriterInv
<1>14. PixzInv' /\ NoPixzInv'
  BY <1>0, <1>3, <1>7, <1>9, SMTT(30) DEF PixzInv, NoPixzInv
<1>15. FileInv'
  BY <1>0, <1>2, <1>3, <1>4, SMTT(30) DEF ResultInv, FileInv
<1>16. SkippedIsCurrent'
  <2>. SUFFICES ASSUME NEW u \in Stems, raw'[u] # NoFile, UpToDate(u)', ~ doubt'[u]
                PROVE  db'[u].footer /\ db'[u].rows = raw'[u].data
    BY SMTT(30) DEF SkippedIsCurrent
  <2>1. u # s
    <3>. SUFFICES ASSUME u = s PROVE FALSE
      OBVIOUS
    <3>1. db' = db /\ raw'[s] = a /\ a.mtime = t /\ ~ doubt'[s]
      BY <1>2, <1>3, <1>4
    <3>2. db[s] # NoFile /\ db[s].mtime >= t
      BY <3>1 DEF UpToDate
    <3>3. db[s].mtime \in Nat
      BY <1>0, <3>2 DEF Types, Parquet
    <3>4. t <= db[s].mtime
      BY <1>1, <3>2, <3>3
    <3>. QED BY <1>5, <3>1, <3>4, Zenon
  <2>2. raw[u] # NoFile /\ UpToDate(u) /\ ~ doubt[u]
    BY <1>3, <1>4, <1>5, <2>1, SMTT(30) DEF UpToDate
  <2>. QED BY <1>0, <1>3, <1>4, <2>1, <2>2, SMTT(30) DEF ResultInv, SkippedIsCurrent
<1>17. CatInv' /\ LastInv'
  BY <1>0, <1>3, <1>7, CatStays, SMTT(30) DEF LastInv
<1>. QED BY <1>10, <1>11, <1>12, <1>13, <1>14, <1>15, <1>16, <1>17, SMTT(30) DEF IInv, ConvInv, ResultInv

\* Archives arrive or grow.
LEMMA ArrivalStep == ASSUME IInv, NEW s \in Stems, Deliver(s) \/ Grow(s) PROVE IInv'
<1>1. /\ Types /\ clock \in 1..clock /\ version \in Nat /\ version \in 1..MaxVersion
      /\ Members \in Nat \ {0}
  BY SizesAssumption DEF IInv, Types
<1>2. \A x \in Nat : /\ [i \in 1..Members |-> x] \in Seq(Nat)
                    /\ Len([i \in 1..Members |-> x]) = Members
  BY <1>1
<1>3. CASE Deliver(s)
  <2>1. version' \in 1..MaxVersion
    BY <1>1, <1>3, SizesAssumption DEF Deliver
  <2>2. <<version>> \in Seq(Nat) /\ Len(<<version>>) = 1
    BY <1>1
  <2>3. CASE Install(s, <<version>>, clock)
    BY <1>1, <2>1, <2>2, <2>3, InstallStep, Zenon
  <2>4. CASE \E t \in 1..clock : Install(s, [i \in 1..Members |-> version], t)
    <3>1. PICK t \in 1..clock : Install(s, [i \in 1..Members |-> version], t)
      BY <2>4
    <3>2. PICK d \in Seq(Nat) : d = [i \in 1..Members |-> version] /\ Len(d) = Members
      BY <1>1, <1>2, Zenon
    <3>. QED BY <2>1, <3>1, <3>2, InstallStep, Zenon
  <2>. QED BY <1>3, <2>3, <2>4, Zenon DEF Deliver
<1>4. CASE Grow(s)
  <2>1. raw[s] \in Archive /\ Len(raw[s].data) \in {1, Members}
    BY <1>1, <1>4 DEF Grow, Types, IInv, ResultInv, FileInv
  <2>2. raw[s].data[Len(raw[s].data)] \in Nat
    <3>1. raw[s].data \in Seq(Nat) /\ Len(raw[s].data) \in Nat \ {0}
      <4>1. Members \in Nat \ {0}
        BY <1>1
      <4>2. raw[s].data \in Seq(Nat)
        BY <2>1 DEF Archive
      <4>3. Len(raw[s].data) \in {1, Members}
        BY <2>1
      <4>. QED BY <4>1, <4>2, <4>3, SMTT(30)
    <3>2. PICK d \in Seq(Nat) : d = raw[s].data
      BY <3>1
    <3>3. d[Len(d)] \in Nat
      BY <3>1, <3>2
    <3>. QED BY <3>2, <3>3
  <2>3. PICK d \in Seq(Nat) : d = [i \in 1..Members |-> raw[s].data[Len(raw[s].data)]] /\ Len(d) = Members
    BY <1>2, <2>2, ZenonT(30)
  <2>4. Install(s, d, clock) /\ version' = version
    BY <1>4, <2>3 DEF Grow
  <2>. QED BY <1>1, <2>3, <2>4, InstallStep
<1>. QED BY <1>3, <1>4, SMTT(30)

\* Every step keeps the invariant.
LEMMA InvStep == IInv /\ [Next]_vars => IInv'
<1>. SUFFICES ASSUME IInv, [Next]_vars PROVE IInv'
  OBVIOUS
<1>1. CASE Feeder \/ ReadError \/ Pixz \/ PixzFails \/ LoopEnd
  <2>1. Types' /\ TodoInv' /\ ConvInv'
    BY <1>1, FeederStep, ReadErrorStep, PixzStep, LoopEndStep, SMTT(30)
  <2>2. UNCHANGED <<files, db, catalog, todo, doubt, cut>>
    BY <1>1 DEF Feeder, ReadError, Pixz, PixzFails, LoopEnd, EndLoop, LoopRaises, LeaveLoop,
                Join, JoinTimesOut, Wait, WaitTimesOut, history
  <2>3. Types /\ ResultInv /\ CatInv
    BY DEF IInv
  <2>4. ResultInv' /\ CatInv'
    BY <1>1, <2>2, <2>3, WriterStays, ResultStays, CatStays
  <2>. QED BY <2>1, <2>4 DEF IInv
<1>2. CASE \E s \in Stems : Deliver(s) \/ Grow(s)
  BY <1>2, ArrivalStep
<1>3. CASE NextArchive \/ ReadMember \/ Check \/ LastFlush \/ CloseWriter
  BY <1>3, NextArchiveStep, ReadMemberStep, CheckStep, LastFlushStep, CloseStep, SMTT(30)
<1>4. CASE Tick \/ Start \/ Refresh \/ Kill \/ FinishRaises
  BY <1>4, OutsideStep, CutShortStep DEF FinishRaises
<1>5. CASE UNCHANGED vars
  <2>. USE <1>5 DEF vars, history, Busy
  <2>1. Types' /\ TodoInv'
    BY SMTT(30) DEF IInv, Types, TodoInv
  <2>2. ConvInv'
    BY Zenon DEF IInv, ConvInv, CountInv, DataInv, WriterInv, PixzInv, NoPixzInv, LastInv, Rows, cur
  <2>3. ResultInv' /\ CatInv'
    BY ResultStays, CatStays DEF IInv, files, catalog
  <2>. QED BY <2>1, <2>2, <2>3, SMTT(30) DEF IInv
<1>. QED BY <1>1, <1>2, <1>3, <1>4, <1>5 DEF Next, Main, LoopEnd

\* The invariant always holds.
LEMMA Invariance == Spec => []IInv
BY InitInv, InvStep, PTL DEF Spec

-----------------------------------------------------------------------------
\* Whatever fails, is killed or arrives while to_parquet.py runs, an archive
\* it would skip as up to date has a readable parquet with exactly its
\* stores, but for the cases that doubt names.
THEOREM SkippedCurrent == Spec => []SkippedIsCurrent
<1>1. IInv => SkippedIsCurrent
  BY DEF IInv, ResultInv
<1>. QED BY <1>1, Invariance, PTL

\* The types and bounds hold, and every view, those of all_stores included,
\* is over a parquet that exists and can be read, unless it is being written
\* in place or a run that was doing so failed or was killed.
THEOREM CatalogReadable == Spec => []AllStoresReadable
<1>1. IInv => TypeOK
  <2>. SUFFICES ASSUME IInv PROVE TypeOK
    OBVIOUS
  <2>1. Types /\ FileInv
    BY DEF IInv, ResultInv
  <2>2. {Len(conv.stdin), Len(conv.stdout)} \subseteq 0..PipeCap
        /\ conv.got \in 0..Members /\ Len(conv.buf) < BatchRows
    <3>0. conv.got \in Nat /\ Len(conv.stdin) \in Nat /\ Len(conv.stdout) \in Nat
      BY <2>1 DEF Types, Conv
    <3>1. CASE Busy
      BY <3>0, <3>1, SizesAssumption, SMTT(30) DEF IInv, ConvInv, CountInv
    <3>2. CASE ~ Busy
      <4>1. conv = Idle
        BY <3>2 DEF IInv, TodoInv
      <4>. QED BY <4>1, SizesAssumption DEF Idle
    <3>. QED BY <3>1, <3>2
  <2>. QED BY <2>1, <2>2 DEF Types, FileInv, TypeOK
<1>2. IInv => AllStoresReadable
  BY <1>1 DEF IInv, CatInv, AllStoresReadable
<1>. QED BY <1>2, Invariance, PTL

\* With pixz, a conversion that convert_archive reports as done has as many
\* stores as a whole archive: a feeder that failed, a pixz that died or was
\* killed after the time-out and a cut archive all raise.
THEOREM PixzWholeOrRaised == Spec => WholeOrRaised
<1>1. IInv /\ CloseWriter /\ opts.pixz => Complete(db'[cur].rows)
  <2>. SUFFICES ASSUME IInv, CloseWriter, opts.pixz PROVE Complete(db'[cur].rows)
    OBVIOUS
  <2>1. /\ pc = "close" /\ Busy /\ Types /\ TodoInv /\ CountInv /\ WriterInv /\ LastInv
        /\ db' = [db EXCEPT ![cur].footer = TRUE, ![cur].mtime = clock]
    BY DEF IInv, ConvInv, Busy, CloseWriter
  <2>2. conv.got = Members /\ conv.writer /\ conv.buf = << >>
    BY <2>1 DEF LastInv
  <2>3. cur \in Stems
    BY <2>1, CurArchive, SMTT(30)
  <2>4. db[cur] \in Parquet
    BY <2>1, <2>2, <2>3 DEF WriterInv, Types
  <2>5. db'[cur].rows = db[cur].rows
    BY <2>1, <2>3, <2>4, SMTT(30) DEF Types, Parquet
  <2>6. Rows = db[cur].rows
    <3>1. db[cur].rows \in Seq(Nat)
      BY <2>4 DEF Parquet
    <3>. QED BY <2>2, <3>1, ConcatAppend DEF Rows
  <2>. QED BY <2>1, <2>2, <2>5, <2>6, SMTT(30) DEF CountInv, Complete
<1>2. IInv /\ [Next]_vars => [CloseWriter /\ opts.pixz => Complete(db'[cur].rows)]_vars
  BY <1>1
<1>. QED BY <1>2, Invariance, PTL DEF Spec, WholeOrRaised
=============================================================================
