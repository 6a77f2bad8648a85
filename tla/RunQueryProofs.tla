--------------------------- MODULE RunQueryProofs ---------------------------
(***************************************************************************)
(* What run.py promises, for all analyses, benchmarks and directives, and  *)
(* any number of failures, interrupts, kills and resumed runs.             *)
(***************************************************************************)
EXTENDS RunQuery, SequenceTheorems, TLAPS

Parts == {All} \cup Benches
Csv == [head : {"none", "torn", "whole"}, parts : Seq(Parts \X {"whole", "cut", "torn"})]
Ending == {"stop", "join", "restore", "end"}
InQuery == {"list", "execute", "write"} \cup Ending

Has(c, b) == \E i \in DOMAIN c.parts : c.parts[i][1] = b

\* The rows of b are there at most once, whole, and not behind a torn row.
Clean(c, b) ==
    \A i \in DOMAIN c.parts : c.parts[i][1] = b =>
        /\ c.parts[i][2] = "whole"
        /\ i = 1 \/ c.parts[i - 1][2] # "torn"
        /\ \A k \in DOMAIN c.parts : c.parts[k][1] = b => k = i

\* The parts an analysis owes.
Due(q) == IF q \in PerBench THEN benches \ (NoRows \cup late[q]) ELSE {All}

Types ==
    /\ benches \subseteq Benches /\ stamped \subseteq Analyses
    /\ csv \in [Analyses -> Csv]
    /\ hurt \in [Analyses -> SUBSET Parts] /\ late \in [Analyses -> SUBSET Benches]
    /\ pc \in {"idle", "next"} \cup InQuery
    /\ queue \in Seq(Analyses) /\ todo \subseteq Parts
    /\ header \in BOOLEAN /\ raised \in BOOLEAN
    /\ pc \in InQuery => queue # << >> /\ cur \notin stamped

CsvInv ==
    \A q \in Analyses :
        /\ csv[q].head # "whole" => csv[q].parts = << >>
        /\ \A b \in Parts \ hurt[q] : Clean(csv[q], b)

\* The csv of an analysis without {bench} is whole or was cut, stamp or not.
PlainInv ==
    \A q \in Analyses \ PerBench : csv[q] # NoFile => All \in hurt[q] \/ Has(csv[q], All)

StampInv == \A q \in stamped : \A b \in Due(q) \ hurt[q] : Has(csv[q], b)

\* In the loop over the benchmarks every part that is due is in the csv or
\* still to do; unless the csv is about to be written afresh, what is to do
\* is not in it.
LoopInv ==
    /\ pc \in {"execute", "write"} \cup Ending /\ ~ raised =>
           \A b \in Due(cur) : b \in todo \/ (~ header /\ (b \in hurt[cur] \/ Has(csv[cur], b)))
    /\ pc \in {"execute", "write"} => ~ raised
    /\ pc \in {"execute", "write"} /\ ~ header =>
           /\ csv[cur].head = "whole"
           /\ \A b \in todo : b \in hurt[cur] \/ ~ Has(csv[cur], b)
    /\ pc \in Ending /\ ~ raised => todo = {}
    /\ pc \in {"execute", "write"} /\ cur \notin PerBench => header /\ todo = {All}
    /\ pc = "list" => cur \in PerBench /\ ~ raised

IInv == Types /\ CsvInv /\ PlainInv /\ StampInv /\ LoopInv
-----------------------------------------------------------------------------
\* A write of a part: what is in the file it leaves.
LEMMA AppendPart ==
  ASSUME NEW c \in Csv, NEW b \in Parts, NEW s \in {"whole", "cut", "torn"},
         NEW d, d = [c EXCEPT !.parts = Append(@, <<b, s>>)]
  PROVE  /\ d \in Csv /\ d.head = c.head
         /\ Len(d.parts) = Len(c.parts) + 1
         /\ DOMAIN c.parts = 1..Len(c.parts) /\ DOMAIN d.parts = 1..(Len(c.parts) + 1)
         /\ \A i \in 1..Len(c.parts) : d.parts[i] = c.parts[i]
         /\ d.parts[Len(c.parts) + 1] = <<b, s>>
         /\ Len(c.parts) \in Nat
<1>1. c.parts \in Seq(Parts \X {"whole", "cut", "torn"}) /\ d.parts = Append(c.parts, <<b, s>>)
  BY DEF Csv
<1>2. <<b, s>> \in Parts \X {"whole", "cut", "torn"}
  OBVIOUS
<1>3. d.parts \in Seq(Parts \X {"whole", "cut", "torn"}) /\ Len(c.parts) \in Nat
  BY <1>1, <1>2
<1>4. d \in Csv /\ d.head = c.head
  BY <1>3, Zenon DEF Csv
<1>. QED BY <1>1, <1>2, <1>3, <1>4

\* The other parts are as clean, and as present, as before.
LEMMA AppendOthers ==
  ASSUME NEW c \in Csv, NEW b \in Parts, NEW s \in {"whole", "cut", "torn"},
         NEW d, d = [c EXCEPT !.parts = Append(@, <<b, s>>)], NEW e \in Parts, e # b
  PROVE  (Clean(c, e) => Clean(d, e)) /\ (Has(d, e) <=> Has(c, e)) /\ Has(d, b)
<1>1. /\ DOMAIN c.parts = 1..Len(c.parts) /\ DOMAIN d.parts = 1..(Len(c.parts) + 1)
      /\ \A i \in 1..Len(c.parts) : d.parts[i] = c.parts[i]
      /\ d.parts[Len(c.parts) + 1] = <<b, s>> /\ Len(c.parts) \in Nat
  BY AppendPart
<1>2. \A i \in DOMAIN d.parts : d.parts[i][1] = e => i \in DOMAIN c.parts
  BY <1>1
<1>3. Clean(c, e) => Clean(d, e)
  BY <1>1, <1>2 DEF Clean
<1>4. Has(d, e) <=> Has(c, e)
  BY <1>1, <1>2 DEF Has
<1>5. Has(d, b)
  BY <1>1 DEF Has
<1>. QED BY <1>3, <1>4, <1>5

\* A whole part appended behind no torn row, once, is clean.
LEMMA AppendClean ==
  ASSUME NEW c \in Csv, NEW b \in Parts, NEW d, d = [c EXCEPT !.parts = Append(@, <<b, "whole">>)],
         ~ Has(c, b), ~ EndsTorn(c)
  PROVE  Clean(d, b)
<1>1. /\ DOMAIN c.parts = 1..Len(c.parts) /\ DOMAIN d.parts = 1..(Len(c.parts) + 1)
      /\ \A i \in 1..Len(c.parts) : d.parts[i] = c.parts[i]
      /\ d.parts[Len(c.parts) + 1] = <<b, "whole">> /\ Len(c.parts) \in Nat
  BY AppendPart
<1>2. \A i \in DOMAIN d.parts : d.parts[i][1] = b => i = Len(c.parts) + 1
  BY <1>1 DEF Has
<1>3. Len(c.parts) # 0 => c.parts[Len(c.parts)][2] # "torn"
  BY <1>1 DEF EndsTorn, Last, Csv
<1>. QED BY <1>1, <1>2, <1>3 DEF Clean

\* No analysis has run yet.
LEMMA InitIInv == Init => IInv
<1>. SUFFICES ASSUME Init PROVE IInv
  OBVIOUS
<1>. USE AnalysesAssumption
<1>1. NoFile \in Csv
  BY DEF Csv, NoFile
<1>2. Types
  <2>1. csv \in [Analyses -> Csv] /\ hurt \in [Analyses -> SUBSET Parts]
    BY <1>1 DEF Init
  <2>2. late \in [Analyses -> SUBSET Benches] /\ benches \subseteq Benches
    BY DEF Init
  <2>3. stamped \subseteq Analyses /\ queue \in Seq(Analyses) /\ todo \subseteq Parts
    BY DEF Init
  <2>. QED BY <2>1, <2>2, <2>3, ZenonT(30) DEF Init, Types, InQuery, Ending
<1>3. CsvInv /\ PlainInv /\ StampInv /\ LoopInv
  BY DEF Init, CsvInv, PlainInv, StampInv, LoopInv, Clean, NoFile, Ending
<1>. QED BY <1>2, <1>3 DEF IInv

\* The analysis run_query is in is one of the list.
LEMMA CurType ==
  ASSUME queue \in Seq(Analyses), queue # << >>
  PROVE  cur \in Analyses /\ Tail(queue) \in Seq(Analyses) /\ Len(Tail(queue)) = Len(queue) - 1
BY DEF cur

\* What is on disk stays as good as it was while nobody writes.
LEMMA DiskFrame ==
  ASSUME CsvInv, PlainInv, StampInv, UNCHANGED <<benches, csv, hurt, late>>
  PROVE  CsvInv' /\ PlainInv' /\ (stamped' = stamped => StampInv')
<1>1. CsvInv' /\ PlainInv'
  BY DEF CsvInv, PlainInv, Clean, Has
<1>2. stamped' = stamped => StampInv'
  BY DEF StampInv, Due, Has
<1>. QED BY <1>1, <1>2

\* The steps between two queries of main and those of the settings.
LEMMA QuietSteps ==
  ASSUME IInv, Skip \/ Begin \/ BeginFails \/ Execute \/ Stop \/ Join \/ JoinTimesOut \/ Restore \/ RestoreFails
               \/ Pressure
  PROVE  IInv'
<1>. USE DEF IInv
<1>1. CsvInv' /\ PlainInv' /\ StampInv'
  BY DiskFrame DEF Skip, Begin, BeginFails, Execute, Stop, Join, JoinTimesOut, Restore, RestoreFails, Pressure, disk
<1>2. CASE Skip
  <2>1. Types' /\ LoopInv'
    BY <1>2, CurType DEF Skip, Types, LoopInv, InQuery, Ending, disk, outcome
  <2>. QED BY <1>1, <2>1
<1>3. CASE Begin
  <2>. USE <1>3 DEF Begin
  <2>1. Types'
    BY CurType, Zenon DEF Types, InQuery, Ending, disk, cur, Parts
  <2>2. LoopInv'
    BY DEF LoopInv, Ending, cur, Due, Has, disk
  <2>. QED BY <1>1, <2>1, <2>2, SMTT(30)
<1>4. CASE BeginFails
  <2>1. Types' /\ LoopInv'
    BY <1>4, CurType DEF BeginFails, Types, LoopInv, InQuery, Ending, disk
  <2>. QED BY <1>1, <2>1
<1>5. CASE Execute
  <2>. USE <1>5 DEF Execute, disk, loop, cur
  <2>1. Types'
    BY Zenon DEF Types, InQuery, Ending
  <2>2. LoopInv'
    BY SMTT(30) DEF LoopInv, Ending, Due, Has
  <2>. QED BY <1>1, <2>1, <2>2
<1>6. CASE Stop \/ Join \/ JoinTimesOut \/ Restore \/ RestoreFails
  <2>. USE <1>6 DEF Stop, Join, JoinTimesOut, Restore, RestoreFails, disk, loop, outcome, cur
  <2>1. Types'
    BY Zenon DEF Types, InQuery, Ending
  <2>2. LoopInv'
    BY DEF LoopInv, Ending, Due, Has
  <2>. QED BY <1>1, <2>1, <2>2, SMTT(30)
<1>7. CASE Pressure
  <2>. USE <1>7 DEF Pressure, disk, loop, outcome, cur
  <2>1. Types'
    BY SMTT(30) DEF Types, InQuery, Ending
  <2>2. LoopInv'
    BY DEF LoopInv, Ending, Due, Has
  <2>. QED BY <1>1, <2>1, <2>2, SMTT(30)
<1>. QED BY <1>2, <1>3, <1>4, <1>5, <1>6, <1>7, SMTT(30)

\* The watchdog threads touch no file; an interrupt only makes the query raise.
LEMMA WatchdogSteps ==
  ASSUME IInv, NEW q \in Analyses, Watchdog(q) \/ MeasureFails(q)
  PROVE  IInv'
<1>. USE DEF IInv, Watchdog, Poll, Measure, MeasureFails, Interrupt, disk, loop
<1>1. CsvInv' /\ PlainInv' /\ StampInv'
  BY DiskFrame
<1>2. UNCHANGED <<benches, csv, stamped, hurt, late, queue, todo, header>>
  OBVIOUS
<1>3. UNCHANGED <<pc, raised>> \/ (pc = "execute" /\ pc' = "stop" /\ raised' = TRUE)
  BY DEF outcome
<1>4. Types'
  BY <1>2, <1>3, Zenon DEF Types, InQuery, Ending, cur
<1>5. LoopInv'
  BY <1>2, <1>3 DEF LoopInv, Ending, Due, Has, cur
<1>. QED BY <1>1, <1>4, <1>5, SMTT(30)

\* A parquet that is added is late for every analysis.
LEMMA AddBenchStep ==
  ASSUME IInv, NEW b \in Benches, AddBench(b)
  PROVE  IInv'
<1>. USE DEF IInv, AddBench, loop, outcome
<1>1. \A q \in Analyses : Due(q)' \subseteq Due(q)
  BY DEF Types, Due
<1>2. Types'
  BY SMTT(30) DEF Types, InQuery, Ending, cur
<1>3. CsvInv' /\ PlainInv'
  BY DEF CsvInv, PlainInv, Clean, Has
<1>4. StampInv'
  BY <1>1, SMTT(30) DEF StampInv, Has, Types
<1>5. LoopInv'
  <2>1. pc \in {"execute", "write"} \cup Ending => cur \in Analyses
    BY CurType DEF Types, InQuery
  <2>. QED BY <1>1, <2>1 DEF LoopInv, Has, cur, Ending
<1>. QED BY <1>2, <1>3, <1>4, <1>5, SMTT(30)

\* Starting: an unstamped csv without {bench} is taken for a complete one.
LEMMA StartStep ==
  ASSUME IInv, Start
  PROVE  IInv'
<1>. USE DEF IInv, Start
<1>1. queue' \in Seq(Analyses)
  <2>1. \A q \in Analyses : <<q>> \in Seq(Analyses)
    OBVIOUS
  <2>2. Order \in Seq(Analyses)
    BY AnalysesAssumption
  <2>3. CASE queue' = Order
    BY <2>2, <2>3
  <2>4. CASE \E q \in Analyses : queue' = <<q>>
    BY <2>1, <2>4, SMTT(30)
  <2>. QED BY <2>3, <2>4
<1>2. Types'
  BY <1>1 DEF Types, InQuery, Ending, outcome
<1>3. CsvInv' /\ PlainInv'
  BY DiskFrame
<1>4. StampInv'
  BY DEF StampInv, PlainInv, Due, Has
<1>5. LoopInv'
  BY DEF LoopInv, Ending
<1>. QED BY <1>2, <1>3, <1>4, <1>5, SMTT(30)

\* The stamp is set when the parts of the analysis are all there.
LEMMA ConcludeStep ==
  ASSUME IInv, Conclude
  PROVE  IInv'
<1>. USE DEF IInv, Conclude, EndOf
<1>1. cur \in Analyses /\ Tail(queue) \in Seq(Analyses)
  BY CurType DEF Types, InQuery, Ending
<1>2. Types'
  BY <1>1, Zenon DEF Types, InQuery, Ending
<1>3. CsvInv' /\ PlainInv'
  BY DiskFrame
<1>4. ~ raised => \A b \in Due(cur) \ hurt[cur] : Has(csv[cur], b)
  BY DEF LoopInv, Ending
<1>5. StampInv'
  BY <1>4 DEF StampInv, Due, Has
<1>6. LoopInv'
  BY DEF LoopInv, Ending
<1>. QED BY <1>2, <1>3, <1>5, <1>6, SMTT(30)

\* Resuming: what is read back is in the csv, and what is not read back is
\* not in it unless it was spoilt.
LEMMA ListStep ==
  ASSUME IInv, List
  PROVE  IInv'
<1>. USE DEF IInv, List, outcome
<1>1. cur \in Analyses /\ cur \in PerBench
  BY CurType DEF Types, InQuery, LoopInv
<1>2. PICK completed \in Readings(csv[cur]) :
         todo' = benches \ completed /\ header' = (csv[cur] = NoFile \/ completed = {})
  OBVIOUS
<1>3. Types'
  BY <1>1, <1>2, SMTT(30) DEF Types, InQuery, Ending, cur, Parts
<1>4. CsvInv' /\ PlainInv'
  BY DEF CsvInv, PlainInv, Clean, Has
<1>5. StampInv'
  BY <1>1, SMTT(30) DEF StampInv, Types, Due, Has
<1>6. \A b \in completed : Has(csv[cur], b)
  BY SMTT(30) DEF Readings, Has
<1>7. \A b \in Parts \ hurt[cur] : completed # {} /\ Has(csv[cur], b) => b \in completed
  <2>. SUFFICES ASSUME NEW b \in Parts \ hurt[cur], completed # {}, Has(csv[cur], b)
                PROVE  b \in completed
    OBVIOUS
  <2>1. Clean(csv[cur], b)
    BY <1>1, SMTT(30) DEF CsvInv
  <2>2. PICK i \in DOMAIN csv[cur].parts : csv[cur].parts[i][1] = b
    BY SMTT(30) DEF Has
  <2>3. csv[cur].parts[i][2] # "torn" /\ (i = 1 \/ csv[cur].parts[i - 1][2] # "torn")
    BY <2>1, <2>2, SMTT(30) DEF Clean
  <2>. QED BY <2>2, <2>3, SMTT(30) DEF Readings
<1>8. completed # {} => csv[cur].head = "whole" /\ csv[cur] # NoFile
  BY SMTT(30) DEF Readings, NoFile
<1>9. LoopInv'
  <2>1. cur' = cur /\ late'[cur] = {} /\ pc' \in {"execute", "stop"} /\ ~ raised'
    BY <1>1 DEF cur, LoopInv, Types
  <2>2. Due(cur)' \subseteq benches
    BY <2>1, <1>1, SMTT(30) DEF Due
  <2>3. \A b \in Due(cur)' : b \in todo' \/ (~ header' /\ Has(csv[cur], b))
    BY <2>2, <1>2, <1>6, <1>8, Zenon
  <2>4. ~ header' => \A b \in todo' : b \in hurt[cur] \/ ~ Has(csv[cur], b)
    BY <1>2, <1>7, Zenon DEF Types, Parts
  <2>5. ~ header' => csv[cur].head = "whole"
    BY <1>2, <1>8, ZenonT(30)
  <2>6. csv'[cur'] = csv[cur] /\ hurt'[cur'] = hurt[cur] /\ cur' \in PerBench
    BY <2>1, <1>1, SMTT(30)
  <2>. QED BY <2>1, <2>3, <2>4, <2>5, <2>6, SMTT(30) DEF LoopInv, Ending, Has
<1>. QED BY <1>3, <1>4, <1>5, <1>9, SMTT(30)

\* The files a write may leave, ended or not: every part that is not spoilt
\* by it is clean, the ones before it stay, and no other comes.
LEMMA WriteLeaves ==
  ASSUME IInv, pc = "write", NEW b \in todo
  PROVE  /\ cur \in Analyses /\ b \in Parts
         /\ Base(cur) \in Csv /\ Base(cur).head = "whole"
         /\ \A e \in Parts : Has(Base(cur), e) => ~ header /\ Has(csv[cur], e)
         /\ \A e \in Parts \ (IF header THEN {} ELSE hurt[cur]) : Clean(Base(cur), e)
         /\ ~ header => Base(cur) = csv[cur]
         /\ header => Base(cur).parts = << >>
<1>. USE DEF IInv
<1>1. cur \in Analyses /\ b \in Parts
  BY CurType DEF Types, InQuery
<1>2. CASE header
  BY <1>1, <1>2, SMTT(30) DEF Base, Csv, Has, Clean
<1>3. CASE ~ header
  BY <1>1, <1>3, SMTT(30) DEF Base, Types, LoopInv, CsvInv
<1>. QED BY <1>1, <1>2, <1>3, SMTT(30)

\* What to_csv leaves of the csv when it ends.
LEMMA WholePart ==
  ASSUME IInv, pc = "write", NEW b \in todo
  PROVE  /\ Wrote(cur, b) \in Csv /\ Wrote(cur, b).head = "whole"
         /\ HurtBy(cur, b, TRUE) \subseteq Parts
         /\ \A e \in Parts \ HurtBy(cur, b, TRUE) : Clean(Wrote(cur, b), e)
         /\ \A e \in Parts \ {b} : Has(Wrote(cur, b), e) <=> Has(Base(cur), e)
         /\ b \notin NoRows => Has(Wrote(cur, b), b)
<1>1. /\ cur \in Analyses /\ b \in Parts
      /\ Base(cur) \in Csv /\ Base(cur).head = "whole"
      /\ \A e \in Parts : Has(Base(cur), e) => ~ header /\ Has(csv[cur], e)
      /\ \A e \in Parts \ (IF header THEN {} ELSE hurt[cur]) : Clean(Base(cur), e)
  BY WriteLeaves
<1>2. HurtBy(cur, b, TRUE) \subseteq Parts
  BY <1>1, SMTT(30) DEF HurtBy, IInv, Types
<1>3. CASE b \in NoRows
  BY <1>1, <1>2, <1>3, SMTT(30) DEF Wrote, HurtBy
<1>4. CASE b \notin NoRows
  <2>. DEFINE d == Wrote(cur, b)
  <2>1. d = [Base(cur) EXCEPT !.parts = Append(@, <<b, "whole">>)]
    BY <1>4 DEF Wrote, WithPart
  <2>. HIDE DEF d
  <2>2. d \in Csv /\ d.head = "whole"
    BY <1>1, <2>1, AppendPart, SMTT(30)
  <2>3. \A e \in Parts \ {b} : (Clean(Base(cur), e) => Clean(d, e)) /\ (Has(d, e) <=> Has(Base(cur), e))
    BY <1>1, <2>1, AppendOthers, SMTT(30)
  <2>4. Has(d, b)
    BY <1>1, <2>1, AppendPart, SMTT(30) DEF Has
  <2>5. b \notin HurtBy(cur, b, TRUE) => Clean(d, b)
    <3>. SUFFICES ASSUME b \notin HurtBy(cur, b, TRUE) PROVE Clean(d, b)
      OBVIOUS
    <3>1. ~ EndsTorn(Base(cur)) /\ b \notin (IF header THEN {} ELSE hurt[cur])
      BY SMTT(30) DEF HurtBy
    <3>2. ~ Has(Base(cur), b)
      BY <1>1, <3>1, SMTT(30) DEF IInv, LoopInv
    <3>. QED BY <1>1, <2>1, <3>1, <3>2, AppendClean, SMTT(30)
  <2>6. \A e \in Parts \ HurtBy(cur, b, TRUE) : Clean(d, e)
    BY <1>1, <2>3, <2>5, SMTT(30) DEF HurtBy
  <2>. QED BY <1>2, <1>4, <2>2, <2>3, <2>4, <2>6, Zenon DEF d
<1>. QED BY <1>3, <1>4, Zenon

\* to_csv that ends keeps the invariant.
LEMMA WriteStep ==
  ASSUME IInv, Write
  PROVE  IInv'
<1>. USE DEF IInv, Write, outcome
<1>1. PICK b \in todo :
         /\ csv' = [csv EXCEPT ![cur] = Wrote(cur, b)]
         /\ hurt' = [hurt EXCEPT ![cur] = HurtBy(cur, b, TRUE)]
         /\ todo' = todo \ {b}
  BY Zenon
<1>2. cur \in Analyses /\ b \in Parts /\ cur \notin stamped /\ cur' = cur
  BY WriteLeaves DEF Types, InQuery, cur
<1>3. csv'[cur] = Wrote(cur, b) /\ hurt'[cur] = HurtBy(cur, b, TRUE)
  BY <1>1, <1>2, Zenon DEF Types
<1>4. \A q \in Analyses \ {cur} : csv'[q] = csv[q] /\ hurt'[q] = hurt[q]
  BY <1>1, <1>2 DEF Types
<1>5. /\ csv'[cur] \in Csv /\ csv'[cur].head = "whole" /\ hurt'[cur] \subseteq Parts
      /\ \A e \in Parts \ hurt'[cur] : Clean(csv'[cur], e)
      /\ \A e \in Parts \ {b} : Has(csv'[cur], e) <=> Has(Base(cur), e)
      /\ b \notin NoRows => Has(csv'[cur], b)
  BY <1>3, WholePart, Zenon
<1>6. Types'
  <2>1. csv' \in [Analyses -> Csv] /\ hurt' \in [Analyses -> SUBSET Parts]
    BY <1>1, <1>3, <1>5, Zenon DEF Types
  <2>. QED BY <1>1, <1>2, <2>1, Zenon DEF Types, InQuery, Ending
<1>7. CsvInv'
  <2>1. \A q \in Analyses : q # cur =>
           /\ csv'[q].head # "whole" => csv'[q].parts = << >>
           /\ \A e \in Parts \ hurt'[q] : Clean(csv'[q], e)
    BY <1>4 DEF CsvInv
  <2>. QED BY <1>5, <2>1, ZenonT(30) DEF CsvInv
<1>8. PlainInv'
  <2>1. cur \notin PerBench => Has(csv'[cur], All)
    <3>1. cur \notin PerBench => b = All
      BY <1>1 DEF LoopInv
    <3>. QED BY <1>5, <3>1, AnalysesAssumption, SMTT(30)
  <2>2. \A q \in Analyses \ PerBench : q # cur /\ csv'[q] # NoFile => All \in hurt'[q] \/ Has(csv'[q], All)
    BY <1>4 DEF PlainInv
  <2>. QED BY <2>1, <2>2, Zenon DEF PlainInv
<1>9. StampInv'
  <2>1. \A q \in stamped : Due(q)' = Due(q) /\ csv'[q] = csv[q] /\ hurt'[q] = hurt[q]
    BY <1>2, <1>4, Zenon DEF Due, Types
  <2>2. \A q \in stamped : \A e \in Due(q)' \ hurt'[q] : Has(csv'[q], e)
    BY <2>1, Zenon DEF StampInv
  <2>. QED BY <2>2, Zenon DEF StampInv
<1>10. LoopInv'
  <2>1. \A e \in Due(cur) : e \in todo' \/ e \in hurt'[cur] \/ Has(csv'[cur], e)
    <3>. SUFFICES ASSUME NEW e \in Due(cur), e \notin todo'
                  PROVE  e \in hurt'[cur] \/ Has(csv'[cur], e)
      BY Zenon
    <3>1. e \notin NoRows /\ e \in Parts
      BY <1>2, AnalysesAssumption DEF Due, Parts, Types
    <3>2. CASE e = b
      BY <1>5, <3>1, <3>2, Zenon
    <3>3. CASE e # b
      <4>1. ~ header /\ (e \in hurt[cur] \/ Has(csv[cur], e))
        BY <1>1, <3>3, SMTT(30) DEF LoopInv
      <4>2. Base(cur) = csv[cur] /\ (e \in hurt[cur] => e \in hurt'[cur])
        BY <1>3, <4>1, SMTT(30) DEF Base, HurtBy
      <4>. QED BY <1>5, <3>1, <3>3, <4>1, <4>2, ZenonT(30)
    <3>. QED BY <3>2, <3>3, Zenon
  <2>2. \A e \in todo' : e \in hurt'[cur] \/ ~ Has(csv'[cur], e)
    <3>. SUFFICES ASSUME NEW e \in todo', Has(csv'[cur], e)
                  PROVE  e \in hurt'[cur]
      BY ZenonT(30)
    <3>1. e \in Parts \ {b} /\ e \in todo
      BY <1>1, SMTT(30) DEF Types
    <3>2. ~ header /\ Has(csv[cur], e)
      BY <1>5, <3>1, WriteLeaves, SMTT(30)
    <3>3. e \in hurt[cur]
      BY <3>1, <3>2, SMTT(30) DEF LoopInv
    <3>. QED BY <1>3, <3>2, <3>3, SMTT(30) DEF HurtBy
  <2>3. Due(cur)' = Due(cur)
    BY <1>2, SMTT(30) DEF Due
  <2>4. pc' \in {"stop", "execute"} /\ (pc' = "stop" => todo' = {}) /\ ~ raised' /\ ~ header'
    BY DEF LoopInv
  <2>5. cur \notin PerBench => todo' = {}
    BY <1>1, SMTT(30) DEF LoopInv
  <2>. QED BY <1>2, <1>5, <2>1, <2>2, <2>3, <2>4, <2>5, ZenonT(30) DEF LoopInv, Ending, Has
<1>. QED BY <1>6, <1>7, <1>8, <1>9, <1>10, SMTT(30)

\* What to_csv leaves of the csv when it does not end.
LEMMA PartialPart ==
  ASSUME IInv, pc = "write", NEW b \in todo, NEW c \in Partial(cur, b)
  PROVE  /\ c \in Csv /\ (c.head # "whole" => c.parts = << >>)
         /\ HurtBy(cur, b, FALSE) \subseteq Parts /\ b \in HurtBy(cur, b, FALSE)
         /\ \A e \in Parts \ HurtBy(cur, b, FALSE) : Clean(c, e)
<1>1. /\ cur \in Analyses /\ b \in Parts
      /\ Base(cur) \in Csv /\ Base(cur).head = "whole"
      /\ \A e \in Parts \ (IF header THEN {} ELSE hurt[cur]) : Clean(Base(cur), e)
  BY WriteLeaves
<1>2. HurtBy(cur, b, FALSE) \subseteq Parts /\ b \in HurtBy(cur, b, FALSE)
  BY <1>1, SMTT(30) DEF HurtBy, IInv, Types
<1>3. \A e \in Parts \ HurtBy(cur, b, FALSE) : e # b /\ Clean(Base(cur), e)
  BY <1>1 DEF HurtBy
<1>4. CASE c = [head |-> "torn", parts |-> << >>]
  <2>1. c.parts = << >> /\ c.head = "torn"
    BY <1>4
  <2>2. c \in Csv
    BY <1>4 DEF Csv
  <2>3. \A e \in Parts : Clean(c, e)
    BY <2>1 DEF Clean
  <2>. QED BY <1>2, <2>1, <2>2, <2>3, Zenon
<1>5. CASE c = Base(cur)
  BY <1>1, <1>2, <1>3, <1>5, Zenon
<1>6. ASSUME NEW s \in {"cut", "torn"}, c = WithPart(cur, b, s)
      PROVE  /\ c \in Csv /\ c.head = "whole"
             /\ \A e \in Parts \ HurtBy(cur, b, FALSE) : Clean(c, e)
  <2>1. c = [Base(cur) EXCEPT !.parts = Append(@, <<b, s>>)]
    BY <1>6 DEF WithPart
  <2>2. c \in Csv /\ c.head = "whole"
    BY <1>1, <2>1, AppendPart, SMTT(30)
  <2>3. s \in {"whole", "cut", "torn"}
    OBVIOUS
  <2>4. ASSUME NEW e \in Parts, e # b, Clean(Base(cur), e) PROVE Clean(c, e)
    <3>1. ASSUME NEW x \in Csv, c = [x EXCEPT !.parts = Append(@, <<b, s>>)], Clean(x, e)
          PROVE  Clean(c, e)
      BY <1>1, <2>3, <2>4, <3>1, AppendOthers, SMTT(30)
    <3>. QED BY <1>1, <2>1, <2>4, <3>1, ZenonT(30)
  <2>. QED BY <1>3, <2>2, <2>4, Zenon
<1>7. c = [head |-> "torn", parts |-> << >>] \/ c = Base(cur) \/ \E s \in {"cut", "torn"} : c = WithPart(cur, b, s)
  BY DEF Partial
<1>. QED BY <1>2, <1>4, <1>5, <1>6, <1>7, ZenonT(30)

\* A write that does not end spoils its own part only.
LEMMA PartWritten ==
  ASSUME IInv, pc = "write", WritePart, UNCHANGED <<benches, stamped, late>>
  PROVE  /\ csv' \in [Analyses -> Csv] /\ hurt' \in [Analyses -> SUBSET Parts]
         /\ CsvInv' /\ PlainInv' /\ StampInv'
<1>. USE DEF IInv
<1>b. PICK b \in todo : \E c \in Partial(cur, b) :
         /\ csv' = [csv EXCEPT ![cur] = c]
         /\ hurt' = [hurt EXCEPT ![cur] = HurtBy(cur, b, FALSE)]
  BY Zenon DEF WritePart
<1>1. PICK c \in Partial(cur, b) :
         /\ csv' = [csv EXCEPT ![cur] = c]
         /\ hurt' = [hurt EXCEPT ![cur] = HurtBy(cur, b, FALSE)]
  BY <1>b, Zenon
<1>2. cur \in Analyses /\ b \in Parts /\ cur \notin stamped
  BY WriteLeaves DEF Types, InQuery
<1>3. csv'[cur] = c /\ hurt'[cur] = HurtBy(cur, b, FALSE)
  BY <1>1, <1>2, SMTT(30) DEF Types
<1>4. \A q \in Analyses \ {cur} : csv'[q] = csv[q] /\ hurt'[q] = hurt[q]
  BY <1>1, <1>2, SMTT(30) DEF Types
<1>5. /\ c \in Csv /\ (c.head # "whole" => c.parts = << >>)
      /\ HurtBy(cur, b, FALSE) \subseteq Parts /\ b \in HurtBy(cur, b, FALSE)
      /\ \A e \in Parts \ HurtBy(cur, b, FALSE) : Clean(c, e)
  BY PartialPart, Zenon
<1>6. csv' \in [Analyses -> Csv] /\ hurt' \in [Analyses -> SUBSET Parts]
  BY <1>1, <1>3, <1>5, ZenonT(30) DEF Types
<1>7. CsvInv'
  <2>1. \A q \in Analyses : q # cur =>
           /\ csv'[q].head # "whole" => csv'[q].parts = << >>
           /\ \A e \in Parts \ hurt'[q] : Clean(csv'[q], e)
    BY <1>4, SMTT(30) DEF CsvInv
  <2>2. /\ csv'[cur].head # "whole" => csv'[cur].parts = << >>
        /\ \A e \in Parts \ hurt'[cur] : Clean(csv'[cur], e)
    BY <1>3, <1>5, Zenon
  <2>. QED BY <2>1, <2>2, SMTT(30) DEF CsvInv
<1>8. PlainInv'
  <2>1. cur \notin PerBench => All \in hurt'[cur]
    BY <1>1, <1>3, <1>5, ZenonT(30) DEF LoopInv
  <2>2. \A q \in Analyses \ PerBench : q # cur /\ csv'[q] # NoFile => All \in hurt'[q] \/ Has(csv'[q], All)
    BY <1>4, SMTT(30) DEF PlainInv
  <2>. QED BY <2>1, <2>2 DEF PlainInv
<1>9. StampInv'
  <2>1. \A q \in stamped : Due(q)' = Due(q) /\ csv'[q] = csv[q] /\ hurt'[q] = hurt[q]
    BY <1>2, <1>4, SMTT(30) DEF Due, Types
  <2>2. \A q \in stamped : \A e \in Due(q)' \ hurt'[q] : Has(csv'[q], e)
    BY <2>1 DEF StampInv
  <2>. QED BY <2>2, SMTT(30) DEF StampInv
<1>. QED BY <1>6, <1>7, <1>8, <1>9, SMTT(30)

\* to_csv that raises keeps the invariant.
LEMMA WriteFailsStep ==
  ASSUME IInv, WriteFails
  PROVE  IInv'
<1>1. /\ csv' \in [Analyses -> Csv] /\ hurt' \in [Analyses -> SUBSET Parts]
      /\ CsvInv' /\ PlainInv' /\ StampInv'
  BY PartWritten, SMTT(30) DEF WriteFails
<1>2. Types'
  BY <1>1, SMTT(30) DEF IInv, Types, WriteFails, loop, InQuery, Ending, cur
<1>3. LoopInv'
  BY DEF LoopInv, WriteFails, Ending
<1>. QED BY <1>1, <1>2, <1>3, SMTT(30) DEF IInv

\* The process ends: at the end of main, or killed anywhere.
LEMMA GoneSteps ==
  ASSUME IInv, Return \/ Kill
  PROVE  IInv'
<1>. USE DEF IInv
<1>1. Gone
  BY DEF Return, Kill
<1>2. /\ csv' \in [Analyses -> Csv] /\ hurt' \in [Analyses -> SUBSET Parts]
      /\ CsvInv' /\ PlainInv' /\ StampInv'
  <2>1. CASE pc = "write" /\ WritePart
    BY <1>1, <2>1, PartWritten, SMTT(30) DEF Gone
  <2>2. CASE UNCHANGED <<csv, hurt>>
    BY <1>1, <2>2, DiskFrame, SMTT(30) DEF Gone, Types
  <2>. QED BY <2>1, <2>2, SMTT(30) DEF Return, Kill
<1>3. << >> \in Seq(Analyses)
  OBVIOUS
<1>4. Types'
  BY <1>1, <1>2, <1>3, ZenonT(30) DEF Types, Gone, InQuery, Ending
<1>5. LoopInv'
  BY <1>1 DEF LoopInv, Gone, Ending
<1>. QED BY <1>2, <1>4, <1>5, SMTT(30)

\* Every step of main, of the watchdogs and of their surroundings keeps the
\* invariant.
LEMMA NextIInv == IInv /\ [Next]_vars => IInv'
<1>. SUFFICES ASSUME IInv, [Next]_vars PROVE IInv'
  OBVIOUS
<1>1. CASE Next
  BY <1>1, QuietSteps, WatchdogSteps, AddBenchStep, StartStep, ConcludeStep, ListStep, WriteStep,
     WriteFailsStep, GoneSteps, SMTT(30) DEF Next
<1>2. CASE UNCHANGED vars
  <2>. USE <1>2 DEF vars, disk, loop, outcome, IInv
  <2>1. CsvInv' /\ PlainInv' /\ StampInv'
    BY DiskFrame, SMTT(30)
  <2>2. Types'
    BY SMTT(30) DEF Types, InQuery, Ending, cur
  <2>3. LoopInv'
    BY DEF LoopInv, Ending, Due, Has, cur
  <2>. QED BY <2>1, <2>2, <2>3, SMTT(30)
<1>. QED BY <1>1, <1>2

\* The inductive invariant of the csv files holds in every state of run.py.
THEOREM Invariant == Spec => []IInv
<1>. QED BY InitIInv, NextIInv, PTL DEF Spec

\* The result of a stamped analysis is complete (StampedIsWhole), however
\* many runs failed, were interrupted or killed and resumed before the stamp.
THEOREM StampsAreHonest == Spec => []StampedIsWhole
<1>1. IInv => StampedIsWhole
  <2>. SUFFICES ASSUME IInv, NEW q \in stamped, NEW b \in Due(q) \ hurt[q]
                PROVE  \E i \in DOMAIN csv[q].parts :
                           PartsOf(q, b) = {i} /\ csv[q].parts[i] = <<b, "whole">>
    BY DEF StampedIsWhole, Due
  <2>1. q \in Analyses /\ b \in Parts
    BY DEF IInv, Types, Due, Parts
  <2>2. Clean(csv[q], b)
    BY <2>1, SMTT(30) DEF IInv, CsvInv
  <2>3. PICK i \in DOMAIN csv[q].parts : csv[q].parts[i][1] = b
    BY DEF IInv, StampInv, Has
  <2>4. csv[q].parts \in Seq(Parts \X {"whole", "cut", "torn"})
    BY <2>1, SMTT(30) DEF IInv, Types, Csv
  <2>5. csv[q].parts[i] \in Parts \X {"whole", "cut", "torn"}
    BY <2>3, <2>4, SMTT(30)
  <2>6. csv[q].parts[i] = <<b, "whole">>
    BY <2>2, <2>3, <2>5, SMTT(30) DEF Clean
  <2>7. PartsOf(q, b) = {i}
    BY <2>2, <2>3 DEF Clean, PartsOf
  <2>. QED BY <2>3, <2>6, <2>7, SMTT(30)
<1>. QED BY <1>1, Invariant, PTL
-----------------------------------------------------------------------------
(* The watchdogs, the settings and the exit status. *)

Running == {"list", "execute", "write"}

WatchInv ==
    /\ dogs \in [Analyses -> {"none", "poll", "measure", "interrupt"}]
    /\ \A q \in Analyses :
           dogs[q] # "none" => (pc \in InQuery /\ q = cur) \/ q \in outlived \cap stop
    /\ pc \in {"restore", "end"} => dogs[cur] = "none" \/ cur \in outlived \cap stop
    /\ pc = "join" => cur \in stop
    /\ pc \in Running => (dogs[cur] # "none" \/ cur \in lost) /\ cur \notin stop

SettingsInv ==
    /\ con \in [Settings -> Analyses \cup {"default"}]
    /\ \A k \in Settings \ leaked :
          con[k] = IF pc \in InQuery \ {"end"} /\ k \in Directives[cur] THEN cur ELSE "default"

ExitInv ==
    /\ failures \in Nat
    /\ pc = "idle" => failures = 0
    /\ failures + Len(queue) <= Len(Order)
    /\ pc # "idle" /\ failures = 0 => asked \subseteq stamped \cup ToSet(queue)
    /\ pc \in {"execute", "write"} => todo # {}

\* No watchdog runs, no setting is changed and no failure is counted yet.
LEMMA InitRest == Init => WatchInv /\ SettingsInv /\ ExitInv
<1>. SUFFICES ASSUME Init PROVE WatchInv /\ SettingsInv /\ ExitInv
  OBVIOUS
<1>1. WatchInv
  BY SMTT(30) DEF Init, WatchInv, NoDogs, InQuery, Ending, Running
<1>2. SettingsInv
  BY DEF Init, SettingsInv, Defaults, InQuery, Ending
<1>3. Len(Order) \in Nat
  BY AnalysesAssumption
<1>4. ExitInv
  BY <1>3, SMTT(30) DEF Init, ExitInv
<1>. QED BY <1>1, <1>2, <1>4, SMTT(30)

\* Every step keeps the record of who watches whom.
LEMMA WatchStep == IInv /\ WatchInv /\ [Next]_vars => WatchInv'
<1>. SUFFICES ASSUME Types, WatchInv, [Next]_vars PROVE WatchInv'
  BY DEF IInv
<1>. USE DEF WatchInv, Types, InQuery, Ending, Running, cur, loop, watch
<1>0. queue # << >> => Head(queue) \in Analyses
  BY SMTT(30)
<1>1. CASE Start \/ Skip \/ BeginFails
  BY <1>1, SMTT(30) DEF Start, Skip, BeginFails
<1>2. CASE Begin
  BY <1>0, <1>2, SMTT(30) DEF Begin
<1>3. CASE List \/ Execute \/ Write \/ WriteFails
  BY <1>3, ZenonT(30) DEF List, Execute, Write, WriteFails
<1>4. CASE Stop \/ Join \/ JoinTimesOut \/ Restore \/ RestoreFails
  BY <1>0, <1>4, SMTT(30) DEF Stop, Join, JoinTimesOut, Restore, RestoreFails
<1>5. CASE Conclude
  BY <1>5, SMTT(30) DEF Conclude, EndOf
<1>6. CASE Return \/ Kill
  BY <1>6, SMTT(30) DEF Return, Kill, Gone, NoDogs
<1>7. ASSUME NEW q \in Analyses, Watchdog(q) \/ MeasureFails(q) PROVE WatchInv'
  <2>1. CASE Poll(q)
    BY <1>0, <2>1, SMTT(30) DEF Poll
  <2>2. CASE Measure(q)
    BY <1>0, <2>2, SMTT(30) DEF Measure
  <2>3. CASE Interrupt(q)
    BY <1>0, <2>3, SMTT(30) DEF Interrupt
  <2>4. CASE MeasureFails(q)
    BY <1>0, <2>4, SMTT(30) DEF MeasureFails
  <2>. HIDE DEF WatchInv, Types
  <2>. QED BY <1>7, <2>1, <2>2, <2>3, <2>4, Zenon DEF Watchdog
<1>8. ASSUME NEW b \in Benches, AddBench(b) PROVE WatchInv'
  BY <1>8, SMTT(30) DEF AddBench
<1>9. CASE Pressure \/ UNCHANGED vars
  BY <1>9, SMTT(30) DEF Pressure, vars
<1>. QED BY <1>1, <1>2, <1>3, <1>4, <1>5, <1>6, <1>7, <1>8, <1>9, SMTT(30) DEF Next

\* Every step keeps the record of the settings of the connection.
LEMMA SettingsStep == IInv /\ SettingsInv /\ [Next]_vars => SettingsInv'
<1>. SUFFICES ASSUME Types, SettingsInv, [Next]_vars PROVE SettingsInv'
  BY DEF IInv
<1>. USE DEF SettingsInv, Types, InQuery, Ending, cur, loop, settings
<1>0. queue # << >> => Head(queue) \in Analyses
  BY SMTT(30)
<1>1. CASE Start \/ Skip
  BY <1>1, SMTT(30) DEF Start, Skip
<1>2. CASE Begin
  BY <1>0, <1>2, SMTT(30) DEF Begin
<1>3. CASE BeginFails
  BY <1>0, <1>3, SMTT(30) DEF BeginFails
<1>4. CASE List \/ Execute \/ Write \/ WriteFails \/ Stop \/ Join \/ JoinTimesOut
  BY <1>4, ZenonT(30) DEF List, Execute, Write, WriteFails, Stop, Join, JoinTimesOut
<1>5. CASE Restore
  BY <1>0, <1>5, SMTT(30) DEF Restore
<1>6. CASE RestoreFails
  BY <1>0, <1>6, SMTT(30) DEF RestoreFails
<1>7. CASE Conclude
  BY <1>7, SMTT(30) DEF Conclude, EndOf
<1>8. CASE Return \/ Kill
  BY <1>8, SMTT(30) DEF Return, Kill, Gone, Defaults
<1>9. ASSUME NEW q \in Analyses, Watchdog(q) \/ MeasureFails(q) PROVE SettingsInv'
  BY <1>9, SMTT(30) DEF Watchdog, Poll, Measure, MeasureFails, Interrupt
<1>10. ASSUME NEW b \in Benches, AddBench(b) PROVE SettingsInv'
  BY <1>10, ZenonT(30) DEF AddBench
<1>11. CASE Pressure \/ UNCHANGED vars
  BY <1>11 DEF Pressure, vars
<1>. QED BY <1>1, <1>2, <1>3, <1>4, <1>5, <1>6, <1>7, <1>8, <1>9, <1>10, <1>11, ZenonT(30) DEF Next

\* The analyses left once the first is done with.
LEMMA ToSetTail ==
  ASSUME queue \in Seq(Analyses), queue # << >>
  PROVE  ToSet(queue) \subseteq {cur} \cup ToSet(Tail(queue))
<1>. SUFFICES ASSUME NEW i \in 1..Len(queue), i # 1
              PROVE  \E j \in DOMAIN Tail(queue) : Tail(queue)[j] = queue[i]
  BY DEF ToSet, cur
<1>1. i - 1 \in 1..Len(Tail(queue)) /\ Tail(queue)[i - 1] = queue[i]
  OBVIOUS
<1>2. DOMAIN Tail(queue) = 1..Len(Tail(queue))
  BY SMTT(30)
<1>. QED BY <1>1, <1>2, Zenon

\* Every step keeps the count of failures in line with the stamps.
LEMMA ExitStep == IInv /\ ExitInv /\ [Next]_vars => ExitInv'
<1>. SUFFICES ASSUME Types, ExitInv, [Next]_vars PROVE ExitInv'
  BY DEF IInv
<1>. USE DEF ExitInv, Types, InQuery, Ending
<1>0. /\ Len(Order) \in Nat /\ Len(queue) \in Nat
      /\ queue # << >> => /\ Len(Tail(queue)) = Len(queue) - 1
                          /\ ToSet(queue) \subseteq {cur} \cup ToSet(Tail(queue))
  BY AnalysesAssumption, ToSetTail, SMTT(30)
<1>1. CASE Start
  <2>1. Len(queue') <= Len(Order)
    <3>1. CASE queue' = Order
      BY <1>0, <3>1, SMTT(30)
    <3>2. CASE \E q \in Analyses : queue' = <<q>>
      <4>1. Len(queue') = 1 /\ Analyses # {}
        BY <3>2, SMTT(30)
      <4>2. Len(Order) # 0
        BY <4>1, AnalysesAssumption, SMTT(30) DEF Analyses, ToSet
      <4>. QED BY <4>1, <4>2, <1>0, SMTT(30)
    <3>. QED BY <1>1, <3>1, <3>2, SMTT(30) DEF Start
  <2>2. failures' = 0 /\ asked' = ToSet(queue') /\ pc' = "next"
    BY <1>1, SMTT(30) DEF Start, outcome
  <2>3. Len(queue') \in Nat
    BY <1>0, <2>1, <1>1, AnalysesAssumption, SMTT(30) DEF Start
  <2>. QED BY <2>1, <2>2, <2>3, <1>0, SMTT(30)
<1>2. CASE Skip
  BY <1>0, <1>2, SMTT(30) DEF Skip, disk, outcome
<1>3. CASE Begin
  BY <1>3, SMTT(30) DEF Begin, disk
<1>4. CASE BeginFails
  BY <1>0, <1>4, SMTT(30) DEF BeginFails, disk
<1>5. CASE List \/ Write
  BY <1>5, Zenon DEF List, Write, outcome
<1>6. CASE Execute \/ WriteFails \/ Stop \/ Join \/ JoinTimesOut \/ Restore \/ RestoreFails \/ Pressure \/ UNCHANGED vars
  BY <1>6, ZenonT(30) DEF Execute, WriteFails, Stop, Join, JoinTimesOut, Restore, RestoreFails, Pressure, vars, disk, loop, outcome
<1>7. CASE Conclude
  BY <1>0, <1>7, SMTT(30) DEF Conclude, EndOf
<1>8. CASE Return \/ Kill
  <2>1. Gone
    BY <1>8, SMTT(30) DEF Return, Kill
  <2>. QED BY <1>0, <2>1, SMTT(30) DEF Gone
<1>9. ASSUME NEW q \in Analyses, Watchdog(q) \/ MeasureFails(q) PROVE ExitInv'
  BY <1>9, SMTT(30) DEF Watchdog, Poll, Measure, MeasureFails, Interrupt, disk, loop, outcome
<1>10. ASSUME NEW b \in Benches, AddBench(b) PROVE ExitInv'
  BY <1>10 DEF AddBench, loop, outcome
<1>. QED BY <1>1, <1>2, <1>3, <1>4, <1>5, <1>6, <1>7, <1>8, <1>9, <1>10, SMTT(30) DEF Next

\* The invariant of the watchdogs, the settings and the exit status.
THEOREM RestInvariant == Spec => [](IInv /\ WatchInv /\ SettingsInv /\ ExitInv)
<1>. QED BY InitRest, WatchStep, SettingsStep, ExitStep, Invariant, PTL DEF Spec

\* While an analysis runs its SQL the connection has its own settings and
\* no other's (OwnSettings).
THEOREM SettingsAreOwn == Spec => []OwnSettings
<1>1. SettingsInv => OwnSettings
  BY DEF SettingsInv, OwnSettings, InQuery
<1>. QED BY <1>1, RestInvariant, PTL

\* Nobody but the watchdog of the current analysis interrupts a query, save
\* one that was busy for all of its join and has been told to stop, and a
\* running query has its watchdog unless that interrupted between two queries
\* or could not measure (Watched).
THEOREM QueriesAreWatched == Spec => []Watched
<1>1. WatchInv => Watched
  BY DEF WatchInv, Watched, InQuery, Ending, Running
<1>. QED BY <1>1, RestInvariant, PTL

\* main returns 0 only when all it was asked for is stamped (ZeroMeansDone).
THEOREM ZeroIsDone == Spec => []ZeroMeansDone
<1>1. ExitInv => ZeroMeansDone
  BY DEF ExitInv, ZeroMeansDone, ToSet
<1>. QED BY <1>1, RestInvariant, PTL

\* The state of run.py is well formed, and main stops after its list (TypeOK).
THEOREM QueryTypeOK == Spec => []TypeOK
<1>1. IInv /\ WatchInv /\ SettingsInv /\ ExitInv => TypeOK
  BY SMTT(30) DEF IInv, Types, WatchInv, SettingsInv, ExitInv, TypeOK, InQuery, Ending
<1>. QED BY <1>1, RestInvariant, PTL

-----------------------------------------------------------------------------
(* Resuming. *)

\* A csv that is about to be written afresh holds nothing that can be read.
AfreshInv ==
    pc \in {"execute", "write"} /\ header /\ cur \in PerBench =>
        csv[cur].parts = << >> \/ \E i \in DOMAIN csv[cur].parts : csv[cur].parts[i][2] = "torn"

\* A csv without a torn row is read back as the benchmarks it has.
LEMMA ReadingsOfWhole ==
  ASSUME NEW c \in Csv, c.head # "whole" => c.parts = << >>,
         \A i \in DOMAIN c.parts : c.parts[i][2] # "torn", {} \in Readings(c)
  PROVE  c.parts = << >>
<1>. SUFFICES ASSUME c.head = "whole", c.parts # << >> PROVE FALSE
  BY SMTT(30)
<1>1. 1 \in DOMAIN c.parts /\ DOMAIN c.parts = 1..Len(c.parts)
  BY SMTT(30) DEF Csv
<1>. DEFINE clear(i) == c.parts[i][2] # "torn" /\ (i = 1 \/ c.parts[i - 1][2] # "torn")
            sure == {c.parts[i][1] : i \in {j \in DOMAIN c.parts : clear(j)}}
            maybe == {c.parts[i][1] : i \in DOMAIN c.parts} \ sure
<1>2. \A i \in DOMAIN c.parts : clear(i)
  BY <1>1, SMTT(30)
<1>3. maybe = {} /\ c.parts[1][1] \in sure
  BY <1>1, <1>2, SMTT(30)
<1>4. Readings(c) = {sure \cup m : m \in SUBSET maybe} \cup (IF maybe = {} THEN {} ELSE {{}})
  BY SMTT(30) DEF Readings
<1>. QED BY <1>3, <1>4, ZenonT(30)

\* Every step keeps the reason for starting a csv afresh.
LEMMA AfreshStep == IInv /\ AfreshInv /\ [Next]_vars => AfreshInv'
<1>. SUFFICES ASSUME IInv, AfreshInv, [Next]_vars PROVE AfreshInv'
  BY SMTT(30)
<1>. USE DEF AfreshInv
<1>1. CASE List
  <2>1. cur \in Analyses /\ csv[cur] \in Csv /\ (csv[cur].head # "whole" => csv[cur].parts = << >>)
    BY <1>1, CurType, SMTT(30) DEF IInv, Types, CsvInv, List, InQuery
  <2>2. header' => {} \in Readings(csv[cur])
    <3>1. csv[cur] = NoFile => Readings(csv[cur]) = {{}}
      BY DEF Readings, NoFile
    <3>2. PICK completed \in Readings(csv[cur]) : header' = (csv[cur] = NoFile \/ completed = {})
      BY <1>1, Zenon DEF List
    <3>. QED BY <3>1, <3>2, ZenonT(30)
  <2>3. csv' = csv /\ cur' = cur
    BY <1>1, ZenonT(30) DEF List, cur
  <2>. QED BY <2>1, <2>2, <2>3, ReadingsOfWhole, SMTT(30)
<1>2. CASE Begin
  BY <1>2, SMTT(30) DEF Begin, disk, cur
<1>3. CASE Execute
  <2>1. csv' = csv /\ queue' = queue /\ header' = header /\ pc = "execute"
    BY <1>3, SMTT(30) DEF Execute, disk, loop
  <2>. QED BY <2>1, SMTT(30) DEF cur
<1>4. CASE Pressure \/ UNCHANGED vars
  BY <1>4, ZenonT(30) DEF Pressure, vars, disk, loop, cur
<1>5. CASE \E q \in Analyses : Watchdog(q) \/ MeasureFails(q)
  <2>1. csv' = csv /\ queue' = queue /\ header' = header /\ (pc' = pc \/ pc' = "stop")
    BY <1>5, Zenon DEF Watchdog, Poll, Measure, MeasureFails, Interrupt, disk, loop
  <2>. QED BY <2>1 DEF cur
<1>6. CASE \E b \in Benches : AddBench(b)
  BY <1>6, SMTT(30) DEF AddBench, loop, cur
<1>7. CASE Write
  BY <1>7, SMTT(30) DEF Write
<1>8. CASE Start \/ Skip \/ BeginFails \/ WriteFails \/ Stop \/ Join \/ JoinTimesOut \/ Restore \/ RestoreFails
           \/ Conclude \/ Return \/ Kill
  BY <1>8, Zenon DEF Start, Skip, BeginFails, WriteFails, Stop, Join, JoinTimesOut, Restore, RestoreFails, Conclude, EndOf,
     Return, Kill, Gone
<1>. QED BY <1>1, <1>2, <1>3, <1>4, <1>5, <1>6, <1>7, <1>8, ZenonT(30) DEF Next

\* A csv is a prefix of itself and of itself with one more part.
LEMMA PrefixOf ==
  ASSUME NEW s \in Seq(Parts \X {"whole", "cut", "torn"}), NEW e \in Parts \X {"whole", "cut", "torn"}
  PROVE  IsPrefix(s, s) /\ IsPrefix(s, Append(s, e))
BY SMTT(30) DEF IsPrefix

\* Nothing but a write touches a csv, and it touches the current one.
LEMMA OnlyWrites ==
  ASSUME IInv, [Next]_vars, csv' # csv
  PROVE  pc = "write" /\ \E b \in todo : \E c \in {Wrote(cur, b)} \cup Partial(cur, b) :
                             csv' = [csv EXCEPT ![cur] = c]
<1>1. Write \/ WriteFails \/ Kill
  BY Zenon DEF Next, vars, disk, Start, Skip, Begin, BeginFails, List, Execute, Stop, Join, JoinTimesOut, Restore,
     RestoreFails, Conclude, EndOf, Return, Watchdog, Poll, Measure, MeasureFails, Interrupt, AddBench, Pressure
<1>. QED BY <1>1, Zenon DEF Write, WriteFails, Kill, WritePart

\* A resumed run only adds to a csv it can read (ResumeKeeps).
THEOREM ResumesKeep == Spec => ResumeKeeps
<1>. DEFINE Kept == \A q \in PerBench :
                      \/ csv[q] = NoFile
                      \/ \E i \in DOMAIN csv[q].parts : csv[q].parts[i][2] = "torn"
                      \/ IsPrefix(csv[q].parts, csv'[q].parts)
<1>1. Init => AfreshInv
  BY SMTT(30) DEF Init, AfreshInv
<1>2. IInv /\ AfreshInv /\ [Next]_vars => Kept
  <2>. SUFFICES ASSUME IInv, AfreshInv, [Next]_vars, NEW q \in PerBench,
                       \A i \in DOMAIN csv[q].parts : csv[q].parts[i][2] # "torn"
                PROVE  IsPrefix(csv[q].parts, csv'[q].parts)
    BY SMTT(30)
  <2>1. q \in Analyses /\ csv[q].parts \in Seq(Parts \X {"whole", "cut", "torn"})
    BY AnalysesAssumption, ZenonT(30) DEF IInv, Types, Csv
  <2>2. CASE csv'[q] = csv[q]
    BY <2>1, <2>2, SMTT(30) DEF IsPrefix
  <2>3. CASE csv'[q] # csv[q]
    <3>1. PICK b \in todo : pc = "write" /\ \E c \in {Wrote(cur, b)} \cup Partial(cur, b) :
                                                csv' = [csv EXCEPT ![cur] = c]
      BY <2>3, OnlyWrites, SMTT(30)
    <3>2. PICK c \in {Wrote(cur, b)} \cup Partial(cur, b) : csv' = [csv EXCEPT ![cur] = c]
      BY <3>1, ZenonT(30)
    <3>3. q = cur /\ csv'[q] = c /\ b \in Parts
      BY <2>1, <2>3, <3>1, <3>2, WriteLeaves, Zenon DEF IInv, Types
    <3>4. CASE header
      <4>1. csv[q].parts = << >>
        BY <3>1, <3>3, <3>4, SMTT(30) DEF AfreshInv
      <4>2. c \in Csv
        BY <3>1, <3>2, WholePart, PartialPart, Zenon
      <4>. QED BY <3>3, <4>1, <4>2, SMTT(30) DEF IsPrefix, Csv
    <3>5. CASE ~ header
      <4>1. c = csv[q] \/ \E s \in {"whole", "cut", "torn"} :
                              c = [csv[q] EXCEPT !.parts = Append(@, <<b, s>>)]
        BY <3>2, <3>3, <3>5, SMTT(30) DEF Wrote, Partial, WithPart, Base
      <4>2. PICK s \in {"whole", "cut", "torn"} : c = [csv[q] EXCEPT !.parts = Append(@, <<b, s>>)]
        BY <2>3, <3>3, <4>1, SMTT(30)
      <4>3. csv'[q].parts = Append(csv[q].parts, <<b, s>>)
        BY <3>3, <4>2, <2>1, SMTT(30) DEF IInv, Types, Csv
      <4>. QED BY <2>1, <3>3, <4>3, PrefixOf, ZenonT(30)
    <3>. QED BY <3>4, <3>5, SMTT(30)
  <2>. QED BY <2>2, <2>3, SMTT(30)
<1>3. IInv /\ AfreshInv /\ [Next]_vars => [Kept]_vars
  BY <1>2
<1>. QED BY <1>1, <1>3, AfreshStep, Invariant, PTL DEF Spec, ResumeKeeps
=============================================================================
