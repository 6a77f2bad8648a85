------------------------------ MODULE RunQuery ------------------------------
(***************************************************************************)
(* db/run.py: every analysis is a SQL query whose result goes to a csv     *)
(* file; a query with the token {bench} is run once for each benchmark and *)
(* the results are appended, so that a later run can resume.  A stamp      *)
(* (result.complete) says an analysis is done.  A watchdog thread per      *)
(* analysis interrupts the query when disk or swap run low.  A csv file is *)
(* the sequence of its parts: a part is the result for one benchmark, and  *)
(* is whole, cut after a row, or torn inside a row by a write that did not *)
(* end.                                                                    *)
(***************************************************************************)
EXTENDS Integers, Sequences, SequencesExt

CONSTANTS
    Order,          \* the analyses, sorted
    PerBench,       \* those with {bench} in their SQL
    Directives,     \* analysis to the settings its @set lines change
    Benches,        \* the benchmarks that may have a parquet
    FirstBenches,   \* those that have one from the start
    NoRows,         \* benchmarks whose results have no rows
    MaxRuns         \* bound: runs of the program

All == "all"        \* the one part of an analysis without {bench}
Analyses == ToSet(Order)
Settings == {"threads", "memory_limit"}

ASSUME AnalysesAssumption ==
    /\ PerBench \subseteq Analyses
    /\ Directives \in [Analyses -> SUBSET Settings]
    /\ Order \in Seq(Analyses) /\ IsInjective(Order)
    /\ FirstBenches \cup NoRows \subseteq Benches /\ All \notin Benches

VARIABLES
    benches,        \* stems of the parquets
    csv, stamped,   \* result.csv of each analysis; those with result.complete
    asked,          \* the analyses main was asked to run
    pc, queue,      \* where main is; the analyses left, the current one first
    todo, header,   \* the set of parts left, and write_header
    raised, failures,
    con,            \* the settings of the connection
    dogs, stop,     \* the watchdog of each analysis; stop events that are set
    over,           \* spill, disk or swap is past its limit
    runs,
    hurt,           \* history: parts a write that did not end has spoilt
    late,           \* history: benchmarks added since the analysis listed them
    outlived,       \* history: watchdogs whose join timed out
    lost,           \* history: watchdogs that ended before their analysis
    leaked          \* history: settings a failing PRAGMA left behind

disk == <<benches, csv, stamped, hurt, late>>
loop == <<asked, queue, todo, header>>
outcome == <<raised, failures>>
watch == <<dogs, stop, outlived, lost>>
settings == <<con, leaked>>
vars == <<disk, pc, loop, outcome, settings, watch, over, runs>>

NoFile == [head |-> "none", parts |-> << >>]
Defaults == [k \in Settings |-> "default"]
NoDogs == [q \in Analyses |-> "none"]
cur == Head(queue)

Init ==
    /\ benches = FirstBenches
    /\ csv = [q \in Analyses |-> NoFile] /\ stamped = {}
    /\ pc = "idle" /\ asked = {} /\ queue = << >> /\ todo = {} /\ header = FALSE
    /\ raised = FALSE /\ failures = 0
    /\ con = Defaults /\ leaked = {}
    /\ dogs = NoDogs /\ stop = {} /\ outlived = {} /\ lost = {}
    /\ over = FALSE /\ runs = 0
    /\ hurt = [q \in Analyses |-> {}] /\ late = [q \in Analyses |-> {}]

-----------------------------------------------------------------------------
(* result.csv *)

(* What a write of part b to the csv of q starts from: mode 'w' or 'a'. *)
Base(q) == IF header THEN [head |-> "whole", parts |-> << >>] ELSE csv[q]

WithPart(q, b, state) == [Base(q) EXCEPT !.parts = Append(@, <<b, state>>)]

Wrote(q, b) == IF b \in NoRows THEN Base(q) ELSE WithPart(q, b, "whole")

(* What a write that does not end may leave. *)
Partial(q, b) ==
    (IF header THEN {[head |-> "torn", parts |-> << >>], Base(q)} ELSE {})
    \cup (IF b \in NoRows THEN {} ELSE {WithPart(q, b, s) : s \in {"cut", "torn"}})

EndsTorn(c) == c.parts # << >> /\ Last(c.parts)[2] = "torn"

(* The parts that are spoilt once part b is written: a row appended to a   *)
(* torn one is lost in it; mode 'w' starts afresh.                         *)
HurtBy(q, b, ended) ==
    (IF header THEN {} ELSE hurt[q])
    \cup (IF ~ ended \/ EndsTorn(Base(q)) THEN {b} ELSE {})

(* The benchmarks read back from a csv.  A torn row may be read or not,    *)
(* take the next part with it, or make pandas raise, which counts as none. *)
Readings(c) ==
    LET clear(i) == c.parts[i][2] # "torn" /\ (i = 1 \/ c.parts[i - 1][2] # "torn")
        sure == {c.parts[i][1] : i \in {j \in DOMAIN c.parts : clear(j)}}
        maybe == {c.parts[i][1] : i \in DOMAIN c.parts} \ sure
    IN  IF c.head # "whole" THEN {{}}
        ELSE {sure \cup m : m \in SUBSET maybe} \cup (IF maybe = {} THEN {} ELSE {{}})

-----------------------------------------------------------------------------
(* main *)

(* Before the first analysis, a csv of an analysis without {bench} that    *)
(* has no stamp is taken for one from before there were stamps.            *)
Start ==
    /\ pc = "idle" /\ runs < MaxRuns
    /\ runs' = runs + 1
    /\ queue' \in {Order} \cup {<<q>> : q \in Analyses}
    /\ asked' = ToSet(queue')
    /\ stamped' = stamped \cup {q \in Analyses \ PerBench : csv[q] # NoFile}
    /\ pc' = "next"
    /\ UNCHANGED <<benches, csv, hurt, late, todo, header, outcome, settings, watch, over>>

(* run_query: already complete. *)
Skip ==
    /\ pc = "next" /\ queue # << >> /\ cur \in stamped
    /\ queue' = Tail(queue)
    /\ UNCHANGED <<disk, pc, asked, todo, header, outcome, settings, watch, over, runs>>

(* run_query: the settings, and the watchdog is started. *)
Begin ==
    /\ pc = "next" /\ queue # << >> /\ cur \notin stamped
    /\ con' = [k \in Settings |-> IF k \in Directives[cur] THEN cur ELSE con[k]]
    /\ leaked' = leaked \ Directives[cur]
    /\ dogs' = [dogs EXCEPT ![cur] = "poll"]
    /\ todo' = {All} /\ header' = TRUE /\ raised' = FALSE
    /\ pc' = IF cur \in PerBench THEN "list" ELSE "execute"
    /\ stop' = stop \ {cur} /\ outlived' = outlived \ {cur} /\ lost' = lost \ {cur}
    /\ UNCHANGED <<disk, asked, queue, failures, over, runs>>

(* Clearing the spill directory or reading the query raises, before the    *)
(* stamp is looked at, or a PRAGMA does, outside the try: what the PRAGMA  *)
(* before it has set stays.                                                *)
BeginFails ==
    /\ pc = "next" /\ queue # << >>
    /\ \E applied \in {{}, Directives[cur] \cap {"threads"}} :
          /\ applied = {} \/ (cur \notin stamped /\ applied # Directives[cur])
          /\ con' = [k \in Settings |-> IF k \in applied THEN cur ELSE con[k]]
          /\ leaked' = leaked \cup applied
    /\ failures' = failures + 1
    /\ queue' = Tail(queue)
    /\ UNCHANGED <<disk, pc, asked, todo, header, raised, watch, over, runs>>

(* Mutant: a resumed csv gets its header again. *)
ListAfresh ==
    /\ pc = "list"
    /\ \E completed \in Readings(csv[cur]) :
          /\ todo' = benches \ completed
          /\ header' = TRUE
    /\ pc' = IF todo' = {} THEN "stop" ELSE "execute"
    /\ late' = [late EXCEPT ![cur] = {}]
    /\ UNCHANGED <<benches, csv, stamped, hurt, asked, queue, outcome, settings, watch, over, runs>>

(* The benchmarks that are still to do. *)
List ==
    /\ pc = "list"
    /\ \E completed \in Readings(csv[cur]) :
          /\ todo' = benches \ completed
          /\ header' = (csv[cur] = NoFile \/ completed = {})
    /\ pc' = IF todo' = {} THEN "stop" ELSE "execute"
    /\ late' = [late EXCEPT ![cur] = {}]
    /\ UNCHANGED <<benches, csv, stamped, hurt, asked, queue, outcome, settings, watch, over, runs>>

(* con.execute(...).fetchdf() returns or raises. *)
Execute ==
    /\ pc = "execute"
    /\ \/ pc' = "write" /\ UNCHANGED raised
       \/ pc' = "stop" /\ raised' = TRUE
    /\ UNCHANGED <<disk, loop, failures, settings, watch, over, runs>>

(* to_csv, for the next benchmark of todo: the order of the benchmarks is  *)
(* left open.                                                              *)
Write ==
    /\ pc = "write"
    /\ \E b \in todo :
          /\ csv' = [csv EXCEPT ![cur] = Wrote(cur, b)]
          /\ hurt' = [hurt EXCEPT ![cur] = HurtBy(cur, b, TRUE)]
          /\ todo' = todo \ {b}
    /\ header' = FALSE
    /\ pc' = IF todo' = {} THEN "stop" ELSE "execute"
    /\ UNCHANGED <<benches, stamped, late, asked, queue, outcome, settings, watch, over, runs>>

(* The write of a part goes wrong half way. *)
WritePart ==
    \E b \in todo : \E c \in Partial(cur, b) :
        /\ csv' = [csv EXCEPT ![cur] = c]
        /\ hurt' = [hurt EXCEPT ![cur] = HurtBy(cur, b, FALSE)]

(* to_csv raises: the disk is full. *)
WriteFails ==
    /\ pc = "write"
    /\ WritePart
    /\ raised' = TRUE
    /\ pc' = "stop"
    /\ UNCHANGED <<benches, stamped, late, loop, failures, settings, watch, over, runs>>

(* Mutant: the event is not set. *)
StopUnset ==
    /\ pc = "stop"
    /\ pc' = "join"
    /\ UNCHANGED <<disk, loop, outcome, settings, watch, over, runs>>

(* finally: the stop event is set. *)
Stop ==
    /\ pc = "stop"
    /\ stop' = stop \cup {cur}
    /\ pc' = "join"
    /\ UNCHANGED <<disk, loop, outcome, settings, dogs, outlived, lost, over, runs>>

(* wd.join(timeout): the watchdog has ended. *)
Join ==
    /\ pc = "join" /\ dogs[cur] = "none"
    /\ pc' = "restore"
    /\ UNCHANGED <<disk, loop, outcome, settings, watch, over, runs>>

(* It took longer and is left behind.  A watchdog that sleeps in stop.wait *)
(* is woken by the event; only one that measures or interrupts can take so *)
(* long.                                                                   *)
JoinTimesOut ==
    /\ pc = "join" /\ dogs[cur] \in {"measure", "interrupt"}
    /\ outlived' = outlived \cup {cur}
    /\ pc' = "restore"
    /\ UNCHANGED <<disk, loop, outcome, settings, dogs, stop, lost, over, runs>>

(* Mutant: only the thread count is set back. *)
RestoreThreads ==
    /\ pc = "restore"
    /\ con' = [con EXCEPT !["threads"] = IF "threads" \in Directives[cur] THEN "default" ELSE @]
    /\ pc' = "end"
    /\ UNCHANGED <<disk, loop, outcome, leaked, watch, over, runs>>

(* The defaults come back. *)
Restore ==
    /\ pc = "restore"
    /\ con' = [k \in Settings |-> IF k \in Directives[cur] THEN "default" ELSE con[k]]
    /\ pc' = "end"
    /\ UNCHANGED <<disk, loop, outcome, leaked, watch, over, runs>>

(* A PRAGMA of the finally raises, and the rest of it is not run. *)
RestoreFails ==
    /\ pc = "restore" /\ Directives[cur] # {}
    /\ \E undone \in {Directives[cur], Directives[cur] \cap {"memory_limit"}} \ {{}} :
          /\ con' = [k \in Settings |-> IF k \in Directives[cur] \ undone THEN "default" ELSE con[k]]
          /\ leaked' = leaked \cup undone
    /\ raised' = TRUE
    /\ pc' = "end"
    /\ UNCHANGED <<disk, loop, failures, watch, over, runs>>

EndOf(done, failed, rest) ==
    /\ pc = "end"
    /\ stamped' = stamped \cup done
    /\ failures' = failures + failed
    /\ queue' = rest /\ todo' = {} /\ header' = FALSE /\ raised' = FALSE
    /\ pc' = "next"
    /\ UNCHANGED <<benches, csv, hurt, late, asked, settings, watch, over, runs>>

(* Mutant: the stamp is set by the finally. *)
ConcludeStamps == EndOf({cur}, IF raised THEN 1 ELSE 0, Tail(queue))

(* Mutant: an exception is printed and not counted. *)
ConcludeSilent == EndOf(IF raised THEN {} ELSE {cur}, 0, Tail(queue))

(* The stamp; or main counts the failure and goes on. *)
Conclude == EndOf(IF raised THEN {} ELSE {cur}, IF raised THEN 1 ELSE 0, Tail(queue))

(* The process is gone, and its threads with it. *)
Gone ==
    /\ pc' = "idle" /\ asked' = {} /\ queue' = << >> /\ todo' = {} /\ header' = FALSE
    /\ raised' = FALSE /\ failures' = 0
    /\ con' = Defaults /\ leaked' = {}
    /\ dogs' = NoDogs /\ stop' = {} /\ outlived' = {} /\ lost' = {}
    /\ UNCHANGED <<benches, stamped, late, over, runs>>

Return == pc = "next" /\ queue = << >> /\ Gone /\ UNCHANGED <<csv, hurt>>

(* Killed, possibly inside a write. *)
Kill ==
    /\ pc # "idle"
    /\ Gone
    /\ (pc = "write" /\ WritePart) \/ UNCHANGED <<csv, hurt>>

-----------------------------------------------------------------------------
(* The watchdog of analysis q *)

Poll(q) ==
    /\ dogs[q] = "poll"
    /\ dogs' = [dogs EXCEPT ![q] = IF q \in stop THEN "none" ELSE "measure"]
    /\ UNCHANGED <<disk, pc, loop, outcome, settings, stop, outlived, lost, over, runs>>

(* Mutant: no limit is ever crossed. *)
MeasureNever(q) ==
    /\ dogs[q] = "measure"
    /\ dogs' = [dogs EXCEPT ![q] = "poll"]
    /\ UNCHANGED <<disk, pc, loop, outcome, settings, stop, outlived, lost, over, runs>>

Measure(q) ==
    /\ dogs[q] = "measure"
    /\ dogs' = [dogs EXCEPT ![q] = IF over THEN "interrupt" ELSE "poll"]
    /\ UNCHANGED <<disk, pc, loop, outcome, settings, stop, outlived, lost, over, runs>>

(* Measuring raises: the thread ends. *)
MeasureFails(q) ==
    /\ dogs[q] = "measure"
    /\ dogs' = [dogs EXCEPT ![q] = "none"]
    /\ lost' = lost \cup {q}
    /\ UNCHANGED <<disk, pc, loop, outcome, settings, stop, outlived, over, runs>>

(* con.interrupt(): the query that is running, whoever's it is, raises;    *)
(* without one the interrupt is forgotten.                                 *)
Interrupt(q) ==
    /\ dogs[q] = "interrupt"
    /\ dogs' = [dogs EXCEPT ![q] = "none"]
    /\ IF pc = "execute"
       THEN pc' = "stop" /\ raised' = TRUE /\ UNCHANGED lost
       ELSE lost' = lost \cup {q} /\ UNCHANGED <<pc, raised>>
    /\ UNCHANGED <<disk, loop, failures, settings, stop, outlived, over, runs>>

Watchdog(q) == Poll(q) \/ Measure(q) \/ Interrupt(q)

-----------------------------------------------------------------------------
(* Around the program *)

(* tools/to_parquet.py adds a parquet. *)
AddBench(b) ==
    /\ b \notin benches
    /\ benches' = benches \cup {b}
    /\ late' = [q \in Analyses |-> late[q] \cup {b}]
    /\ UNCHANGED <<csv, stamped, hurt, pc, loop, outcome, settings, watch, over, runs>>

Pressure ==
    /\ pc # "idle"
    /\ over' = ~ over
    /\ UNCHANGED <<disk, pc, loop, outcome, settings, watch, runs>>

Next ==
    \/ Start \/ Skip \/ Begin \/ BeginFails \/ List \/ Execute \/ Write \/ WriteFails
    \/ Stop \/ Join \/ JoinTimesOut \/ Restore \/ RestoreFails \/ Conclude \/ Return \/ Kill
    \/ \E q \in Analyses : Watchdog(q) \/ MeasureFails(q)
    \/ \E b \in Benches : AddBench(b)
    \/ Pressure

(* The watchdog threads are scheduled; a query may run for ever. *)
Spec == Init /\ [][Next]_vars /\ \A q \in Analyses : WF_vars(Watchdog(q))

-----------------------------------------------------------------------------
TypeOK ==
    /\ benches \subseteq Benches /\ stamped \subseteq Analyses
    /\ pc \in {"idle", "next", "list", "execute", "write", "stop", "join", "restore", "end"}
    /\ pc \notin {"idle", "next"} => queue # << >>
    /\ pc \in {"execute", "write"} => todo # {}
    /\ failures + Len(queue) <= Len(Order)
    /\ con \in [Settings -> Analyses \cup {"default"}]
    /\ dogs \in [Analyses -> {"none", "poll", "measure", "interrupt"}]

PartsOf(q, b) == {i \in DOMAIN csv[q].parts : csv[q].parts[i][1] = b}

(* The result of a stamped analysis is complete, after any number of runs  *)
(* that failed, were interrupted or killed and resumed: every benchmark    *)
(* has its rows once and all of them.  The exceptions are a part whose own *)
(* write was cut, the part appended behind a torn row, and benchmarks that *)
(* got their parquet after the analysis listed them.                       *)
StampedIsWhole ==
    \A q \in stamped :
        \A b \in (IF q \in PerBench THEN benches \ (NoRows \cup late[q]) ELSE {All}) \ hurt[q] :
            \E i \in DOMAIN csv[q].parts :
                PartsOf(q, b) = {i} /\ csv[q].parts[i] = <<b, "whole">>

(* While an analysis runs its SQL the connection has the settings its      *)
(* directives ask for and the defaults otherwise, whatever the analyses    *)
(* before it changed; only a PRAGMA that failed leaves one behind.         *)
OwnSettings ==
    pc = "execute" =>
        \A k \in Settings \ leaked : con[k] = IF k \in Directives[cur] THEN cur ELSE "default"

(* A running query can be interrupted by no watchdog but its own, unless   *)
(* an earlier one was busy for the ten seconds of its join; that one has   *)
(* been told to stop, so it is in its last round.  And the running query   *)
(* has its watchdog, unless that has interrupted between two queries of    *)
(* the analysis or could not measure, and is gone.                         *)
Watched ==
    /\ \A q \in Analyses :
           dogs[q] # "none" =>
               (pc \notin {"idle", "next"} /\ q = cur) \/ q \in outlived \cap stop
    /\ pc = "execute" => dogs[cur] # "none" \/ cur \in lost

(* A resumed run keeps what the csv holds: parts are only added, unless a  *)
(* torn row kept the csv from being read.                                  *)
ResumeKeeps ==
    [][\A q \in PerBench :
          \/ csv[q] = NoFile
          \/ \E i \in DOMAIN csv[q].parts : csv[q].parts[i][2] = "torn"
          \/ IsPrefix(csv[q].parts, csv'[q].parts)]_vars

(* main returns 0 only when every analysis it was asked for is stamped,    *)
(* the ones after a failed one included.                                   *)
ZeroMeansDone == pc = "next" /\ queue = << >> /\ failures = 0 => asked \subseteq stamped

(* A query that never ends is interrupted when a limit stays crossed and   *)
(* its watchdog is there.                                                  *)
RunawayStopped ==
    <>[]over => []<>(pc # "execute" \/ cur \in lost)
=============================================================================
