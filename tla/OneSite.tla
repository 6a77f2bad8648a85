------------------------------ MODULE OneSite ------------------------------
(***************************************************************************)
(* spec/run_mx_onesite.sh: a list of jobs (an allocation site and a        *)
(* mantissa width) is dealt out to parallel workers, each with a SPEC      *)
(* label of its own.  A worker runs the benchmark under the tool, copies   *)
(* the results of the newest run directory of its label and the lines of   *)
(* the tool's logs, and marks the job done.  The script may be killed and  *)
(* started again, with another number of workers.  A run is named by its   *)
(* job and by how often the job had been run; no two jobs share a name.    *)
(***************************************************************************)
EXTENDS Integers, Sequences, FiniteSets, Functions

CONSTANTS
    Jobs,           \* the lines of the jobs file
    Width,          \* job to its mantissa width
    MaxWorkers,     \* bound: workers the script is started with
    MaxKills        \* bound: times the script is killed

Names == Range(Jobs)
Ids == 0..MaxWorkers - 1

ASSUME JobsAssumption ==
    /\ Jobs \in Seq(Names)
    /\ \A i, k \in 1..Len(Jobs) : Jobs[i] = Jobs[k] => i = k
    /\ MaxWorkers \in Nat \ {0} /\ MaxKills \in Nat

VARIABLES
    count,          \* WORKERS; 0 when the script is not running
    at, n,          \* where each worker is; the lines it has read
    sites,          \* /tmp/site_<label>.txt: the job it names
    rundir,         \* the run whose results the newest directory of a label has
    logs,           \* /tmp/mx_<label>_<m>_*.log: label, width and run
    results, mx,    \* kept of each job: the run its results and its MX lines
                    \* are from
    done,           \* the jobs with a .done
    tries,          \* runs of each job
    kills,
    used,           \* history: the job whose site a run was given
    failed,         \* history: runs in which runcpu failed
    orphans         \* history: runs whose logs a kill left behind

kept == <<results, mx>>
files == <<sites, rundir, logs, kept, done>>
history == <<used, failed, orphans>>
vars == <<count, at, n, files, tries, kills, history>>

NoRun == << >>

Init ==
    /\ count = 0
    /\ at = [w \in Ids |-> "end"] /\ n = [w \in Ids |-> 0]
    /\ sites = [w \in Ids |-> NoRun] /\ rundir = [w \in Ids |-> NoRun]
    /\ logs = {} /\ done = {}
    /\ results = [j \in Names |-> NoRun] /\ mx = [j \in Names |-> {}]
    /\ tries = [j \in Names |-> 0]
    /\ kills = 0
    /\ used = << >> /\ failed = {} /\ orphans = {}

(* Mutant: the workers share a label. *)
LabelShared(w) == 0

Label(w) == w

job(w) == Jobs[n[w]]
run(w) == <<job(w), tries[job(w)]>>
Goto(w, l) == at' = [at EXCEPT ![w] = l]

-----------------------------------------------------------------------------
(* Mutant: the script clears its output directory. *)
StartAfresh ==
    /\ count = 0
    /\ count' \in 1..MaxWorkers
    /\ at' = [w \in Ids |-> IF w < count' THEN "read" ELSE "end"]
    /\ n' = [w \in Ids |-> 0]
    /\ done' = {}
    /\ UNCHANGED <<sites, rundir, logs, kept, tries, kills, history>>

Start ==
    /\ count = 0
    /\ count' \in 1..MaxWorkers
    /\ at' = [w \in Ids |-> IF w < count' THEN "read" ELSE "end"]
    /\ n' = [w \in Ids |-> 0]
    /\ UNCHANGED <<files, tries, kills, history>>

(* Mutant: the quotient instead of the remainder. *)
MineQuotient(w, i) == i \div count = w

(* The jobs of a worker. *)
Mine(w, i) == (i - 1) % count = w

(* The next line of the jobs file; those of others and those done are      *)
(* passed over.                                                            *)
ReadJob(w) ==
    /\ at[w] = "read" /\ n[w] < Len(Jobs)
    /\ n' = [n EXCEPT ![w] = @ + 1]
    /\ Goto(w, IF Mine(w, n[w] + 1) /\ Jobs[n[w] + 1] \notin done THEN "site" ELSE "read")
    /\ UNCHANGED <<count, files, tries, kills, history>>

EndOfJobs(w) ==
    /\ at[w] = "read" /\ n[w] = Len(Jobs)
    /\ Goto(w, "end")
    /\ UNCHANGED <<count, n, files, tries, kills, history>>

WriteSite(w) ==
    /\ at[w] = "site"
    /\ sites' = [sites EXCEPT ![Label(w)] = job(w)]
    /\ Goto(w, "run")
    /\ UNCHANGED <<count, n, rundir, logs, kept, done, tries, kills, history>>

(* runcpu starts the tool, which reads the site and opens its log; or it   *)
(* fails before that.                                                      *)
RunCpu(w) ==
    /\ at[w] = "run"
    /\ LET r == <<job(w), tries[job(w)] + 1>> IN
       /\ tries' = [tries EXCEPT ![job(w)] = @ + 1]
       /\ used' = [q \in DOMAIN used \cup {r} |-> IF q = r THEN sites[Label(w)] ELSE used[q]]
       /\ \/ /\ logs' = logs \cup {<<Label(w), Width[job(w)], r>>}
             /\ Goto(w, "running")
             /\ UNCHANGED failed
          \/ /\ failed' = failed \cup {r}
             /\ Goto(w, "copy")
             /\ UNCHANGED logs
    /\ UNCHANGED <<count, n, sites, rundir, kept, done, kills, orphans>>

(* The benchmark ends, or runcpu fails with or without results. *)
RunEnds(w) ==
    /\ at[w] = "running"
    /\ LET new == [rundir EXCEPT ![Label(w)] = run(w)] IN
       \/ rundir' = new /\ UNCHANGED failed
       \/ rundir' \in {rundir, new} /\ failed' = failed \cup {run(w)}
    /\ Goto(w, "copy")
    /\ UNCHANGED <<count, n, sites, logs, kept, done, tries, kills, used, orphans>>

(* The results of the newest run directory of the label; without one the   *)
(* copy fails and what an earlier run of the job left stays.               *)
CopyResults(w) ==
    /\ at[w] = "copy"
    /\ results' = [results EXCEPT ![job(w)] =
                      IF rundir[Label(w)] = NoRun THEN @ ELSE rundir[Label(w)]]
    /\ Goto(w, "grep")
    /\ UNCHANGED <<count, n, sites, rundir, logs, mx, done, tries, kills, history>>

LogsOf(w) == {l \in logs : l[1] = Label(w) /\ l[2] = Width[job(w)]}

GrepLogs(w) ==
    /\ at[w] = "grep"
    /\ mx' = [mx EXCEPT ![job(w)] = {l[3] : l \in LogsOf(w)}]
    /\ Goto(w, "rm")
    /\ UNCHANGED <<count, n, sites, rundir, logs, results, done, tries, kills, history>>

RemoveLogs(w) ==
    /\ at[w] = "rm"
    /\ logs' = logs \ LogsOf(w)
    /\ Goto(w, "touch")
    /\ UNCHANGED <<count, n, sites, rundir, kept, done, tries, kills, history>>

TouchDone(w) ==
    /\ at[w] = "touch"
    /\ done' = done \cup {job(w)}
    /\ Goto(w, "read")
    /\ UNCHANGED <<count, n, sites, rundir, logs, kept, tries, kills, history>>

(* wait returns. *)
Wait ==
    /\ count > 0 /\ \A w \in Ids : at[w] = "end"
    /\ count' = 0
    /\ UNCHANGED <<at, n, files, tries, kills, history>>

(* The script, its workers and their runs are killed. *)
Kill ==
    /\ count > 0 /\ kills < MaxKills
    /\ kills' = kills + 1
    /\ count' = 0
    /\ at' = [w \in Ids |-> "end"] /\ n' = [w \in Ids |-> 0]
    /\ orphans' = orphans \cup {l[3] : l \in logs}
    /\ UNCHANGED <<files, tries, used, failed>>

Worker(w) ==
    \/ ReadJob(w) \/ EndOfJobs(w) \/ WriteSite(w) \/ RunCpu(w) \/ RunEnds(w)
    \/ CopyResults(w) \/ GrepLogs(w) \/ RemoveLogs(w) \/ TouchDone(w)

Next == Start \/ (\E w \in Ids : Worker(w)) \/ Wait \/ Kill

Spec == Init /\ [][Next]_vars

-----------------------------------------------------------------------------
(* Besides the types: a log is of a job in progress, or was left behind. *)
TypeOK ==
    /\ count \in 0..MaxWorkers
    /\ at \in [Ids -> {"read", "site", "run", "running", "copy", "grep", "rm", "touch", "end"}]
    /\ n \in [Ids -> 0..Len(Jobs)]
    /\ done \subseteq Names
    /\ DOMAIN used = UNION {{j} \X (1..tries[j]) : j \in Names}
    /\ \A l \in logs :
           l[3] \in orphans
           \/ \E w \in Ids : at[w] \in {"running", "copy", "grep", "rm"} /\ run(w) = l[3]

(* What is kept of a finished job comes from the last run of that very     *)
(* job, made with its own site: the parallel workers, the jobs a worker    *)
(* had before and the runs of a killed script never mix into it.  The      *)
(* exceptions are a runcpu that failed, which leaves the results of the    *)
(* label's run before, and the logs a kill left behind.                    *)
ResultsOwn ==
    \A j \in done :
        LET r == <<j, tries[j]>>
        IN  /\ used[r] = j
            /\ r \in failed \/ (results[j] = r /\ mx[j] \ orphans = {r})

(* When the script returns every job is done, each line of the jobs file   *)
(* having had exactly one worker, whatever number there were before.       *)
AllDone == count > 0 /\ (\A w \in Ids : at[w] = "end") => done = Names

(* A job is not run again once it is done: a script that is started again  *)
(* leaves its results as they are.                                         *)
DoneIsFinal == [][\A j \in done : j \in done' /\ results'[j] = results[j] /\ mx'[j] = mx[j]]_vars
=============================================================================
