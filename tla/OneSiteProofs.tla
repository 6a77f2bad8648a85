--------------------------- MODULE OneSiteProofs ---------------------------
(***************************************************************************)
(* The results of the one-site sweep, for every list of distinct jobs, any *)
(* number of workers and any number of kills and restarts.                 *)
(***************************************************************************)
EXTENDS OneSite, TLAPS

Working == {"running", "copy", "grep", "rm", "touch"}
Active == {"site", "run"} \cup Working

Log(w) == <<w, Width[job(w)], run(w)>>

\* A run that has been started.
Made(r) == \E j \in Names : \E k \in 1..tries[j] : r = <<j, k>>

Types ==
    /\ count \in 0..MaxWorkers
    /\ at \in [Ids -> {"read", "site", "run", "running", "copy", "grep", "rm", "touch", "end"}]
    /\ n \in [Ids -> 0..Len(Jobs)]
    /\ DOMAIN sites = Ids /\ DOMAIN rundir = Ids
    /\ DOMAIN results = Names /\ DOMAIN mx = Names
    /\ tries \in [Names -> Nat]
    /\ done \subseteq Names
    /\ \A r : r \in DOMAIN used <=> Made(r)
    /\ \A r \in orphans \cup failed : Made(r)

\* The jobs are dealt out: a worker in a job has it alone, and has done all
\* of its jobs before that one.
DealInv ==
    \A w \in Ids :
        /\ w >= count => at[w] = "end"
        /\ at[w] \in Active => n[w] >= 1 /\ Mine(w, n[w]) /\ job(w) \notin done
        /\ w < count /\ at[w] = "end" => n[w] = Len(Jobs)
        /\ w < count => \A i \in 1..n[w] :
               Mine(w, i) => Jobs[i] \in done \/ (i = n[w] /\ at[w] \in Active)

\* What a worker has of its run at each point of the job.
OfRun(w) ==
    /\ at[w] = "run" => sites[w] = job(w)
    /\ at[w] \in Working =>
           tries[job(w)] >= 1 /\ used[run(w)] = job(w) /\ run(w) \notin orphans
    /\ at[w] = "running" => Log(w) \in logs
    /\ at[w] \in Working /\ run(w) \notin failed =>
           /\ at[w] \in {"copy", "grep"} => Log(w) \in logs
           /\ at[w] = "copy" => rundir[w] = run(w)
           /\ at[w] \in {"grep", "rm", "touch"} => results[job(w)] = run(w)
           /\ at[w] \in {"rm", "touch"} => mx[job(w)] \ orphans = {run(w)}

RunInv == \A w \in Ids : OfRun(w)

\* A log is of a worker's run, or a kill left it behind.
LogInv ==
    \A l \in logs :
        /\ Made(l[3])
        /\ \/ l[3] \in orphans
           \/ \E w \in Ids : at[w] \in {"running", "copy", "grep", "rm"} /\ l = Log(w)

DoneInv ==
    \A j \in done :
        LET r == <<j, tries[j]>>
        IN  /\ tries[j] >= 1 /\ r \notin orphans /\ used[r] = j
            /\ r \in failed \/ (results[j] = r /\ mx[j] \ orphans = {r})

IInv == Types /\ DealInv /\ RunInv /\ LogInv /\ DoneInv
-----------------------------------------------------------------------------
\* Two workers are never in the same job.
LEMMA Apart ==
  ASSUME IInv, NEW v \in Ids, NEW w \in Ids, at[v] \in Active, at[w] \in Active, v # w
  PROVE  job(v) # job(w)
<1>1. /\ n[v] \in 1..Len(Jobs) /\ n[w] \in 1..Len(Jobs)
      /\ Mine(v, n[v]) /\ Mine(w, n[w])
  BY DEF IInv, Types, DealInv, Ids
<1>2. n[v] # n[w]
  BY <1>1 DEF Mine
<1>. QED BY <1>1, <1>2, JobsAssumption DEF job

\* A worker is in a job of the list, and its run has been started.
LEMMA InJob ==
  ASSUME IInv, NEW w \in Ids, at[w] \in Active
  PROVE  /\ n[w] \in 1..Len(Jobs) /\ job(w) \in Names /\ job(w) \notin done /\ w < count
         /\ at[w] \in Working => Made(run(w))
<1>1. n[w] \in 1..Len(Jobs) /\ job(w) \notin done /\ w < count
  BY DEF IInv, Types, DealInv, Ids, Active, Working
<1>2. job(w) \in Names
  BY <1>1, JobsAssumption DEF job
<1>3. at[w] \in Working => Made(run(w))
  <2>1. at[w] \in Working => tries[job(w)] \in 1..tries[job(w)]
    BY <1>2 DEF IInv, Types, RunInv, OfRun
  <2>. QED BY <1>2, <2>1 DEF Made, run
<1>. QED BY <1>1, <1>2, <1>3

\* No worker runs and nothing is kept yet.
LEMMA InitIInv == Init => IInv
<1>. SUFFICES ASSUME Init PROVE IInv
  OBVIOUS
<1>. USE JobsAssumption DEF Init
<1>1. Types
  BY DEF Types, Made, Ids
<1>2. DealInv
  BY DEF DealInv, Ids, Active, Working
<1>3. RunInv /\ LogInv /\ DoneInv
  BY DEF RunInv, OfRun, LogInv, DoneInv, Working
<1>. QED BY <1>1, <1>2, <1>3 DEF IInv

-----------------------------------------------------------------------------
\* The deal is kept by a step that stays in its job.
LEMMA SameDeal ==
  ASSUME IInv, NEW w \in Ids, at[w] \in Active, at'[w] \in Active,
         at' = [at EXCEPT ![w] = at'[w]], UNCHANGED <<count, n, done>>
  PROVE  DealInv'
<1>. QED BY InJob, ZenonT(30) DEF IInv, Types, DealInv, Mine, job, Active, Working, Ids

\* A step of none of the variables keeps the invariant.
LEMMA StutterIInv == IInv /\ UNCHANGED vars => IInv'
<1>. SUFFICES ASSUME IInv, UNCHANGED vars PROVE IInv'
  OBVIOUS
<1>. USE DEF vars, files, kept, history
<1>1. Types' /\ DealInv'
  BY DEF IInv, Types, DealInv, Made, Mine, job
<1>2. RunInv' /\ LogInv' /\ DoneInv'
  BY DEF IInv, RunInv, OfRun, LogInv, DoneInv, Made, job, run, Log
<1>. QED BY <1>1, <1>2 DEF IInv

(***************************************************************************)
(* The steps.                                                              *)
(***************************************************************************)

\* A step that starts no run leaves the set of started runs as it is.
LEMMA SameRuns ==
  ASSUME IInv, UNCHANGED <<tries, used>>,
         \A r \in orphans' \cup failed' : Made(r)
  PROVE  /\ \A r : Made(r)' <=> Made(r)
         /\ \A r : r \in DOMAIN used' <=> Made(r)'
         /\ \A r \in orphans' \cup failed' : Made(r)'
<1>1. \A r : Made(r)' <=> Made(r)
  BY DEF Made
<1>2. \A r : r \in DOMAIN used <=> Made(r)
  BY DEF IInv, Types
<1>. QED BY <1>1, <1>2

\* A step of a worker keeps the types, and the set of started runs with its
\* record.
LEMMA WorkerTypes ==
  ASSUME IInv, NEW w \in Ids, Worker(w)
  PROVE  Types'
<1>. USE JobsAssumption DEF Goto, files, kept, history, Label
<1>0. /\ Types
      /\ at[w] \in Active => job(w) \in Names /\ (at[w] \in Working => Made(run(w)))
      /\ \A r \in orphans \cup failed : Made(r)
  <2>1. Types
    BY DEF IInv
  <2>2. at[w] \in Active => job(w) \in Names /\ (at[w] \in Working => Made(run(w)))
    BY InJob
  <2>. QED BY <2>1, <2>2 DEF Types
<1>1. CASE ReadJob(w) \/ EndOfJobs(w)
  <2>1. n' \in [Ids -> 0..Len(Jobs)]
    BY <1>0, <1>1 DEF ReadJob, EndOfJobs, Types
  <2>2. at' \in [Ids -> {"read", "site", "run", "running", "copy", "grep", "rm", "touch", "end"}]
    BY <1>0, <1>1, Zenon DEF ReadJob, EndOfJobs, Types
  <2>3. UNCHANGED <<count, sites, rundir, results, mx, done, tries, used, failed, orphans>>
    BY <1>1 DEF ReadJob, EndOfJobs
  <2>. QED BY <1>0, <2>1, <2>2, <2>3, SameRuns, SMTT(30) DEF Types
<1>2. CASE WriteSite(w)
  BY <1>0, <1>2, SameRuns DEF WriteSite, Types
<1>3. CASE RunCpu(w)
  <2>. DEFINE r == <<job(w), tries[job(w)] + 1>>
  <2>1. job(w) \in Names /\ tries \in [Names -> Nat]
    BY <1>0, <1>3 DEF RunCpu, Active, Types
  <2>2. tries' = [tries EXCEPT ![job(w)] = @ + 1]
    BY <1>3 DEF RunCpu
  <2>3. \A q : Made(q)' <=> Made(q) \/ q = r
    BY <2>1, <2>2 DEF Made
  <2>4. \A q : q \in DOMAIN used' <=> q \in DOMAIN used \/ q = r
    BY <1>3 DEF RunCpu
  <2>5. \A q : q \in DOMAIN used' <=> Made(q)'
    BY <2>3, <2>4, <1>0 DEF Types
  <2>6. orphans' = orphans /\ failed' \subseteq failed \cup {r}
    BY <1>3 DEF RunCpu
  <2>7. \A q \in orphans' \cup failed' : Made(q)'
    BY <2>3, <2>6, <1>0
  <2>8. tries' \in [Names -> Nat]
    BY <2>1, <2>2
  <2>9. /\ count' = count /\ n' = n /\ done' = done /\ UNCHANGED <<sites, rundir, results, mx>>
        /\ at' \in [Ids -> {"read", "site", "run", "running", "copy", "grep", "rm", "touch", "end"}]
    BY <1>0, <1>3, Zenon DEF RunCpu, Types
  <2>. QED BY <1>0, <2>5, <2>7, <2>8, <2>9, SMTT(30) DEF Types
<1>4. CASE RunEnds(w)
  <2>1. \A r \in orphans' \cup failed' : Made(r)
    BY <1>0, <1>4 DEF RunEnds, Active, Working
  <2>2. UNCHANGED <<tries, used, count, n, sites, results, mx, done>> /\ DOMAIN rundir' = Ids
    BY <1>0, <1>4 DEF RunEnds, Types
  <2>3. at' \in [Ids -> {"read", "site", "run", "running", "copy", "grep", "rm", "touch", "end"}]
    BY <1>0, <1>4 DEF RunEnds, Types
  <2>. QED BY <1>0, <2>1, <2>2, <2>3, SameRuns, SMTT(30) DEF Types
<1>5. CASE CopyResults(w) \/ GrepLogs(w) \/ RemoveLogs(w)
  BY <1>0, <1>5, SameRuns, ZenonT(30) DEF CopyResults, GrepLogs, RemoveLogs, Types
<1>6. CASE TouchDone(w)
  BY <1>0, <1>6, SameRuns DEF TouchDone, Types, Active, Working
<1>. QED BY <1>1, <1>2, <1>3, <1>4, <1>5, <1>6, SMTT(30) DEF Worker

\* A worker passes over no job of its own that is not done.
LEMMA WorkerDeal ==
  ASSUME IInv, NEW w \in Ids, Worker(w)
  PROVE  DealInv'
<1>. USE DEF Goto, files, kept, history
<1>0. at \in [Ids -> {"read", "site", "run", "running", "copy", "grep", "rm", "touch", "end"}]
  BY DEF IInv, Types
<1>1. CASE ReadJob(w)
  <2>1. \A v \in Ids \ {w} : at'[v] = at[v] /\ n'[v] = n[v] /\ job(v)' = job(v)
    BY <1>0, <1>1 DEF ReadJob, job, IInv, Types
  <2>2. /\ n[w] \in 0..Len(Jobs) /\ n[w] < Len(Jobs) /\ n'[w] = n[w] + 1 /\ w < count
        /\ at'[w] \in {"site", "read"}
        /\ at'[w] = "site" <=> Mine(w, n[w] + 1) /\ Jobs[n[w] + 1] \notin done
    BY <1>0, <1>1 DEF ReadJob, IInv, Types, DealInv, Ids
  <2>3. count' = count /\ done' = done
    BY <1>1 DEF ReadJob
  <2>4. \A i \in 1..n[w] : Mine(w, i) => Jobs[i] \in done
    BY <1>1, <2>2 DEF ReadJob, IInv, DealInv, Active, Working
  <2>5. \A i : \A v \in Ids : Mine(v, i)' <=> Mine(v, i)
    BY <2>3 DEF Mine
  <2>6. \A i \in 1..n'[w] : Mine(w, i) => Jobs[i] \in done \/ (i = n'[w] /\ at'[w] \in Active)
    BY <2>2, <2>4 DEF Active
  <2>7. at'[w] \in Active => n'[w] >= 1 /\ Mine(w, n'[w]) /\ job(w)' \notin done
    BY <2>2 DEF job, Active, Working
  <2>. QED BY <2>1, <2>2, <2>3, <2>5, <2>6, <2>7, SMTT(30) DEF IInv, DealInv, Ids
<1>2. CASE EndOfJobs(w)
  BY <1>0, <1>2 DEF EndOfJobs, IInv, Types, DealInv, Mine, job, Active, Working, Ids
<1>3. CASE WriteSite(w) \/ RunCpu(w) \/ RunEnds(w) \/ CopyResults(w) \/ GrepLogs(w) \/ RemoveLogs(w)
  <2>1. /\ at[w] \in Active /\ at'[w] \in Active
        /\ at' = [at EXCEPT ![w] = at'[w]] /\ UNCHANGED <<count, n, done>>
    BY <1>0, <1>3 DEF WriteSite, RunCpu, RunEnds, CopyResults, GrepLogs, RemoveLogs, Active, Working
  <2>. QED BY <2>1, SameDeal, SMTT(30)
<1>4. CASE TouchDone(w)
  <2>1. at[w] \in Active /\ w < count /\ job(w) \in Names
    BY <1>4, InJob DEF TouchDone, Active, Working
  <2>2. \A v \in Ids \ {w} : at[v] \in Active => job(v) # job(w)
    BY <2>1, Apart
  <2>3. /\ at' = [at EXCEPT ![w] = "read"] /\ UNCHANGED <<count, n>>
        /\ done' = done \cup {job(w)}
    BY <1>4, SMTT(30) DEF TouchDone
  <2>. QED BY <1>0, <2>1, <2>2, <2>3, SMTT(30) DEF IInv, DealInv, Mine, job, Active, Working, Ids
<1>. QED BY <1>1, <1>2, <1>3, <1>4, SMTT(30) DEF Worker

\* A worker that does not move keeps what it has of its run when no file of
\* its label, nothing of its job and no run it has made is touched.
LEMMA SameRun ==
  ASSUME IInv, NEW v \in Ids,
         at'[v] = at[v], n'[v] = n[v], sites'[v] = sites[v], rundir'[v] = rundir[v],
         at[v] \in Active => /\ tries'[job(v)] = tries[job(v)]
                            /\ results'[job(v)] = results[job(v)] /\ mx'[job(v)] = mx[job(v)],
         at[v] \in Working => used'[run(v)] = used[run(v)],
         at[v] \in Working /\ Log(v) \in logs => Log(v) \in logs',
         orphans' = orphans, failed \subseteq failed'
  PROVE  OfRun(v)'
<1>1. OfRun(v)
  BY SMTT(30) DEF IInv, RunInv
<1>2. at[v] \in Active => job(v)' = job(v) /\ run(v)' = run(v) /\ Log(v)' = Log(v)
  BY DEF job, run, Log
<1>. QED BY <1>1, <1>2, SMTT(30) DEF OfRun, Active, Working

\* A step of a worker keeps what it, and every other worker, has of its run.
LEMMA WorkerRun ==
  ASSUME IInv, NEW w \in Ids, Worker(w)
  PROVE  RunInv'
<1>. USE DEF Goto, files, kept, history, Label
<1>0. /\ at \in [Ids -> {"read", "site", "run", "running", "copy", "grep", "rm", "touch", "end"}]
      /\ n \in [Ids -> 0..Len(Jobs)] /\ tries \in [Names -> Nat]
      /\ DOMAIN sites = Ids /\ DOMAIN rundir = Ids /\ DOMAIN results = Names /\ DOMAIN mx = Names
  BY DEF IInv, Types
<1>w. OfRun(w) /\ (at[w] \in Active => job(w) \in Names)
  BY InJob DEF IInv, RunInv
<1>a. ASSUME NEW v \in Ids \ {w} PROVE OfRun(v)'
  <2>1. at[v] \in Active /\ at[w] \in Active => job(v) # job(w) /\ run(v) # run(w)
    BY Apart DEF run
  <2>2. at[v] \in Active => job(v) \in Names
    BY InJob, SMTT(30)
  <2>3. CASE ReadJob(w) \/ EndOfJobs(w) \/ WriteSite(w) \/ TouchDone(w)
    BY <1>0, <2>3, SameRun, SMTT(30) DEF ReadJob, EndOfJobs, WriteSite, TouchDone
  <2>4. CASE RunCpu(w)
    <3>1. at[w] \in Active
      BY <2>4 DEF RunCpu, Active
    <3>2. at[v] \in Active => tries'[job(v)] = tries[job(v)]
      BY <1>0, <2>1, <2>2, <2>4, <3>1, SMTT(30) DEF RunCpu
    <3>3. at[v] \in Working => used'[run(v)] = used[run(v)]
      <4>1. at[v] \in Working => run(v) \in DOMAIN used
        BY InJob DEF IInv, Types, Active
      <4>2. at[v] \in Working => run(v) # <<job(w), tries[job(w)] + 1>>
        BY <2>1, <3>1, SMTT(30) DEF run, Active
      <4>. QED BY <2>4, <4>1, <4>2, SMTT(30) DEF RunCpu
    <3>4. /\ at'[v] = at[v] /\ n' = n /\ UNCHANGED <<sites, rundir, results, mx, orphans>>
          /\ failed \subseteq failed' /\ logs \subseteq logs'
      BY <1>0, <2>4, SMTT(30) DEF RunCpu
    <3>. QED BY <3>2, <3>3, <3>4, SameRun, SMTT(30)
  <2>5. CASE RunEnds(w)
    <3>1. /\ at'[v] = at[v] /\ rundir'[v] = rundir[v] /\ failed \subseteq failed'
          /\ UNCHANGED <<n, sites, logs, results, mx, tries, used, orphans>>
      BY <1>0, <2>5, SMTT(30) DEF RunEnds
    <3>. QED BY <3>1, SameRun, SMTT(30)
  <2>6. CASE CopyResults(w) \/ GrepLogs(w)
    <3>1. /\ at'[v] = at[v] /\ UNCHANGED <<n, sites, rundir, logs, tries, used, failed, orphans>>
          /\ at[v] \in Active => results'[job(v)] = results[job(v)] /\ mx'[job(v)] = mx[job(v)]
      BY <1>0, <2>1, <2>2, <2>6, SMTT(30) DEF CopyResults, GrepLogs, Active, Working
    <3>. QED BY <3>1, SameRun, SMTT(30)
  <2>7. CASE RemoveLogs(w)
    <3>1. Log(v) \in logs => Log(v) \in logs'
      BY <2>7 DEF RemoveLogs, LogsOf, Log
    <3>2. /\ at'[v] = at[v]
          /\ UNCHANGED <<n, sites, rundir, results, mx, tries, used, failed, orphans>>
      BY <1>0, <2>7 DEF RemoveLogs
    <3>. QED BY <3>1, <3>2, SameRun, SMTT(30)
  <2>. QED BY <2>3, <2>4, <2>5, <2>6, <2>7, SMTT(30) DEF Worker
<1>b. OfRun(w)'
  <2>1. CASE ReadJob(w) \/ EndOfJobs(w) \/ TouchDone(w)
    BY <1>0, <2>1, SMTT(30) DEF ReadJob, EndOfJobs, TouchDone, OfRun, Working
  <2>2. CASE WriteSite(w)
    BY <1>0, <2>2, SMTT(30) DEF WriteSite, OfRun, Working, job
  <2>3. CASE RunCpu(w)
    <3>. DEFINE r == <<job(w), tries[job(w)] + 1>>
    <3>1. job(w) \in Names /\ sites[w] = job(w) /\ ~ Made(r)
      BY <1>0, <1>w, <2>3, SMTT(30) DEF RunCpu, OfRun, Active, Made
    <3>2. r \notin DOMAIN used /\ r \notin orphans
      BY <3>1, SMTT(30) DEF IInv, Types
    <3>3. /\ job(w)' = job(w) /\ tries'[job(w)] = tries[job(w)] + 1 /\ run(w)' = r
      BY <1>0, <2>3, <3>1, SMTT(30) DEF RunCpu, job, run
    <3>4. used'[r] = job(w) /\ orphans' = orphans
      BY <2>3, <3>1, SMTT(30) DEF RunCpu
    <3>5. \/ at'[w] = "running" /\ <<w, Width[job(w)], r>> \in logs'
          \/ at'[w] = "copy" /\ r \in failed'
      BY <1>0, <2>3 DEF RunCpu
    <3>6. Log(w)' = <<w, Width[job(w)], r>>
      BY <3>3 DEF Log
    <3>7. tries'[job(w)] >= 1
      BY <1>0, <3>1, <3>3, SMTT(30)
    <3>. QED BY <3>2, <3>3, <3>4, <3>5, <3>6, <3>7, SMTT(30) DEF OfRun
  <2>4. CASE RunEnds(w)
    <3>1. /\ at[w] = "running" /\ at'[w] = "copy" /\ job(w)' = job(w) /\ run(w)' = run(w)
          /\ Log(w)' = Log(w) /\ UNCHANGED <<logs, tries, used, orphans>>
      BY <1>0, <2>4, SMTT(30) DEF RunEnds, job, run, Log
    <3>2. run(w) \notin failed' => rundir'[w] = run(w)
      BY <1>0, <2>4, SMTT(30) DEF RunEnds
    <3>. QED BY <1>w, <3>1, <3>2, SMTT(30) DEF OfRun, Working
  <2>5. CASE CopyResults(w)
    <3>1. /\ at[w] = "copy" /\ at'[w] = "grep" /\ job(w)' = job(w) /\ run(w)' = run(w)
          /\ Log(w)' = Log(w) /\ UNCHANGED <<logs, tries, used, failed, orphans>>
          /\ rundir[w] # NoRun => results'[job(w)] = rundir[w]
      BY <1>0, <1>w, <2>5, SMTT(30) DEF CopyResults, job, run, Log, Active, Working
    <3>2. run(w) # NoRun
      BY SMTT(30) DEF run, NoRun
    <3>. QED BY <1>w, <3>1, <3>2, SMTT(30) DEF OfRun, Working
  <2>6. CASE GrepLogs(w)
    <3>1. /\ at[w] = "grep" /\ at'[w] = "rm" /\ job(w)' = job(w) /\ run(w)' = run(w)
          /\ UNCHANGED <<results, tries, used, failed, orphans>>
          /\ mx'[job(w)] = {l[3] : l \in LogsOf(w)}
      BY <1>0, <1>w, <2>6, SMTT(30) DEF GrepLogs, job, run, Active, Working
    <3>2. \A l \in LogsOf(w) : l[3] \in orphans \/ l[3] = run(w)
      BY SMTT(30) DEF IInv, LogInv, LogsOf, Log
    <3>3. run(w) \notin failed => Log(w) \in LogsOf(w) /\ Log(w)[3] = run(w)
      BY <1>w, <3>1, SMTT(30) DEF OfRun, Working, LogsOf, Log
    <3>4. run(w) \notin orphans
      BY <1>w, <3>1, SMTT(30) DEF OfRun, Working
    <3>5. run(w) \notin failed => mx'[job(w)] \ orphans = {run(w)}
      BY <3>1, <3>2, <3>3, <3>4, SMTT(30)
    <3>. QED BY <1>w, <3>1, <3>5, SMTT(30) DEF OfRun, Working
  <2>7. CASE RemoveLogs(w)
    <3>1. /\ at[w] = "rm" /\ at'[w] = "touch" /\ job(w)' = job(w) /\ run(w)' = run(w)
          /\ UNCHANGED <<results, mx, tries, used, failed, orphans>>
      BY <1>0, <2>7 DEF RemoveLogs, job, run
    <3>. QED BY <1>w, <3>1, SMTT(30) DEF OfRun, Working
  <2>. QED BY <2>1, <2>2, <2>3, <2>4, <2>5, <2>6, <2>7, SMTT(30) DEF Worker
<1>. QED BY <1>a, <1>b, SMTT(30) DEF RunInv

\* A worker removes the log of its run before it leaves the job.
LEMMA WorkerLog ==
  ASSUME IInv, NEW w \in Ids, Worker(w)
  PROVE  LogInv'
<1>. USE DEF Goto, files, kept, history, Label
<1>. DEFINE Owners == {"running", "copy", "grep", "rm"}
<1>0. /\ at \in [Ids -> {"read", "site", "run", "running", "copy", "grep", "rm", "touch", "end"}]
      /\ n \in [Ids -> 0..Len(Jobs)] /\ tries \in [Names -> Nat]
  BY DEF IInv, Types
<1>1. CASE /\ UNCHANGED <<tries, logs, orphans>>
           /\ \A v \in Ids : at[v] \in Owners => at'[v] \in Owners /\ n'[v] = n[v]
  BY <1>1 DEF IInv, LogInv, Made, Log, run, job
<1>2. CASE ReadJob(w) \/ EndOfJobs(w) \/ WriteSite(w) \/ TouchDone(w)
  BY <1>0, <1>1, <1>2, SMTT(30) DEF ReadJob, EndOfJobs, WriteSite, TouchDone
<1>3. CASE RunEnds(w) \/ CopyResults(w) \/ GrepLogs(w)
  BY <1>0, <1>1, <1>3, SMTT(30) DEF RunEnds, CopyResults, GrepLogs
<1>4. CASE RunCpu(w)
  <2>. DEFINE r == <<job(w), tries[job(w)] + 1>>
  <2>1. at[w] = "run" /\ job(w) \in Names
    BY <1>4, InJob, SMTT(30) DEF RunCpu, Active
  <2>2. tries' = [tries EXCEPT ![job(w)] = @ + 1] /\ n' = n /\ orphans' = orphans
    BY <1>4 DEF RunCpu
  <2>3. \A q : Made(q) \/ q = r => Made(q)'
    BY <1>0, <2>1, <2>2, SMTT(30) DEF Made
  <2>4. \A v \in Ids \ {w} : at[v] \in Owners => at'[v] = at[v] /\ Log(v)' = Log(v)
    BY <1>0, <1>4, <2>1, <2>2, Apart, SMTT(30) DEF RunCpu, Log, run, job, Active, Working
  <2>5. ASSUME NEW l \in logs
        PROVE  Made(l[3])' /\ (l[3] \in orphans' \/ \E v \in Ids : at'[v] \in Owners /\ l = Log(v)')
    BY <2>1, <2>2, <2>3, <2>4, SMTT(30) DEF IInv, LogInv
  <2>6. CASE logs' = logs
    BY <2>5, <2>6 DEF LogInv
  <2>7. CASE logs' = logs \cup {<<w, Width[job(w)], r>>} /\ at'[w] = "running"
    <3>1. Log(w)' = <<w, Width[job(w)], r>>
      BY <1>0, <2>1, <2>2, SMTT(30) DEF Log, run, job
    <3>2. ASSUME NEW l \in logs' \ logs
          PROVE  Made(l[3])' /\ at'[w] \in Owners /\ l = Log(w)'
      BY <2>3, <2>7, <3>1, <3>2, SMTT(30)
    <3>. QED BY <2>5, <3>2, SMTT(30) DEF LogInv
  <2>. QED BY <1>0, <1>4, <2>6, <2>7, SMTT(30) DEF RunCpu
<1>5. CASE RemoveLogs(w)
  <2>1. \A v \in Ids \ {w} : at'[v] = at[v] /\ Log(v)' = Log(v)
    BY <1>0, <1>5 DEF RemoveLogs, Log, run, job
  <2>2. Log(w) \notin logs'
    BY <1>5 DEF RemoveLogs, LogsOf, Log
  <2>3. logs' \subseteq logs /\ UNCHANGED <<orphans, tries>>
    BY <1>5, SMTT(30) DEF RemoveLogs
  <2>. QED BY <2>1, <2>2, <2>3, SMTT(30) DEF IInv, LogInv, Made
<1>. QED BY <1>2, <1>3, <1>4, <1>5, SMTT(30) DEF Worker

\* A step of a worker leaves what is kept of the finished jobs alone, and a
\* job it finishes has its own results.
LEMMA WorkerDone ==
  ASSUME IInv, NEW w \in Ids, Worker(w)
  PROVE  /\ DoneInv'
         /\ \A j \in done : j \in done' /\ results'[j] = results[j] /\ mx'[j] = mx[j]
<1>. USE DEF Goto, files, kept, history, Label
<1>0. /\ at \in [Ids -> {"read", "site", "run", "running", "copy", "grep", "rm", "touch", "end"}]
      /\ tries \in [Names -> Nat] /\ done \subseteq Names
      /\ DOMAIN results = Names /\ DOMAIN mx = Names
  BY DEF IInv, Types
<1>1. at[w] \in Active => job(w) \in Names /\ job(w) \notin done
  BY InJob, SMTT(30)
<1>2. CASE ReadJob(w) \/ EndOfJobs(w) \/ WriteSite(w) \/ RemoveLogs(w)
  BY <1>2, SMTT(30) DEF ReadJob, EndOfJobs, WriteSite, RemoveLogs, IInv, DoneInv
<1>3. CASE RunCpu(w)
  <2>. DEFINE r == <<job(w), tries[job(w)] + 1>>
  <2>1. \A j \in done : tries'[j] = tries[j] /\ <<j, tries[j]>> # r
    BY <1>0, <1>1, <1>3, SMTT(30) DEF RunCpu, Active
  <2>2. \A j \in done : <<j, tries[j]>> \in DOMAIN used
    <3>1. \A j \in done : tries[j] \in 1..tries[j]
      <4>1. \A j \in done : tries[j] >= 1 /\ tries[j] \in Nat
        BY <1>0, ZenonT(30) DEF IInv, DoneInv
      <4>. QED BY <4>1
    <3>2. \A j \in done : Made(<<j, tries[j]>>)
      BY <1>0, <3>1, SMTT(30) DEF Made
    <3>. QED BY <3>2 DEF IInv, Types
  <2>3. \A j \in done : used'[<<j, tries[j]>>] = used[<<j, tries[j]>>]
    BY <1>3, <2>1, <2>2, SMTT(30) DEF RunCpu
  <2>4. UNCHANGED <<done, results, mx, orphans>> /\ failed \subseteq failed'
    BY <1>3, SMTT(30) DEF RunCpu
  <2>. QED BY <2>1, <2>3, <2>4, SMTT(30) DEF IInv, DoneInv
<1>4. CASE RunEnds(w)
  BY <1>4, SMTT(30) DEF RunEnds, IInv, DoneInv
<1>5. CASE CopyResults(w) \/ GrepLogs(w)
  <2>1. /\ \A j \in done : results'[j] = results[j] /\ mx'[j] = mx[j]
        /\ UNCHANGED <<done, tries, used, failed, orphans>>
    BY <1>0, <1>1, <1>5, SMTT(30) DEF CopyResults, GrepLogs, Active, Working
  <2>. QED BY <2>1 DEF IInv, DoneInv
<1>6. CASE TouchDone(w)
  <2>1. /\ tries[job(w)] >= 1 /\ used[run(w)] = job(w) /\ run(w) \notin orphans
        /\ run(w) \in failed \/ (results[job(w)] = run(w) /\ mx[job(w)] \ orphans = {run(w)})
    BY <1>6 DEF TouchDone, IInv, RunInv, OfRun, Working
  <2>. QED BY <1>6, <2>1, SMTT(30) DEF TouchDone, IInv, DoneInv, run
<1>. QED BY <1>2, <1>3, <1>4, <1>5, <1>6, SMTT(30) DEF Worker

\* The script starts, ends or is killed.
LEMMA ScriptStep ==
  ASSUME IInv, Start \/ Wait \/ Kill
  PROVE  IInv'
<1>. USE JobsAssumption DEF files, kept, history
<1>1. CASE Start
  <2>1. Types'
    <3>1. /\ count' \in 0..MaxWorkers /\ n' \in [Ids -> 0..Len(Jobs)]
          /\ at' \in [Ids -> {"read", "site", "run", "running", "copy", "grep", "rm", "touch", "end"}]
      BY <1>1 DEF Start
    <3>2. UNCHANGED <<sites, rundir, results, mx, done, tries, used, failed, orphans>>
      BY <1>1 DEF Start
    <3>. QED BY <3>1, <3>2 DEF IInv, Types, Made
  <2>2. DealInv'
    BY <1>1, SMTT(30) DEF Start, DealInv, Active, Working, Ids
  <2>3. RunInv' /\ DoneInv'
    BY <1>1, SMTT(30) DEF Start, RunInv, OfRun, DoneInv, Working, IInv
  <2>4. LogInv'
    <3>1. \A v \in Ids : at[v] = "end"
      BY <1>1 DEF Start, IInv, DealInv, Ids
    <3>. QED BY <1>1, <3>1, SMTT(30) DEF Start, IInv, LogInv, Made
  <2>. QED BY <2>1, <2>2, <2>3, <2>4, SMTT(30) DEF IInv
<1>2. CASE Wait
  <2>1. Types' /\ DealInv'
    BY <1>2, SMTT(30) DEF Wait, IInv, Types, DealInv, Made, Ids, Active, Working
  <2>2. RunInv' /\ LogInv' /\ DoneInv'
    BY <1>2 DEF Wait, IInv, RunInv, OfRun, LogInv, DoneInv, Working, Made
  <2>. QED BY <2>1, <2>2, SMTT(30) DEF IInv
<1>3. CASE Kill
  <2>1. UNCHANGED <<sites, rundir, logs, results, mx, done, tries, used, failed>>
    BY <1>3 DEF Kill
  <2>2. /\ count' = 0 /\ at' = [v \in Ids |-> "end"] /\ n' = [v \in Ids |-> 0]
        /\ orphans' = orphans \cup {l[3] : l \in logs}
    BY <1>3 DEF Kill
  <2>3. \A r \in orphans' \cup failed' : Made(r)
    BY <2>1, <2>2, SMTT(30) DEF IInv, Types, LogInv
  <2>4. Types'
    <3>1. count' \in 0..MaxWorkers /\ n' \in [Ids -> 0..Len(Jobs)]
      BY <2>2, SMTT(30)
    <3>. QED BY <2>1, <2>2, <2>3, <3>1, SameRuns, SMTT(30) DEF IInv, Types
  <2>5. DealInv' /\ RunInv'
    BY <2>2, SMTT(30) DEF DealInv, RunInv, OfRun, Active, Working, Ids
  <2>6. LogInv'
    BY <2>1, <2>2, SMTT(30) DEF IInv, LogInv, Made
  <2>7. DoneInv'
    <3>1. \A j \in done : \A l \in logs : l[3] # <<j, tries[j]>>
      <4>1. SUFFICES ASSUME NEW j \in done, NEW l \in logs, l[3] = <<j, tries[j]>> PROVE FALSE
        OBVIOUS
      <4>2. l[3] \notin orphans
        BY <4>1, SMTT(30) DEF IInv, DoneInv
      <4>3. PICK v \in Ids : at[v] \in {"running", "copy", "grep", "rm"} /\ l = Log(v)
        BY <4>1, <4>2, SMTT(30) DEF IInv, LogInv
      <4>4. job(v) \notin done
        BY <4>3, InJob DEF Active, Working
      <4>. QED BY <4>1, <4>3, <4>4, SMTT(30) DEF Log, run
    <3>. QED BY <2>1, <2>2, <3>1, SMTT(30) DEF IInv, DoneInv
  <2>. QED BY <2>4, <2>5, <2>6, <2>7, SMTT(30) DEF IInv
<1>. QED BY <1>1, <1>2, <1>3, SMTT(30)

\* The inductive invariant of the sweep holds in every reachable state of the
\* workers and the script.
THEOREM Invariant == Spec => []IInv
<1>1. IInv /\ [Next]_vars => IInv'
  <2>1. SUFFICES ASSUME IInv, [Next]_vars PROVE IInv'
    OBVIOUS
  <2>2. CASE UNCHANGED vars
    BY <2>1, <2>2, StutterIInv, SMTT(30)
  <2>3. ASSUME NEW w \in Ids, Worker(w) PROVE IInv'
    BY <2>1, <2>3, WorkerTypes, WorkerDeal, WorkerRun, WorkerLog, WorkerDone, SMTT(30) DEF IInv
  <2>4. CASE Start \/ Wait \/ Kill
    BY <2>1, <2>4, ScriptStep, SMTT(30)
  <2>. QED BY <2>1, <2>2, <2>3, <2>4, SMTT(30) DEF Next
<1>. QED BY InitIInv, <1>1, PTL DEF Spec

\* For every list of distinct jobs and every number of workers, what is kept
\* of a finished job is from its own last run, made with its own site.
THEOREM SweepResultsOwn == Spec => []ResultsOwn
<1>1. IInv => ResultsOwn
  BY SMTT(30) DEF IInv, DoneInv, ResultsOwn
<1>. QED BY Invariant, <1>1, PTL

\* Dealing the lines out by number modulo the number of workers leaves no
\* job undone when the script returns.
THEOREM SweepAllDone == Spec => []AllDone
<1>1. ASSUME IInv, count > 0, \A w \in Ids : at[w] = "end", NEW j \in Names
      PROVE  j \in done
  <2>1. PICK i \in 1..Len(Jobs) : Jobs[i] = j
    BY JobsAssumption DEF Names, Range
  <2>2. count \in Nat /\ count <= MaxWorkers
    BY <1>1, JobsAssumption DEF IInv, Types
  <2>. DEFINE w == (i - 1) % count
  <2>3. w \in Ids /\ w < count
    BY <1>1, <2>2, JobsAssumption, SMTT(30) DEF Ids
  <2>4. n[w] = Len(Jobs) /\ Mine(w, i)
    BY <1>1, <2>3, SMTT(30) DEF IInv, DealInv, Mine
  <2>. HIDE DEF w
  <2>5. Jobs[i] \in done
    BY <1>1, <2>3, <2>4, SMTT(30) DEF IInv, DealInv, Active, Working
  <2>. QED BY <2>1, <2>5
<1>2. IInv => done \subseteq Names
  BY DEF IInv, Types
<1>3. IInv => AllDone
  BY <1>1, <1>2 DEF AllDone
<1>. QED BY Invariant, <1>3, PTL

\* Nothing that happens after a job is done, a restart with another number of
\* workers included, changes what is kept of it.
THEOREM SweepDoneIsFinal == Spec => DoneIsFinal
<1>1. IInv /\ [Next]_vars
         => [\A j \in done : j \in done' /\ results'[j] = results[j] /\ mx'[j] = mx[j]]_vars
  <2>1. SUFFICES ASSUME IInv, Next
                 PROVE  \A j \in done : j \in done' /\ results'[j] = results[j] /\ mx'[j] = mx[j]
    OBVIOUS
  <2>2. CASE Start \/ Wait \/ Kill
    BY <2>2 DEF Start, Wait, Kill, files, kept
  <2>3. CASE \E w \in Ids : Worker(w)
    BY <2>1, <2>3, WorkerDone
  <2>. QED BY <2>1, <2>2, <2>3, SMTT(30) DEF Next
<1>. QED BY Invariant, <1>1, PTL DEF Spec, DoneIsFinal

\* The types, and that no log outlives its job without a kill.
THEOREM SweepTypeOK == Spec => []TypeOK
<1>1. ASSUME IInv PROVE TypeOK
  <2>1. DOMAIN used = UNION {{j} \X (1..tries[j]) : j \in Names}
    <3>1. \A r : r \in UNION {{j} \X (1..tries[j]) : j \in Names} <=> Made(r)
      BY DEF Made
    <3>. QED BY <1>1, <3>1, Zenon DEF IInv, Types
  <2>2. \A l \in logs : l[3] \in orphans
          \/ \E w \in Ids : at[w] \in {"running", "copy", "grep", "rm"} /\ run(w) = l[3]
    BY <1>1 DEF IInv, LogInv, Log
  <2>. QED BY <1>1, <2>1, <2>2, SMTT(30) DEF IInv, Types, TypeOK
<1>. QED BY Invariant, <1>1, PTL
=============================================================================
