----------------------------- MODULE ToParquet -----------------------------
(***************************************************************************)
(* tools/to_parquet.py: raw/<stem>.tar.xz archives become                  *)
(* db/<stem>.parquet files, and a DuckDB file gets a view of each.  An     *)
(* archive is the sequence of its members; a member holds one store, named *)
(* by the version of the archive it is from.  With pixz three parties run  *)
(* at once: the feeder thread, the pixz process between two pipes, and     *)
(* tarfile in the main thread.  Archives arrive, grow and are replaced     *)
(* while the program runs, and the program may fail or be killed anywhere. *)
(***************************************************************************)
EXTENDS Integers, Sequences, Functions

CONSTANTS
    Order,          \* the stems, as sorted(glob) gives them
    Members,        \* members of a complete archive
    BatchRows,      \* BATCH_ROWS
    PipeCap,        \* members a pipe holds
    MaxClock,       \* bound: modification times
    MaxVersion      \* bound: versions of archives

ASSUME SizesAssumption ==
    {Members, BatchRows, PipeCap, MaxClock, MaxVersion} \subseteq Nat \ {0}

VARIABLES
    clock, version,
    raw, db,            \* the two directories: stem to file, or NoFile
    views, allStores,   \* stems with a view; stems all_stores ranges over
    pc,                 \* where main is
    todo,               \* archives still to look at, the first in Order next
    opts,               \* use_pixz and --force
    conv,               \* the locals of convert_archive and its helpers
    doubt,              \* history: db[s] is not known to be of raw[s]
    cut                 \* history: stems whose published parquet a run left half
                        \* written, until it is written again

history == <<doubt, cut>>
vars == <<clock, version, raw, db, views, allStores, pc, todo, opts, conv, history>>
files == <<clock, version, raw>>
catalog == <<views, allStores>>

Stems == Range(Order)

ASSUME OrderAssumption == Order \in Seq(Stems) /\ IsInjective(Order)

NoFile == [mtime |-> -1]

Before(s, t) == \E i, j \in DOMAIN Order : i < j /\ Order[i] = s /\ Order[j] = t
First(S) == CHOOSE s \in S : \A t \in S \ {s} : Before(s, t)
cur == First(todo)

NoOpts == [pixz |-> FALSE, force |-> FALSE]

Complete(data) == Len(data) = Members

Idle == [feeder |-> "none", pos |-> 1, err |-> FALSE, stdin |-> << >>, eof |-> FALSE,
         proc |-> "none", stdout |-> << >>, got |-> 0, buf |-> << >>,
         writer |-> FALSE, failed |-> FALSE, changed |-> FALSE]

Init ==
    /\ clock = 1 /\ version = 1
    /\ raw = [s \in Stems |-> NoFile] /\ db = [s \in Stems |-> NoFile]
    /\ views = {} /\ allStores = {}
    /\ pc = "idle" /\ todo = {}
    /\ opts = NoOpts
    /\ conv = Idle
    /\ doubt = [s \in Stems |-> FALSE] /\ cut = {}

-----------------------------------------------------------------------------
(* The archives. *)

Converting(s) ==
    pc \in {"read", "join", "wait", "check", "flush", "close"} /\ cur = s

(* raw[s] gets new contents with modification time t.  A parquet that is   *)
(* not older is taken for up to date although it is not of this version.   *)
Install(s, data, t) ==
    /\ raw' = [raw EXCEPT ![s] = [data |-> data, mtime |-> t]]
    /\ doubt' = [doubt EXCEPT ![s] = @ \/ t <= db[s].mtime]
    /\ conv' = IF Converting(s) THEN [conv EXCEPT !.changed = TRUE] ELSE conv
    /\ UNCHANGED <<clock, db, catalog, pc, todo, opts, cut>>

(* A copy into raw/ begins, or a whole archive is moved there with the     *)
(* modification time it had before.                                        *)
Deliver(s) ==
    /\ version < MaxVersion
    /\ version' = version + 1
    /\ \/ Install(s, <<version>>, clock)
       \/ \E t \in 1..clock : Install(s, [i \in 1..Members |-> version], t)

(* The copy ends. *)
Grow(s) ==
    /\ raw[s] # NoFile /\ ~ Complete(raw[s].data)
    /\ Install(s, [i \in 1..Members |-> raw[s].data[Len(raw[s].data)]], clock)
    /\ UNCHANGED version

Tick ==
    /\ clock < MaxClock
    /\ clock' = clock + 1
    /\ UNCHANGED <<version, raw, db, catalog, pc, todo, opts, conv, history>>

-----------------------------------------------------------------------------
(* main *)

Start ==
    /\ pc = "idle"
    /\ \E s \in Stems : raw[s] # NoFile
    /\ todo' = {s \in Stems : raw[s] # NoFile}
    /\ pc' = "next"
    /\ opts' \in [pixz : BOOLEAN, force : BOOLEAN]
    /\ UNCHANGED <<files, db, catalog, conv, history>>

(* Mutant: any parquet is taken for up to date. *)
UpToDateExists(s) == db[s] # NoFile

UpToDate(s) == db[s] # NoFile /\ db[s].mtime >= raw[s].mtime

(* The archive is skipped, or opened: with pixz the process and the feeder *)
(* are started.                                                            *)
NextArchive ==
    /\ pc = "next" /\ todo # {}
    /\ IF ~ opts.force /\ UpToDate(cur)
       THEN todo' = todo \ {cur} /\ UNCHANGED <<pc, conv>>
       ELSE /\ pc' = "read"
            /\ conv' = IF opts.pixz THEN [Idle EXCEPT !.feeder = "feed", !.proc = "run"]
                       ELSE Idle
            /\ UNCHANGED todo
    /\ UNCHANGED <<files, db, catalog, opts, history>>

Exit == pc' = "idle" /\ todo' = {} /\ conv' = Idle /\ opts' = NoOpts

(* The run ends and leaves an open file with a footer or, if f is FALSE,   *)
(* half written: then nothing of it can be read.                           *)
Abandon(f, t) ==
    /\ db' = IF conv.writer
             THEN [db EXCEPT ![cur] = [rows |-> IF f THEN @.rows ELSE << >>,
                                       footer |-> f, mtime |-> t]]
             ELSE db
    /\ cut' = IF conv.writer /\ ~ f THEN cut \cup ({cur} \cap views) ELSE cut
    /\ Exit
    /\ UNCHANGED <<files, catalog, doubt>>

(* convert_archive raised: main ends with a traceback, without the views.  *)
(* An open writer may or may not be closed as the interpreter exits.       *)
Raise == \E f \in BOOLEAN : Abandon(f, clock)

-----------------------------------------------------------------------------
(* The feeder thread *)

Write ==
    /\ conv.feeder = "feed" /\ conv.proc = "run"
    /\ conv.pos <= Len(raw[cur].data) /\ Len(conv.stdin) < PipeCap
    /\ conv' = [conv EXCEPT !.pos = @ + 1, !.stdin = Append(@, raw[cur].data[conv.pos])]

(* The end of the archive. *)
ReadAll ==
    /\ conv.feeder = "feed" /\ conv.pos > Len(raw[cur].data)
    /\ conv' = [conv EXCEPT !.feeder = "close"]

FeederRaises == conv' = [conv EXCEPT !.feeder = "close", !.err = TRUE]

(* pixz has gone. *)
BrokenPipe == conv.feeder = "feed" /\ conv.proc # "run" /\ FeederRaises

(* Mutant: a feeder that raised leaves without closing the pipe. *)
CloseStdinUnlessRaised ==
    /\ conv.feeder = "close"
    /\ conv' = [conv EXCEPT !.feeder = "done", !.eof = ~ conv.err]

CloseStdin ==
    /\ conv.feeder = "close"
    /\ conv' = [conv EXCEPT !.feeder = "done", !.eof = TRUE]

Feeder ==
    /\ Write \/ ReadAll \/ BrokenPipe \/ CloseStdin
    /\ UNCHANGED <<files, db, catalog, pc, todo, opts, history>>

(* The archive cannot be read. *)
ReadError ==
    /\ conv.feeder = "feed" /\ FeederRaises
    /\ UNCHANGED <<files, db, catalog, pc, todo, opts, history>>

-----------------------------------------------------------------------------
(* The pixz process *)

Decompress ==
    /\ conv.stdin # << >> /\ Len(conv.stdout) < PipeCap
    /\ conv' = [conv EXCEPT !.stdin = Tail(@), !.stdout = Append(@, Head(conv.stdin))]

(* At the end of its input: an xz stream that is cut is an error. *)
PixzEnds ==
    /\ conv.eof /\ conv.stdin = << >>
    /\ conv' = [conv EXCEPT !.proc = IF conv.pos - 1 = Members THEN "ok" ELSE "bad"]

Pixz ==
    /\ conv.proc = "run"
    /\ Decompress \/ PixzEnds
    /\ UNCHANGED <<files, db, catalog, pc, todo, opts, history>>

(* Corrupt data, or the process is killed by the system. *)
PixzFails ==
    /\ conv.proc = "run"
    /\ conv' = [conv EXCEPT !.proc = "bad"]
    /\ UNCHANGED <<files, db, catalog, pc, todo, opts, history>>

-----------------------------------------------------------------------------
(* convert_archive: the loop over the members *)

(* flush: the first one creates the file in place. *)
Flush(c) ==
    /\ db' = [db EXCEPT ![cur] =
                 [rows |-> (IF c.writer THEN db[cur].rows ELSE << >>) \o c.buf,
                  footer |-> FALSE, mtime |-> clock]]
    /\ doubt' = [doubt EXCEPT ![cur] = TRUE]
    /\ cut' = cut \ {cur}
    /\ conv' = [c EXCEPT !.buf = << >>, !.writer = TRUE]

Consume(c, row) ==
    LET d == [c EXCEPT !.got = @ + 1, !.buf = Append(@, row)]
    IN  IF Len(d.buf) >= BatchRows THEN Flush(d)
        ELSE conv' = d /\ UNCHANGED <<db, history>>

(* A member, from pixz or from tarfile's own decompressor. *)
ReadMember ==
    /\ pc = "read" /\ conv.got < Members
    /\ IF opts.pixz
       THEN /\ conv.stdout # << >>
            /\ Consume([conv EXCEPT !.stdout = Tail(@)], Head(conv.stdout))
       ELSE /\ conv.got < Len(raw[cur].data)
            /\ Consume(conv, raw[cur].data[conv.got + 1])
    /\ UNCHANGED <<files, catalog, pc, todo, opts>>

NoMoreInput ==
    IF opts.pixz THEN conv.proc \in {"ok", "bad"} /\ conv.stdout = << >>
    ELSE conv.got >= Len(raw[cur].data)

LeaveLoop(fails) ==
    /\ conv' = [conv EXCEPT !.failed = fails]
    /\ pc' = IF opts.pixz THEN "join" ELSE "check"
    /\ UNCHANGED <<files, db, catalog, todo, opts, history>>

(* The loop ends at the end mark of the archive.  At an earlier end of the *)
(* stream tarfile raises inside a member and stops silently between two.   *)
EndLoop ==
    /\ pc = "read"
    /\ \/ conv.got = Members /\ LeaveLoop(FALSE)
       \/ conv.got < Members /\ NoMoreInput /\ \E fails \in BOOLEAN : LeaveLoop(fails)

(* Anything else in the loop may raise: a full disk, an interrupt. *)
LoopRaises == pc = "read" /\ LeaveLoop(TRUE)

(* cleanup: the join with the feeder ends with it, *)
Join ==
    /\ pc = "join" /\ conv.feeder = "done"
    /\ pc' = "wait"
    /\ UNCHANGED <<files, db, catalog, todo, opts, conv, history>>

(* or after five seconds. *)
JoinTimesOut ==
    /\ pc = "join" /\ conv.feeder # "done"
    /\ pc' = "wait"
    /\ UNCHANGED <<files, db, catalog, todo, opts, conv, history>>

(* cleanup: the wait for pixz ends with it, *)
Wait ==
    /\ pc = "wait" /\ conv.proc # "run"
    /\ pc' = "check"
    /\ UNCHANGED <<files, db, catalog, todo, opts, conv, history>>

(* or after five seconds, and pixz is killed. *)
WaitTimesOut ==
    /\ pc = "wait" /\ conv.proc = "run"
    /\ conv' = [conv EXCEPT !.proc = "bad"]
    /\ pc' = "check"
    /\ UNCHANGED <<files, db, catalog, todo, opts, history>>

(* Mutant: an error of pixz after the last member it read is forgiven. *)
RaisedUnlessRead ==
    conv.failed \/ (opts.pixz /\ (conv.err \/ (conv.proc # "ok" /\ conv.got < Len(raw[cur].data))))

(* What leaves convert_archive as an exception. *)
Raised == conv.failed \/ (opts.pixz /\ (conv.err \/ conv.proc # "ok"))

(* The exception leaves, or convert_archive goes on. *)
Check ==
    /\ pc = "check"
    /\ IF Raised THEN Raise
       ELSE pc' = "flush" /\ UNCHANGED <<files, db, catalog, todo, opts, conv, history>>

(* The last batch; without any store the file is created all the same. *)
LastFlush ==
    /\ pc = "flush"
    /\ IF conv.writer /\ conv.buf = << >> THEN UNCHANGED <<db, conv, history>> ELSE Flush(conv)
    /\ pc' = "close"
    /\ UNCHANGED <<files, catalog, todo, opts>>

(* writer.close() *)
CloseWriter ==
    /\ pc = "close"
    /\ db' = [db EXCEPT ![cur].footer = TRUE, ![cur].mtime = clock]
    /\ doubt' = [doubt EXCEPT ![cur] =
                    conv.changed \/ (~ opts.pixz /\ conv.got < Members)]
    /\ todo' = todo \ {cur} /\ pc' = "next" /\ conv' = Idle
    /\ UNCHANGED <<files, catalog, opts, cut>>

(* The disk is full at the last flush or as the file is closed. *)
FinishRaises == pc \in {"flush", "close"} /\ Raise

-----------------------------------------------------------------------------
(* refresh_duckdb *)

Parquets == {s \in Stems : db[s] # NoFile}

(* Mutant: nothing reads the files as the views are made. *)
RefreshBlind ==
    /\ pc = "next" /\ todo = {}
    /\ views' = views \cup Parquets /\ allStores' = Parquets /\ cut' = {}
    /\ Exit
    /\ UNCHANGED <<files, db, doubt>>

(* Every parquet gets a view, then all_stores ranges over all of them.  A  *)
(* file without a footer ends the refresh with an exception, the views     *)
(* before it replaced.                                                     *)
Refresh ==
    /\ pc = "next" /\ todo = {}
    /\ LET bad == {s \in Parquets : ~ db[s].footer}
       IN  IF bad = {}
           THEN views' = views \cup Parquets /\ allStores' = Parquets /\ cut' = {}
           ELSE /\ views' = views \cup {s \in Parquets : \A t \in bad : Before(s, t)}
                /\ UNCHANGED <<allStores, cut>>
    /\ Exit
    /\ UNCHANGED <<files, db, doubt>>

(* The program is killed: an open file stays as it is. *)
Kill ==
    /\ pc # "idle"
    /\ Abandon(FALSE, IF conv.writer THEN db[cur].mtime ELSE clock)

Main ==
    \/ NextArchive \/ ReadMember \/ EndLoop
    \/ Join \/ JoinTimesOut \/ Wait \/ WaitTimesOut
    \/ Check \/ LastFlush \/ CloseWriter \/ Refresh

Next ==
    \/ \E s \in Stems : Deliver(s)
    \/ \E s \in Stems : Grow(s)
    \/ Tick
    \/ Start
    \/ Feeder \/ ReadError
    \/ Pixz \/ PixzFails
    \/ Main
    \/ LoopRaises \/ FinishRaises
    \/ Kill

(* The threads of the program and the pixz process are scheduled, and the  *)
(* two time-outs come; nothing has to fail.                                *)
Spec == Init /\ [][Next]_vars /\ WF_vars(Main) /\ WF_vars(Feeder) /\ WF_vars(Pixz)

-----------------------------------------------------------------------------
TypeOK ==
    /\ clock \in 1..MaxClock /\ version \in 1..MaxVersion
    /\ \A s \in Stems : raw[s] # NoFile => Len(raw[s].data) \in {1, Members}
    /\ \A s \in Stems : db[s] # NoFile =>
           Len(db[s].rows) <= Members /\ db[s].mtime \in 1..clock
    /\ views \subseteq Stems /\ allStores \subseteq Stems
    /\ pc \in {"idle", "next", "read", "join", "wait", "check", "flush", "close"}
    /\ cut \subseteq Stems
    /\ {Len(conv.stdin), Len(conv.stdout)} \subseteq 0..PipeCap
    /\ conv.got \in 0..Members /\ Len(conv.buf) < BatchRows

(* An archive that NextArchive would skip has a readable parquet           *)
(* with exactly its stores, whatever failed or arrived before; the         *)
(* exceptions are the ones `doubt' names: a conversion that has begun to   *)
(* write and not closed its file, an archive that changed while it was     *)
(* read or came with a time not after the parquet's, and a cut archive     *)
(* read without pixz.                                                      *)
SkippedIsCurrent ==
    \A s \in Stems :
        raw[s] # NoFile /\ UpToDate(s) /\ ~ doubt[s]
            => db[s].footer /\ db[s].rows = raw[s].data

(* With pixz, a file that convert_archive reports as converted holds as    *)
(* many stores as a whole archive: a feeder that failed, a pixz that died  *)
(* or was killed after the time-out and a cut archive all raise.           *)
WholeOrRaised ==
    [][CloseWriter /\ opts.pixz => Complete(db'[cur].rows)]_vars

(* db[s] is being written. *)
Writing(s) == conv.writer /\ cur = s

(* Every view, and so all_stores, is over parquets that exist and can be   *)
(* read: a refresh never publishes a half-written file, also when it stops *)
(* half way, and no later run makes one unreadable, except while it writes *)
(* the file in place or because it failed or was killed in doing so after  *)
(* the last whole refresh.                                                 *)
AllStoresReadable ==
    /\ TypeOK
    /\ allStores \subseteq views
    /\ \A s \in views :
           db[s] # NoFile /\ (db[s].footer \/ Writing(s) \/ s \in cut)

(* Every run comes to its end: the feeder, pixz and tarfile never wait for *)
(* one another for ever, while tarfile reads and, thanks to the two time-  *)
(* outs, after it has stopped reading early.                               *)
RunEnds == (pc # "idle") ~> (pc = "idle")
=============================================================================
