# Specifications of valgrind-memlog

TLA+ models of the memlog Valgrind tool, of the parts of the Valgrind core it
rests on, and of the programs that process its logs, with TLC configurations and
TLAPS proofs. Line numbers refer to this repository; `PROJECT.json` maps every
definition to the lines it stands for.

## The system

A program is run under the Valgrind tool **memlog** (`valgrind/memlog/`). The
tool replaces `malloc` and its relatives, keeps the blocks of at least
`--min-block-size` bytes in a red-black tree, and instruments every store of
the translated code with a call of a helper. The helper looks the address up
and, when it lies in a tracked block, adds an event to a buffer that is printed
when full. With `--mx-round=yes` the tool does something else instead: after
each store into a selected block it re-encodes the elements around it in an MX
(shared exponent) number format. Under the tool, the Valgrind core runs one
thread at a time behind a **scheduler lock** (`coregrind/m_scheduler/`) and hands
out client memory from an **arena** (`coregrind/m_mallocfree.c`).

The log is split by **`tools/parser.py`** into one file per block and generation,
archived, converted to Parquet by **`tools/to_parquet.py`**, and queried by
**`db/run.py`**. `spec/run_mx_onesite.sh` runs the tool over a benchmark for a
list of allocation sites, with parallel workers.

### Inventory

| Part | State | Operations | What is hard about it |
|---|---|---|---|
| Tracker and buffer (`ml_main.c` 118-260, 486-635, 791-882) | tree of blocks, heap, buffer, printed log | malloc and free families, realloc, TRACK, UNTRACK, log_store, fini | buffer at its limit; realloc with both blocks alive; regions tracked twice or nested; kill in the middle of a flush |
| Red-black tree (`rbtree.c`) | nodes and pointers | insert, delete, fix-ups, floor search | long operation sequences; a successor that is a child of the deleted node; silent breaks; termination |
| Instrumentation (`ml_main.c` 641-785) | superblock, memory, log | wire_memlog, execution, faults | calls before the store; repeated instructions; order of vector lanes; writes that are not `Ist_Store` |
| MX emulation (`ml_main.c` 306-480, 503-512, 601-689) | elements of a block, its mark | store, mx_after_store, realloc, site selection | rounding and saturation edges, short last group, NaN scales, declared footprint, copies that cut groups |
| Scheduler lock (`ticket-lock-linux.c`, `sema.c`, `scheduler.c`, `syswrap-linux.c`) | tickets, futex words, pipe, thread table | acquire, release, clone, exit, fork | lost wake-ups, wrap-around, slots reused, fini before the last thread |
| Client arena (`m_mallocfree.c`) | superblocks, blocks, free lists | malloc, memalign, free, deferred reclaim | splitting and merging, lists by size, superblocks unmapped late |
| Parser (`parser.py`) | live allocations, handle cache, files | one step per line, finalisation | cut logs, eviction, address reuse, kill and rerun |
| Parquet conversion (`to_parquet.py`) | archives, Parquet files, views | feeder, pixz, tarfile, skip, refresh | three parties and time-outs, failure half-way, stale times |
| Query runner (`run.py`) | results, stamps, settings, watchdogs | run, resume, interrupt | partial results, a second thread, settings that leak |
| One-site workers (`run_mx_onesite.sh`) | job list, run directories, logs, `.done` files | worker loop | parallel workers, stale run directories, restart |

## Modules

| Module | Models | Checked or proved in |
|---|---|---|
| `IR` | stores of a VEX superblock: the calls wire_memlog makes (`LogCalls`) with their 64-bit values (`Lane`), the bytes written (`Targets`, external) | Memlog, Instrument |
| `EventLog` | abstract: watched blocks, and a trace written at once | Memlog refines it, Parser reads its logs |
| `Memlog` | tracker, buffer, client requests, end and kill | `MCMemlog`, `MemlogProofs` |
| `OrderedMap` | abstract: a set of keys, and the call in progress | RBTree refines it |
| `RBTree` | `rbtree.c` pointer by pointer, with the linking of `insert_block_rb` | run directly |
| `Instrument` | instrumented code running, with faults | `MCInstrument`, `InstrumentProofs` |
| `MX` | the MX encoder, its call after each store, marks, realloc | `MCMX` |
| `BigLock` | both scheduler locks and the life of threads | run directly, `BigLockProofs` |
| `Allocator` | abstract: disjoint payloads and the bytes on loan | Arena refines it |
| `Arena` | the client arena | `MCArena` |
| `Parser` | `parse_log` and `FileCache`, composed with `EventLog` | `MCParser`, `ParserProofs` |
| `ToParquet` | `to_parquet.py` with pixz, and archives that change | `MCToParquet`, `ToParquetProofs` |
| `RunQuery` | `run.py` with its watchdog threads | `MCRunQuery`, `RunQueryProofs` |
| `OneSite` | `run_mx_onesite.sh` | `MCOneSite`, `OneSiteProofs` |

The modules lean on each other the way the code does. `BigLock` shows that one
thread at a time runs callbacks, which is why a handler is one action in
`Memlog`, `MX` and `Arena`. `Arena` shows that payloads are disjoint and as large
as asked for, which `Memlog` assumes of its external allocator. `Memlog` shows
that the log is one of `EventLog`, which is where `Parser` takes its logs from.

**Memlog.** `heap` is the external allocator's view (requested size per
payload), `tracked` the tree seen as a map from key to `req_szB`, `log` the
buffer and what has been printed, `todo` the helper calls left of the store
being executed, `asked` a history of client requests. `NewBlock` is `new_block`
with all its wrappers; `Realloc` does allocation, copy and free in one step.
`Store` and `LogStore` are separate: a store of several lanes makes several
calls, and the process may be killed between two of them. `Kill` keeps any prefix
of the buffer, which is what a kill in the middle of a flush leaves. Fatal
signals are not kills: Valgrind runs `ml_fini` for them.

**RBTree.** One step is one loop iteration, so that invariants are checked
between iterations as well. Left and right halves of the code are one
definition with a direction. Nodes are named by their keys. `arg` is the argument
of the call in progress, through which the refinement ties the key that changes to
the operation; a deleted node stays allocated until `Free`, which is the caller's.

**Instrument.** `WireStatement` puts the calls of one statement in front of it,
`WireMemlog` does so for a superblock, `Fetch` enters one. `code` is what is left
to run, instruction by instruction, each a sequence of calls and its statement. A
faulting store either ends the program or its instruction is run again, calls
included. Memory is a function of byte addresses, and a store writes its own bytes
only. `Lane` is what the helper is passed: eight bytes, the stored ones followed by
zeros. `image` is the memory as a reader of the log has it, who writes the bytes of
each line as it comes. The line has no width, so each call carries that of its store
(`Reported`) for the reader; the tool drops it (see the divergences below).
`dark` holds the addresses last written by a statement the tool does not see.

**MX.** Elements are bit patterns of a format given by constants. `Quantize`,
`EncodeBlock` and `AfterStore` follow `mx_quantize`, `mx_encode_block` and
`mx_after_store`; `Selected` follows `mx_site_selected` over stacks of named
frames; `Realloc` copies the bytes into a block of another size whose mark
depends on the stack of the realloc. `stored` is a history of the groups that
have to be found encoded.

**BigLock.** A thread is in a slot and at a label; the ticket lock's atomic
operations, its futex calls and the pipe's read and write are steps of their own.
`seen[t]` abstracts the futex words: whether the word of t's ticket still has the
value t read. `Fork` continues as the child, whose lock is made anew.

**Arena.** Addresses and sizes count units of the malloc alignment; a block has a
unit of overhead at each end. Every operation is one action on the record `a`
through operators named as the functions of the C file. Where the address space
manager maps a superblock is left open.

**Parser.** While `status` is `tracing` the log is produced by `EventLog`,
restricted by `MayOpen` to what Memlog's `Consistent` guarantees; then one
action is one iteration over the lines. The place in the log is an event (`pos`)
and a line of it (`line`); `cut` is the number of lines of the last event that a
kill during its printing lost. A kill of the parser keeps of every open file all or
nothing of what its handle had buffered, then the parser starts again.

**ToParquet.** An archive is the sequence of its members, each named by the
version of the archive it is from. `todo` is what is left of the list of archives,
taken in the order of their names. The feeder, pixz and tarfile take separate
steps over two bounded pipes. The main thread leaves the loop at the end of the
input or by an exception, joins the feeder, waits for pixz, checks both and closes
the file in steps of their own; `JoinTimesOut` and `WaitTimesOut` give up at any
time, as a time-out may. `doubt` is a history of the cases in which the code itself
cannot know that a Parquet file is current, `cut` one of the files that a failed or
killed conversion left without a footer since the last whole refresh.

**RunQuery.** A csv file is the sequence of its parts, each whole, cut or torn.
The steps of `run_query` and of the watchdogs interleave. A watchdog that is busy
with a measurement may miss the end of its join (`JoinTimesOut`) and then finishes
its last round beside the next query; one whose measurement raises is gone
(`MeasureFails`). `hurt`, `late`, `outlived`, `lost` and `leaked` are histories of
the events the properties except.

**OneSite.** Each worker takes the steps of its loop body; `RunCpu` and `RunEnds`
are the start and the end of the benchmark, which may fail before it has a run
directory. `Kill` ends everything at any point and leaves all files.

## Runs

| Run | States | Shows |
|---|---|---|
| `memlog` | 93,000 | room in the buffer, tree = heap + requests, exact lookup, realloc copies, refinement of EventLog |
| `rbtree` | 235,000 | search tree of exactly the live nodes and floor search between iterations, red-black rules and no defensive break, refinement of OrderedMap (a call changes its own key only), progress of both loops |
| `instrument` | 11,000 | a reader who knows the widths has the memory byte by byte, for scalar stores that overlap and outside unseen writes |
| `mx` | 690,000 | every element becomes the nearest value of its group, no drift through stores and reallocations, declared footprint respected |
| `biglock` | 852,000 | one thread at a time in the order of arrival, the code's assertions, no lost wake-up, fini last, everyone served |
| `arena` | 436,000 | blocks tile superblocks, lists exact, requests honoured and freeable, refinement of Allocator |
| `parser` | 1,600,000 | no exception, lists consistent, exactly the documented files, no store lost after kills |
| `convert` | 3,060,000 | skipped files are current, cut archives raise, no view over a half-written file, every run ends |
| `query` | 3,800,000 | stamped results complete, resume keeps, own settings and watchdog, exit code, runaway queries stopped |
| `onesite` | 1,160,000 | results are of their own run, every job done, done is final |

Two runs end in a violation of a sentence in the documentation:

* `memlog_nested`: a region tracked inside another hides the rest of the outer
  one, although `memlog.h` says stores to a region are always logged.
* `instrument_vectors`: the lanes of vector stores are logged at each other's
  addresses.

### Known divergences without a run

* `valgrind/memlog/README.md:3` says the tool "records all write operations to
  those blocks". Guarded stores, compare-and-swap, store-conditional, helpers
  that write memory, and stores of F16, D32 and D64 are not logged (`dark` in
  `Instrument`).
* A line of the log is an address and a 64-bit value (`ml_main.c:155`), without the
  width of the store: a byte 0x1 and a doubleword 0x1 stored at one address give the
  same line, although `valgrind/memlog/README.md:55` says "Values are logged as their
  exact bit representation". Memory can be rebuilt from the log alone only where the
  width of every store is known otherwise, as in an array of one element type;
  `ReplayGivesMemory` is about a reader who is told it.
* After a second TRACK of an open region the parser goes on filing stores under
  generation 1, although `README.md:53-56` calls the generation "the reuse counter
  for that address". `FilesExact` leaves such logs out (`EachOpenedOnce`).
* A parser that was killed and is run again appends to the temporary files it
  finds, so that headers and stores are there twice. `StoresKept` allows that,
  `FilesExact` speaks of parsers that were not killed.
* `EncodesNearest` does not hold for a range of scales that reaches the elements'
  subnormals (`--mx-scale-bits` of 9 or more with 4-byte elements): the early
  return for `shift <= 0` skips the saturation. `ScaleBits = 6` in `MCMX.cfg`
  shows it.
* `run.py:276-277` calls its migration a stamp for analyses "that were completed
  before this sentinel was introduced". It stamps every csv without `{bench}`,
  also one whose write was cut; `StampedIsWhole` excepts such parts.
* `to_parquet.py` without pixz takes an archive cut at a member for a whole one,
  and takes a Parquet file cut by a failed conversion for an up-to-date one;
  `SkippedIsCurrent` excepts both (`doubt`). It also rewrites a file in place under
  the views of an earlier refresh, which `AllStoresReadable` excepts while it does
  and when it failed to finish (`cut`).
* `run.py` does not notice that a watchdog is gone, after an interrupt that fell
  between two benchmarks or a measurement that raised, and does not stop one that
  outlived its join; `Watched` names the three cases.
* `run_mx_onesite.sh` files results of the label's previous run under a job whose
  runcpu failed, and lines of logs a killed script left; `ResultsOwn` excepts both.

### Bounds

* `memlog`: three payloads of an arena of 24 bytes, so that blocks touch; sizes
  0, 8 and 12 around a minimum of 8; two regions side by side; a buffer of two
  entries and `MaxEvents` = 4 events, so that it fills and is flushed twice.
* `rbtree`: ten keys reach every case of both fix-ups, the loops running over
  several levels.
* `instrument`: twelve bytes and `MaxSuperblocks` = 3 superblocks, of stores of every
  scalar type inside, across and beside one another, of unseen writes, and of two
  stores; two of the bytes fault once. The bytes of a value are all different, so
  that a byte at the wrong place shows.
* `mx`: elements of 5 exponent and 4 mantissa bits (one more than E4M3 keeps) in
  a word of the same width, as doubles in a `ULong`; groups of two; blocks of 28,
  16 and 8 bytes, so that a last group is short and 4 bytes are left over. The
  values are at the edges of rounding, saturation, underflow and the range of
  scales, which is narrower than the elements' own, as by default. Four stacks
  are selected by function, by address, not, and have no user frame.
* `biglock`: three threads, counters that wrap after four tickets, two futex
  words, so that two waiters share one.
* `arena`: three places of twelve units, a list limit of two blocks, four lists,
  `MaxLive` = 3 payloads: superblocks fill, merge, are deferred and unmapped.
* `parser`: `MaxTrace` = 6 events over three blocks, two at one address, a cache
  of one handle; with a kill `MaxCrashTrace` = 4 events and `MaxCrashes` = 1.
* `convert`: two archives of three members, batches of two rows, pipes of one
  member, `MaxClock` = 2 times and `MaxVersion` = 3 versions: enough for a file
  that fails after its first batch, and for a replacement in the same instant.
* `query`: one analysis per benchmark and one over all, three benchmarks of which
  one arrives late and one has no rows, `MaxRuns` = 3 runs.
* `onesite`: three jobs of two widths, `MaxWorkers` = 2, `MaxKills` = 1.

Deadlock is checked in `arena`, `convert`, `mx`, `onesite` and `rbtree`. It is not
checked where the system stops: the traced program ends, all threads are gone, the
parser is done, or the bound on events or runs is reached.

### Fairness

* `BigLock`: weak fairness of the steps of a thread inside the lock's code, which
  the kernel schedules, and of giving the lock up: Valgrind takes it from a thread
  after its time slice.
* `ToParquet`: weak fairness of the main thread with its two time-outs, the feeder and
  pixz. Failures, kills and the arrival of archives have none.
* `RunQuery`: weak fairness of the steps of the watchdog threads only; a query may run
  for ever, and a measurement need not fail.

The termination of the red-black loops is an action property (`FixupProgress`:
every iteration leaves less to do) and needs no fairness.

## Proofs

Each proof module states an inductive invariant and proves that it holds
initially, that every action keeps it, and that it implies the properties.

**`MemlogProofs`**, for all constants with `ConstantsOK` and `StoresOK`:

* `TypeCorrect`: `TypeOK` and `BufferHasRoom`, inductive together; the key lemma
  is `AddLemma`, that adding an event leaves room for another.
* `TrackerConsistent`: `Consistent`, assuming `RegionsApart` (client regions are
  disjoint and outside the arena; `memlog_nested` shows that it is needed).
  `Consistent` is inductive because it also keeps heap blocks apart, without which
  the freeing of one block could remove the node of another.
* `LookupAlwaysExact` and `ReallocAlwaysCopies` follow: tracked blocks do not
  overlap, so that the floor search finds the containing block if there is one.
* `Refinement`: `Spec => EL!Spec`, the mapping being watched blocks, printed
  events followed by buffered ones, and the fate of the process.

**`BigLockProofs`**, for any number of threads below the number of tickets and any
number of futex words. `IInv` says that the waiting threads hold exactly the
tickets from `head` to `tail` modulo the width (`QueueInv`), that the pipe holds
the token exactly while nobody has the lock (`TokenInv`), how thread table and
code position go together (`StatusInv`), and that a sleeper whose turn it is has a
waker that has not passed it yet (`WakeInv`). `QueueShort`, a counting argument,
shows that `tail` cannot catch up with `head`. From it: `LockIsExclusive`,
`SchedulerAssertions`, `WakeupsArrive` and `ShutdownIsLast`.

**`RunQueryProofs`**, for any list of analyses, benchmarks and number of runs.
`LoopInv` is the core: during the loop every part that is due is in the csv or
still to do, and what is to do is not in it. From it `StampsAreHonest`; with
`AfreshInv`, that a csv is started afresh only when nothing in it can be read,
`ResumesKeep`. Separate invariants of watchdogs, settings and exit code give
`SettingsAreOwn`, `QueriesAreWatched` and `ZeroIsDone`; a watchdog of an earlier
analysis that is still there has outlived its join and been told to stop.

**`OneSiteProofs`**, for any job list without repeated names and any number of
workers and kills. `DealInv` says that a worker has its job alone and has done its
earlier ones, `RunInv` what it has of its run at each point, `LogInv` whose each
log is, `DoneInv` what is kept. From it `SweepResultsOwn`, `SweepAllDone` and
`SweepDoneIsFinal`.

**`ToParquetProofs`**, for any list of archives, number of members, batch and pipe
sizes, and versions. `ConvInv` is the core: every member of the archive is in one
place between the feeder and the open file (`CountInv`), unless the archive changed
the places one after the other hold its beginning (`DataInv`), and pixz succeeds
only on a whole archive and ends only with the feeder (`PixzInv`). `ResultInv` says
what is true of the files and views, `TodoInv` that only archives which exist are
converted. From it: `SkippedCurrent`, `CatalogReadable` and `PixzWholeOrRaised`.

**`ParserProofs`**, for every log `EventLog` can produce under `MayOpen`, whatever
its length, its cut and the number of kills, with `ParserConstantsOK`. That no
store is without its allocation needs two invariants that meet at the STORE line:
`TraceInv`, about the writer, says that a store of the trace lies in a block that
some earlier ALLOC opened and no FREE at its address has closed since; `CoverInv`,
about the reader, says that every block opened and not closed in the lines read so
far is in the parser's list. `ListInv` keeps the list sorted and the stacks in step
with it; while the leftovers are finalised `live_list.pop(0)` and the stack may name
different allocations of one address, so that there they agree in number only.
`FilesInv` ties the handles to the live allocations. From it: `ParserNeverRaises`
and `ParserListsAgree`. The first index with a property, where an
allocation is inserted or a store finds its own, exists by `LeastNat`.

**`InstrumentProofs`**, for every set of superblocks with `ProgramOK` and without
vector stores (`ReportsScalars`; `instrument_vectors` shows that it is needed), of any
widths and however they overlap. `MemInv` says that the reader's image is the memory,
but for dark addresses and the bytes of the statement to be run next; `CodeInv` gives
the shape of what is left to run, a call always followed by the statement that it
reports, and says that after the call the image has the bytes the statement is about
to write. The lemmas say which bytes a write decides (`WrittenBytes`) and that the
widened value begins with the stored ones (`LaneBytes`). From it: `ReplayExact`.

`TypeOK` of these seven modules is proved with the rest; in the other modules it
is a conjunct of a checked invariant.

Checked by TLC only:

* liveness (`Served`, `RunEnds`, `RunawayStopped`), which the prover
  does not handle;
* the red-black tree (`SearchTree`, `RedBlack`, `FixupProgress` and the refinement
  of `OrderedMap`): reachability along the pointers is recursive;
* the MX encoder (`EncodedIsStable`, `EncodesNearest`, `InFootprint`): powers of two
  and rounding are beyond the prover's linear arithmetic;
* `StoresKept` and `FilesExact` of the parser, which compare its files with a
  reference that selects from the whole trace;
* the arena.

## Not modelled

The `src` tree contains all of Valgrind, most of a million lines of other tools,
instruction sets and system interfaces that this repository does not change. The
modules cover memlog, the two parts of the core that its correctness rests on
most, and the repository's own programs; translation, signals, system calls and
debug information stay external. They are far out of reach of a model of this
size, so the share of the whole tree that is mapped is small.

Of the parts that are modelled, these are left out: contents of stack traces
beyond names; the reading of the sites file and the counters printed at the end;
`fork` in `Memlog`, whose child prints the inherited buffer again; client regions
inside heap blocks; partial lines in a log; the parser's progress file and its
copy across devices; memory the tool itself fails to allocate; arena profiling and
the other arenas; `arena_realloc`, which memlog does not use; the contents of rows;
error messages of pixz; view names; two query runners at once.

Scripts without state of their own (archiving, overhead and I/O runs, menu,
installation, width sweep, listing of sites), the SQL and the plots are listed in
`PROJECT.json` with the reason.

## Plan

1. Regions inside heap blocks in `Memlog`, for which `Consistent` and
   `MayOpen` of the parser have to be weakened together.
2. Proofs: `Tiled` and `ListsExact` of the arena.
