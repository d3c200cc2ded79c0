# A TLA+ model of xnu-trace

xnu-trace records what an arm64 program on macOS executes, either by hardware
single-stepping it from another process or by Frida's stalker inside it, and
writes the trace to a directory of compressed files that its tools read back.
This directory holds TLA+ modules for the parts of it that are hard to test, TLC
configurations that check them on small instances, and TLAPS proofs of the
properties that matter most. `PROJECT.json` maps every definition to the source
lines it models and lists runs, mutants, hazards, findings and theorems.

Paths are relative to `src/`; `lib/` is `lib/xnu-trace/`, `include/` is
`include/xnu-trace/`.

    tlc -config SS_pipe.cfg MCSingleStep        # any run of PROJECT.json
    tlapm SingleStepProofs.tla                  # the proofs of a module

## 1. The system

| Component | State | Operations | Met by |
|---|---|---|---|
| **XNUTracer** (`lib/XNUTracer.cpp`) | target task and its suspend count, old exception ports, `m_single_stepping`, `m_measuring_stats`, three dispatch sources on one serial queue, control pipes, `g_tracer` | attach or spawn, `set_single_step`, `suspend`, `resume`, `start/stop_measuring_stats`, the pipe handler and the blocks it dispatches, destructor | runner, exception handler, TraceLog |
| **Exception handler, Mach helpers** (`lib/exception_handlers.cpp`, `lib/mach.cpp`) | the kernel's debug state of task and threads | handle a step exception (log the pc, arm again), `set_single_step_task/thread`, `task_is_valid`, `get_suspend_count` | XNUTracer's queue |
| **Runner** (`tools/xnu-trace-single-step-runner`) | `g_tracer`, SIGINT source | start, SIGINT and process exit (both delete the tracer) | user, target |
| **Pipe control** (`lib/utils.cpp`, `pipe_set_single_step`) | two pipes | write `'y'`/`'n'`, wait for `'c'` | the target |
| **Thread pool** (`include/ThreadPool.h`, `Atomic.h`) | task queue, one `AtomicWaiter` per call | `wait_on_n_tasks`, `parallelize_indexed_loop` | reader, VMRegions, Symbols, histogram |
| **Thread log stream** (`lib/TraceLog.cpp`, `include/TraceLog.h`, `log_structs.*`) | per thread: log buffer or stream, last context, instruction count, bytes since the last sync frame | both `log()`, `write_sync`, iterators, `update`, `extract_pcs_from_trace`, `extract_bbs_from_pc_trace` | stalker and exception handler write; the tools read |
| **Trace directory** (`lib/TraceLog.cpp`, `CompressedFile.cpp`, `MachORegions.cpp`) | `meta.bin`, `macho-region-*.bin`, `thread-*.bin` | both constructors of `TraceLog`, `write`, closing, reading | several sessions, the reader |
| **Minimal perfect hash, mph_map** (`lib/MinimalPerfectHash.cpp`, `include/MinimalPerfectHash.h`) | `m_nkeys`, `m_salts`, entries | `build`, `operator()`, `contains`, `try_emplace`, `rebuild`, `permute` | TraceLog's map of threads, MachORegions' page map |
| **Frida stalker** (`lib/FridaStalker.cpp`) | followed threads, one TraceLog, one snapshot of regions and symbols | create, `follow`, `unfollow`, the per-instruction callback (from any followed thread, without a lock), destructor (writes the trace) | TraceLog, regions, symbols |
| **Image regions** (`lib/MachORegions.cpp`, `VMRegions.cpp`, `dyld.cpp`, `macho.cpp`) | sorted regions with bytes and digests, a page table over a perfect hash | `reset` (snapshot of a task), `lookup`, `lookup_idx`, `lookup_inst`, load from a trace | stalker, tracer, TraceLog, tools |
| **Symbols** (`lib/Symbols.cpp`) | sorted symbols | `reset`, selection by intervals, `lookup` | TraceLog, tools |
| **Bit vectors** (`include/BitVector.h`) | a buffer of packed values | get, set (for the atomic one a load and an exclusive or) | tests and benchmarks |
| **Searching, chunking** (`lib/utils.cpp`) | none | `horspool_memmem`, `chunk_into_bins_by_needle` | thread pool |
| **Log utility** (`tools/xnu-trace-log-util`), **histogram** (`lib/ARM64InstrHistogram.cpp`) | counts, a cache of decoded operations | drcov and lighthouse coverage, calls from an image, histogram, dumps | the reader, regions, symbols, thread pool |
| **Disassembler, signposts, commpage time, other tools** | counters, caches | printing and measuring | the user |

How they interact: the kernel and the target send messages (exceptions, pipe bytes,
process exit) that XNUTracer's serial queue handles one at a time, but `main()` and
the SIGINT handler act on the same object from other threads. The exception handler
and the stalker call `TraceLog::log`, which finds the thread's context in an
`mph_map` (rebuilt with every new thread) and appends to its stream. The destructor
of the tracer calls `TraceLog::write`. The reader goes over the files with the thread
pool. The log utility looks program counters up in the regions and symbols that were
saved with the trace, which are those of the moment the tracing began.

What is hard: three threads of the tracer and the target's threads interleave at
every Mach call; the target may die between a check and the call it guards; the
waiter of the pool lives on a stack that is left before the last notification; trace
messages are differences, so one error spoils the rest; sessions share a directory
and may die in the middle; the perfect hash is found by search against a timeout; the
stalker's threads share one map that moves its entries; the traced program goes on
loading and generating code after its regions were recorded; the search shifts by
amounts computed with wrapping arithmetic.

What makes the parts correct:

- *control*: suspensions balance, no instruction of a traced stretch is missed, an
  acknowledged request is in force, nobody waits for ever, the trace is written;
- *thread pool*: a call returns, and only when its tasks are done;
- *stream*: what is read is what was logged, from the start and from any sync frame;
- *directory*: what the reader accepts is one session's trace, and a normal end
  leaves one;
- *hash and map*: a finished build is a minimal perfect hash, lookups stay in range,
  and every thread keeps its own log;
- *regions, symbols, reports*: what a report says of code that did not change since
  the snapshot is what ran, and its symbols are those of the full table;
- *searching*: every search ends and finds the first occurrence in its chunk;
- *bit vectors*: an element reads as what was last stored in it, whatever its
  neighbours in the same word were set to, and no access leaves the buffer.

## 2. The modules

One module per component; `MC*` modules add model values and constants for TLC,
`*Proofs` modules hold theorems.

**SingleStep** (XNUTracer, `exception_handlers.cpp`, `mach.cpp`, the runner's
`main`, `pipe_set_single_step`). Variables are grouped: the target as the kernel sees it (suspend
count, the SS bit of the task and of each thread, blocked threads, who handles
breakpoints), the messages (exception port, both pipes), the tracer's fields, and for
each of its three threads (`main`, the queue `mq`, SIGINT's `sig`) the place in
`set_single_step` or the destructor. An action ends where the target or another thread can act
on what it has done: `SuspendCheck`/`Suspend`, then the two calls of the body in the order the
code makes them (`InstallHandler` before `SetSingleStepTask` to begin, `SetSingleStepTask` before
`UninstallHandler` to stop), `ResumeCheck`/`Resume`, `SetFlag`; then `BlockStats` and `BlockAck` for the
pipe's block, and `DtorCheck`, `StopStats`, `Write`, `Destroy` for the destructor. The several Mach
calls inside `set_single_step_task` are one action, and the resets of regions and symbols, which
suspend and resume within their own calls, none: the target is suspended all the while.
`Write` fails, as the code does, on a trace that was not streamed and is not empty. `mq` is the serial
queue as a sequence; a source has one event outstanding on it. `Step`, `NewThread`, `Exit` are
the target under XNU (external). The constructor runs before anything is concurrent
and is `Init`. A failed `mach_check`, an assert and a null `g_tracer` end the tracer (`Die`).

**ThreadPool**. Caller and pool thread, one action per access to the waiter: the load,
the atomic compare-and-sleep, the decrement, the notification. A caller's calls share
one memory cell, so a late notification reaches the waiter of the next call, as on a
real stack. The task queue of BS::thread_pool is external; tasks do not call into the
pool (none in the library does). **PoolCalls** is the abstract specification: callers that
are inside a call or not and the blocks that have run. ThreadPool implements it with
`calling` as "the caller is not idle" and `ran` as the blocks done (`Calls`, `ImplementsCalls`).
**LoopBlocks** is how BS::blocks divides a loop (external).

**TraceStream**. One thread's log: a message is a record of what is present in it, with
its size in bytes because sync frames depend on it. `LogContext` is
`log(thread, context, insn)` whole, with the sync frame and the failing asserts;
`LogPc` is `log(thread, pc)`; `Unfollow` is a stretch of untraced execution. `logged` remembers
what the caller passed, for the properties; `Prior` is the context a message is a difference
from. A context has the `nzcv` flags, too, which no message carries. **TraceReader** extends it by reading the log back once it is written: `Begin` makes the
iterators (at the front, or at any sync frame); `FrontFails` is the assert of `front()` on a log that
does not begin with a sync frame. The constructors of `ctx_iterator` copy from the address of their
parameter, so its registers begin as `StackJunk`. `ReadPc` is one turn of `extract_pcs_from_trace`
with `operator++` of the iterators and `update` of the context (`Increment`, `Advance`, `Update`), and
`StartBlocks`, `ExtendBlocks`, `FinishBlocks` are the loop of `extract_bbs_from_pc_trace`, whose rounds
are in **BasicBlocks**; LogUtil uses the same rounds as one function, `ExtractBbs`.

**TraceBundle**. The directory as three functions from names to file states: a
`CompressedFile` being written is `empty` until stdio first flushes, `partial` (headers,
size 0) until its destructor, then `full`. The writer's actions are single file
operations (remove, open, flush, close); a crash may come between any two. The mode
(whole logs, compressed or uncompressed streams) and the set of regions are chosen per
session. The reader is the predicate `Readable`:
the conjunction of the asserts on its way. The name of a region file is made of the image's
base name and the first digits of its digest (`Prefix`), so two regions may share one. `poisoned` remembers that a tracer died with
a region file open.

**MinimalPerfectHash**. `build` and `operator()` over *any* hash function: placing a
bucket is one action, with the salt the search stops at (the least that fits) as its parameter; the
five seconds of the timeout are `MaxSalt`. One object is built again and again, and
`m_salts` keeps its old entries, as `resize` leaves them. `shrunk` remembers that a build
had fewer keys than the one before. **JevHash** is `jevhash_32` exactly, on pairs of
16-bit halves because TLC's integers have 32 bits.

**MphMap**. The threads of a stalker in `TraceLog::log`, and the `mph_map` it keeps their
contexts in. One action for each access to what they share: the lookup (`Find`), the
beginning and the end of an insertion, the message written through the pointer found
(`WriteMsg`), and the load and the store of `++m_num_inst`. The map's hash is what
MinimalPerfectHash promises (`IsPerfect` for members, `StrangersInRange` for others, both
proved there), any such function at each rebuild. `Permute` says what `permute` computes;
**PermuteInPlace** is its loop over cycles, and TLC evaluates the assumption that the two agree
for every permutation of up to five entries (`LoopPermutes`).
`crossed` remembers that a rebuild had a cycle of three or more. An access during another
thread's insertion, or an insertion while another thread writes through its pointer, is
undefined: `raced` is set and the behaviour is not followed further.

**Memmem**. `chunk_into_bins_by_needle`, `horspool_memmem` and the two-way matching under
it. One turn of each of its three loops is one action. `MaximalSuffix` and `OppositeSuffix` prepare
the needle (`Turn`); the second ends with the choice between the two suffixes (`Critical`) and
the question for a period (`Prepared`). The search loop has an action for each branch it takes
(`Exhausted`, `LastByte`, `RightHalf`, `LeftHalf`). Arithmetic on `size_t` is modulo `SizeRange`: `ip` starts
as -1.

**MachORegions**. A program that loads and unloads images and writes code, the snapshot
the stalker takes of it (`ResetRegions`, `ResetSymbols`), what its threads execute, and what
`write()` saves. Generated code is in executable regions of one or more pages, with a tag (`JitMaps`),
which the snapshot skips unless the tag is 0xFF and no image has the same base (`JitInfos`); `Recordable`
says which code that leaves. An image without exactly one executable segment (`HasTextSeg`) ends the
tracer. Pages hold sequences of instructions; an instruction is its upper 22
bits, its lower ten and the operation it decodes to. The lookups (`LookupIdx`, `LookupName`,
`LookupInst` through `create_hash`, `SymbolAt`) are operators. **LogUtil** extends it by the reports of
`xnu-trace-log-util`, one action each: `write_drcov_coverage`, `write_lighthouse_coverage`,
`dump_calls_from`, `dump_histogram`. It reads the trace as TraceReader shows it readable
(`PcsReadBack`): every program counter, the first one twice.

**BitVector**. The five implementations `BitVectorFactory` chooses from. Words, values and
the buffer are sets of bits, `TBits` the size of the word type. `Set*` are the `set()` of each
class, whole; the atomic one is two actions (`SetAtomic`, `FetchXor`) because threads may share it.
`Get` is the reader. Where the code shifts by the width of a type (`num_hi_bits` = 0) the mask is any
of the two a build can produce. `suspect` collects the elements the exceptions of
`ReadsBack` are about.

SingleStep and TraceBundle take `log()` to return; TraceStream, MinimalPerfectHash and MphMap
say when it does not. TraceBundle's sessions are those whose `write()` does not fail the assert of
`front()`: stalkers, and single-steppers that stream.

## 3. The runs

All runs say `CHECK_DEADLOCK FALSE`: the tracer exits, and elsewhere the bounds end
every behaviour.

| Run | Bounds | What it shows |
|---|---|---|
| `SS_pipe` | 2 threads (one created later, one controller), tracing from the start or over the pipe, streamed or not, 4 steps, 3 requests, SIGINT and exit at any time; 430,000 states | `SuspendBalance`, `StepCoverage`, `ResumeFailsOnlyAfterWrite`, `StatsMatchStepping`, `AckMeansApplied`, and under fairness `RequestAnswered`, `ExceptionAnswered`, `ExitClosesTrace` (with its three ways out, section 5) |
| `SS_stray` | 1 thread, 3 steps, 2 requests | violates `NoStrayStep` |
| `Pool` | 2 callers with 2 and 1 tasks, 2 calls each, 2 pool threads; 60,000 states | `WaitMeansDone`, `CapturesInScope`, and under fairness `ImplementsCalls` (the refinement of PoolCalls, with its liveness) |
| `Stream` | 2 pcs, 3 registers (two interchangeable) and the flags, of 2 values, one change of a kind per message; 3 contexts or 6 pcs; every reading of each; 2,680,000 states | `PcsReadBack`, `SyncPointsAreEntries`, `RegistersReadBack`, `BlocksCoverTrace` |
| `Bits` | 4 or 5 elements of 3 bits in words of 4, four extreme values, 2 threads on the atomic vector; 2,300,000 states | `ReadsBack`, `StaysInBuffer` |
| `Bundle` | 3 sessions, 3 regions (two of one name whose digests begin alike, two of the same contents), 2 threads, all modes; 481,000 states | `AcceptedIsOneSession` (a crash while a session is cleaning up may leave an accepted `meta.bin` with threads missing), `ClosedIsComplete` |
| `Mph_any` | all hash functions of 3 keys and 3 salts into 0..2, any sequence of builds; 518,000 states | `BuiltIsPerfect`, `SlotIsFree`, `StrangersInRange`, `InseparablePair` |
| `Mph_jev` | `jevhash_32`, keys 0x1103 and 0x2a03, 1000 salts | violates `NeverTimesOut` |
| `Mph_map` | 4 threads, 2 messages each and 4 in all, at the same time, every perfect hash at every rebuild; 1,160,000 states | `MessagesKept`, `OwnLog` |
| `Mph_unique` | the same with 5 messages | violates `KeysAreUnique` |
| `Search` | all haystacks of up to 8 and needles of up to 5 bytes of 2 values, 1 or 2 bins; 568,000 states | `InBounds`, `NothingSkipped`, and under fairness `BinsAreFirst` |
| `Analysis` | images of 2 and 1 pages of 2 instructions, or in place of the second one with two executable segments; regions of generated code over an image, beginning at an image's base and going beyond it, and without the tag; 3 symbols (two overlapping), 2 threads, 4 instructions, 1 change after the snapshot; 455,000 states | `FetchesWhatRan`, `CallsAreSeen`, `CoverageIsTrace`, `HistogramIsExact` |

Why the bounds are enough to be interesting: three requests switch tracing
on, off and on again, and four steps are enough for two threads to have exceptions queued together
and to race with both switches. Two calls on one stack slot are what a late
notification needs. With `SyncEvery = 24` a second sync frame falls between any two of
three contexts, and one change per message makes an untraced gap overflow. Elements of 3 bits in words
of 4 straddle two words, end one exactly (the fourth) and share one, and four of them
fill a buffer to its last bit. Three
sessions allow a crash, a reuse of what it left, and a third session on top. Three
keys are the fewest with buckets of two and one at once; salts 0..2 leave searches
that succeed late and that fail. Four threads have cycles of two, of three and of
four; each can insert while another is between its lookup and its count. Needles of
five bytes have both periods shorter than half of them and none, and two bins cut
occurrences in half. Four instructions in two images are enough for a run over a page
boundary, a call and its return, two aliases in one cache and a block too long for its
(scaled) size field; before the snapshot the address space is arbitrary. `Mph_jev` stops at 1000 salts, but its reason holds for all (below). Hashes are
kept modulo 12, a multiple of every number of keys up to 4.

Symmetry is used for threads, keys and registers only where all are treated alike, and never in
a run with liveness.

**Fairness.** SingleStep: weak fairness of each thread of the tracer, of the serial
queue, and of a `read` whose byte has arrived; these are scheduled by the system and
wait for nothing but what is in their guards. Nothing is assumed of the target's own
progress or of the user. ThreadPool: weak fairness of each caller inside a call and of
each pool thread; PoolCalls' own liveness is a property, not an assumption. Memmem: weak
fairness of the search, which is one loop. Liveness properties of SingleStep allow for the end of the target or of the
tracer, because asserts and failed Mach calls do end it.

**Mutants.** Every property of a passing run has one: an operator with the suffix of
the slip it makes (`SetSingleStepTask_ThreadsOnly`, `Compare_Once`, ...), just before the definition it
replaces, under which TLC finds the property violated.

## 4. What is proved

The proofs hold for all constants that satisfy the named assumptions of the modules.
`ConstantsAssumption` is about types and, where something is counted, finiteness; beyond that it
says that the first threads are among the threads (SingleStep), that registers are finitely
many and have values (TraceStream), that the padding of a vector is a multiple of its
word, 16 bytes against at most 8 (BitVector), and that lengths are values of `size_t` and bytes
natural numbers (Memmem). `KeyAssumption`: finitely many keys;
`HashersAssumption`: hashes are natural numbers. TLC evaluates them all.

- **SingleStepProofs.** `TypeCorrect`. `Coverage` (`StepCoverage`): alone it is not inductive, a
  thread created while tracing is on must find the task-wide bit set, and two workers may be inside
  a switch together. `Covered` says that a target whose exceptions come to the tracer is stepped,
  task-wide bit included, unless some worker is between the two calls; by the balance a target that
  runs has nobody there. `Balance` (`SuspendBalance`) and
  `TraceWrittenFirst` (`ResumeFailsOnlyAfterWrite`) from `Balanced`, which adds `Places` (where each
  thread of the tracer can be), `GoneFirst` (the queue runs the destructor only for a
  dead target) and `WrittenFirst` (SIGINT's destructor reaches its resume after write).
  `StatsMatch` (`StatsMatchStepping`) from `Measured`: what the flags are *inside* a job, when the
  switch of stepping is done and that of the statistics is still due. `AckApplied`
  (`AckMeansApplied`) from `Handshake`, which follows one request from the byte in the pipe through
  the dispatched block to the byte that answers it: there is exactly one of them at a time,
  and while none is under way mode and request agree. It has the hypothesis that there is
  one controller; with two the property is not meant to hold (section 5).
- **ThreadPoolProofs.** `TypeCorrect`, `WaitIsComplete` (`WaitMeansDone`), `CapturesStayInScope`
  (`CapturesInScope`). The inductive `Inv` counts: every task in the queue or with a pool
  thread belongs to the current call and is not released (`InFlight`), none is there
  twice (`Once`), released tasks are done (`Recorded`), and counter and released tasks add
  up to the number of tasks (`Counted`). So a zero counter means all are released.
  `Refinement`: the specification implies `Calls!Safety`, the steps of PoolCalls. Only three
  kinds of step are visible: the call, a block, and the load that finds zero, which by
  `Counted` finds all blocks run; a block is not repeated because of `Once` and `InFlight`.
- **MinimalPerfectHashProofs.** `TypeCorrect`, `PerfectWhenBuilt`, `SlotAlwaysFree`, `StrangersStayInRange`,
  `InseparableNeverBuilt`, for every hash function and any sequence of builds. The invariant
  says that the slots in use are exactly those of the keys already placed, one each
  (`Taken`), so before the last bucket their number is below `m_nkeys` and a slot is free;
  and that salts naming a slot stay above `-m_nkeys` while builds do not shrink
  (`SaltsInRange`).

- **TraceBundleProofs.** `TypeCorrect`; `OneSession` (`AcceptedIsOneSession`) from `SessionInv`:
  `meta.bin` is absent until the logs are those of this session and is completed after
  them, so a complete one lies beside logs of its own session only, whoever died when.
  `ClosedComplete` (`ClosedIsComplete`) adds `RegionInv`: unless a tracer died writing one, a region
  file is whole, and what `write()` keeps and what it has written are the target's.
- **MphMapProofs.** `TypeCorrect`, `AllKept` (`MessagesKept`), `OwnLogs` (`OwnLog`). A perfect hash on the keys
  of the entries is a permutation of their places, so a rebuild neither loses nor doubles
  an entry even when it puts it in the wrong place (`LogsKept`); the count needs what each
  thread has read of `m_num_inst` to allow for all threads that have yet to count (`Counting`);
  and a permutation that is its own inverse brings every entry home (`Owned`).
- **BitVectorProofs.** `TypeCorrect`, `InBuffer` (`StaysInBuffer`), `ReadsBackAlways` (`ReadsBack`), for every
  width, word and size. `Sound`: the bits of an element that is not suspect and not being
  set are those of the value last stored. For the atomic vector `InFlight` says that the bit
  a writer has loaded is still there when it is flipped, unless two writers share it.
- **TraceStreamProofs.** About writing: `TypeCorrect`, `EntriesSound` (`SyncPointsAreEntries`), and
  `MessagesDecode`: every message in a log takes the reader (`Update` for stack pointer and
  registers, the step of `pc_iterator` for the program counter) from the context logged before to
  the one logged with it, but for `nzcv`. `SyncedFront` says that a log of contexts begins with a
  sync frame, which is what `front()` demands. The inductive `Inv` says which context that is, by counting the
  ordinary messages up to each position; that appending never changes these counts is the
  main lemma. About reading: `PcsRead` (`PcsReadBack`), `RegistersRead` (`RegistersReadBack`), `BlocksCover`
  (`BlocksCoverTrace`), for logs of any length. Because each loop
  is a sequence of steps, that the single decodings add up is an invariant and no induction over the
  log: `Reading` ties the number of collected program counters to the iterator's position, by the
  same count of messages, and each register of the iterator to the one logged there if it
  has changed since the start, else to the junk it began with (`Shows`, `Since`); `Onward` and `AtEnd`
  say where `operator++` goes, which needs that no sync frame is last or followed by another.
  `BlocksSoFar` says that the finished blocks and the open one cover what has been looked at.
- **MemmemProofs.** `Bounded` (`InBounds`) and `NoneSkipped` (`NothingSkipped`), for all needles, haystacks,
  bins and widths of `size_t`. The first part is about needles. `Scan` is the invariant of a loop for a
  maximal suffix: every earlier suffix is less than the one found, no later one seen so far is greater,
  and `p` is the shortest period of what has been seen of it (`ScanFresh`, `ScanEqual`, `ScanLess`,
  `ScanRestart`, one for each branch of the loop). From two finished loops with opposite orders it follows
  that the later of the two suffixes is a critical factorisation (`Factored`): a shift below the
  period of the right half must show a difference there. So a mismatch in the right half allows a
  shift to just beyond it (`RightShift`), one in the left half a shift by the period if the needle
  has it (`PeriodShift`, which also says what is remembered), else beyond the longer half
  (`NonPeriodShift`), and the last byte one by its place in the table (`LastShift`). Where an
  induction over the needle would be used, the argument takes the least position at which two
  stretches differ (`Least`, `FirstDifference`). The second part transfers this to windows of the
  haystack, shows that no `size_t` wraps but the -1 (`Wraps`), and that the chunks lie inside
  the haystack (`Chunks`). The invariant `Inv` adds to `NothingSkipped` where the loops are (`Looping`) and what
  the needle's preparation has found (`Ready`); without `Ready` no shift is justified.

Only model-checked:

- liveness: `RequestAnswered`, `ExceptionAnswered`, `ExitClosesTrace`, `BinsAreFirst`, the liveness part of
  `ImplementsCalls` (temporal reasoning with fairness is outside the prover's reach);
- JevHash, which needs bitwise operators, and PermuteInPlace, a recursive loop;
- MachORegions and LogUtil, whose reports are folds over traces and sorted sequences: what
  such an operator computes for every input is an induction over data.

## 5. What was found

Runs that end in a violation, each against a comment or assert of the code:

- **`NoStrayStep`** (`XNUTracer.cpp:200-202`): dispatching the stop block does not ensure
  that all step exceptions have been handled before the handler is uninstalled. One
  raised after the dispatch is queued behind the block.
- **`NeverTimesOut`** (`MinimalPerfectHash.cpp:93`): the lowest bit of `jevhash_32` is bit 19 of
  the key, flipped by the salt for all keys alike. Two thread ports below 2^19 share
  a slot of two under every salt; the theorem `InseparableNeverBuilt` is the general reason.
- **`KeysAreUnique`** (`MinimalPerfectHash.cpp:74`): `rebuild` fills `new_idx` with destinations,
  `permute` reads it as sources. The two agree on exchanges of pairs only.

Conditions in passing properties also describe the code:

- `SuspendBalance` counts an `ExtraResume`: the destructor's `resume()` (`XNUTracer.cpp:92`) matches
  no `suspend()`, so on SIGINT with a running target `task_resume` fails and `mach_check`
  exits; by `ResumeFailsOnlyAfterWrite` that is after `write()`, but open streams are not closed.
- `ExitClosesTrace` admits the assert at `mach.cpp:95`: a step exception still queued when the
  target dies makes the handler arm a thread that is gone. It also admits the assert at `TraceLog.h:133`,
  below.
- `ClosedIsComplete` excepts directories in which a tracer died with a region file open
  (`poisoned`). The scan for files "that are unchanged" (`TraceLog.cpp:435-447`) compares only
  the digest in the header, which is written before the bytes, so the half-written file
  is kept and later traces lack that region.
- `AcceptedIsOneSession` lets a compressed stream be truncated: a log that was not closed
  has size 0 and reads as empty. The uncompressed one fails the assert on `fread`
  of nothing (`CompressedFile.cpp:148`).
- `ClosedIsComplete` says that a normal end is readable exactly if the regions differ in
  contents and in file names. The reader moves a region's bytes out of a map keyed by digest
  (`MachORegions.cpp:33`), so of two equal regions the second gets none; two images of one base
  name whose digests share their first four bytes write one file.
- The single-stepper's trace is lost unless `--stream` was given. `write()` of a log that is not
  streamed reads it back (`TraceLog.cpp:389`) and `front()` asserts a sync frame at its beginning
  (`TraceLog.h:133`), which `log(thread, context, insn)` always writes first (`SyncPointsAreEntries`) and
  `log(thread, pc)` never does. So `SingleStep!Write` fails before any file is written, `ExitClosesTrace`
  allows for it, and reading such a log, streamed or not, fails (`TraceReader!FrontFails`). The code and its
  own assert disagree here.
- `RegistersReadBack` gives a `ctx_iterator` only the registers that have changed since its start.
  Its constructors copy from `&ctx`, the address of the pointer (`TraceLog.h:78`, `:83`), so the context of
  the sync frame is not used and all other registers are junk; `nzcv` is in no message and always
  is. Nothing in the repository calls `ctx_begin`. The property is about logs whose asserts held:
  after an untraced gap more registers than a message holds may have changed (`TraceLog.cpp:250`).
- `ReadsBack` excepts the elements above a negative value stored in the same double
  word (`insert_bits` does not mask, `BitVector.h:52`); of a split vector, elements that end
  a word and those in the word after one stored later (`num_hi_bits` = 0, `BitVector.h:422`); and a
  bit two threads have been setting at the same time (`BitVector.h:298`). `StaysInBuffer` excepts
  a split vector whose last element ends the buffer.
- `StrangersInRange` needs builds that do not shrink. The map of threads only grows;
  `MachORegions::reset` may shrink the page map.
- `AckMeansApplied` is for one controller: two would share the acknowledgements.
- `OwnLog` and `MessagesKept` end where two threads of a stalker meet in the map (`raced`), which
  nothing in `FridaStalker.cpp:84-88` or `TraceLog::log` prevents; and `m_num_inst` may count too few
  as soon as two threads are inside.
- `FetchesWhatRan` is about code that did not change since the snapshot
  (`FridaStalker.cpp:15`) and that the snapshot has room for: executable memory outside the images
  whose tag is not 0xFF, or whose region begins at the base of an image, is in no region
  (`MachORegions.cpp:80-86`). For other code a lookup aborts the report ("no region found"), or
  `lookup_inst` silently returns the bytes of some page. Two regions with equal bytes
  make the trace unreadable here, too (`Loads`).
- `CallsAreSeen` admits calls that were not made: the block before the first one of a thread
  is the last one of another thread (`xnu-trace-log-util.cpp:78-93` does not reset), and a thread's
  first program counter is read twice, which looks like a block of its own.
- `CoverageIsTrace` excepts the last instruction of a thread when it is a block by itself
  (`TraceLog.cpp:27`) and drcov blocks of 2^16 bytes and more.
- The snapshot itself fails on an image that has not exactly one executable segment
  (`macho.cpp:42`, `:55`).
- `HistogramIsExact` is exact only for traces all of whose code `FetchesWhatRan` is about; it counts the first instruction of a thread twice, and of operations that
  share the upper 22 bits of an encoding (`subs` and its alias `cmp`) only the sum: the first of
  them that a pool task meets decides.
- `BinsAreFirst` is about occurrences inside a chunk; one that spans two is in no bin
  (`utils.cpp:332-336`).

## 6. Not modelled

Spawning, attaching and reading target memory are system calls in sequence before or
outside the concurrent part. The bit layout of message headers, the byte layout of
files, printing, dumps, statistics, signposts, disassembly (capstone, arch-arm64),
CoreSymbolication, the renderer and the other command line tools carry no state the
properties depend on; the static map of logs in `Signpost.cpp:20` is used without a lock by
pool tasks. The single-stepper takes its snapshot again whenever stepping is
switched on (`XNUTracer.cpp:277`), so MachORegions is checked with the stalker, whose one
snapshot serves the whole trace. Submaps, UUIDs and execute-only pages of a snapshot are left
out. `chunk_into_bins` of a log returns nothing. A trace without any thread ends `print` at `sorted[0]` (`ARM64InstrHistogram.cpp:65`) and
is not followed there. Of the bit vectors, signed single-bit and split ones are left out,
`AtomicBitVectorImpl` is an assert, EliasFano and RankSelect are stubs.

## 7. Plan

Done, in this order: SingleStep; ThreadPool; TraceStream; TraceBundle; MinimalPerfectHash;
BitVector; PoolCalls and the proof that ThreadPool implements its steps; MphMap with the
stalker's threads; Memmem; MachORegions and LogUtil; TraceReader; the proofs of section 4.

Next: `FetchesWhatRan` for every program, from what a sorted sequence of regions is, apart from
how it is made; the reports of LogUtil as loops, as in TraceReader, so that they can be
proved about; an abstract specification of the tracer's log (one sequence of instructions per
thread) that MphMap composed with TraceStream implements while `~crossed`.
