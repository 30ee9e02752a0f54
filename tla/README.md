# A TLA+ development for AFL 2.52b

This directory models the core of the fuzzer in `src/exploitaion/AFL/afl-2.52b`,
the one large program of this repository. Line numbers below are those of
`afl-fuzz.c` unless another file is named.

The repository as a whole is a collection of notes on security topics. Besides
AFL it holds a vendored bytecode decompiler (`reverse/tools/uncompyle2`), small
sample programs that illustrate the notes, and images. These have no state worth
modelling and are listed in `PROJECT.json` as not modelled.

## The system and its parts

`afl-fuzz` is a single-threaded process that talks to other processes through
pipes, signals, shared memory and the file system.

| part | state it keeps | operations | hard behaviour | modules |
| --- | --- | --- | --- | --- |
| target execution: `init_forkserver()` 1976, `run_target()` 2261, `handle_timeout()` 6784, `handle_stop_sig()` 6764, the fork server and persistent loop of `llvm_mode/afl-llvm-rt.o.c` | `child_pid`, `child_timed_out`, `prev_timed_out`, `stop_soon`, the timer; the server's `child_pid`, `child_stopped`; two pipes; the process table | hello; request, fork or resume, report, wait; alarm; stop signal | three processes and asynchronous signals; late alarms; a protocol without tags; death of any party at any time | TargetRunner, ForkServer |
| favored entries: `update_bitmap_score()` 1236, `cull_queue()` 1287 | `top_rated[]`, per entry `trace_mini`, `tc_ref`, `favored`, `was_fuzzed`; `score_changed` and counters | an entry competes for the bytes it hits; greedy cover | shared, counted references; traces and counters that get stale between calls | TopRated |
| queue and main loop: `perform_dry_run()` 2697, `calibrate_case()` 2531, `fuzz_one()` 4940, `trim_case()` 4463, `save_if_interesting()` 3117, `has_new_bits()` 878, `main()` | the queue, `virgin_bits`, `var_bytes`, `queue_cur`, per entry `exec_cksum`, `cal_failed`, `trim_done`, `has_new_cov`, `var_behavior` | calibrate, retry, skip, trim, run stages, save, cull | runs that fail or vary; retries; a stop between any two steps; entries that must not starve | Corpus |
| crashes and hangs: the other branches of `save_if_interesting()` | `virgin_tmout`, `virgin_crash`, files in `hangs/` and `crashes/` | run again with a longer limit, keep or drop | state consumed before a verdict is final; limits | Findings |
| synchronisation: `sync_fuzzers()` 6626 | `.synced/<id>` markers, peers' queue directories | read directories, run, import | files seen empty or gone; a stop before the marker is written | Sync |
| output directory: `maybe_delete_out_dir()` 3621, `setup_dirs_fds()`, `read_testcases()` 1405, `pivot_inputs()` 2934, `nuke_resume_dir()` 3581, `write_stats_file()` | `queue/`, `_resume/`, `.state/`, `crashes/`, `fuzzer_stats` | start, resume in place, clean up, write entries and marks | a kill between any two steps | Session |
| deterministic stages of `fuzz_one()` 5060-6120, `could_be_*()` 4757-4900 | `out_buf`, `eff_map`, stage counters | flips, arithmetic, known values, tokens | which mutations are skipped as already done or idle | Stages |
| havoc and splicing 6121-6600, `calculate_score()`, `choose_block_len()`, `locate_diffs()` | `out_buf`, `temp_len`, `in_buf`, `stage_max` | stacked tweaks, block moves, splices | lengths that change under arithmetic on unsigned numbers; loops extended by finds | Havoc |
| dictionaries: `load_extras()`, `maybe_add_auto()` 1774, `save_auto()` 1892, `load_auto()` | `extras`, `a_extras`, `a_collect`, files in `auto_extras/` | read, collect, evict, sort, save, load | sort orders that searches rely on; restarts | AutoExtras |
| `afl-tmin`: `run_target()`, `minimize()` | the best input, a buffer for candidates | delete blocks, replace symbols, replace bytes, repeat | a stop in the middle; flaky targets; an end of the passes | Tmin |
| CPU binding, afl-cmin, afl-showmap, afl-analyze, instrumentation, QEMU mode, helper libraries, status reports | | | | see "Not modelled" |

How they interact: `main()` sets up the output directory (`Session`), reads dictionaries
(`AutoExtras`), and then culls the queue and calls `fuzz_one()` for one entry after another
(`Corpus`). `fuzz_one()` calibrates if that failed before, trims, runs the deterministic
stages (`Stages`, which collect tokens for `AutoExtras`) and the random ones (`Havoc`); each
execution is a `run_target()` (`ForkServer`) and ends in `save_if_interesting()`, which may keep
a crash or a hang (`Findings`) or add an entry, calibrate it and let it compete in
`update_bitmap_score()` (`TopRated`). Between entries `sync_fuzzers()` imports the finds of
other instances the same way (`Sync`). Signal handlers set `stop_soon`, which every
loop looks at, and kill the child.

What makes the parts correct:

- a run answers with a fault code that the execution of that input justifies, and
  ends although the target hangs;
- the slots of the map always have their best entry, reference counts are exact,
  the favored entries cover what has been seen, and the counters that steer
  skipping are exact;
- only calibrated entries compete, favored ones are fuzzed, and the statistics
  count every entry once;
- what a crash shows is kept if the crash is judged while there is room, and what is kept is genuine;
- a peer's cases are executed, once, and a marker never passes over one that was not;
- wherever a session is killed, a resume has its inputs, crashes and marks, but for the two
  exceptions below, and no start stumbles over what an earlier one left; of the collected tokens it
  has those that are in place, which are not all when a save, or the time before the first one, was
  cut short;
- mutations that are skipped were executed before or are known to be idle; no mutation
  leaves its buffer; work on an entry ends;
- what `afl-tmin` writes was executed and accepted, and is minimal.

`PROJECT.json` lists the hazards of this code line by line with the properties
that watch them.

## Modules

### TargetRunner.tla, ForkServer.tla, MCForkServer.tla, ForkServerProofs.tla

`TargetRunner` is the abstract promise of `run_target()`: a run begins, the target
settles on an outcome for that one input, and the run answers with a fault code
that the outcome justifies. There is no process, pipe, timer or signal in it.

`ForkServer` is the protocol. The fuzzer's program counter is `fz` (one value per
blocking call or assignment that a handler can come before), the server's is `srv`,
and `proc` is the process table. `ctl` and `st` are the two pipes, sequences of
words. Correspondence of actions and code:

- `AwaitHello`, `HelloDisarm`: 2106-2132; a failing start is a fatal error.
- `BeginRun`, `Request`, `ReadPid`, `Arm`, `ReadStatus`, `ClearPid`, `Disarm`,
  `AnswerRun`: 2266-2461 in order; `DumbFork`, `StorePid`, `DumbWait`: the variant
  without a server. `PipeFails` is the early return or fatal error after a failed
  `read()` or `write()`.
- `HandleTimeout`, `HandleStopSig`: the handlers, between any two steps of the
  fuzzer. `StopProgrammatically`: `stop_soon = 2` (3955, 3957). `ExitFuzzer`: the end
  of `main()`.
- `SrvHello` ... `SrvSendStatus`: the loop of `__afl_start_forkserver()`,
  `afl-llvm-rt.o.c` 95-171, in order.
- `ChildEnds`, `ChildStops`, `ChildDies`, `InitReaps`, `SrvDies`: the target and the
  kernel. A SIGKILL takes effect some time after `kill()` returned; until then the
  process is "dying".

`fate` is a history variable: what the target did with the input of the current
run. It is what the abstract `outcome` maps to.

Signal handlers are installed with SA_RESTART (7565), so a handler never makes a
blocking call fail. `SIGUSR1` only sets a flag and is left out. The
trace itself is not in this model; `TraceQuiescent` says when it is safe to read.

### TopRated.tla, MCTopRated.tla, TopRatedProofs.tla

One step per iteration of the two loops over the map, with the fuzzer as a client
that adds, marks, scores and culls in any order the real callers could
(`ScoreAllowed`). `fav_factor[e]` stands for `exec_us * len`. `scored[e]` is a history
variable: the bytes `e` was ever scored for. `Stable` says that an entry hits the
same bytes each time it is run. The loop variables are cleared on return, where C
has locals.

### Corpus.tla, MCCorpus.tla, CorpusProofs.tla

The queue and the main loop, on top of TopRated, which it instantiates as `Rated`:
each of its steps that scores, culls, adds or marks an entry is an action of
`Rated`, and the loops of TopRated run to their end before the caller goes on.
`pc` is the place in `main()` and `fuzz_one()`; `cal` and `ret` are the argument of
`calibrate_case()` and the place it returns to.

An input is represented by what it does, `base[e]`: a class of hit counts for each
byte of the map. A run of it leaves one of `Runs(base[e])`. What the target is like
(`target`, one of `Natures`) decides which bytes differ from run to run (`wobbly`) and which
classes of counts a byte can show at all. Any run may also fail; `failed` records
that one did. A checksum is represented by the trace it is computed from; collisions are not
modelled. `virgin_bits` is the set of pairs (byte, class) already seen, which is what its
cleared bits mean. A calibration is one step, because nothing else can look at the state
in between except through a stop signal, and the step may fail at each of its runs.

With `AFL_IMPORT_FIRST` the first cycle begins with an import from other instances (8039), after the
queue was culled and before an entry is picked: `pc` is "import" from `NextEntry` to `ImportEnds`,
and what comes in is `SaveIfInteresting` as anywhere else. `late` is the history of what it was first
to show since the cull.

`Steady` is TopRated for a stable target: `KeepsRating` says that the main loop refines
TopRated, and where no byte varies also `Steady`, so the theorems of `TopRatedProofs` about any
client hold of this one.

### Findings.tla

The switch of `save_if_interesting()` for all faults, with or without crash mode. `stage` and
`mem` say what is being done with which input: executed, judged, executed once more with
`hang_tmout` (`rerun`), judged as a hang or as a crash. A virgin map is the set of what has been
seen; `simplify_trace()` keeps of each byte whether it was hit. As in the code, a crash
is compared with the trace of the last run, which for a suspected hang that crashes is the
second one. `Resume` starts with empty directories and a `virgin_bits` filled from the queue.

A hang that the second run refutes has already cleared its bits in `virgin_tmout` (3192), so no
completeness like `CrashesCovered` holds for hangs. Left out: dumb mode, counters that are only
displayed, and the skip requests and repeated timeouts that make `common_fuzz_stuff()` give
an entry up.

### Sync.tla, MCSync.tla, SyncProofs.tla

Extends `Findings` by an instance that imports. A peer is the same program seen through its
queue directory: it creates a file, then writes it, and unlinks, creates and writes it again
when it trims, once per entry (`trimmed`). `SyncPeer` opens the directory and reads the marker, `SyncCase` handles the
next name listed, in any order, `SyncPeerEnds` writes the marker; a stop in `SyncExecute`
returns without writing it. `ran` and `passed` are histories: cases executed, and cases that were
empty or missing when it was their turn, were not listed because they were being trimmed, or
appeared while the directory was read. `MarkerHonest` is the exact statement: nothing
else is ever passed over. What POSIX leaves open of `readdir()` is a choice: a file that appears
while the directory is read may be listed or not, one that is unlinked may still be listed, and one
that was unlinked and created again may be listed a second time (`relisted`). The code compares with
`min_accept`, which stays the same during a visit, so such a case is executed twice in one pass:
`RunOnce` excepts it, and the pass after a stop. Left out: peers that start over with lower numbers.

The instance's own fuzzing is part of the module too, with inputs that end in all the ways there are.
`Modes` holds the settings a session may have; the run has two of the four, in which each takes
either value; no step of the code reads both. `SyncProofs` covers all four.

### Session.tla, MCSession.tla, SessionProofs.tla

The output directory: which directories exist (`dirs`), what is in the files that have a number,
per directory (`file`), and in those that have none (`plain`). A phase of a start is a list of calls
(`CleanUp`, `SetUp`, `Nuke`), and `at` the next one to be made: `DeleteFile` and `RemoveDir` are
`delete_files()`, one unlink at a time and then the `rmdir()`, `MoveQueue` is the rename of `queue/` to
`_resume/`, `BackupCrashes` that of `crashes/`, `MakeDir` and `CreateFile` are `setup_dirs_fds()`,
`Proceed` goes on to the next phase. `Start` is the decision at the head of `maybe_delete_out_dir()`,
with one action per outcome: a new directory, malformed statistics, results at risk, or a start over.
`ReadCase` (from `_resume/`) and `ReadSeed` (from the user) are `read_testcases()`; `PivotLink`,
`CopyWrite`, `PivotMark` and `PivotDone` are `pivot_inputs()` with the fallback of `link_or_copy()`;
`SaveQueue` ... `CrashWrite` are what fuzzing does to the files. `Kill` may happen between any two steps.
Every way to end with a fatal error is a value of `pc`.

`redundant_edges` stands for `auto_extras` and `variable_behavior` too, and `crashes/` for
`hangs/`: the code treats them alike, one after the other. A name is the number in it: what follows
the number goes with the case when it is linked under another one. What a mark contains
is a history, the input that was marked; the code has an empty file. Histories: `had`
(inputs completely written), `found` (crashes kept), `worth` (was the last run long), `trap` (the
exception known from `SessionLostInputs`). Assumed: two resumes do not fall into the same
second (they would share the name of the backup), and a small file is written by one `write()`
or not at all. Left out: -Z (another order of the cases), `find_start_position()`, `find_timeout()`,
the lock, bitmap and plot data.

Seen while modelling: a kill inside `write_stats_file()` (3383-3450) leaves an empty
`fuzzer_stats`, and then every start, fresh or resumed, ends with "Malformed data" (3657) until
the user removes the file; and a resume resets `start_time`, so the check of 3663 does not
protect the results of a long run any more once it was resumed (`worth = "resumed"`).

### FuzzOne.tla

What the next two modules share: `MAX_FILE`, and the counters `stage_cur` and `stage_max`, which
all stages of `fuzz_one()` keep.

### Stages.tla, MCStages.tla, FuzzOneProofs.tla

One step does the work of one of 17 stages at one offset, or, where tokens are written over the
input, with one token: `Overwrite` writes the next one over the one before, and `Restore` undoes
what the last one covers (`last_len`), as 5893-5929 do. `Init` takes the tokens in one of the orders
that `qsort()` may leave them in (`ByLength`). `could_be_bitflip()`,
`could_be_arith()` and `could_be_interest()` are predicates over the bits and little-endian
words of two values; `Arithmetic`, `Interesting` and `Overwrite` give the buffers they execute
and those they skip. `tried` is every buffer executed so far (in the token stages: at this offset),
`skipped` what the last step left out as a duplicate. What an execution finds is abstracted to `live`, the bytes whose flipping
changes the path. A buffer is a tuple of bytes with 8-bit wrap-around.

Known gaps, listed in `SkipsAreKnown` as `AcrossBytes` and `NeverAdded`: `could_be_bitflip()` takes
a flip of several bits across a byte boundary for one that was made, and with AFL_NO_ARITH the
interesting bytes are skipped as the result of an arithmetic stage that did not run. The
user-insert stage announces `len` offsets and goes through `len + 1`. Left out: skipping
all deterministic stages (-d, `passed_det`) and the slices of -M.

### Havoc.tla, MCHavoc.tla, FuzzOneProofs.tla

The lengths of the input, the buffers and the entries, all tweaks of the havoc stage with the
offsets and block sizes they draw, the extension of the stage by finds, and splicing. A random
number is a choice from `UR(limit)`; `length` is `len` in the code; `wild` records an access
beyond a buffer (`Within`) or a die without sides. `use_splicing`, which `main()` sets between entries,
is chosen at the start. Contents are left out, and `havoc_div` is taken as 1 (it only shortens the
stage). `MaxPaths` bounds the finds, so `EntryEnds` is about the retries of splices and the
loops of the stages, not about the limit on `perf_score` (6481), which bounds how often finds prolong
a stage.

### AutoExtras.tla, MCAutoExtras.tla, AutoExtrasProofs.tla

Both lists of tokens, from the dictionary to the files of collected tokens. Where `qsort()`
leaves the order of equals open, `load_extras` and `Sorted` are the sets of all lists it may return.
`FlipLowest` is one step of the flip1 stage, in which tokens are collected; `Add` is
`maybe_add_auto()` with its eviction and both sort orders, `load_extras` the reader,
`SaveOpen`/`SaveWrite` the files. `Restart` may happen at any time. `Builtin` is the set of tuples that
the comparisons of 1796-1808 really match: a negative interesting value of 16 bits matches only swapped.

`MostUsedStay` is what the eviction from "the bottom half" is for: the list is sorted by use, then its
top by length, and a token that was met more often than others must not make room for a new one.

`SavedSurvive` says what a kill can lose and that nothing else is lost. `saved` is the history of what
saves have left in each place, and `Left`, from the progress of a save alone, what is left when the
session ends: nothing between `load_auto()` (the old directory is deleted next) and the first
`save_auto()`, be it by a kill or by a fatal error in a dictionary; within a later save, the new tokens
up to the file that is open, and the old ones behind it. So a kill loses the token whose file was
emptied and not yet written (1892-1896) and those whose old place was written over while their new
one was still to come. Such a mixture of two lists, with an empty file and tokens that occur
twice, is what the next session finds, and it must know every token in it.

Also as in the code: `load_auto()` (7960) runs before `load_extras()` (7964), so tokens of an earlier
session may repeat the dictionary (`inherited`). The deletion of the old directory is one step.

### Tmin.tla, MCTmin.tla, TminProofs.tla

`run_target()` of `afl-tmin` is a choice from `Result(target, input)`; a target outside `Stable`
may answer differently each time. The dry run, block normalisation, deletion of blocks of
halving size, symbols, characters and the repetition of passes follow `minimize()`; `Stop` is a
signal, after which the best input so far is written. A target that hangs in the dry run, or ends
normally with an empty trace (`NoTrace`), is a fatal error. `OneMinimal` claims minimality for deletions
only, as the code does no more. The mask and -e are in `path`.

## Runs

| run | question | bounds | result |
| --- | --- | --- | --- |
| ForkServer | Are answers justified, words in step, processes accounted for, and does every run and the server end? | all three modes, two process ids | passes |
| TopRatedStable | Do the two loops keep their promises for every caller? | 3 entries, 2 bytes, 2 factors | passes |
| Corpus | Does a session keep its books, its cover and its promises to favored entries, whatever fails or varies? | 2 entries, 2 bytes, 2 classes; a stable target and one with a variable byte; AFL_IMPORT_FIRST | passes |
| Session | Do inputs, crashes and marks survive kills; does no start stumble? | 2 inputs, a queue of 2, 1 crash, any number of starts and kills | passes |
| Stages | Is what is skipped redundant, the effector map right, the input restored? | 4 inputs of 1 to 4 bytes, all subsets of effective bytes, 3 user and 3 collected tokens | passes |
| Havoc | Do tweaks and splices stay within buffers, and does an entry end? | 3 queues of lengths 1 to 6, MAX_FILE 8, blocks of 1 to 4 | passes |
| AutoExtras | Are tokens right and unique, do the most used ones stay, and are those in place known after a restart? | 2 dictionaries, 2 inputs of 5 bytes, 4 slots, 2 entries, 3 lists of old files, any number of restarts | passes |
| Sync | Is every case run, and not again? Are findings complete and genuine? | 1 peer, 2 cases, 5 inputs that end in all ways, 2 settings, limits of 1 hang and 2 crashes | passes |
| Tmin | Is the output executed and minimal, and do passes end? | all inputs of 1, 3 and 6 bytes over 3 symbols, 4 deterministic targets, 1 flaky | passes |
| CorpusFavoredCount | Is `queued_favored` exact for variable targets? | 2 entries, 3 bytes, one variable | **violated** |
| CorpusLostCover | Do the favored entries cover everything seen if runs fail? | 3 entries, 2 bytes | **violated** |
| SessionLostInputs | Does a resume always get all inputs? | those of Session | **violated** |

Each run takes between a few seconds and less than three minutes with two workers.

Why the bounds are enough for the interesting cases:

- Two process ids: at most one target is in the process table (`OneChild`), so the second
  id lets a new child have a pid that differs from the old one, and reuse lets it have
  the same.
- Two bytes and three entries give a slot that passes through several hands, an entry
  that holds several slots, and one that loses its last slot. Three bytes are
  needed for a trace that goes stale: the entry must keep a slot while it wins
  another one.
- `CAL_CYCLES` = 2, `CAL_CYCLES_LONG` = 3, `CAL_CHANCES` = 2 leave one run to compare
  with the first, one run that only a variable byte brings about, and one retry.
  `FewPaths` = 1 stands for the constant 10 in `fuzz_one()`. `Seeds`, `MaxPaths` and `MaxCount`
  only bound the state space; `CorpusProofs` covers the rest.
- Session: one input is a seed and one a find, so an entry can have another number after a resume,
  and a queue can be complete, half-pivoted or half-written; starts and kills are unbounded.
- Stages: the input lengths fall on both sides of `EFF_MIN_LEN`, the shares of effective
  bytes on both sides of `EFF_MAX_PERC`, and the bytes are chosen at the borders of signed and
  unsigned wrap-around. `EFF_BLOCK` is 1 so that the run can tell bytes apart;
  `FuzzOneProofs` covers every block size. Tokens equal the input, repeat it, or exceed it.
- Havoc: lengths of 1 (which most tweaks refuse), just below MAX_FILE, and in between; each of
  the four classes of blocks is larger and smaller than some input. `FuzzOneProofs`
  covers the rest.
- AutoExtras: more tokens can be collected than there are slots, so evictions happen; two slots
  are used by the stages, two not. Two files are enough for a mixture: the first one empty or
  new, the second one old, and the token of one equal to that of the other. `AutoExtrasProofs` covers any number of both.
- Sync: with one peer and two ids a case can be listed out of order, twice, trimmed, empty or late.
  Peers do not interact except through the marker of each; `SyncProofs` covers any number.
- Tmin: `TRIM_START_STEPS` and `TMIN_SET_STEPS` of 2 with 6 bytes give three sizes of blocks.

Deadlock is not checked: a session may stop (`exit`, a fatal error, the end of `afl-tmin`),
and the queues of the models are full at their bound.

### Fairness

`ForkServer` assumes weak fairness of the fuzzer's own steps inside a run, the server's
steps, the kernel's delivery of a kill and of the alarm. It assumes nothing of the
target, which may run for ever, nor of the user or of the callers of `run_target()`.
`Corpus` assumes weak fairness of `MainStep`, that is of a single-threaded program that
keeps running; finding something new, or a stop, is never assumed.
Skipping an entry is a choice by chance in the code and here a choice without
fairness: `FavoredFuzzed` holds whatever the dice say.
`Sync` assumes weak fairness of an execution and of the loops of `sync_fuzzers()`, and strong
fairness of its call: the main loop comes to it again and again (every `SYNC_INTERVAL`
entries), but between two calls other executions go on. Peers need not move.
`Havoc` and `Tmin` assume that the single-threaded program keeps running; that the dice find
something, or that a target answers one way or the other, is not assumed.

### Disagreements between the code and its documents

Shown by runs, with the lines in `PROJECT.json`:

- `FavoredCounted`: `queued_favored` counts an entry twice when the target is variable
  and the entry was scored again after trimming, because its `trace_mini` is not
  refreshed while it holds a slot.
- `CoverSeen`: `docs/technical_details.txt` says the favored entries cover every tuple seen
  so far. A new entry whose calibration fails has its tuples marked as seen but never
  competes for them. `CoverSteady` says that there is one other way only, for a target that is
  stable: with AFL_IMPORT_FIRST, what the first import brings is not covered until the next cull.
- `InputsSurvive`: the comment at 3683 prefers an old `_resume/` because the queue may be incomplete.
  It may also be complete: after a killed resume and a fresh start, or after a kill in the middle
  of `nuke_resume_dir()`, the next resume deletes a complete queue. `InputsSurviveKills` says that
  these are the only ways.

Not shown by a run of their own:

- A session that ends by itself (AFL_EXIT_WHEN_DONE, AFL_BENCH_UNTIL_CRASH; 3955) leaves the
  stopped child of persistent mode behind, because only the handler of the stop signal kills it;
  `docs/ChangeLog` has the leftover process fixed. `NoRunaway` is about running processes only.
- A retried calibration takes its reference trace from whatever was executed last (2564), so
  bytes that never vary may be marked in `var_bytes`.
- `find_timeout()` (3340) searches `fuzzer_stats` for `exec_timeout` followed by three blanks, while
  `write_stats_file()` writes six, so a resume never takes over the timeout of the session before,
  contrary to the comment at 3334.

## Proofs

`ForkServerProofs` proves for every set of modes and of process ids that the safety
properties of `ForkServer` hold in all reachable states and that `ForkServer` implements
`TargetRunner`. The assumptions are the two on the constants: modes are among the three
known, and pids, status words, the hello and the two special values of `child_pid` are
different from each other.

None of the safety properties is inductive. The invariant `IInv` has these parts:

- `Lockstep`: for each place of the fuzzer, where the server can be and what can be in
  the pipes. It is what rules out a word too many.
- `Table`: what is in the process table, as the server (or, without one, the fuzzer)
  knows it: nothing but its own child, and nothing when it is about to fork.
- `Orderly`: unless a signal stops the session, the timer only runs while a run
  waits, and the server is only killed before its first child.
- `Honest`: the state of the process, and the status on its way through the pipe, fit what
  the target did (`Told`); there is no outcome before there is a process (`Fresh`); and a
  stopped child that the timer killed is known to be killed, in `child_timed_out` or its
  copy `prev_timed_out`, until the server is told (`KillKnown`).

Each part has a lemma with one step per action of `Next`; `StepIInv` combines them.
The refinement theorem needs `Honest` in `AnswerRun` (the fault is justified) and in the
steps by which a target settles.

`TopRatedProofs` proves the properties of `TopRated` for maps and queues of any size and
any set of factors; the assumptions are that sizes and factors are natural numbers.
`RefCountsExact` and `CoverHolds` hold for every target. `BestRatedHolds`,
`PendingExact` and `CountersHold` assume `Stable`: without it TLC refutes them, as a trace
kept from an earlier run need not be what the entry was scored for last. The
invariant `IInv` is stated in `TopRated`, where the run checks it, and adds to the type
and `RefCounts`:

- `Members`: only queued entries are scored, favored, fuzzed or hold a slot, and a slot's
  winner was scored for that byte. It is what makes a new entry start with clean flags.
- `Kept`: a kept trace is part of what its entry was scored for, and under `Stable` all
  of it. Without it the step that marks a winner would not know what it covers.
- `Contest` and `Best`: `BestRated` half-way through a contest, where the entry that
  competes is exempt for the bytes not reached yet.
- `Cover`: `FavoredCover` half-way through a cull: what `temp_v` no longer holds, and each
  slot already passed, is covered; under `Stable` no favored entry is marked twice.
- `Counts`: the three counters; where the target is not stable `pending_favored` is still
  never too small, which keeps it from going below zero.

Each part has a lemma with one step per action. A winning iteration of the
scoring loop is described once, entry by entry, in `WinStep`, and what it does to the
number of slots in `SlotsStep`. `TypeStep` comes last: that a reference count or a counter
stays at or above zero follows from its being a cardinality.

`CorpusProofs` proves `CalibratedCompete`, `StatsExact` and `KeepsRating` of `Corpus`, for any target,
queue, map and number of runs. Its invariant has these parts: `Control`, where the main loop
can be and with which entry; `Unscored`, the entries never scored so far (those to come, those the
dry run has not reached, and the one being calibrated, which is why calibration may score it for
any trace); `Winners`, that favored entries and winners were scored and scored entries
have `cal_failed = 0`; `Known` and `Same`, that for a target without variable bytes the checksum of
an entry is that of its trace and it was scored for exactly that trace. The last two are what the step of
`trim_case()` needs to keep to the interface of a stable target.

`KeepsRating` is a refinement of `TopRated`, so `CorpusProofs` instantiates `TopRatedProofs` twice and
takes over its theorems: `ScoringHolds` (reference counts, and a favored entry for every byte that
has a winner) for any target, `SteadyScoring` (the best entry wins, all counters exact) where no byte
varies; the latter needs that the target stays what it is (`TargetStays`). On top of that
`CoverSteadyHolds` shows that everything seen is covered whenever `fuzz_one()` is called, for a stable
target with no failed calibration, except what is in `late`: `Won` (a byte that an entry was scored for has a winner, unless the contest has yet to come
to it), `Seen` (what is known in `virgin_bits` was shown by an entry that was scored, or by the one
whose calibration is due) and `CoverKept` (what a cull covered stays covered until an entry is picked;
what an import adds meanwhile is in `late`, `SinceCull`).

`FuzzOneProofs` is about both parts of `fuzz_one()`: it extends `Stages` and `Havoc`, each of which
has its own specification (`Spec`, `HavocSpec`), and each theorem speaks of one of them.

It proves first that the effector map covers every effective byte (`EffectorsCover`), for any
input length, block size and limits: `Counted` says that `eff_cnt` is the number of marked
blocks unless all are marked, `Seen` that flip8 marked the block of each effective byte it passed. The
arithmetic of blocks (`DivMonotone`, the last block, the block of a word) is in lemmas.

`BufRestored` says that every offset starts from the input as it was. Only the last token written is
undone, so it depends on the order of the tokens: `Clobbered` says that nothing outside of
the last token differs from the input, that the last token reaches no further than the end, and that
no token still to come is shorter than it (`Shortest`, which `ByLength` gives). This is the argument of
the comment at 5897. The order is what `load_extras()` leaves of the user's tokens and `maybe_add_auto()`
of the top of the collected ones, by their last sort (`load_extras` and `Sorted` of `AutoExtras`).

`SkipsAreKnown` says that what a stage leaves out as a duplicate was executed before, or is the input,
or changes only bytes without effect, or is one of the two exceptions (`Known`); for inputs of any
length, any tokens and any `ARITH_MAX` below 128 (35 in the code). `KnownInv` adds to it what the skips rely on:
- `Hist`: at every offset that lies behind, what the stage makes there is accounted for (`Covered`):
  flips were executed, except words without effect; sums and interesting values were executed or
  are `Known` themselves. `tried` only grows until the tokens come, so what is covered
  stays covered (`CoveredStays`, `WorkKeeps`).
- `OutKnown`: the buffer that tokens were written into was executed, or is the input. So a token that
  changes nothing is left out rightly, although earlier tokens are still in the buffer.

Then each table has to fit the stages before it, which is arithmetic of bits and bytes:
- `BitflipKnown`: what `could_be_bitflip()` accepts is a run of 1, 2 or 4 bits, which was flipped
  unless it crosses a byte (`AcrossBytes`), or a run of 1, 2 or 4 whole bytes, which was inverted
  unless it has no effect. Bits of words are traced to bits of their bytes (`XorIs`).
- `CarryKnown`: a sum in a wider word that is skipped because no carry leaves its lower half is a
  sum in the half word. `ArithKnown`: of two words that `could_be_arith()` finds near each
  other in one byte, one half or the whole, an arithmetic stage makes the second from the first, by
  adding or, as the code compares both ways round, by subtracting (`AddInverse`, `NearChange`).
- `InterestKnown`: what `could_be_interest()` accepts is an interesting value of a shorter word
  written into this one, or one of this width that the same step wrote low byte first.
- `OffsetsAre`, `HistGives`, `ValuesDone`: where the stages of shorter words stop, and that they are
  done when a longer one asks. With `no_arith` there are no sums behind: `could_be_arith()` is then
  asked of single bytes only, and what it accepts is `NeverAdded`.

For `Havoc` it proves `NothingWild` and `SplicedWithAnother` for any queue, dice, block sizes and
limits; `Fits` relates the length of the input to the sizes of its buffers, and `BlockFits` is what
`choose_block_len()` returns.

`SyncProofs` begins with lemmas about single steps of `Findings` and the invariant `FInv`: the virgin
maps hold exactly what the kept crashes show, and at least what the kept hangs show.
It combines them with `PeersInv` (a peer gives its ids out in order), `Marked` (what is
below a marker is done), `Reading` (what is still to come while a directory is read) and `RanBelow`
(what was executed is below the marker, or will be) to `MarkerHonest`, `RunOnce` (an action
property), `CrashesCovered` and `FindingsGenuine`, for any number of peers and cases.

`SessionProofs` proves the five properties of `Session` for any inputs, seeds, crashes and numbers of
test cases, over any number of starts, resumes and kills. The assumptions are that the seeds are
finite and not empty and that there are as many numbers as seeds. A directory is left in
the state of whatever call was the last one, so `IInv` says for each phase, and each call of it, what
is on disk and how that relates to what the process has in memory:

- `TypeInv`, `ReadInv`: what each directory may hold; the queue never outgrows the numbers, because
  no seed is read twice (a cardinality argument over the data read so far).
- `DirInv`: nothing is in a directory that does not exist (`Tidy`), what a phase has deleted is gone
  (`CleanInv`, `NukeInv`), what it has to make is not there yet (`SetUpInv`), and what it made is
  there (`MadeInv`). That is why no clean-up and no creation fails.
- `QueueInv`: entry by entry, what is in `queue/` before, during and after pivoting, and that from
  then on the marks in memory are those on disk. That is why no file or mark is in the way of a new one.
- `MarksInv`: a mark is about the input in the file of the same number, if that is complete, in
  `queue/` and in `_resume/`. The rename moves both, the pivot renumbers both.
- `CrashInv`: no crash in the directory has a number that is still to be given, and what was found is
  there or in a backup.
- `HeldInv`: where the inputs of a session are at each point: in `_resume/` from the rename until
  the pivot is done, in memory while it goes on, in `queue/` from then on, and when the process is down
  in `_resume/` or, only if that is not there, in `queue/`. This is the argument that the
  comment at 3683 makes, with its exceptions (`trap`). `AreRead` is the part for the reading loop.
- `FreshInv`, `RiskInv`: a fresh start has no inputs to lose, and `fuzzer_stats` tells of a long run.

First come lemmas about the lists of calls (`DeleteIs`, `RmdirIs`, ...: which call is made where, so that a
step of a phase is known from `at`) and about what each writing step does (`PivotLinkIs`,
`TrimWriteIs`, ...); then one lemma per part with one step per action; `IInvStep` puts them together.

`TminProofs` proves `OutputWorks` for every target; the invariant adds the agreement of the two
buffers of the last stage. `OneMinimalHolds` proves that the finished output cannot do without any
of its bytes, if the targets in `Stable` answer every input in one way (`Repeatable`, a hypothesis).
`Settled` says that a pass that changed nothing so far leaves every byte needed that its last round, with
blocks of one byte, has gone by. The step to look at is `SkipBlock`, which leaves out a block equal to
the one before: the input without one of two equal neighbours is the same as the input without the
other, so that byte is needed too.

`AutoExtrasProofs` proves the four properties of `AutoExtras` for any alphabet, inputs, dictionaries,
old files and limits (`MIN_AUTO_EXTRA` above 1 and no more than half of the slots in use, as in
`config.h`). The invariant `DictInv` has these parts:

- `Listed`: the user's tokens are in order of length, the collected ones beyond the top in order of use
  (`ByUse`: the top itself is sorted by length); nothing is collected twice, and everything collected
  is of a fitting length and not dull. `SortedIs`, `AddedIs` and `LoadedIs` say this of what the
  operators return, `SearchFinds` that the shortened search among the user's tokens misses none.
  `MostUsedStayHolds` follows from it: what the bottom half loses was met no more often than the rest.
- `Foreign`: collected tokens repeat the user's only if `load_auto()` read them before those.
- `Stored`, `Loaded`, `Written`: what is left of the saves, and where. Between a save and the next
  session each token of `Left` is in its place in the files (`InPlace`), of a length and kind that
  `maybe_add_auto()` does not refuse; a save goes from the first place to the last, so what it has
  not reached is as before. While the next session reads them, each token it passed is in the list
  (`Has`): no file is deleted before all were read, and as at most half of the slots are
  loaded, none of them is evicted by the next.
- `Flipping`: `Run` (`a_len` is the length of the run that is on, of the path `prev_cksum`), `Gathered`
  (`a_collect` is its beginning) and that what was collected are the runs that ended before. The last
  byte is a case of its own (`LastByte`): either it is the end of the run that is on, or it ends
  that run and begins one of length 1, which is never collected because `MIN_AUTO_EXTRA` > 1.

Only model-checked: all liveness (`RunEnds`, `ServerGone`, `FavoredFuzzed`, `CasesRun`, `EntryEnds`,
`MinimizeEnds`), because liveness under fairness is out of the prover's reach.

## Not modelled

- `find_start_position()`, depths of entries and the counter of cycles without finds in the
  main loop: they choose where to begin or are displayed; `Corpus` is therefore listed as partly
  modelled.
- `show_stats()`, the layout of statistics and plot files, `afl-plot`, `afl-whatsup`: output only.
- `bind_to_free_cpu()`, `afl-gotcpu`: two instances may pick the same core, a race by design that
  concerns speed only.
- `afl-showmap`, `afl-analyze`, `afl-cmin`: single runs of a target; `run_target()` there is the one of
  `afl-tmin`, which `Tmin` abstracts, and the rest is classification for display.
- `afl-as`, `afl-gcc`, the LLVM pass: text filters and wrappers without state. The server in
  `afl-as.h` follows the one-shot protocol of `ForkServer`.
- QEMU mode: the same server and a pipe that only warms a cache.
- `libdislocator`, `libtokencap`, `alloc-inl.h`: sequential arithmetic on single blocks.
- `uncompyle2`, notes and samples: no state.

## Plan

What could come next: a composition of `Session` and `Sync`, in which the peer is a session that is
killed and starts over with lower numbers; the translation pipe of QEMU mode.
