------------------------------- MODULE Corpus -------------------------------
(***************************************************************************)
(* The queue of afl-fuzz.c and the main loop that works through it:        *)
(* perform_dry_run(), fuzz_one() with calibrate_case() and trim_case(),    *)
(* save_if_interesting() for executions that end as they should, and       *)
(* has_new_bits().  Scoring and culling are those of TopRated.tla, whose   *)
(* loops run whenever loop # "client".                                     *)
(*                                                                         *)
(* An input is what it does: base[e] is the trace of queue entry e, a      *)
(* class of hit counts for each byte of the map.  What the target is like  *)
(* decides which counts a byte can show and which bytes, those in wobbly,  *)
(* differ from run to run; and a run may also fail (time out, crash or, in *)
(* crash mode, not crash) although others do not.                          *)
(***************************************************************************)
EXTENDS Integers, FiniteSets

CONSTANTS
  MAP_SIZE, MaxPaths, Factors,    \* see TopRated
  MaxCount,       \* bound on the classes of hit counts
  Seeds,          \* number of initial test cases
  CAL_CYCLES, CAL_CYCLES_LONG, CAL_CHANCES,
  FewPaths,       \* queue size up to which old entries are not skipped
  AFL_IMPORT_FIRST,   \* peers are asked for inputs before the first entry is fuzzed
  Natures         \* what targets are like: bytes that wobble, classes of hit counts of each byte

VARIABLES
  queued_paths, was_fuzzed, favored, fs_redundant, fav_factor, trace_mini, tc_ref,
  top_rated, score_changed, queued_favored, pending_favored, pending_not_fuzzed,
  loop, i, q, trace_bits, temp_v, scored

Rated  == INSTANCE TopRated WITH Stable <- FALSE
Steady == INSTANCE TopRated WITH Stable <- TRUE    \* for a target that is

Bytes  == 0 .. MAP_SIZE - 1
Ids    == 1 .. MaxPaths
AllTraces == [Bytes -> 0 .. MaxCount]
Hit(t) == {b \in Bytes : t[b] # 0}
None   == <<>>    \* no checksum yet
Null   == 0       \* no queue entry

ASSUME CorpusAssumption ==
  /\ MAP_SIZE \in Nat /\ MaxPaths \in Nat /\ Factors \subseteq Nat
  /\ MaxCount \in Nat /\ Seeds \in 1 .. MaxPaths
  /\ CAL_CYCLES \in Nat \ {0} /\ CAL_CYCLES_LONG \in Nat /\ CAL_CYCLES <= CAL_CYCLES_LONG
  /\ CAL_CHANCES \in Nat \ {0, 1} /\ FewPaths \in Nat
  /\ AFL_IMPORT_FIRST \in BOOLEAN
  /\ Natures \subseteq [wobbly : SUBSET Bytes, counts : [Bytes -> 0 .. MaxCount]]

VARIABLES
  \* further fields of struct queue_entry, and what the entry does when run
  base, exec_cksum, cal_failed, trim_done, has_new_cov, var_behavior,
  \* globals: virgin_bits as the pairs already seen, the last run's trace
  virgin_bits, var_bytes, trace, queue_cur, queued_with_cov, queued_variable, stop_soon,
  \* control: where the main loop is; the entry in calibrate_case() and where it returns
  pc, cal, ret,
  queue_cycle,    \* 0 before the first cycle, 1 from then on: what comes later only shows
  target,         \* what the target is like
  failed,         \* history: has a calibration failed?
  late            \* history: pairs first seen since the cull, before an entry is picked

rated   == <<queued_paths, was_fuzzed, favored, fs_redundant, fav_factor, trace_mini, tc_ref,
             top_rated, score_changed, queued_favored, pending_favored, pending_not_fuzzed,
             loop, i, q, trace_bits, temp_v, scored>>
fields  == <<base, exec_cksum, cal_failed, trim_done, has_new_cov, var_behavior>>
globals == <<virgin_bits, var_bytes, trace, queued_with_cov, queued_variable>>
control == <<queue_cur, stop_soon, pc, cal, ret>>
nature  == <<queue_cycle, target, failed, late>>
vars    == <<rated, fields, globals, control, nature>>

Init ==
  /\ Rated!Init
  /\ base \in [Ids -> {[b \in Bytes |-> 0]}]
  /\ exec_cksum = [e \in Ids |-> None]
  /\ cal_failed = [e \in Ids |-> 0]
  /\ trim_done = [e \in Ids |-> FALSE]
  /\ has_new_cov = [e \in Ids |-> FALSE]
  /\ var_behavior = [e \in Ids |-> FALSE]
  /\ virgin_bits = {} /\ var_bytes = {} /\ trace = [b \in Bytes |-> 0]
  /\ queued_with_cov = 0 /\ queued_variable = 0
  /\ queue_cur = Null /\ stop_soon = FALSE
  /\ pc = "read" /\ cal = Null /\ ret = "dryrun"
  /\ queue_cycle = 0 /\ target \in Natures /\ failed = FALSE /\ late = {}
-----------------------------------------------------------------------------
wobbly  == target.wobbly

(* What classify_counts() makes of the hit counts: a class for each byte.  *)
Traces  == {t \in AllTraces : \A b \in Bytes : t[b] <= target.counts[b]}

(* What runs of an input with trace t can leave in the map. *)
Runs(t) == {r \in Traces : \A b \in Bytes \ wobbly : r[b] = t[b]}

(* has_new_bits(virgin_bits), for one trace or for several in a row. *)
Pairs(t)       == {<<b, t[b]>> : b \in Hit(t)}
PairsOf(ts)    == UNION {Pairs(t) : t \in ts}
Pristine(b)    == \A n \in 1 .. MaxCount : <<b, n>> \notin virgin_bits
HasNewBits(ts) == IF \E t \in ts : \E b \in Hit(t) : Pristine(b) THEN 2
                  ELSE IF PairsOf(ts) \subseteq virgin_bits THEN 0 ELSE 1

At(label) == pc = label /\ loop = "client"

(* read_testcases(): one add_to_queue() per file. *)
ReadTestcase ==
  /\ At("read")
  /\ Rated!AddToQueue
  /\ \E t \in Traces : Hit(t) # {} /\ base' = [base EXCEPT ![queued_paths'] = t]
  /\ pc' = IF queued_paths' = Seeds THEN "dryrun" ELSE "read"
  /\ queue_cur' = IF queued_paths' = Seeds THEN 1 ELSE Null
  /\ UNCHANGED <<exec_cksum, cal_failed, trim_done, has_new_cov, var_behavior, globals,
                 stop_soon, cal, ret, nature>>

(* perform_dry_run(): the session ends if no test case could be calibrated. *)
DryRun ==
  /\ At("dryrun")
  /\ IF queue_cur = Null \/ stop_soon
     THEN /\ pc' = IF stop_soon \/ \E e \in Rated!Queued : cal_failed[e] < CAL_CHANCES
                   THEN "start" ELSE "exit"
          /\ queue_cur' = Null /\ UNCHANGED <<cal, ret>>
     ELSE pc' = "calibrate" /\ cal' = queue_cur /\ ret' = "dryrun" /\ UNCHANGED queue_cur
  /\ UNCHANGED <<rated, fields, globals, stop_soon, nature>>
-----------------------------------------------------------------------------
(* calibrate_case(): n runs end as they should and leave traces r[1..n];   *)
(* then the calibration is complete, or the next run fails.                *)
FirstRun    == exec_cksum[cal] = None
Cksum(n, r) == IF FirstRun /\ n > 0 THEN r[1] ELSE exec_cksum[cal]
Odd(n, r)   == {j \in 1 .. n : r[j] # Cksum(n, r)}
FirstTrace(n, r) == IF FirstRun /\ n > 0 THEN r[1] ELSE trace
Looked(n, r)     == {r[j] : j \in Odd(n, r)} \cup (IF FirstRun /\ n > 0 THEN {r[1]} ELSE {})
Differing(n, r)  == {b \in Bytes : \E j \in Odd(n, r) : FirstTrace(n, r)[b] # r[j][b]}

(* A byte not known to vary lengthens the calibration. *)
StageMax(n, r)  == IF Differing(n, r) \subseteq var_bytes THEN CAL_CYCLES ELSE CAL_CYCLES_LONG

(* The calibrations that can happen: none goes on after it was complete.   *)
CanHappen(n, r) ==
  /\ n > 0 => Hit(r[1]) # {}
  /\ n > CAL_CYCLES => StageMax(CAL_CYCLES, r) = CAL_CYCLES_LONG

(* What runs show while the queue is culled and no entry picked yet. *)
NoteLate(at) == late' = IF at = "import" THEN late \cup (virgin_bits' \ virgin_bits) ELSE late

(* Mutant: the entry is counted as variable whenever a calibration says so. *)
ObserveVariableAgain(n, r) ==
  LET new_bits == HasNewBits(Looked(n, r)) IN
  /\ exec_cksum' = [exec_cksum EXCEPT ![cal] = Cksum(n, r)]
  /\ virgin_bits' = virgin_bits \cup PairsOf(Looked(n, r))
  /\ var_bytes' = var_bytes \cup Differing(n, r)
  /\ has_new_cov' = [has_new_cov EXCEPT ![cal] = @ \/ new_bits = 2]
  /\ queued_with_cov' = queued_with_cov + (IF new_bits = 2 /\ ~has_new_cov[cal] THEN 1 ELSE 0)
  /\ var_behavior' = [var_behavior EXCEPT ![cal] = @ \/ Odd(n, r) # {}]
  /\ queued_variable' = queued_variable + (IF Odd(n, r) # {} THEN 1 ELSE 0)

Observe(n, r) ==
  LET new_bits == HasNewBits(Looked(n, r)) IN
  /\ exec_cksum' = [exec_cksum EXCEPT ![cal] = Cksum(n, r)]
  /\ virgin_bits' = virgin_bits \cup PairsOf(Looked(n, r))
  /\ var_bytes' = var_bytes \cup Differing(n, r)
  /\ has_new_cov' = [has_new_cov EXCEPT ![cal] = @ \/ new_bits = 2]
  /\ queued_with_cov' = queued_with_cov + (IF new_bits = 2 /\ ~has_new_cov[cal] THEN 1 ELSE 0)
  /\ var_behavior' = [var_behavior EXCEPT ![cal] = @ \/ Odd(n, r) # {}]
  /\ queued_variable' =
       queued_variable + (IF Odd(n, r) # {} /\ ~var_behavior[cal] THEN 1 ELSE 0)

(* Mutant: cal_failed is not reset. *)
CalibratedStaysFailed ==
  /\ At("calibrate") /\ ~stop_soon
  /\ \E n \in CAL_CYCLES .. CAL_CYCLES_LONG : \E r \in [1 .. n -> Runs(base[cal])] :
       /\ CanHappen(n, r) /\ n = StageMax(n, r)
       /\ Observe(n, r)
       /\ trace' = r[n]
       /\ \E f \in Factors : Rated!CallScore(cal, f, Hit(r[n]))
  /\ cal_failed' = [cal_failed EXCEPT ![cal] = @ + 1]
  /\ pc' = ret
  /\ queue_cur' = IF ret # "dryrun" THEN queue_cur
                  ELSE IF cal = queued_paths THEN Null ELSE cal + 1
  /\ NoteLate(ret)
  /\ UNCHANGED <<base, trim_done, stop_soon, cal, ret, queue_cycle, target, failed>>

(* All runs went well: the entry is timed and scored with the last trace.  *)
Calibrated ==
  /\ At("calibrate") /\ ~stop_soon
  /\ \E n \in CAL_CYCLES .. CAL_CYCLES_LONG : \E r \in [1 .. n -> Runs(base[cal])] :
       /\ CanHappen(n, r) /\ n = StageMax(n, r)
       /\ Observe(n, r)
       /\ trace' = r[n]
       /\ \E f \in Factors : Rated!CallScore(cal, f, Hit(r[n]))
  /\ cal_failed' = [cal_failed EXCEPT ![cal] = 0]
  /\ pc' = ret
  /\ queue_cur' = IF ret # "dryrun" THEN queue_cur
                  ELSE IF cal = queued_paths THEN Null ELSE cal + 1
  /\ NoteLate(ret)
  /\ UNCHANGED <<base, trim_done, stop_soon, cal, ret, queue_cycle, target, failed>>

(* A run fails, or the session is stopped before or meanwhile.  The dry    *)
(* run then gives the entry up, with -t nn+ or AFL_SKIP_CRASHES, or ends   *)
(* the session; the other callers leave it for a later calibration.        *)
CalibrationFails ==
  /\ At("calibrate")
  /\ stop_soon' \in {stop_soon, TRUE}
  /\ \E n \in 0 .. CAL_CYCLES_LONG - 1 : \E r \in [1 .. n -> Runs(base[cal])], t \in Traces :
       /\ CanHappen(n, r) /\ n < StageMax(n, r)
       /\ stop_soon => n = 0
       /\ Observe(n, r)
       /\ trace' = t
  /\ \/ /\ ret # "dryrun" \/ stop_soon'
        /\ cal_failed' = [cal_failed EXCEPT ![cal] = @ + 1]
        /\ pc' = IF ret = "trim" THEN "abandon" ELSE ret
        /\ UNCHANGED queue_cur
     \/ /\ ret = "dryrun" /\ ~stop_soon'
        /\ cal_failed' = [cal_failed EXCEPT ![cal] = CAL_CHANCES]
        /\ pc' = ret
        /\ queue_cur' = IF cal = queued_paths THEN Null ELSE cal + 1
     \/ /\ ret = "dryrun" /\ ~stop_soon'
        /\ cal_failed' = [cal_failed EXCEPT ![cal] = @ + 1]
        /\ pc' = "exit" /\ UNCHANGED queue_cur
  /\ failed' = TRUE /\ NoteLate(ret)
  /\ UNCHANGED <<rated, base, trim_done, cal, ret, queue_cycle, target>>
-----------------------------------------------------------------------------
(* The head of the main loop: cull_queue(), then the next entry. *)
CullQueue ==
  /\ At("start") \/ At("loop")
  /\ Rated!CallCull
  /\ UNCHANGED <<fields, globals, control, nature>>

StartFuzzing ==
  /\ At("start") /\ ~score_changed
  /\ pc' = IF stop_soon THEN "exit" ELSE "loop"
  /\ UNCHANGED <<rated, fields, globals, queue_cur, stop_soon, cal, ret, nature>>

(* Mutant: the queue is not culled first. *)
NextEntryUnculled ==
  /\ At("loop")
  /\ queue_cur' = IF queue_cur = Null THEN 1 ELSE queue_cur
  /\ pc' = IF AFL_IMPORT_FIRST /\ queue_cycle = 0 THEN "import" ELSE "entry"
  /\ queue_cycle' = 1 /\ late' = {}
  /\ UNCHANGED <<rated, fields, globals, stop_soon, cal, ret, target, failed>>

(* With AFL_IMPORT_FIRST the first cycle starts with what peers have.      *)
NextEntry ==
  /\ At("loop") /\ ~score_changed
  /\ queue_cur' = IF queue_cur = Null THEN 1 ELSE queue_cur
  /\ pc' = IF AFL_IMPORT_FIRST /\ queue_cycle = 0 THEN "import" ELSE "entry"
  /\ queue_cycle' = 1 /\ late' = {}
  /\ UNCHANGED <<rated, fields, globals, stop_soon, cal, ret, target, failed>>

ImportEnds ==
  /\ At("import")
  /\ pc' = "entry"
  /\ UNCHANGED <<rated, fields, globals, queue_cur, stop_soon, cal, ret, nature>>

(* Mutant: the test of was_fuzzed is the wrong way round. *)
MaySkipUnfuzzed == IF pending_favored > 0
                   THEN ~was_fuzzed[queue_cur] \/ ~favored[queue_cur]
                   ELSE ~favored[queue_cur] /\ queued_paths > FewPaths

(* fuzz_one(): the entry may be skipped, by chance. *)
MaySkip == IF pending_favored > 0
           THEN was_fuzzed[queue_cur] \/ ~favored[queue_cur]
           ELSE ~favored[queue_cur] /\ queued_paths > FewPaths

SkipEntry ==
  /\ At("entry") /\ MaySkip
  /\ pc' = "next"
  /\ UNCHANGED <<rated, fields, globals, queue_cur, stop_soon, cal, ret, nature>>

(* Otherwise a failed calibration is tried again, while it has chances.    *)
FuzzOne ==
  /\ At("entry")
  /\ IF cal_failed[queue_cur] = 0 THEN pc' = "trim" /\ UNCHANGED <<cal, ret>>
     ELSE IF cal_failed[queue_cur] < CAL_CHANCES
     THEN pc' = "calibrate" /\ cal' = queue_cur /\ ret' = "trim"
     ELSE pc' = "abandon" /\ UNCHANGED <<cal, ret>>
  /\ UNCHANGED <<rated, fields, globals, queue_cur, stop_soon, nature>>

(* Mutant: the entry is scored for the last trace instead of the clean one. *)
TrimCaseLastTrace ==
  /\ At("trim") /\ ~stop_soon
  /\ IF trim_done[queue_cur] THEN UNCHANGED <<rated, trim_done, trace>>
     ELSE /\ trim_done' = [trim_done EXCEPT ![queue_cur] = TRUE]
          /\ trace' \in Traces
          /\ \/ \E f \in Factors : /\ f <= fav_factor[queue_cur]
                                   /\ Rated!CallScore(queue_cur, f, Hit(trace'))
             \/ UNCHANGED rated
  /\ pc' = "stages"
  /\ UNCHANGED <<base, exec_cksum, cal_failed, has_new_cov, var_behavior, virgin_bits, var_bytes,
                 queued_with_cov, queued_variable, queue_cur, stop_soon, cal, ret, nature>>

(* trim_case(), once per entry: where a shorter input leaves the very      *)
(* trace of exec_cksum the entry is cut and scored again for that trace.   *)
TrimCase ==
  /\ At("trim") /\ ~stop_soon
  /\ IF trim_done[queue_cur] THEN UNCHANGED <<rated, trim_done, trace>>
     ELSE /\ trim_done' = [trim_done EXCEPT ![queue_cur] = TRUE]
          /\ \/ /\ \E f \in Factors :
                     /\ f <= fav_factor[queue_cur]
                     /\ Rated!CallScore(queue_cur, f, Hit(exec_cksum[queue_cur]))
                /\ trace' = exec_cksum[queue_cur]
             \/ UNCHANGED rated /\ trace' \in Traces
  /\ pc' = "stages"
  /\ UNCHANGED <<base, exec_cksum, cal_failed, has_new_cov, var_behavior, virgin_bits, var_bytes,
                 queued_with_cov, queued_variable, queue_cur, stop_soon, cal, ret, nature>>

(* A stop ends the trimming; what it cut off so far is never used.         *)
TrimStopped ==
  /\ At("trim") /\ stop_soon
  /\ pc' = IF trim_done[queue_cur] THEN "stages" ELSE "abandon"
  /\ UNCHANGED <<rated, fields, globals, queue_cur, stop_soon, cal, ret, nature>>
-----------------------------------------------------------------------------
(* save_if_interesting() for an execution that ended as it should, of a    *)
(* mutated input (common_fuzz_stuff()) or of a peer's (sync_fuzzers()).    *)
SaveIfInteresting ==
  /\ pc \in {"stages", "sync", "import"} /\ loop = "client" /\ ~stop_soon
  /\ \E t \in Traces : \E r \in Runs(t) :
       LET hnb == HasNewBits({r}) IN
       /\ Hit(t) # {} /\ hnb > 0
       /\ Rated!AddToQueue
       /\ base' = [base EXCEPT ![queued_paths'] = t]
       /\ exec_cksum' = [exec_cksum EXCEPT ![queued_paths'] = r]
       /\ virgin_bits' = virgin_bits \cup Pairs(r)
       /\ has_new_cov' = [has_new_cov EXCEPT ![queued_paths'] = hnb = 2]
       /\ queued_with_cov' = queued_with_cov + (IF hnb = 2 THEN 1 ELSE 0)
       /\ trace' = r
  /\ pc' = "calibrate" /\ cal' = queued_paths' /\ ret' = pc
  /\ NoteLate(pc)
  /\ UNCHANGED <<cal_failed, trim_done, var_behavior, var_bytes, queued_variable, queue_cur,
                 stop_soon, queue_cycle, target, failed>>

(* An execution that shows nothing new only leaves its trace. *)
NothingNew ==
  /\ pc \in {"stages", "sync", "import"} /\ loop = "client" /\ ~stop_soon
  /\ trace' \in {t \in Traces : HasNewBits({t}) = 0}
  /\ UNCHANGED <<rated, fields, virgin_bits, var_bytes, queued_with_cov, queued_variable,
                 control, nature>>

(* The stages end, or a stop or skip request cuts them short. *)
StagesEnd ==
  /\ At("stages")
  /\ pc' = "abandon"
  /\ UNCHANGED <<rated, fields, globals, queue_cur, stop_soon, cal, ret, nature>>

(* abandon_entry: fuzz_one() is done with the entry, and only one that did *)
(* not fail its calibration counts as fuzzed.                              *)
AbandonEntry ==
  /\ At("abandon")
  /\ IF ~stop_soon /\ cal_failed[queue_cur] = 0 /\ ~was_fuzzed[queue_cur]
     THEN Rated!MarkFuzzed(queue_cur)
     ELSE UNCHANGED rated
  /\ pc' \in (IF cal_failed[queue_cur] = 0 /\ ~stop_soon THEN {"sync", "next"} ELSE {"next"})
  /\ UNCHANGED <<fields, globals, queue_cur, stop_soon, cal, ret, nature>>

SyncEnds ==
  /\ At("sync")
  /\ pc' = "next"
  /\ UNCHANGED <<rated, fields, globals, queue_cur, stop_soon, cal, ret, nature>>

(* queue_cur = queue_cur->next *)
Advance ==
  /\ At("next") /\ ~stop_soon
  /\ queue_cur' = IF queue_cur = queued_paths THEN Null ELSE queue_cur + 1
  /\ pc' = "loop"
  /\ UNCHANGED <<rated, fields, globals, stop_soon, cal, ret, nature>>

(* A signal asks for the end; the main loop leaves at its next check.      *)
Stop ==
  /\ ~stop_soon /\ pc # "exit"
  /\ stop_soon' = TRUE
  /\ UNCHANGED <<rated, fields, globals, queue_cur, pc, cal, ret, nature>>

Leave ==
  /\ At("next") /\ stop_soon
  /\ pc' = "exit"
  /\ UNCHANGED <<rated, fields, globals, queue_cur, stop_soon, cal, ret, nature>>

ScoringStep ==
  /\ Rated!ScoreByte \/ Rated!ScoreReturns \/ Rated!CullByte \/ Rated!CullReturns
  /\ UNCHANGED <<fields, globals, control, nature>>
-----------------------------------------------------------------------------
MainStep ==
  \/ ReadTestcase \/ DryRun \/ Calibrated \/ CalibrationFails
  \/ CullQueue \/ StartFuzzing \/ NextEntry \/ ImportEnds \/ SkipEntry \/ FuzzOne
  \/ TrimCase \/ TrimStopped
  \/ StagesEnd \/ AbandonEntry \/ SyncEnds \/ Advance \/ Leave
  \/ ScoringStep

Next == MainStep \/ SaveIfInteresting \/ NothingNew \/ Stop

Spec == Init /\ [][Next]_vars

(* The process runs; the stages of an entry, and a synchronisation, are    *)
(* finite loops.                                                           *)
FairSpec == Spec /\ WF_vars(MainStep)
-----------------------------------------------------------------------------
(* The callers of update_bitmap_score() and cull_queue() keep to what      *)
(* TopRated.tla allows them: an entry is scored only when it is queued, it *)
(* only gets smaller, and where the target is stable calibration and       *)
(* trimming score it for the same bytes.                                   *)
KeepsRating == Rated!Init /\ [][Rated!Next /\ (wobbly = {} => Steady!Next)]_rated

(* Only entries whose calibration succeeded compete for slots, so no entry *)
(* can be favored and yet never count as fuzzed.                           *)
CalibratedCompete ==
  \A e \in Ids : favored[e] \/ Rated!Slots(e) # {} => cal_failed[e] = 0

(* The statistics of new coverage and of variable paths count every entry  *)
(* once, whichever of save_if_interesting() and the calibrations of an     *)
(* entry notices first.                                                    *)
StatsExact ==
  /\ queued_with_cov = Cardinality({e \in Ids : has_new_cov[e]})
  /\ queued_variable = Cardinality({e \in Ids : var_behavior[e]})

(* queued_favored, "Paths deemed favorable" on the screen and in the plot, *)
(* is the number of favored entries.                                       *)
FavoredCounted == loop = "client" => queued_favored = Cardinality({e \in Ids : favored[e]})

Covered(p) == \E e \in Rated!Queued : favored[e] /\ p[1] \in scored[e]

(* docs/technical_details.txt: the favored entries still cover every tuple *)
(* seen so far, whenever fuzz_one() picks an entry.                        *)
CoverSeen == At("entry") => \A p \in virgin_bits : Covered(p)

(* The same for a target that is stable and lets no calibration fail, but  *)
(* for what peers gave between the cull and the first entry.               *)
CoverSteady == wobbly = {} /\ ~failed /\ At("entry") => \A p \in virgin_bits \ late : Covered(p)

(* A favored entry is not passed over for ever: it is fuzzed, unless it is *)
(* not favored any more or the session ends.                               *)
FavoredFuzzed ==
  \A e \in Ids : favored[e] ~> was_fuzzed[e] \/ ~favored[e] \/ pc = "exit"
=============================================================================
