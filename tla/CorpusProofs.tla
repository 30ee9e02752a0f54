---------------------------- MODULE CorpusProofs ----------------------------
(***************************************************************************)
(* Only calibrated entries compete, the statistics count each entry once,  *)
(* and the main loop keeps to what TopRated assumes of its callers: for    *)
(* queues, maps and targets of any kind.                                   *)
(***************************************************************************)
EXTENDS Corpus, FiniteSetTheorems, TLAPS

Queued == 1 .. queued_paths
InEntry == {"import", "entry", "trim", "stages", "abandon", "sync", "next"}
Dry == pc = "dryrun" \/ (pc = "calibrate" /\ ret = "dryrun")

Types ==
  /\ queued_paths \in 0 .. MaxPaths
  /\ favored \in [Ids -> BOOLEAN]
  /\ scored \in [Ids -> SUBSET Bytes]
  /\ top_rated \in [Bytes -> Ids \cup {0}]
  /\ loop \in {"client", "score", "cull"}
  /\ i \in 0 .. MAP_SIZE
  /\ cal_failed \in [Ids -> Nat]
  /\ has_new_cov \in [Ids -> BOOLEAN] /\ var_behavior \in [Ids -> BOOLEAN]
  /\ base \in [Ids -> AllTraces]
  /\ exec_cksum \in [Ids -> AllTraces \cup {None}]
  /\ stop_soon \in BOOLEAN

(* Where the main loop is, and which entry it works on.                    *)
Control ==
  /\ pc \in InEntry \cup {"read", "dryrun", "calibrate", "start", "loop", "exit"}
  /\ ret \in {"dryrun", "trim", "stages", "sync", "import"}
  /\ queue_cur \in {Null} \cup Queued
  /\ pc # "read" => queued_paths >= 1
  /\ pc = "read" => queue_cur = Null
  /\ pc \in InEntry \/ (pc = "calibrate" /\ ret # "dryrun") => queue_cur # Null
  /\ pc = "calibrate" => cal \in Queued /\ (ret \in {"dryrun", "trim"} => cal = queue_cur)

(* Who was never scored: entries to come, those the dry run has not come   *)
(* to, and the one being calibrated.                                       *)
Unscored ==
  /\ \A e \in Ids : e \notin Queued =>
       scored[e] = {} /\ exec_cksum[e] = None /\ ~has_new_cov[e] /\ ~var_behavior[e]
  /\ pc = "read" => \A e \in Ids : scored[e] = {}
  /\ Dry /\ queue_cur # Null => \A e \in Ids : e >= queue_cur => scored[e] = {}
  /\ pc = "calibrate" => scored[cal] = {}

(* Winners and favored entries were scored, and only calibrated ones are.  *)
Winners ==
  /\ \A b \in Bytes : top_rated[b] # 0 => scored[top_rated[b]] # {}
  /\ \A e \in Ids : favored[e] => scored[e] # {}
  /\ loop = "score" => q \in Ids /\ trace_bits \subseteq scored[q]
  /\ \A e \in Ids : scored[e] # {} => cal_failed[e] = 0
  /\ pc = "trim" => cal_failed[queue_cur] = 0

(* What a target without variable bytes lets the entries show.             *)
Same ==
  wobbly = {} =>
    \A e \in Queued : /\ exec_cksum[e] \in {None, base[e]}
                      /\ scored[e] # {} => exec_cksum[e] = base[e] /\ scored[e] = Hit(base[e])

(* An entry that never failed was calibrated, once the dry run came to it. *)
Known ==
  wobbly = {} =>
    \A e \in Queued :
      \/ cal_failed[e] # 0 \/ exec_cksum[e] = base[e]
      \/ pc \in {"read", "exit"} \/ (pc = "start" /\ stop_soon)
      \/ Dry /\ queue_cur # Null /\ e >= queue_cur

IInv == Types /\ Control /\ Unscored /\ Winners /\ Same /\ Known /\ StatsExact
---------------------------------------------------------------------------
\* One more entry is counted if it was not among them before.
LEMMA CountOne ==
  ASSUME NEW S \in SUBSET Ids, NEW c \in Ids
  PROVE  /\ Cardinality(S) \in Nat
         /\ Cardinality(S \cup {c}) = Cardinality(S) + (IF c \in S THEN 0 ELSE 1)
<1>1. IsFiniteSet(Ids)
  BY CorpusAssumption, FS_Interval DEF Ids
<1>2. IsFiniteSet(S) /\ Cardinality(S) \in Nat
  BY <1>1, FS_Subset, FS_CardinalityType
<1>3. CASE c \in S
  <2>1. S \cup {c} = S
    BY <1>3
  <2>2. Cardinality(S \cup {c}) = Cardinality(S)
    BY <2>1, Zenon
  <2> QED
    BY <1>2, <1>3, <2>2
<1>4. CASE c \notin S
  BY <1>2, <1>4, FS_AddElement
<1> QED
  BY <1>3, <1>4

\* Without variable bytes an input leaves the same trace in every run.
LEMMA RunsSame ==
  ASSUME wobbly = {}, NEW t \in AllTraces, NEW r \in Runs(t)
  PROVE  r = t
  BY DEF Runs, Traces, AllTraces

\* What calibrate_case() makes of the runs (2588-2665) keeps types and statistics.
LEMMA ObserveKeeps ==
  ASSUME Types, StatsExact, NEW n \in Nat, NEW r \in [1 .. n -> Runs(base[cal])],
         cal \in Ids, Observe(n, r)
  PROVE  /\ exec_cksum' \in [Ids -> AllTraces \cup {None}]
         /\ has_new_cov' \in [Ids -> BOOLEAN] /\ var_behavior' \in [Ids -> BOOLEAN]
         /\ \A e \in Ids \ {cal} : /\ exec_cksum'[e] = exec_cksum[e]
                                   /\ has_new_cov'[e] = has_new_cov[e]
                                   /\ var_behavior'[e] = var_behavior[e]
         /\ wobbly = {} /\ exec_cksum[cal] \in {None, base[cal]} =>
              /\ exec_cksum'[cal] \in {None, base[cal]}
              /\ n > 0 => exec_cksum'[cal] = base[cal]
         /\ StatsExact'
<1> DEFINE new == HasNewBits(Looked(n, r)) = 2
           odd == Odd(n, r) # {}
<1>1. /\ exec_cksum' = [exec_cksum EXCEPT ![cal] = Cksum(n, r)]
      /\ has_new_cov' = [has_new_cov EXCEPT ![cal] = has_new_cov[cal] \/ new]
      /\ queued_with_cov' = queued_with_cov + (IF new /\ ~has_new_cov[cal] THEN 1 ELSE 0)
      /\ var_behavior' = [var_behavior EXCEPT ![cal] = var_behavior[cal] \/ odd]
      /\ queued_variable' = queued_variable + (IF odd /\ ~var_behavior[cal] THEN 1 ELSE 0)
  BY DEF Observe
<1>2. new \in BOOLEAN /\ odd \in BOOLEAN
  OBVIOUS
<1> HIDE DEF new, odd
<1>3. /\ has_new_cov' \in [Ids -> BOOLEAN]
      /\ queued_with_cov' = Cardinality({e \in Ids : has_new_cov'[e]})
  <2> DEFINE S == {e \in Ids : has_new_cov[e]}
             T == {e \in Ids : has_new_cov'[e]}
  <2>1. has_new_cov \in [Ids -> BOOLEAN] /\ queued_with_cov = Cardinality(S)
    BY DEF Types, StatsExact
  <2>2. has_new_cov' \in [Ids -> BOOLEAN]
    BY <1>1, <1>2, <2>1
  <2>3. CASE new
    <3>1. T = S \cup {cal}
      BY <1>1, <2>1, <2>3
    <3>2. S \in SUBSET Ids /\ (cal \in S <=> has_new_cov[cal])
      OBVIOUS
    <3>3. queued_with_cov' = Cardinality(S) + (IF cal \in S THEN 0 ELSE 1)
      BY <1>1, <2>1, <2>3, <3>2
    <3> QED
      BY <2>2, <3>1, <3>2, <3>3, CountOne
  <2>4. CASE ~new
    <3>1. T = S
      BY <1>1, <2>1, <2>4
    <3>2. S \in SUBSET Ids
      OBVIOUS
    <3>3. Cardinality(S) \in Nat
      BY <3>2, CountOne
    <3>4. queued_with_cov' = Cardinality(S)
      BY <1>1, <2>1, <2>4, <3>3
    <3> QED
      BY <2>2, <3>1, <3>4, Zenon
  <2> QED
    BY <2>3, <2>4, <1>2
<1>4. /\ var_behavior' \in [Ids -> BOOLEAN]
      /\ queued_variable' = Cardinality({e \in Ids : var_behavior'[e]})
  <2> DEFINE S == {e \in Ids : var_behavior[e]}
             T == {e \in Ids : var_behavior'[e]}
  <2>1. var_behavior \in [Ids -> BOOLEAN] /\ queued_variable = Cardinality(S)
    BY DEF Types, StatsExact
  <2>2. var_behavior' \in [Ids -> BOOLEAN]
    BY <1>1, <1>2, <2>1
  <2>3. CASE odd
    <3>1. T = S \cup {cal}
      BY <1>1, <2>1, <2>3
    <3>2. S \in SUBSET Ids /\ (cal \in S <=> var_behavior[cal])
      OBVIOUS
    <3>3. queued_variable' = Cardinality(S) + (IF cal \in S THEN 0 ELSE 1)
      BY <1>1, <2>1, <2>3, <3>2
    <3> QED
      BY <2>2, <3>1, <3>2, <3>3, CountOne
  <2>4. CASE ~odd
    <3>1. T = S
      BY <1>1, <2>1, <2>4
    <3>2. S \in SUBSET Ids
      OBVIOUS
    <3>3. Cardinality(S) \in Nat
      BY <3>2, CountOne
    <3>4. queued_variable' = Cardinality(S)
      BY <1>1, <2>1, <2>4, <3>3
    <3> QED
      BY <2>2, <3>1, <3>4, Zenon
  <2> QED
    BY <2>3, <2>4, <1>2
<1>5. n > 0 => r[1] \in Runs(base[cal]) /\ r[1] \in AllTraces
  BY DEF Runs, Traces
<1>6. Cksum(n, r) \in AllTraces \cup {None}
  BY <1>5 DEF Cksum, Types
<1>7. wobbly = {} /\ exec_cksum[cal] \in {None, base[cal]} =>
        Cksum(n, r) \in {None, base[cal]} /\ (n > 0 => Cksum(n, r) = base[cal])
  BY <1>5, RunsSame DEF Cksum, FirstRun, Types
<1> QED
  BY <1>1, <1>3, <1>4, <1>6, <1>7 DEF Types, StatsExact

---------------------------------------------------------------------------
\* The session starts without entries.
LEMMA InitIInv == Init => IInv
<1> SUFFICES ASSUME Init PROVE IInv
  OBVIOUS
<1>1. Rated!Init
  BY DEF Init
<1>2. Types
  <2>1. base \in [Ids -> AllTraces]
    BY CorpusAssumption DEF Init, AllTraces
  <2>2. /\ 0 \in 0 .. MAP_SIZE /\ 0 \in 0 .. MaxPaths
        /\ stop_soon = FALSE /\ cal_failed = [e \in Ids |-> 0]
        /\ has_new_cov = [e \in Ids |-> FALSE] /\ var_behavior = [e \in Ids |-> FALSE]
        /\ exec_cksum = [e \in Ids |-> None]
    BY CorpusAssumption DEF Init
  <2> QED
    BY <1>1, <2>1, <2>2
       DEF Rated!Init, Types, Rated!Ids, Rated!Bytes, Rated!Nobody, Rated!NoTrace, Ids, Bytes
<1>3. Control /\ Unscored /\ Winners /\ Same /\ Known
  BY <1>1, CorpusAssumption
     DEF Init, Rated!Init, Rated!Ids, Rated!Bytes, Rated!Nobody, Ids, Bytes, Control, Unscored,
         Winners, Same, Known, Queued, InEntry, Dry, Null
<1>4. StatsExact
  <2>1. {e \in Ids : has_new_cov[e]} = {} /\ {e \in Ids : var_behavior[e]} = {}
    BY DEF Init
  <2> QED
    BY <2>1, FS_EmptySet DEF Init, StatsExact
<1> QED
  BY <1>2, <1>3, <1>4 DEF IInv

---------------------------------------------------------------------------
\* What stays true while no entry is added, calibrated or scored.
LEMMA Frame ==
  ASSUME IInv, UNCHANGED <<queued_paths, favored, scored, top_rated, loop, i, q, trace_bits>>,
         UNCHANGED <<cal_failed, has_new_cov, var_behavior, base, exec_cksum>>,
         UNCHANGED <<queued_with_cov, queued_variable, target>>, stop_soon' \in BOOLEAN
  PROVE  /\ Types' /\ Same' /\ StatsExact' /\ Queued' = Queued
         /\ (pc' = "trim" => cal_failed[queue_cur'] = 0) => Winners'
  BY DEF IInv, Types, Same, StatsExact, Winners, Queued, wobbly, Runs, Traces

\* The steps of the main loop that only decide where it goes on.
LEMMA DecisionSteps ==
  ASSUME IInv, \/ DryRun \/ StartFuzzing \/ NextEntry \/ ImportEnds \/ SkipEntry \/ FuzzOne
               \/ TrimStopped \/ StagesEnd \/ SyncEnds \/ Advance \/ Leave \/ Stop \/ NothingNew
  PROVE  IInv'
<1> USE DEF At
<1>1. /\ UNCHANGED <<queued_paths, favored, scored, top_rated, loop, i, q, trace_bits>>
      /\ UNCHANGED <<cal_failed, has_new_cov, var_behavior, base, exec_cksum>>
      /\ UNCHANGED <<queued_with_cov, queued_variable, target>>
  BY DEF DryRun, StartFuzzing, NextEntry, ImportEnds, SkipEntry, FuzzOne, TrimStopped, StagesEnd,
         SyncEnds, Advance, Leave, Stop, NothingNew, rated, fields, globals, control, nature
<1>0. stop_soon' \in BOOLEAN
  BY DEF IInv, Types, DryRun, StartFuzzing, NextEntry, ImportEnds, SkipEntry, FuzzOne, TrimStopped,
         StagesEnd, SyncEnds, Advance, Leave, Stop, NothingNew, control
<1>2. Types' /\ Same' /\ StatsExact' /\ Queued' = Queued
  BY <1>0, <1>1, Frame
<1>3. pc' = "trim" => cal_failed[queue_cur'] = 0
  BY DEF IInv, Winners, DryRun, StartFuzzing, NextEntry, ImportEnds, SkipEntry, FuzzOne,
         TrimStopped, StagesEnd, SyncEnds, Advance, Leave, Stop, NothingNew, control
<1>4. Winners'
  BY <1>0, <1>1, <1>3, Frame
<1> USE DEF IInv, Types, Control, Unscored, Winners, Known, wobbly, Queued, InEntry, Dry, Null, Ids
<1>5. CASE DryRun
  BY <1>1, <1>2, <1>4, <1>5, CorpusAssumption DEF DryRun, Rated!Queued
<1>6. CASE FuzzOne
  BY <1>1, <1>2, <1>4, <1>6, CorpusAssumption DEF FuzzOne
<1>7. CASE StartFuzzing \/ NextEntry \/ ImportEnds \/ SkipEntry \/ TrimStopped
           \/ StagesEnd
  BY <1>1, <1>2, <1>4, <1>7, CorpusAssumption
     DEF StartFuzzing, NextEntry, ImportEnds, SkipEntry, TrimStopped, StagesEnd
<1>8. CASE SyncEnds \/ Advance \/ Leave \/ Stop \/ NothingNew
  BY <1>1, <1>2, <1>4, <1>8, CorpusAssumption
     DEF SyncEnds, Advance, Leave, Stop, NothingNew, control
<1> QED
  BY <1>5, <1>6, <1>7, <1>8

---------------------------------------------------------------------------
\* One test case is read and queued (1405-1503).
LEMMA ReadStep == ASSUME IInv, ReadTestcase PROVE IInv'
<1> DEFINE new == queued_paths + 1
<1>1. /\ queued_paths' = new /\ new \in Ids /\ new \notin Queued
      /\ UNCHANGED <<favored, scored, top_rated, loop, i, q, trace_bits>>
      /\ UNCHANGED <<cal_failed, has_new_cov, var_behavior, exec_cksum>>
      /\ UNCHANGED <<queued_with_cov, queued_variable, target, cal, ret, stop_soon>>
  BY CorpusAssumption
     DEF ReadTestcase, Rated!AddToQueue, Rated!contest, globals, nature, IInv, Types, Queued, Ids
<1>2. PICK t \in Traces : base' = [base EXCEPT ![new] = t]
  BY <1>1 DEF ReadTestcase
<1>3. t \in AllTraces
  BY DEF Traces
<1>4. Types'
  BY <1>1, <1>2, <1>3 DEF IInv, Types, Ids
<1>5. /\ pc = "read" /\ queue_cur' = IF new = Seeds THEN 1 ELSE Null
      /\ pc' = IF new = Seeds THEN "dryrun" ELSE "read"
  BY <1>1 DEF ReadTestcase, At
<1>6. Control' /\ Unscored'
  BY <1>1, <1>5, CorpusAssumption
     DEF IInv, Types, Control, Unscored, Queued, InEntry, Dry, Null, Ids
<1>7. Winners'
  BY <1>1, <1>5 DEF IInv, Winners
<1>8. Same'
  BY <1>1, <1>2 DEF IInv, Types, Unscored, Same, Queued, wobbly, Hit
<1>9. Known'
  BY <1>1, <1>2, <1>5, CorpusAssumption
     DEF IInv, Types, Known, Queued, Dry, Null, Ids, wobbly
<1>10. StatsExact'
  BY <1>1 DEF IInv, StatsExact
<1> QED
  BY <1>4, <1>6, <1>7, <1>8, <1>9, <1>10 DEF IInv

\* A calibration that succeeds (2531-2640): the entry was never scored before.
LEMMA CalibratedStep == ASSUME IInv, Calibrated PROVE IInv'
<1>1. /\ pc = "calibrate" /\ cal \in Queued /\ cal \in Ids /\ scored[cal] = {}
  BY CorpusAssumption DEF IInv, Types, Control, Unscored, Calibrated, At, Queued, Ids
<1>0. PICK n \in CAL_CYCLES .. CAL_CYCLES_LONG : \E r \in [1 .. n -> Runs(base[cal])] :
        Observe(n, r) /\ \E f \in Factors : Rated!CallScore(cal, f, Hit(r[n]))
  BY DEF Calibrated
<1>2. PICK r \in [1 .. n -> Runs(base[cal])] :
        Observe(n, r) /\ \E f \in Factors : Rated!CallScore(cal, f, Hit(r[n]))
  BY <1>0
<1>3. n \in Nat /\ n > 0 /\ r[n] \in Runs(base[cal])
  BY <1>2, CorpusAssumption
<1>4. /\ exec_cksum' \in [Ids -> AllTraces \cup {None}]
      /\ has_new_cov' \in [Ids -> BOOLEAN] /\ var_behavior' \in [Ids -> BOOLEAN]
      /\ \A e \in Ids \ {cal} : /\ exec_cksum'[e] = exec_cksum[e]
                                /\ has_new_cov'[e] = has_new_cov[e]
                                /\ var_behavior'[e] = var_behavior[e]
      /\ wobbly = {} /\ exec_cksum[cal] \in {None, base[cal]} => exec_cksum'[cal] = base[cal]
      /\ StatsExact'
  BY <1>1, <1>2, <1>3, ObserveKeeps DEF IInv
<1>5. /\ scored' = [scored EXCEPT ![cal] = Hit(r[n])] /\ Hit(r[n]) \subseteq Bytes
      /\ UNCHANGED <<queued_paths, favored, top_rated>>
      /\ loop' = "score" /\ i' = 0 /\ q' = cal /\ trace_bits' = Hit(r[n])
      /\ cal_failed' = [cal_failed EXCEPT ![cal] = 0]
      /\ UNCHANGED <<base, target, cal, ret, stop_soon>>
  BY <1>1, <1>2 DEF Calibrated, Rated!CallScore, Rated!entries, Hit, nature, IInv, Types
<1>6. /\ pc' = ret
      /\ queue_cur' = IF ret # "dryrun" THEN queue_cur
                      ELSE IF cal = queued_paths THEN Null ELSE cal + 1
  BY DEF Calibrated
<1>7. Types'
  BY <1>1, <1>4, <1>5, CorpusAssumption DEF IInv, Types
<1>8. Control' /\ Unscored'
  BY <1>1, <1>4, <1>5, <1>6 DEF IInv, Types, Control, Unscored, Queued, InEntry, Dry, Null, Ids
<1>9. Winners'
  BY <1>1, <1>5, <1>6 DEF IInv, Types, Control, Winners
<1>10. Same'
  <2>1. wobbly' = wobbly /\ Queued' = Queued
    BY <1>5 DEF wobbly, Queued
  <2>2. ASSUME wobbly = {} PROVE exec_cksum'[cal] = base[cal] /\ scored'[cal] = Hit(base[cal])
    <3>1. r[n] = base[cal]
      BY <1>1, <1>3, <2>2, RunsSame DEF IInv, Types
    <3> QED
      BY <1>1, <1>4, <1>5, <2>2, <3>1 DEF IInv, Same, Types
  <2>3. Queued \subseteq Ids
    BY CorpusAssumption DEF IInv, Types, Queued, Ids
  <2> QED
    BY <1>1, <1>4, <1>5, <2>1, <2>2, <2>3 DEF IInv, Types, Same, Hit
<1>11. Known'
  <2>1. wobbly' = wobbly /\ Queued' = Queued /\ Queued \subseteq Ids
    BY <1>5, CorpusAssumption DEF wobbly, Queued, Ids, IInv, Types
  <2> SUFFICES ASSUME wobbly = {}, NEW e \in Queued
               PROVE  \/ cal_failed'[e] # 0 \/ exec_cksum'[e] = base'[e] \/ pc' = "exit"
                      \/ Dry' /\ queue_cur' # Null /\ e >= queue_cur'
    BY <2>1 DEF Known
  <2>2. CASE e = cal
    BY <1>1, <1>4, <1>5, <2>2 DEF IInv, Same, Types
  <2>3. CASE e # cal
    <3>1. cal_failed'[e] = cal_failed[e] /\ exec_cksum'[e] = exec_cksum[e] /\ base'[e] = base[e]
      BY <1>4, <1>5, <2>1, <2>3 DEF IInv, Types
    <3>2. cal_failed[e] # 0 \/ exec_cksum[e] = base[e] \/ (Dry /\ e >= queue_cur)
      BY <1>1 DEF IInv, Known
    <3>3. CASE Dry /\ e >= queue_cur
      BY <1>1, <1>6, <2>3, <3>3 DEF IInv, Types, Control, Dry, Queued, Null
    <3> QED
      BY <3>1, <3>2, <3>3
  <2> QED
    BY <2>2, <2>3
<1> QED
  BY <1>4, <1>7, <1>8, <1>9, <1>10, <1>11 DEF IInv

\* A calibration that fails (2578-2675) concerns an entry that was never scored.
LEMMA CalibrationFailsStep == ASSUME IInv, CalibrationFails PROVE IInv'
<1>1. pc = "calibrate" /\ cal \in Queued /\ cal \in Ids /\ scored[cal] = {}
  BY CorpusAssumption DEF IInv, Types, Control, Unscored, CalibrationFails, At, Queued, Ids
<1>0. PICK n \in 0 .. CAL_CYCLES_LONG - 1 :
        \E r \in [1 .. n -> Runs(base[cal])] : Observe(n, r)
  BY DEF CalibrationFails
<1>2. PICK r \in [1 .. n -> Runs(base[cal])] : Observe(n, r)
  BY <1>0
<1>3. n \in Nat
  BY <1>2, CorpusAssumption
<1>4. /\ exec_cksum' \in [Ids -> AllTraces \cup {None}]
      /\ has_new_cov' \in [Ids -> BOOLEAN] /\ var_behavior' \in [Ids -> BOOLEAN]
      /\ \A e \in Ids \ {cal} : /\ exec_cksum'[e] = exec_cksum[e]
                                /\ has_new_cov'[e] = has_new_cov[e]
                                /\ var_behavior'[e] = var_behavior[e]
      /\ wobbly = {} /\ exec_cksum[cal] \in {None, base[cal]} =>
           exec_cksum'[cal] \in {None, base[cal]}
      /\ StatsExact'
  BY <1>1, <1>2, <1>3, ObserveKeeps DEF IInv
<1>5. /\ UNCHANGED <<queued_paths, favored, scored, top_rated, loop, i, q, trace_bits>>
      /\ UNCHANGED <<base, target, cal, ret>>
      /\ cal_failed' \in [Ids -> Nat] /\ \A e \in Ids \ {cal} : cal_failed'[e] = cal_failed[e]
      /\ cal_failed'[cal] # 0 /\ stop_soon' \in BOOLEAN
  <2>1. /\ UNCHANGED <<queued_paths, favored, scored, top_rated, loop, i, q, trace_bits>>
        /\ UNCHANGED <<base, target, cal, ret>> /\ stop_soon' \in BOOLEAN
    BY DEF CalibrationFails, rated, IInv, Types
  <2>2. PICK c \in Nat \ {0} : cal_failed' = [cal_failed EXCEPT ![cal] = c]
    <3>1. cal_failed[cal] + 1 \in Nat \ {0} /\ CAL_CHANCES \in Nat \ {0}
      BY <1>1, CorpusAssumption DEF IInv, Types
    <3> QED
      BY <3>1 DEF CalibrationFails
  <2> QED
    BY <1>1, <2>1, <2>2 DEF IInv, Types
<1>6. \/ ret = "dryrun" /\ pc' \in {"dryrun", "exit"} /\ queue_cur' = queue_cur
      \/ ret # "dryrun" /\ pc' \in {"abandon", "stages", "sync", "import"} /\ queue_cur' = queue_cur
      \/ /\ ret = "dryrun" /\ pc' = "dryrun"
         /\ queue_cur' = IF cal = queued_paths THEN Null ELSE cal + 1
  BY DEF CalibrationFails, IInv, Control
<1>7. Types'
  BY <1>4, <1>5 DEF IInv, Types
<1>8. Control' /\ Unscored'
  BY <1>1, <1>4, <1>5, <1>6 DEF IInv, Types, Control, Unscored, Queued, InEntry, Dry, Null, Ids
<1>9. Winners'
  BY <1>1, <1>5, <1>6 DEF IInv, Types, Winners
<1>10. Same'
  <2>1. wobbly' = wobbly /\ Queued' = Queued /\ Queued \subseteq Ids
    BY <1>5, CorpusAssumption DEF wobbly, Queued, Ids, IInv, Types
  <2> QED
    BY <1>1, <1>4, <1>5, <2>1 DEF IInv, Types, Same, Hit
<1>11. Known'
  <2>1. wobbly' = wobbly /\ Queued' = Queued /\ Queued \subseteq Ids
    BY <1>5, CorpusAssumption DEF wobbly, Queued, Ids, IInv, Types
  <2> SUFFICES ASSUME wobbly = {}, NEW e \in Queued
               PROVE  \/ cal_failed'[e] # 0 \/ exec_cksum'[e] = base'[e] \/ pc' = "exit"
                      \/ Dry' /\ queue_cur' # Null /\ e >= queue_cur'
    BY <2>1 DEF Known
  <2>2. CASE e = cal
    BY <1>1, <1>4, <1>5, <2>2 DEF IInv, Same, Types
  <2>3. CASE e # cal
    <3>1. cal_failed'[e] = cal_failed[e] /\ exec_cksum'[e] = exec_cksum[e] /\ base'[e] = base[e]
      BY <1>4, <1>5, <2>1, <2>3 DEF IInv, Types
    <3>2. cal_failed[e] # 0 \/ exec_cksum[e] = base[e] \/ (Dry /\ e >= queue_cur)
      BY <1>1 DEF IInv, Known
    <3>3. CASE Dry /\ e >= queue_cur
      BY <1>1, <1>6, <2>3, <3>3 DEF IInv, Types, Control, Dry, Queued, Null
    <3> QED
      BY <3>1, <3>2, <3>3
  <2> QED
    BY <2>2, <2>3
<1> QED
  BY <1>4, <1>7, <1>8, <1>9, <1>10, <1>11 DEF IInv

\* trim_case() scores only the entry at hand, which is calibrated (4463-4580).
LEMMA TrimStep == ASSUME IInv, TrimCase PROVE IInv'
<1>1. /\ pc = "trim" /\ pc' = "stages" /\ queue_cur \in Queued /\ queue_cur \in Ids
      /\ cal_failed[queue_cur] = 0
  BY CorpusAssumption
     DEF TrimCase, At, IInv, Types, Control, Winners, InEntry, Queued, Ids, Null
<1>2. /\ UNCHANGED <<base, exec_cksum, cal_failed, has_new_cov, var_behavior>>
      /\ UNCHANGED <<queued_with_cov, queued_variable, queue_cur, cal, ret, target, stop_soon>>
  BY DEF TrimCase, nature
<1>3. StatsExact' /\ stop_soon' \in BOOLEAN
  BY <1>2 DEF IInv, StatsExact, Types
<1>6. ASSUME wobbly = {} PROVE exec_cksum[queue_cur] = base[queue_cur]
  BY <1>1, <1>6 DEF IInv, Known, Dry
<1>7. ASSUME queued_paths' = queued_paths PROVE Known'
  BY <1>1, <1>2, <1>7 DEF IInv, Known, Queued, Dry, wobbly
<1>4. CASE UNCHANGED rated
  <2>1. UNCHANGED <<queued_paths, favored, scored, top_rated, loop, i, q, trace_bits>>
    BY <1>4 DEF rated
  <2>2. Types' /\ Same' /\ Queued' = Queued /\ Winners' /\ Known'
    BY <1>1, <1>2, <1>3, <1>7, <2>1, Frame
  <2>3. Control' /\ Unscored'
    BY <1>1, <1>2, <2>1, <2>2 DEF IInv, Control, Unscored, InEntry, Dry
  <2> QED
    BY <1>3, <2>2, <2>3 DEF IInv
<1>5. CASE \E f \in Factors : Rated!CallScore(queue_cur, f, Hit(exec_cksum[queue_cur]))
  <2> DEFINE t == Hit(exec_cksum[queue_cur])
  <2>1. /\ scored' = [scored EXCEPT ![queue_cur] = scored[queue_cur] \cup t] /\ t \subseteq Bytes
        /\ UNCHANGED <<queued_paths, favored, top_rated>>
        /\ loop' = "score" /\ i' = 0 /\ q' = queue_cur /\ trace_bits' = t
    BY <1>5 DEF Rated!CallScore, Rated!entries, Hit
  <2> HIDE DEF t
  <2>2. Types'
    BY <1>1, <1>2, <2>1, CorpusAssumption DEF IInv, Types
  <2>3. Control' /\ Unscored'
    BY <1>1, <1>2, <2>1 DEF IInv, Types, Control, Unscored, InEntry, Dry, Queued, Ids
  <2>4. Winners'
    BY <1>1, <1>2, <2>1 DEF IInv, Types, Winners
  <2>5. Same'
    <3>1. wobbly' = wobbly /\ Queued' = Queued /\ Queued \subseteq Ids
      BY <1>2, <2>1, CorpusAssumption DEF wobbly, Queued, Ids, IInv, Types
    <3>2. ASSUME wobbly = {} PROVE t = Hit(base[queue_cur]) /\ scored[queue_cur] \in {{}, t}
      BY <1>1, <1>6, <3>2 DEF t, IInv, Same
    <3>3. ASSUME wobbly = {}, NEW e \in Queued
          PROVE  /\ exec_cksum'[e] \in {None, base'[e]}
                 /\ scored'[e] # {} => /\ exec_cksum'[e] = base'[e]
                                       /\ scored'[e] = Hit(base[e])
      <4>1. CASE e = queue_cur
        BY <1>1, <1>2, <1>6, <2>1, <3>2, <3>3, <4>1 DEF IInv, Types
      <4>2. CASE e # queue_cur
        BY <1>1, <1>2, <2>1, <3>1, <3>3, <4>2 DEF IInv, Types, Same
      <4> QED
        BY <4>1, <4>2
    <3> QED
      BY <1>2, <3>1, <3>3 DEF Same, Hit
  <2> QED
    BY <1>3, <1>7, <2>1, <2>2, <2>3, <2>4, <2>5 DEF IInv
<1> QED
  BY <1>4, <1>5 DEF TrimCase

\* A new entry is queued with the trace it was found by, and calibrated next (3117-3170).
LEMMA SaveStep == ASSUME IInv, SaveIfInteresting PROVE IInv'
<1> DEFINE new == queued_paths + 1
<1>1. /\ queued_paths' = new /\ new \in Ids /\ new \notin Queued
      /\ pc \in {"stages", "sync", "import"} /\ pc' = "calibrate" /\ cal' = new /\ ret' = pc
      /\ UNCHANGED <<favored, scored, top_rated, loop, i, q, trace_bits>>
      /\ UNCHANGED <<cal_failed, var_behavior, queued_variable, queue_cur, target, stop_soon>>
  BY CorpusAssumption
     DEF SaveIfInteresting, Rated!AddToQueue, Rated!contest, nature, IInv, Types, Queued, Ids
<1>2. PICK t \in Traces : \E r \in Runs(t) :
        /\ base' = [base EXCEPT ![new] = t]
        /\ exec_cksum' = [exec_cksum EXCEPT ![new] = r]
        /\ has_new_cov' = [has_new_cov EXCEPT ![new] = HasNewBits({r}) = 2]
        /\ queued_with_cov' = queued_with_cov + (IF HasNewBits({r}) = 2 THEN 1 ELSE 0)
  BY <1>1 DEF SaveIfInteresting
<1>3. PICK r \in Runs(t) :
        /\ base' = [base EXCEPT ![new] = t]
        /\ exec_cksum' = [exec_cksum EXCEPT ![new] = r]
        /\ has_new_cov' = [has_new_cov EXCEPT ![new] = HasNewBits({r}) = 2]
        /\ queued_with_cov' = queued_with_cov + (IF HasNewBits({r}) = 2 THEN 1 ELSE 0)
  BY <1>2
<1>4. t \in AllTraces /\ r \in AllTraces /\ (wobbly = {} => r = t)
  BY RunsSame DEF Runs, Traces
<1> DEFINE fresh == HasNewBits({r}) = 2
<1>5. /\ has_new_cov' = [has_new_cov EXCEPT ![new] = fresh] /\ fresh \in BOOLEAN
      /\ queued_with_cov' = queued_with_cov + (IF fresh THEN 1 ELSE 0)
  BY <1>3
<1> HIDE DEF fresh
<1>6. Types'
  BY <1>1, <1>3, <1>4, <1>5 DEF IInv, Types, Ids
<1>7. Control' /\ Unscored'
  BY <1>1, <1>3, <1>5, CorpusAssumption
     DEF IInv, Types, Control, Unscored, Queued, InEntry, Dry, Null, Ids
<1>8. Winners'
  BY <1>1 DEF IInv, Winners
<1>9. Same'
  BY <1>1, <1>3, <1>4 DEF IInv, Types, Unscored, Same, Queued, wobbly, Hit
<1>11. Known'
  BY <1>1, <1>3, <1>4, CorpusAssumption
     DEF IInv, Types, Known, Queued, Dry, Null, Ids, wobbly
<1>10. StatsExact'
  <2> DEFINE S == {e \in Ids : has_new_cov[e]}
             T == {e \in Ids : has_new_cov'[e]}
  <2>1. /\ has_new_cov \in [Ids -> BOOLEAN] /\ ~has_new_cov[new]
        /\ queued_with_cov = Cardinality(S)
    BY <1>1 DEF IInv, Types, StatsExact, Unscored
  <2>2. S \in SUBSET Ids /\ new \notin S
    BY <2>1
  <2>3. CASE fresh
    <3>1. T = S \cup {new}
      BY <1>1, <1>5, <2>1, <2>3
    <3>2. queued_with_cov' = Cardinality(S) + 1
      BY <1>5, <2>1, <2>3
    <3> QED
      BY <1>1, <2>2, <3>1, <3>2, CountOne DEF IInv, StatsExact
  <2>4. CASE ~fresh
    <3>1. T = S
      BY <1>1, <1>5, <2>1, <2>4
    <3>2. Cardinality(S) \in Nat
      BY <1>1, <2>2, CountOne
    <3>3. queued_with_cov' = Cardinality(S)
      BY <1>5, <2>1, <2>4, <3>2
    <3>4. queued_with_cov' = Cardinality(T)
      BY <3>1, <3>3, Zenon
    <3> QED
      BY <1>1, <3>4 DEF IInv, StatsExact
  <2> QED
    BY <1>5, <2>3, <2>4
<1> QED
  BY <1>6, <1>7, <1>8, <1>9, <1>10, <1>11 DEF IInv

\* Culling and the loops of TopRated touch only who wins and who is favored.
LEMMA RatingStep == ASSUME IInv, CullQueue \/ ScoringStep \/ AbandonEntry PROVE IInv'
<1>1. /\ UNCHANGED <<queued_paths, scored, cal_failed, has_new_cov, var_behavior, base>>
      /\ UNCHANGED <<exec_cksum, queued_with_cov, queued_variable, queue_cur, cal, ret, target>>
      /\ UNCHANGED stop_soon
      /\ pc' = pc \/ (pc = "abandon" /\ pc' \in {"sync", "next"})
  BY DEF CullQueue, ScoringStep, AbandonEntry, At, fields, globals, control, nature, rated,
         Rated!CallCull, Rated!ScoreByte, Rated!ScoreReturns, Rated!CullByte, Rated!CullReturns,
         Rated!MarkFuzzed, Rated!entries, Rated!contest
<1>2. Control' /\ Unscored'
  BY <1>1 DEF IInv, Types, Control, Unscored, Queued, InEntry, Dry
<1>3. Same' /\ StatsExact'
  BY <1>1 DEF IInv, Same, StatsExact, Queued, wobbly
<1>5. Known'
  BY <1>1 DEF IInv, Known, Queued, Dry, wobbly
<1>4. Types' /\ Winners'
  <2> USE DEF IInv, Types, Winners
  <2>1. CASE CullQueue
    BY <1>1, <2>1, CorpusAssumption
       DEF CullQueue, Rated!CallCull, Rated!Ids, Rated!contest, Ids, control
  <2>2. CASE AbandonEntry
    BY <1>1, <2>2 DEF AbandonEntry, Rated!MarkFuzzed, Rated!contest, rated, At
  <2>3. CASE Rated!ScoreByte /\ UNCHANGED control
    <3>1. /\ i \in Bytes /\ i + 1 \in 0 .. MAP_SIZE /\ q \in Ids
          /\ UNCHANGED <<favored, loop, q, trace_bits, scored, cal_failed, stop_soon>>
          /\ i' = i + 1 /\ pc' = pc /\ queue_cur' = queue_cur
      BY <1>1, <2>3, CorpusAssumption DEF Rated!ScoreByte, Rated!entries, Bytes, control
    <3>2. /\ top_rated' \in [Bytes -> Ids \cup {0}]
          /\ \A b \in Bytes : top_rated'[b] # 0 => scored[top_rated'[b]] # {}
      <4>1. CASE i \in trace_bits /\ top_rated' = [top_rated EXCEPT ![i] = q]
        <5>1. scored[q] # {}
          BY <2>3, <3>1, <4>1 DEF Rated!ScoreByte
        <5> QED
          BY <3>1, <4>1, <5>1
      <4>2. CASE UNCHANGED top_rated
        BY <4>2
      <4> QED
        BY <2>3, <4>1, <4>2 DEF Rated!ScoreByte
    <3>3. Types'
      BY <1>1, <3>1, <3>2
    <3> QED
      BY <1>1, <3>1, <3>2, <3>3
  <2>4. CASE Rated!CullByte /\ UNCHANGED control
    <3>1. /\ i \in Bytes /\ i + 1 \in 0 .. MAP_SIZE
          /\ UNCHANGED <<top_rated, loop, q, trace_bits, scored, cal_failed, stop_soon>>
          /\ i' = i + 1 /\ pc' = pc /\ queue_cur' = queue_cur /\ loop = "cull"
      BY <1>1, <2>4, CorpusAssumption DEF Rated!CullByte, Rated!contest, Bytes, control
    <3>2. favored' \in [Ids -> BOOLEAN] /\ \A e \in Ids : favored'[e] => scored[e] # {}
      <4>1. CASE top_rated[i] # 0 /\ favored' = [favored EXCEPT ![top_rated[i]] = TRUE]
        <5>1. top_rated[i] \in Ids /\ scored[top_rated[i]] # {}
          BY <3>1, <4>1
        <5> QED
          BY <4>1, <5>1
      <4>2. CASE UNCHANGED favored
        BY <4>2
      <4> QED
        BY <2>4, <4>1, <4>2 DEF Rated!CullByte, Rated!Nobody
    <3>3. Types'
      BY <1>1, <3>1, <3>2
    <3> QED
      BY <1>1, <3>1, <3>2, <3>3
  <2>5. CASE (Rated!ScoreReturns \/ Rated!CullReturns) /\ UNCHANGED control
    BY <1>1, <2>5, CorpusAssumption
       DEF Rated!ScoreReturns, Rated!CullReturns, Rated!Return, Rated!entries, Rated!contest,
           Rated!Nobody, Bytes, control
  <2> QED
    BY <2>1, <2>2, <2>3, <2>4, <2>5 DEF ScoringStep
<1> QED
  BY <1>2, <1>3, <1>4, <1>5 DEF IInv

\* Every step of the main loop keeps the invariant.
LEMMA StepIInv == IInv /\ [Next]_vars => IInv'
<1> SUFFICES ASSUME IInv, [Next]_vars PROVE IInv'
  OBVIOUS
<1>1. CASE UNCHANGED vars
  <2>1. /\ UNCHANGED <<queued_paths, favored, scored, top_rated, loop, i, q, trace_bits>>
        /\ UNCHANGED <<cal_failed, has_new_cov, var_behavior, base, exec_cksum>>
        /\ UNCHANGED <<queued_with_cov, queued_variable, target, queue_cur>>
        /\ UNCHANGED <<cal, ret, pc, stop_soon>>
    BY <1>1 DEF vars, rated, fields, globals, control, nature
  <2>2. Types' /\ Same' /\ StatsExact' /\ Queued' = Queued /\ Winners'
    BY <2>1, Frame DEF IInv, Winners, Types
  <2> QED
    BY <2>1, <2>2 DEF IInv, Control, Unscored, Known, wobbly, InEntry, Dry
<1>2. CASE Next
  BY <1>2, DecisionSteps, ReadStep, CalibratedStep, CalibrationFailsStep, TrimStep, SaveStep,
     RatingStep DEF Next, MainStep
<1> QED
  BY <1>1, <1>2

\* Whatever fails or varies, only calibrated entries win slots or are favored (2531-2675).
THEOREM OnlyCalibratedCompete == Spec => []CalibratedCompete
<1>1. IInv => CalibratedCompete
  BY DEF IInv, Types, Winners, CalibratedCompete, Rated!Slots, Rated!Bytes, Bytes, Ids
<1> QED
  BY <1>1, InitIInv, StepIInv, PTL DEF Spec

\* queued_with_cov and queued_variable count each entry once (2640-2665, 3131-3134).
THEOREM StatsAlwaysExact == Spec => []StatsExact
<1>1. IInv => StatsExact
  BY DEF IInv
<1> QED
  BY <1>1, InitIInv, StepIInv, PTL DEF Spec

\* A step leaves rated alone or is one that TopRated allows its clients.
LEMMA RatedSteps ==
  ASSUME IInv, Next
  PROVE  UNCHANGED rated \/ (Rated!Next /\ (wobbly = {} => Steady!Next))
<1>1. CASE ReadTestcase \/ SaveIfInteresting
  <2>1. Rated!AddToQueue /\ Steady!AddToQueue
    BY <1>1 DEF ReadTestcase, SaveIfInteresting, Rated!AddToQueue, Steady!AddToQueue,
                Rated!contest, Steady!contest
  <2> QED
    BY <2>1 DEF Rated!Next, Steady!Next, Rated!Client, Steady!Client
<1>2. CASE CullQueue
  <2>1. Rated!CallCull /\ Steady!CallCull
    BY <1>2 DEF CullQueue, Rated!CallCull, Steady!CallCull, Rated!contest, Steady!contest,
                Rated!Bytes, Steady!Bytes, Rated!Ids, Steady!Ids
  <2> QED
    BY <2>1 DEF Rated!Next, Steady!Next, Rated!Client, Steady!Client
<1>3. CASE AbandonEntry
  <2>1. UNCHANGED rated \/ (queue_cur \in Ids /\ Rated!MarkFuzzed(queue_cur))
    BY <1>3, CorpusAssumption
       DEF AbandonEntry, IInv, Types, Control, Ids, Queued, InEntry, At, Null
  <2>2. Rated!MarkFuzzed(queue_cur) => Steady!MarkFuzzed(queue_cur)
    BY DEF Rated!MarkFuzzed, Steady!MarkFuzzed, Rated!contest, Steady!contest, Rated!Queued,
           Steady!Queued
  <2> QED
    BY <2>1, <2>2
       DEF Rated!Next, Steady!Next, Rated!Client, Steady!Client, Rated!Ids, Steady!Ids, Ids
<1>4. ASSUME NEW e \in Queued, NEW f \in Factors, NEW t \in SUBSET Bytes,
             Rated!CallScore(e, f, t),
             scored[e] # {} => f <= fav_factor[e] /\ (wobbly = {} => t = scored[e])
      PROVE  Rated!Next /\ (wobbly = {} => Steady!Next)
  <2>1. e \in Rated!Queued /\ e \in Steady!Queued /\ e \in Ids
    BY CorpusAssumption DEF Queued, Rated!Queued, Steady!Queued, IInv, Types, Ids
  <2>2. Steady!CallScore(e, f, t)
    BY <1>4 DEF Rated!CallScore, Steady!CallScore, Rated!entries, Steady!entries,
                Rated!counters, Steady!counters
  <2>3. Rated!ScoreAllowed(e, f, t) /\ (wobbly = {} => Steady!ScoreAllowed(e, f, t))
    BY <1>4, <2>1 DEF Rated!ScoreAllowed, Steady!ScoreAllowed
  <2>4. Rated!Client /\ (wobbly = {} => Steady!Client)
    BY <1>4, <2>1, <2>2, <2>3
       DEF Rated!Client, Steady!Client, Rated!Ids, Steady!Ids, Ids, Rated!Bytes, Steady!Bytes, Bytes
  <2> QED
    BY <2>4 DEF Rated!Next, Steady!Next
<1>5. CASE Calibrated
  <2>1. PICK f \in Factors, t \in SUBSET Bytes : Rated!CallScore(cal, f, t)
    BY <1>5 DEF Calibrated, Hit
  <2>2. cal \in Queued /\ scored[cal] = {}
    BY <1>5 DEF Calibrated, At, IInv, Control, Unscored
  <2> QED
    BY <1>4, <2>1, <2>2
<1>6. CASE TrimCase
  <2>1. queue_cur \in Queued
    BY <1>6 DEF TrimCase, At, IInv, Control, InEntry
  <2>2. CASE UNCHANGED rated
    BY <2>2
  <2>3. CASE \E f \in Factors : /\ f <= fav_factor[queue_cur]
                                /\ Rated!CallScore(queue_cur, f, Hit(exec_cksum[queue_cur]))
    <3>1. Hit(exec_cksum[queue_cur]) \in SUBSET Bytes
      BY DEF Hit
    <3>2. wobbly = {} /\ scored[queue_cur] # {} =>
            scored[queue_cur] = Hit(exec_cksum[queue_cur])
      BY <2>1 DEF IInv, Same
    <3> QED
      BY <1>4, <2>1, <2>3, <3>1, <3>2
  <2> QED
    BY <1>6, <2>2, <2>3 DEF TrimCase
<1>7. CASE ScoringStep
  BY <1>7
     DEF ScoringStep, Rated!Next, Steady!Next, Rated!ScoreByte, Steady!ScoreByte,
         Rated!ScoreReturns, Steady!ScoreReturns, Rated!CullByte, Steady!CullByte,
         Rated!CullReturns, Steady!CullReturns, Rated!entries, Steady!entries, Rated!contest,
         Steady!contest, Rated!counters, Steady!counters, Rated!Return, Steady!Return,
         Rated!Wins, Steady!Wins, Rated!RefAfterLoss, Steady!RefAfterLoss,
         Rated!MiniAfterLoss, Steady!MiniAfterLoss, Rated!Queued, Steady!Queued,
         Rated!Ids, Steady!Ids, Rated!Nobody, Steady!Nobody, Rated!NoTrace, Steady!NoTrace
<1>8. CASE DryRun \/ StartFuzzing \/ NextEntry \/ ImportEnds \/ SkipEntry \/ FuzzOne \/ TrimStopped
           \/ StagesEnd \/ SyncEnds \/ Advance \/ Leave \/ Stop \/ NothingNew
           \/ CalibrationFails
  BY <1>8 DEF DryRun, StartFuzzing, NextEntry, ImportEnds, SkipEntry, FuzzOne, TrimStopped,
              StagesEnd, SyncEnds, Advance, Leave, Stop, NothingNew, CalibrationFails
<1> QED
  BY <1>1, <1>2, <1>3, <1>5, <1>6, <1>7, <1>8 DEF Next, MainStep

\* The callers of update_bitmap_score() and cull_queue() keep to the interface of TopRated,
\* for a stable target where no byte varies: calibrate_case() scores an entry that was never
\* scored (2531-2640), trim_case() one whose trace did not change (4463-4580).
THEOREM CallersKeepRating == Spec => KeepsRating
<1>1. Init => Rated!Init
  BY DEF Init
<1>2. IInv /\ [Next]_vars => [Rated!Next /\ (wobbly = {} => Steady!Next)]_rated
  BY RatedSteps DEF vars
<1> QED
  BY <1>1, <1>2, InitIInv, StepIInv, PTL DEF Spec, KeepsRating

---------------------------------------------------------------------------
\* What TopRatedProofs shows of the contest for slots holds here, whatever the target is like.
Scoring == INSTANCE TopRatedProofs WITH Stable <- FALSE

\* No trace is freed that cull_queue() would read (1245-1333), and between a cull and the next
\* change of a slot the favored entries cover every byte that has a winner, in the main loop too.
THEOREM ScoringHolds == Spec => [](Rated!RefCounts /\ Rated!FavoredCover)
<1>1. Rated!Init => Scoring!Init
  BY DEF Rated!Init, Scoring!Init, Rated!Ids, Scoring!Ids, Rated!Bytes, Scoring!Bytes,
         Rated!Nobody, Scoring!Nobody, Rated!NoTrace, Scoring!NoTrace
<1>2. [Rated!Next /\ (wobbly = {} => Steady!Next)]_rated => [Scoring!Next]_(Scoring!vars)
  BY DEF rated, Scoring!vars, Scoring!entries, Scoring!contest, Scoring!counters,
         Rated!Next, Scoring!Next, Rated!Client, Scoring!Client,
         Rated!AddToQueue, Scoring!AddToQueue, Rated!MarkFuzzed, Scoring!MarkFuzzed,
         Rated!CallScore, Scoring!CallScore, Rated!ScoreAllowed, Scoring!ScoreAllowed,
         Rated!CallCull, Scoring!CallCull, Rated!ScoreByte, Scoring!ScoreByte,
         Rated!ScoreReturns, Scoring!ScoreReturns, Rated!CullByte, Scoring!CullByte,
         Rated!CullReturns, Scoring!CullReturns, Rated!Return, Scoring!Return,
         Rated!entries, Rated!contest, Rated!counters, Rated!Queued, Scoring!Queued,
         Rated!Wins, Scoring!Wins, Rated!RefAfterLoss, Scoring!RefAfterLoss,
         Rated!MiniAfterLoss, Scoring!MiniAfterLoss, Rated!Ids, Scoring!Ids,
         Rated!Bytes, Scoring!Bytes, Rated!Nobody, Scoring!Nobody, Rated!NoTrace, Scoring!NoTrace
<1>3. Scoring!RefCounts => Rated!RefCounts
  BY DEF Scoring!RefCounts, Rated!RefCounts, Scoring!Cardinality, Rated!Cardinality,
         Scoring!Slots, Rated!Slots, Rated!Ids, Scoring!Ids, Rated!Bytes, Scoring!Bytes,
         Rated!NoTrace, Scoring!NoTrace
<1>4. Scoring!FavoredCover => Rated!FavoredCover
  BY DEF Scoring!FavoredCover, Rated!FavoredCover, Rated!Bytes, Scoring!Bytes,
         Rated!Nobody, Scoring!Nobody, Rated!Queued, Scoring!Queued
<1>5. FALSE \in BOOLEAN /\ Factors \subseteq Nat /\ MAP_SIZE \in Nat /\ MaxPaths \in Nat
  BY CorpusAssumption
<1>6. Scoring!Spec => []Scoring!RefCounts
  BY <1>5, Scoring!RefCountsExact
<1>7. Scoring!Spec => []Scoring!FavoredCover
  BY <1>5, Scoring!CoverHolds
<1> QED
  BY <1>1, <1>2, <1>3, <1>4, <1>6, <1>7, CallersKeepRating, PTL
     DEF KeepsRating, Scoring!Spec

\* The target does not change, so where no byte varies none ever will.
LEMMA TargetStays == Spec => [][target' = target]_vars
<1>1. [Next]_vars => [target' = target]_vars
  BY DEF Next, MainStep, ReadTestcase, DryRun, Calibrated, CalibrationFails, CullQueue,
         StartFuzzing, NextEntry, ImportEnds, SkipEntry, FuzzOne, TrimCase, TrimStopped, StagesEnd,
         AbandonEntry, SyncEnds, Advance, Leave, ScoringStep, SaveIfInteresting, NothingNew,
         Stop, nature
<1> QED
  BY <1>1, PTL DEF Spec

\* The same for a target that is stable.
Contests == INSTANCE TopRatedProofs WITH Stable <- TRUE

\* Where no byte varies, the winner of a byte is never worse than any entry scored for it, and
\* the counters that steer fuzz_one() and the screen are exact whenever the main loop reads them
\* (7922-7934, 5020-5046), the number of favored entries too.
THEOREM SteadyScoring ==
  Spec /\ wobbly = {} =>
    [](Steady!BestRated /\ Steady!PendingFavoredExact /\ Steady!CountersExact /\ FavoredCounted)
<1>1. Rated!Init => Contests!Init
  BY DEF Rated!Init, Contests!Init, Rated!Ids, Contests!Ids, Rated!Bytes, Contests!Bytes,
         Rated!Nobody, Contests!Nobody, Rated!NoTrace, Contests!NoTrace
<1>2. [Rated!Next /\ (wobbly = {} => Steady!Next)]_rated /\ wobbly = {}
        => [Contests!Next]_(Contests!vars)
  BY DEF rated, Contests!vars, Contests!entries, Contests!contest, Contests!counters,
         Steady!Next, Contests!Next, Steady!Client, Contests!Client,
         Steady!AddToQueue, Contests!AddToQueue, Steady!MarkFuzzed, Contests!MarkFuzzed,
         Steady!CallScore, Contests!CallScore, Steady!ScoreAllowed, Contests!ScoreAllowed,
         Steady!CallCull, Contests!CallCull, Steady!ScoreByte, Contests!ScoreByte,
         Steady!ScoreReturns, Contests!ScoreReturns, Steady!CullByte, Contests!CullByte,
         Steady!CullReturns, Contests!CullReturns, Steady!Return, Contests!Return,
         Steady!entries, Steady!contest, Steady!counters, Steady!Queued, Contests!Queued,
         Steady!Wins, Contests!Wins, Steady!RefAfterLoss, Contests!RefAfterLoss,
         Steady!MiniAfterLoss, Contests!MiniAfterLoss, Steady!Ids, Contests!Ids,
         Steady!Bytes, Contests!Bytes, Steady!Nobody, Contests!Nobody,
         Steady!NoTrace, Contests!NoTrace
<1>3. Contests!BestRated => Steady!BestRated
  BY DEF Contests!BestRated, Steady!BestRated, Contests!Ids, Steady!Ids, Contests!Nobody,
         Steady!Nobody
<1>4. Contests!PendingFavoredExact => Steady!PendingFavoredExact
  BY DEF Contests!PendingFavoredExact, Steady!PendingFavoredExact, Contests!PendingFavored,
         Steady!PendingFavored, Contests!Unfuzzed, Steady!Unfuzzed, Contests!Queued,
         Steady!Queued, Contests!Cardinality, Steady!Cardinality
<1>5. Contests!CountersExact => Steady!CountersExact
  BY DEF Contests!CountersExact, Steady!CountersExact, Contests!Unfuzzed, Steady!Unfuzzed,
         Contests!Queued, Steady!Queued, Contests!Cardinality, Steady!Cardinality
<1>6. IInv /\ Steady!CountersExact => FavoredCounted
  <2> SUFFICES ASSUME IInv, Steady!CountersExact, loop = "client"
               PROVE  queued_favored = Cardinality({e \in Ids : favored[e]})
    BY DEF FavoredCounted
  <2>1. {e \in Steady!Queued : favored[e]} = {e \in Ids : favored[e]}
    BY CorpusAssumption DEF IInv, Types, Winners, Unscored, Steady!Queued, Queued, Ids
  <2>2. queued_favored = Cardinality({e \in Steady!Queued : favored[e]})
    BY DEF Steady!CountersExact, Steady!Cardinality, Cardinality
  <2> QED
    BY <2>1, <2>2
<1>7. TRUE \in BOOLEAN /\ Factors \subseteq Nat /\ MAP_SIZE \in Nat /\ MaxPaths \in Nat
  BY CorpusAssumption
<1>8. Contests!Spec => []Contests!BestRated
  BY <1>7, Contests!BestRatedHolds
<1>9. Contests!Spec => []Contests!PendingFavoredExact
  BY <1>7, Contests!PendingExact
<1>10. Contests!Spec => []Contests!CountersExact
  BY <1>7, Contests!CountersHold
<1>11. wobbly = {} /\ [target' = target]_vars => (wobbly = {})'
  BY DEF wobbly, vars, nature
<1>12. Spec => []IInv
  BY InitIInv, StepIInv, PTL DEF Spec
<1>13. Spec /\ wobbly = {} => [](wobbly = {})
  BY <1>11, TargetStays, PTL
<1> QED
  BY <1>1, <1>2, <1>3, <1>4, <1>5, <1>6, <1>8, <1>9, <1>10, <1>12, <1>13, CallersKeepRating, PTL
     DEF KeepsRating, Contests!Spec

---------------------------------------------------------------------------
\* Why the favored entries cover all that was seen, for a stable target that lets no calibration
\* fail.  A byte some entry was scored for has a winner, unless the contest that is on has yet
\* to reach it; what virgin_bits knows was shown by an entry that was scored, or by the one whose
\* calibration is due; an entry is picked right after a cull, but for an import in between, and
\* that takes no entry's favor.
Won ==
  \A e \in Ids : \A b \in scored[e] :
    top_rated[b] # 0 \/ (loop = "score" /\ e = q /\ b \in trace_bits /\ i <= b)

Shown(b) ==
  \/ \E e \in Queued : b \in scored[e]
  \/ pc = "calibrate" /\ b \in Hit(base[cal])

Seen == wobbly = {} /\ ~failed => \A p \in virgin_bits : p[1] \in Bytes /\ Shown(p[1])

SinceCull == pc \in {"import", "entry"} \/ (pc = "calibrate" /\ ret = "import")

CoverKept ==
  wobbly = {} /\ ~failed /\ SinceCull =>
    \A p \in virgin_bits \ late : \E e \in Queued : favored[e] /\ p[1] \in scored[e]

\* A byte an entry was scored for keeps a winner; a contest leaves none of its bytes without one.
LEMMA WonStep == ASSUME IInv, Won, [Next]_vars PROVE Won'
<1> USE DEF Won
<1>1. CASE UNCHANGED <<scored, top_rated, loop, q, trace_bits, i>>
  BY <1>1
<1>2. CASE UNCHANGED <<scored, top_rated>> /\ loop # "score"
  BY <1>2
<1>3. ASSUME NEW e \in Ids, NEW f \in Factors, NEW t \in SUBSET Bytes, Rated!CallScore(e, f, t)
      PROVE  Won'
  <2>1. /\ loop = "client" /\ loop' = "score" /\ i' = 0 /\ q' = e /\ trace_bits' = t
        /\ scored' = [scored EXCEPT ![e] = scored[e] \cup t] /\ UNCHANGED top_rated
    BY <1>3 DEF Rated!CallScore
  <2>2. \A b \in t : 0 <= b
    BY CorpusAssumption DEF Bytes
  <2> QED
    BY <2>1, <2>2 DEF IInv, Types
<1>4. CASE Rated!ScoreByte
  <2>1. /\ loop = "score" /\ loop' = "score" /\ i' = i + 1 /\ i \in Bytes /\ q \in Ids
        /\ UNCHANGED <<q, trace_bits, scored>>
    BY <1>4, CorpusAssumption DEF Rated!ScoreByte, IInv, Types, Winners, Bytes
  <2>2. /\ \A b \in Bytes : top_rated'[b] # top_rated[b] => top_rated'[b] = q
        /\ i \in trace_bits => top_rated'[i] # 0
    BY <1>4, <2>1 DEF Rated!ScoreByte, Rated!Wins, Rated!Nobody, IInv, Types, Ids
  <2>3. \A e \in Ids : \A b \in scored[e] : b \in Bytes /\ b \in Int /\ i \in Int
    BY <2>1, CorpusAssumption DEF IInv, Types, Bytes
  <2>4. q # 0
    BY <2>1 DEF Ids
  <2> QED
    BY <2>1, <2>2, <2>3, <2>4
<1>5. CASE Rated!ScoreReturns
  <2>1. i = MAP_SIZE /\ UNCHANGED <<scored, top_rated>>
    BY <1>5 DEF Rated!ScoreReturns, Rated!contest
  <2>2. \A e \in Ids : \A b \in scored[e] : ~(i <= b)
    BY <2>1, CorpusAssumption DEF IInv, Types, Bytes
  <2> QED
    BY <2>1, <2>2
<1>6. CASE Calibrated \/ TrimCase
  <2>1. (cal \in Ids \/ ~Calibrated) /\ (queue_cur \in Ids \/ ~TrimCase)
    BY CorpusAssumption
       DEF Calibrated, TrimCase, At, IInv, Types, Control, InEntry, Queued, Ids, Null
  <2>2. UNCHANGED rated
          \/ \E e \in Ids, f \in Factors, t \in SUBSET Bytes : Rated!CallScore(e, f, t)
    BY <1>6, <2>1 DEF Calibrated, TrimCase, Hit
  <2> QED
    BY <1>1, <1>3, <2>2 DEF rated
<1> QED
  BY <1>1, <1>2, <1>4, <1>5, <1>6
     DEF Next, MainStep, ReadTestcase, DryRun, CalibrationFails, CullQueue, StartFuzzing,
         NextEntry, ImportEnds, SkipEntry, FuzzOne, TrimStopped, StagesEnd, AbandonEntry,
         SyncEnds, Advance, Leave, ScoringStep, SaveIfInteresting, NothingNew, Stop, vars, rated,
         Rated!AddToQueue, Rated!CallCull, Rated!MarkFuzzed, Rated!CullByte, Rated!CullReturns,
         Rated!contest

\* What is new to virgin_bits was shown by the entry that is calibrated, or is about to be.
LEMMA SeenStep == ASSUME IInv, Seen, [Next]_vars PROVE Seen'
<1> SUFFICES ASSUME wobbly = {}, ~failed, ~failed', NEW p \in virgin_bits'
             PROVE  p[1] \in Bytes /\ Shown(p[1])'
  <2>1. target' = target
    BY DEF Next, MainStep, ReadTestcase, DryRun, Calibrated, CalibrationFails, CullQueue,
           StartFuzzing, NextEntry, ImportEnds, SkipEntry, FuzzOne, TrimCase, TrimStopped,
           StagesEnd, AbandonEntry, SyncEnds, Advance, Leave, ScoringStep, SaveIfInteresting,
           NothingNew, Stop, nature, vars
  <2>2. failed' = failed \/ failed' = TRUE
    BY DEF Next, MainStep, ReadTestcase, DryRun, Calibrated, CalibrationFails, CullQueue,
           StartFuzzing, NextEntry, ImportEnds, SkipEntry, FuzzOne, TrimCase, TrimStopped,
           StagesEnd, AbandonEntry, SyncEnds, Advance, Leave, ScoringStep, SaveIfInteresting,
           NothingNew, Stop, nature, vars
  <2>3. SUFFICES ASSUME wobbly' = {}, ~failed', NEW p \in virgin_bits'
                 PROVE  p[1] \in Bytes /\ Shown(p[1])'
    BY DEF Seen
  <2> QED
    BY <2>1, <2>2, <2>3 DEF wobbly
<1>1. p \in virgin_bits => p[1] \in Bytes /\ Shown(p[1])
  BY DEF Seen
<1>2. CASE UNCHANGED <<queued_paths, scored, virgin_bits>> /\ pc # "calibrate"
  BY <1>1, <1>2 DEF Shown, Queued
<1>3. CASE UNCHANGED <<queued_paths, scored, virgin_bits, pc, cal, base>>
  BY <1>1, <1>3 DEF Shown, Queued, Hit
<1>4. CASE ReadTestcase
  BY <1>1, <1>4 DEF ReadTestcase, Rated!AddToQueue, globals, At, Shown, Queued, IInv, Types
<1>5. CASE Calibrated
  <2>1. /\ pc = "calibrate" /\ cal \in Queued /\ cal \in Ids
    BY <1>5, CorpusAssumption DEF IInv, Types, Control, Calibrated, At, Queued, Ids
  <2>2. PICK n \in CAL_CYCLES .. CAL_CYCLES_LONG : \E r \in [1 .. n -> Runs(base[cal])] :
          Observe(n, r) /\ \E f \in Factors : Rated!CallScore(cal, f, Hit(r[n]))
    BY <1>5 DEF Calibrated
  <2>3. PICK r \in [1 .. n -> Runs(base[cal])] :
          Observe(n, r) /\ \E f \in Factors : Rated!CallScore(cal, f, Hit(r[n]))
    BY <2>2
  <2>4. n \in 1 .. n /\ \A j \in 1 .. n : r[j] = base[cal]
    BY <2>1, <2>3, CorpusAssumption, RunsSame DEF IInv, Types
  <2>5. /\ scored' = [scored EXCEPT ![cal] = scored[cal] \cup Hit(base[cal])]
        /\ UNCHANGED queued_paths /\ virgin_bits' = virgin_bits \cup PairsOf(Looked(n, r))
    BY <2>3, <2>4 DEF Rated!CallScore, Rated!entries, Observe
  <2>6. \A t \in Looked(n, r) : t = base[cal]
    BY <2>4 DEF Looked, Odd
  <2>7. p \in virgin_bits \/ p[1] \in Hit(base[cal])
    BY <2>5, <2>6 DEF PairsOf, Pairs
  <2>8. Queued' = Queued /\ \A e \in Queued : e \in Ids
    BY <2>5, CorpusAssumption DEF Queued, Ids, IInv, Types
  <2>9. /\ Hit(base[cal]) \subseteq scored'[cal]
        /\ \A e \in Queued : scored[e] \subseteq scored'[e]
    BY <2>1, <2>5, <2>8 DEF IInv, Types
  <2>10. p[1] \in Bytes
    BY <1>1, <2>7 DEF Hit
  <2>11. \E e \in Queued : p[1] \in scored'[e]
    BY <1>1, <2>1, <2>7, <2>9 DEF Shown
  <2> QED
    BY <2>8, <2>10, <2>11 DEF Shown
<1>6. CASE SaveIfInteresting
  <2>1. /\ pc # "calibrate" /\ pc' = "calibrate" /\ cal' = queued_paths' /\ UNCHANGED scored
        /\ queued_paths' = queued_paths + 1 /\ queued_paths' \in Ids
    BY <1>6, CorpusAssumption DEF SaveIfInteresting, Rated!AddToQueue, IInv, Types, Ids
  <2>2. PICK t \in Traces : \E r \in Runs(t) :
          /\ base' = [base EXCEPT ![queued_paths'] = t]
          /\ virgin_bits' = virgin_bits \cup Pairs(r)
    BY <1>6 DEF SaveIfInteresting
  <2>3. PICK r \in Runs(t) : /\ base' = [base EXCEPT ![queued_paths'] = t]
                             /\ virgin_bits' = virgin_bits \cup Pairs(r)
    BY <2>2
  <2>4. r = t /\ base'[queued_paths'] = t
    BY <2>1, <2>3, RunsSame DEF Traces, IInv, Types
  <2>5. p \in virgin_bits \/ p[1] \in Hit(base'[cal'])
    BY <2>1, <2>3, <2>4 DEF Pairs
  <2>6. Queued \subseteq Queued'
    BY <2>1, CorpusAssumption DEF Queued, IInv, Types
  <2>7. CASE p \in virgin_bits
    BY <1>1, <2>1, <2>6, <2>7 DEF Shown
  <2>8. CASE p[1] \in Hit(base'[cal'])
    BY <2>1, <2>8 DEF Shown, Hit
  <2> QED
    BY <2>5, <2>7, <2>8
<1>7. CASE TrimCase
  <2>1. /\ UNCHANGED <<queued_paths, virgin_bits>> /\ pc # "calibrate"
        /\ \A e \in Ids : scored[e] \subseteq scored'[e]
    BY <1>7 DEF TrimCase, At, rated, Rated!CallScore, Rated!entries, IInv, Types
  <2>2. Queued' = Queued /\ Queued \subseteq Ids
    BY <2>1, CorpusAssumption DEF Queued, Ids, IInv, Types
  <2> QED
    BY <1>1, <2>1, <2>2 DEF Shown
<1>8. CASE CalibrationFails
  BY <1>8 DEF CalibrationFails
<1> QED
  BY <1>2, <1>3, <1>4, <1>5, <1>6, <1>7, <1>8
     DEF Next, MainStep, DryRun, CullQueue, StartFuzzing, NextEntry, ImportEnds, SkipEntry, FuzzOne,
         TrimStopped, StagesEnd, AbandonEntry, SyncEnds, Advance, Leave, ScoringStep,
         NothingNew, Stop, At, vars, rated, fields, globals, control, Rated!CallCull,
         Rated!MarkFuzzed, Rated!ScoreByte, Rated!ScoreReturns, Rated!CullByte,
         Rated!CullReturns, Rated!contest, Rated!entries

\* Nothing that can happen between a cull and the pick of an entry takes a tuple's cover away.
LEMMA CoverStep ==
  ASSUME IInv, Won, Seen, Rated!FavoredCover, CoverKept, [Next]_vars PROVE CoverKept'
<1> SUFFICES ASSUME wobbly' = {}, ~failed', SinceCull', NEW p \in virgin_bits' \ late'
             PROVE  \E e \in Queued' : favored'[e] /\ p[1] \in scored'[e]
  BY DEF CoverKept
<1>1. wobbly = {} /\ ~failed
  <2>1. target' = target
    BY DEF Next, MainStep, ReadTestcase, DryRun, Calibrated, CalibrationFails, CullQueue,
           StartFuzzing, NextEntry, ImportEnds, SkipEntry, FuzzOne, TrimCase, TrimStopped,
           StagesEnd, AbandonEntry, SyncEnds, Advance, Leave, ScoringStep, SaveIfInteresting,
           NothingNew, Stop, nature, vars
  <2>2. failed' = failed \/ failed' = TRUE
    BY DEF Next, MainStep, ReadTestcase, DryRun, Calibrated, CalibrationFails, CullQueue,
           StartFuzzing, NextEntry, ImportEnds, SkipEntry, FuzzOne, TrimCase, TrimStopped,
           StagesEnd, AbandonEntry, SyncEnds, Advance, Leave, ScoringStep, SaveIfInteresting,
           NothingNew, Stop, nature, vars
  <2>3. wobbly = {}
    BY <2>1 DEF wobbly
  <2> QED
    BY <2>2, <2>3
<1>2. Queued \subseteq Ids
  BY CorpusAssumption DEF IInv, Types, Queued, Ids
<1>3. CASE NextEntry
  <2>1. /\ pc = "loop" /\ loop = "client" /\ ~score_changed /\ p \in virgin_bits
        /\ UNCHANGED <<queued_paths, favored, scored>>
    BY <1>3 DEF NextEntry, At, rated, globals
  <2>2. PICK e \in Queued : p[1] \in Bytes /\ p[1] \in scored[e]
    BY <1>1, <2>1 DEF Seen, Shown
  <2>3. top_rated[p[1]] # 0
    BY <1>2, <2>1, <2>2 DEF Won
  <2>4. \E f \in Rated!Queued : favored[f] /\ p[1] \in scored[f]
    BY <2>1, <2>2, <2>3 DEF Rated!FavoredCover, Rated!Bytes, Bytes, Rated!Nobody
  <2> QED
    BY <2>1, <2>4 DEF Rated!Queued, Queued
<1>4. ASSUME SinceCull, p \in virgin_bits \ late, Queued \subseteq Queued',
             \A e \in Ids : (favored[e] => favored'[e]) /\ scored[e] \subseteq scored'[e]
      PROVE  \E e \in Queued' : favored'[e] /\ p[1] \in scored'[e]
  BY <1>1, <1>2, <1>4 DEF CoverKept
<1>5. CASE UNCHANGED <<queued_paths, favored, scored, virgin_bits, late>> /\ SinceCull
  BY <1>4, <1>5 DEF Queued
<1>6. CASE SaveIfInteresting
  <2>1. /\ pc = "import" /\ ret' = "import" /\ UNCHANGED <<favored, scored>>
        /\ queued_paths' = queued_paths + 1 /\ late' = late \cup (virgin_bits' \ virgin_bits)
    BY <1>6 DEF SaveIfInteresting, Rated!AddToQueue, NoteLate, SinceCull, IInv, Types
  <2>2. Queued \subseteq Queued'
    BY <2>1, CorpusAssumption DEF Queued, IInv, Types
  <2> QED
    BY <1>4, <2>1, <2>2 DEF SinceCull
<1>7. CASE Calibrated
  <2>1. /\ pc = "calibrate" /\ ret = "import"
        /\ late' = late \cup (virgin_bits' \ virgin_bits)
    BY <1>7 DEF Calibrated, At, NoteLate, SinceCull, IInv, Control
  <2>2. \E f \in Factors, t \in SUBSET Bytes : Rated!CallScore(cal, f, t)
    BY <1>7 DEF Calibrated, Hit
  <2>3. UNCHANGED <<queued_paths, favored>> /\ \A e \in Ids : scored[e] \subseteq scored'[e]
    BY <2>2 DEF Rated!CallScore, Rated!entries, IInv, Types
  <2> QED
    BY <1>4, <2>1, <2>3 DEF SinceCull, Queued
<1>8. CASE ScoringStep
  <2>1. UNCHANGED <<queued_paths, scored, virgin_bits, late>> /\ SinceCull
    BY <1>8
       DEF ScoringStep, Rated!ScoreByte, Rated!ScoreReturns, Rated!CullByte, Rated!CullReturns,
           Rated!contest, Rated!entries, globals, control, nature, SinceCull
  <2>2. \A e \in Ids : favored[e] => favored'[e]
    BY <1>8
       DEF ScoringStep, Rated!ScoreByte, Rated!ScoreReturns, Rated!CullByte, Rated!CullReturns,
           Rated!contest, Rated!entries, IInv, Types
  <2> QED
    BY <1>4, <2>1, <2>2 DEF Queued
<1>9. CASE ReadTestcase \/ DryRun \/ CalibrationFails \/ CullQueue \/ StartFuzzing \/ SkipEntry
           \/ FuzzOne \/ TrimCase \/ TrimStopped \/ StagesEnd \/ AbandonEntry
  BY <1>9
     DEF ReadTestcase, DryRun, CalibrationFails, CullQueue, StartFuzzing, SkipEntry, FuzzOne,
         TrimCase, TrimStopped, StagesEnd, AbandonEntry, At, control, SinceCull
<1>10. CASE ImportEnds \/ SyncEnds \/ Advance \/ Leave \/ NothingNew \/ Stop \/ UNCHANGED vars
  BY <1>5, <1>10
     DEF ImportEnds, SyncEnds, Advance, Leave, NothingNew, Stop, At, vars, rated, globals,
         control, nature, SinceCull
<1> QED
  BY <1>3, <1>6, <1>7, <1>8, <1>9, <1>10 DEF Next, MainStep

\* docs/technical_details.txt:155-167, for a stable target while no calibration has failed:
\* whenever fuzz_one() picks an entry, the favored ones cover every tuple seen so far, but for
\* those that an import under AFL_IMPORT_FIRST (8039-8040) was the first to show since the cull.
THEOREM CoverSteadyHolds == Spec => []CoverSteady
<1>1. Init => Won /\ Seen /\ CoverKept
  BY DEF Init, Rated!Init, Won, Seen, CoverKept, SinceCull, Rated!Ids, Ids
<1>2. /\ IInv /\ Won /\ Seen /\ Rated!FavoredCover /\ CoverKept /\ [Next]_vars
         => (Won /\ Seen /\ CoverKept)'
  BY WonStep, SeenStep, CoverStep
<1>3. CoverKept => CoverSteady
  BY DEF CoverKept, CoverSteady, SinceCull, At, Covered, Rated!Queued, Queued
<1>4. Spec => []IInv
  BY InitIInv, StepIInv, PTL DEF Spec
<1>5. Spec => []Rated!FavoredCover
  BY ScoringHolds, PTL
<1> QED
  BY <1>1, <1>2, <1>3, <1>4, <1>5, PTL DEF Spec
============================================================================
