------------------------------ MODULE TopRated ------------------------------
(***************************************************************************)
(* How afl-fuzz.c picks the favored queue entries: update_bitmap_score()   *)
(* lets an entry compete for the slots top_rated[] of the map bytes its    *)
(* trace hits, and cull_queue() greedily marks winners as favored until    *)
(* they cover the map.  Both are loops over the map with shared, reference *)
(* counted traces, so one step of the model is one iteration.  The rest of *)
(* the fuzzer is the client that adds, scores, culls and fuzzes.           *)
(***************************************************************************)
EXTENDS Integers, FiniteSets

CONSTANTS
  MAP_SIZE,  \* bytes of the coverage map
  MaxPaths,  \* bound on the queue
  Factors,   \* values of exec_us * len of a calibrated entry
  Stable     \* an entry hits the same bytes each time it runs

ASSUME SizesAssumption  == MAP_SIZE \in Nat /\ MaxPaths \in Nat
ASSUME FactorAssumption == Factors \subseteq Nat
ASSUME StableAssumption == Stable \in BOOLEAN

Bytes  == 0 .. MAP_SIZE - 1
Ids    == 1 .. MaxPaths
Nobody == 0     \* the null pointer in top_rated[]
NoTrace == {}   \* the null pointer in trace_mini: a kept trace is never empty

VARIABLES
  \* the queue, one function per field of struct queue_entry
  queued_paths, was_fuzzed, favored, fs_redundant, fav_factor, trace_mini, tc_ref,
  \* globals
  top_rated, score_changed, queued_favored, pending_favored, pending_not_fuzzed,
  \* the loops: which one runs, its index, its subject (cleared on return)
  loop, i, q, trace_bits, temp_v,
  \* history: the bytes an entry was ever scored for
  scored

entries  == <<queued_paths, was_fuzzed, favored, fs_redundant>>
contest  == <<fav_factor, trace_mini, tc_ref, top_rated>>
counters == <<queued_favored, pending_favored, pending_not_fuzzed>>
vars     == <<entries, contest, counters, score_changed, loop, i, q, trace_bits, temp_v, scored>>

Queued    == 1 .. queued_paths
Slots(e)  == {b \in Bytes : top_rated[b] = e}
Unfuzzed  == {e \in Queued : ~was_fuzzed[e]}

TypeOK ==
  /\ queued_paths \in 0 .. MaxPaths
  /\ was_fuzzed \in [Ids -> BOOLEAN]
  /\ favored \in [Ids -> BOOLEAN]
  /\ fs_redundant \in [Ids -> BOOLEAN]
  /\ fav_factor \in [Ids -> Nat]
  /\ trace_mini \in [Ids -> SUBSET Bytes]
  /\ tc_ref \in [Ids -> Nat]
  /\ top_rated \in [Bytes -> Ids \cup {Nobody}]
  /\ score_changed \in BOOLEAN
  /\ queued_favored \in Nat /\ pending_favored \in Nat /\ pending_not_fuzzed \in Nat
  /\ loop \in {"client", "score", "cull"}
  /\ i \in 0 .. MAP_SIZE
  /\ q \in Ids \cup {Nobody}
  /\ trace_bits \in SUBSET Bytes /\ temp_v \in SUBSET Bytes
  /\ scored \in [Ids -> SUBSET Bytes]

Init ==
  /\ queued_paths = 0
  /\ was_fuzzed = [e \in Ids |-> FALSE]
  /\ favored = [e \in Ids |-> FALSE]
  /\ fs_redundant = [e \in Ids |-> FALSE]
  /\ fav_factor = [e \in Ids |-> 0]
  /\ trace_mini = [e \in Ids |-> NoTrace]
  /\ tc_ref = [e \in Ids |-> 0]
  /\ top_rated = [b \in Bytes |-> Nobody]
  /\ score_changed = FALSE
  /\ queued_favored = 0 /\ pending_favored = 0 /\ pending_not_fuzzed = 0
  /\ loop = "client" /\ i = 0 /\ q = Nobody /\ trace_bits = {} /\ temp_v = {}
  /\ scored = [e \in Ids |-> {}]
-----------------------------------------------------------------------------
(* add_to_queue() *)
AddToQueue ==
  /\ loop = "client" /\ queued_paths < MaxPaths
  /\ queued_paths' = queued_paths + 1
  /\ pending_not_fuzzed' = pending_not_fuzzed + 1
  /\ UNCHANGED <<was_fuzzed, favored, fs_redundant, contest, queued_favored, pending_favored,
                 score_changed, loop, i, q, trace_bits, temp_v, scored>>

(* The end of fuzz_one() for an entry that got through. *)
MarkFuzzed(e) ==
  /\ loop = "client" /\ e \in Queued /\ ~was_fuzzed[e]
  /\ was_fuzzed' = [was_fuzzed EXCEPT ![e] = TRUE]
  /\ pending_not_fuzzed' = pending_not_fuzzed - 1
  /\ pending_favored' = IF favored[e] THEN pending_favored - 1 ELSE pending_favored
  /\ UNCHANGED <<queued_paths, favored, fs_redundant, contest, queued_favored, score_changed,
                 loop, i, q, trace_bits, temp_v, scored>>
-----------------------------------------------------------------------------
(* update_bitmap_score(e), called with trace t in the map and factor f.    *)
CallScore(e, f, t) ==
  /\ loop = "client"
  /\ loop' = "score" /\ i' = 0 /\ q' = e /\ trace_bits' = t
  /\ fav_factor' = [fav_factor EXCEPT ![e] = f]
  /\ scored' = [scored EXCEPT ![e] = @ \cup t]
  /\ UNCHANGED <<entries, trace_mini, tc_ref, top_rated, counters, score_changed, temp_v>>

(* What calibrate_case() and trim_case() may ask: an entry is scored when  *)
(* it was calibrated, and again when it was trimmed, which only makes it   *)
(* smaller.                                                                *)
ScoreAllowed(e, f, t) ==
  /\ e \in Queued
  /\ scored[e] # {} => f <= fav_factor[e] /\ (Stable => t = scored[e])

(* Mutant: a loser keeps its trace. *)
MiniKept(w) == trace_mini

(* Mutant: the larger entry wins. *)
WinsLarger == \/ top_rated[i] = Nobody
              \/ fav_factor[q] >= fav_factor[top_rated[i]]

(* Release the slot of the previous winner and its trace with the last.    *)
RefAfterLoss(w)  == IF w = Nobody THEN tc_ref ELSE [tc_ref EXCEPT ![w] = @ - 1]
MiniAfterLoss(w) ==
  IF w # Nobody /\ tc_ref[w] = 1 THEN [trace_mini EXCEPT ![w] = NoTrace] ELSE trace_mini

Wins == \/ top_rated[i] = Nobody
        \/ fav_factor[q] <= fav_factor[top_rated[i]]

(* One iteration of the loop of update_bitmap_score(). *)
ScoreByte ==
  /\ loop = "score" /\ i < MAP_SIZE
  /\ i' = i + 1
  /\ IF i \in trace_bits /\ Wins
     THEN LET ref  == RefAfterLoss(top_rated[i])
              mini == MiniAfterLoss(top_rated[i])
          IN  /\ top_rated' = [top_rated EXCEPT ![i] = q]
              /\ tc_ref' = [ref EXCEPT ![q] = @ + 1]
              /\ trace_mini' = IF mini[q] = NoTrace THEN [mini EXCEPT ![q] = trace_bits]
                                                    ELSE mini
              /\ score_changed' = TRUE
     ELSE UNCHANGED <<top_rated, tc_ref, trace_mini, score_changed>>
  /\ UNCHANGED <<entries, fav_factor, counters, loop, q, trace_bits, temp_v, scored>>

Return == loop' = "client" /\ i' = 0 /\ q' = Nobody /\ trace_bits' = {} /\ temp_v' = {}

ScoreReturns ==
  /\ loop = "score" /\ i = MAP_SIZE
  /\ Return
  /\ UNCHANGED <<entries, contest, counters, score_changed, scored>>
-----------------------------------------------------------------------------
(* Mutants: the favored flags, the map of uncovered bytes or a counter is  *)
(* not reset.                                                              *)
CullFrom(flags, uncovered, count) ==
  /\ loop = "client" /\ score_changed
  /\ score_changed' = FALSE
  /\ temp_v' = uncovered
  /\ queued_favored' = count /\ pending_favored' = 0
  /\ favored' = flags
  /\ loop' = "cull" /\ i' = 0
  /\ UNCHANGED <<queued_paths, was_fuzzed, fs_redundant, contest, pending_not_fuzzed, q,
                 trace_bits, scored>>

CallCullKeepsFlags == CullFrom(favored, Bytes, 0)
CallCullKeepsMap   == CullFrom([e \in Ids |-> FALSE], temp_v, 0)

(* cull_queue(), when there is anything to do. *)
CallCull ==
  /\ loop = "client" /\ score_changed
  /\ score_changed' = FALSE
  /\ temp_v' = Bytes
  /\ queued_favored' = 0 /\ pending_favored' = 0
  /\ favored' = [e \in Ids |-> FALSE]
  /\ loop' = "cull" /\ i' = 0
  /\ UNCHANGED <<queued_paths, was_fuzzed, fs_redundant, contest, pending_not_fuzzed, q,
                 trace_bits, scored>>

(* One iteration of its loop over the map. *)
CullByte ==
  /\ loop = "cull" /\ i < MAP_SIZE
  /\ i' = i + 1
  /\ LET w == top_rated[i] IN
     IF w # Nobody /\ i \in temp_v
     THEN /\ temp_v' = temp_v \ trace_mini[w]
          /\ favored' = [favored EXCEPT ![w] = TRUE]
          /\ queued_favored' = queued_favored + 1
          /\ pending_favored' = IF was_fuzzed[w] THEN pending_favored ELSE pending_favored + 1
     ELSE UNCHANGED <<temp_v, favored, queued_favored, pending_favored>>
  /\ UNCHANGED <<queued_paths, was_fuzzed, fs_redundant, contest, pending_not_fuzzed,
                 score_changed, loop, q, trace_bits, scored>>

(* Its last loop: mark_as_redundant() for every entry. *)
CullReturns ==
  /\ loop = "cull" /\ i = MAP_SIZE
  /\ fs_redundant' = [e \in Ids |-> e \in Queued /\ ~favored[e]]
  /\ Return
  /\ UNCHANGED <<queued_paths, was_fuzzed, favored, contest, counters, score_changed, scored>>
-----------------------------------------------------------------------------
Client ==
  \/ AddToQueue
  \/ \E e \in Ids : MarkFuzzed(e)
  \/ \E e \in Ids, f \in Factors, t \in SUBSET Bytes :
       ScoreAllowed(e, f, t) /\ CallScore(e, f, t)
  \/ CallCull

Next == Client \/ ScoreByte \/ ScoreReturns \/ CullByte \/ CullReturns

Spec == Init /\ [][Next]_vars
-----------------------------------------------------------------------------
(* The reference counts are exact, also half-way through a contest, and an *)
(* entry holds a trace exactly as long as it holds a slot: cull_queue()    *)
(* never follows a null trace_mini.                                        *)
RefCounts ==
  \A e \in Ids : /\ tc_ref[e] = Cardinality(Slots(e))
                 /\ trace_mini[e] = NoTrace <=> Slots(e) = {}

(* Between calls, each byte an entry was ever scored for has a winner that *)
(* is not worse than the entry is now: neither trimming nor a rival's loss *)
(* leaves a slot with a worse entry.                                       *)
BestRated ==
  loop = "client" =>
    \A e \in Ids : \A b \in scored[e] :
      top_rated[b] # Nobody /\ fav_factor[top_rated[b]] <= fav_factor[e]

(* After a cull nothing that has a winner is left uncovered by the favored *)
(* entries.                                                                *)
FavoredCover ==
  loop = "client" /\ ~score_changed =>
    \A b \in Bytes : top_rated[b] # Nobody =>
      \E e \in Queued : favored[e] /\ b \in scored[e]

(* docs/status_screen.txt: pending_favs is the number of favored entries   *)
(* still waiting to be fuzzed.                                             *)
PendingFavored == Cardinality({e \in Unfuzzed : favored[e]})
PendingFavoredExact == loop = "client" => pending_favored = PendingFavored

(* So are the two other counters that steer fuzz_one() and the screen.     *)
CountersExact ==
  /\ loop = "client" => queued_favored = Cardinality({e \in Queued : favored[e]})
  /\ pending_not_fuzzed = Cardinality(Unfuzzed)
-----------------------------------------------------------------------------
(* The inductive invariant behind these properties.                        *)

(* Only queued entries take part, and a winner was scored for its byte.    *)
Members ==
  /\ \A e \in Ids : was_fuzzed[e] \/ favored[e] \/ scored[e] # {} => e \in Queued
  /\ \A b \in Bytes : top_rated[b] # Nobody =>
       top_rated[b] \in Queued /\ b \in scored[top_rated[b]]

(* A kept trace is one the entry was scored for; where the target is       *)
(* stable it is all the entry was scored for.                              *)
Kept ==
  \A e \in Ids : /\ trace_mini[e] \subseteq scored[e]
                 /\ Stable /\ trace_mini[e] # NoTrace => trace_mini[e] = scored[e]

(* The subject of the contest that is on. *)
Contest ==
  loop = "score" => /\ q \in Queued
                    /\ trace_bits \subseteq scored[q]
                    /\ Stable => trace_bits = scored[q]

(* BestRated, up to the bytes the contest that is on has not reached yet.  *)
Best ==
  Stable => \A e \in Ids : \A b \in scored[e] :
    \/ loop = "score" /\ e = q /\ i <= b
    \/ top_rated[b] # Nobody /\ fav_factor[top_rated[b]] <= fav_factor[e]

CoveredByte(b) == \E e \in Queued : favored[e] /\ b \in scored[e]

(* FavoredCover, up to the bytes a cull has not reached yet.               *)
Cover ==
  /\ loop # "cull" /\ ~score_changed => \A b \in Bytes : top_rated[b] # Nobody => CoveredByte(b)
  /\ loop = "cull" =>
       /\ ~score_changed
       /\ \A b \in Bytes : b \notin temp_v \/ (b < i /\ top_rated[b] # Nobody) => CoveredByte(b)
       /\ Stable => \A e \in Ids : favored[e] => scored[e] \cap temp_v = {}

Favorites == {e \in Queued : favored[e]}
Counts ==
  /\ pending_not_fuzzed = Cardinality(Unfuzzed)
  /\ PendingFavored <= pending_favored
  /\ Stable => pending_favored = PendingFavored /\ queued_favored = Cardinality(Favorites)

IInv == TypeOK /\ RefCounts /\ Members /\ Kept /\ Contest /\ Best /\ Cover /\ Counts
=============================================================================
