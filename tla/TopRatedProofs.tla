--------------------------- MODULE TopRatedProofs ---------------------------
(***************************************************************************)
(* TopRated for maps and queues of any size and any factors: IInv is       *)
(* inductive, and the properties of scoring and culling follow from it.    *)
(***************************************************************************)
EXTENDS TopRated, FiniteSetTheorems, TLAPS

(* Everything that is counted is finite. *)
LEMMA Finite ==
  /\ IsFiniteSet(Bytes) /\ IsFiniteSet(Ids)
  /\ \A S \in SUBSET Bytes : IsFiniteSet(S) /\ Cardinality(S) \in Nat
  /\ \A S \in SUBSET Ids : IsFiniteSet(S) /\ Cardinality(S) \in Nat
<1>1. IsFiniteSet(Bytes) /\ IsFiniteSet(Ids)
  BY SizesAssumption, FS_Interval DEF Bytes, Ids
<1>2. ASSUME NEW T, IsFiniteSet(T), NEW S \in SUBSET T
      PROVE IsFiniteSet(S) /\ Cardinality(S) \in Nat
  BY <1>2, FS_Subset, FS_CardinalityType
<1> QED
  BY <1>1, <1>2

(* What an entry's cardinalities do when one element comes or goes. *)
LEMMA OneMore ==
  ASSUME NEW S, IsFiniteSet(S), NEW x, x \notin S
  PROVE Cardinality(S \cup {x}) = Cardinality(S) + 1
BY FS_AddElement

LEMMA OneLess ==
  ASSUME NEW S, IsFiniteSet(S), NEW x \in S
  PROVE Cardinality(S \ {x}) = Cardinality(S) - 1
BY FS_RemoveElement

(* The state a winning iteration of update_bitmap_score() leads to, entry  *)
(* by entry.                                                               *)
LEMMA WinStep ==
  ASSUME TypeOK, Contest, ScoreByte, i \in trace_bits, Wins
  PROVE
    /\ i \in Bytes /\ q \in Ids /\ q \in Queued /\ i \in scored[q] /\ q # Nobody
    /\ top_rated' = [top_rated EXCEPT ![i] = q] /\ score_changed' = TRUE
    /\ tc_ref' \in [Ids -> Int]
    /\ \A e \in Ids : tc_ref'[e] = tc_ref[e] - (IF e = top_rated[i] THEN 1 ELSE 0)
                                             + (IF e = q THEN 1 ELSE 0)
    /\ trace_mini' \in [Ids -> SUBSET Bytes]
    /\ \A e \in Ids : trace_mini'[e] =
         IF e = q /\ (trace_mini[q] = {} \/ (top_rated[i] = q /\ tc_ref[q] = 1)) THEN trace_bits
         ELSE IF e = top_rated[i] /\ tc_ref[e] = 1 THEN {} ELSE trace_mini[e]
<1> DEFINE w    == top_rated[i]
           ref  == RefAfterLoss(w)
           mini == MiniAfterLoss(w)
<1>1. /\ i \in Bytes /\ q \in Ids /\ q \in Queued /\ i \in scored[q] /\ q # Nobody
      /\ w \in Ids \cup {Nobody} /\ Nobody \notin Ids /\ trace_bits \in SUBSET Bytes
  BY SizesAssumption DEF TypeOK, Contest, ScoreByte, Bytes, Ids, Nobody, Queued
<1>2. /\ top_rated' = [top_rated EXCEPT ![i] = q] /\ score_changed' = TRUE
      /\ tc_ref' = [ref EXCEPT ![q] = @ + 1]
      /\ trace_mini' = IF mini[q] = NoTrace THEN [mini EXCEPT ![q] = trace_bits] ELSE mini
  BY DEF ScoreByte
<1>3. /\ ref \in [Ids -> Int]
      /\ \A e \in Ids : ref[e] = tc_ref[e] - (IF e = w THEN 1 ELSE 0)
  BY <1>1 DEF RefAfterLoss, TypeOK
<1>4. /\ mini \in [Ids -> SUBSET Bytes]
      /\ \A e \in Ids : mini[e] = IF e = w /\ tc_ref[e] = 1 THEN {} ELSE trace_mini[e]
  BY <1>1 DEF MiniAfterLoss, TypeOK, NoTrace
<1> HIDE DEF w, ref, mini
<1>5. /\ tc_ref' \in [Ids -> Int]
      /\ \A e \in Ids : tc_ref'[e] = tc_ref[e] - (IF e = w THEN 1 ELSE 0)
                                               + (IF e = q THEN 1 ELSE 0)
  <2>1. tc_ref \in [Ids -> Nat]
    BY DEF TypeOK
  <2> QED
    BY <1>1, <1>2, <1>3, <2>1
<1>6. /\ trace_mini' \in [Ids -> SUBSET Bytes]
      /\ \A e \in Ids : trace_mini'[e] =
           IF e = q /\ (trace_mini[q] = {} \/ (w = q /\ tc_ref[q] = 1)) THEN trace_bits
           ELSE IF e = w /\ tc_ref[e] = 1 THEN {} ELSE trace_mini[e]
  BY <1>1, <1>2, <1>4 DEF NoTrace
<1> QED
  BY <1>1, <1>2, <1>5, <1>6 DEF w

(* How many slots each entry holds after a winning iteration. *)
LEMMA SlotsStep ==
  ASSUME TypeOK, NEW b \in Bytes, NEW w \in Ids, top_rated' = [top_rated EXCEPT ![b] = w],
         NEW e \in Ids
  PROVE  /\ Slots(e)' = IF e = w THEN Slots(e) \cup {b} ELSE Slots(e) \ {b}
         /\ Cardinality(Slots(e)') = Cardinality(Slots(e)) - (IF e = top_rated[b] THEN 1 ELSE 0)
                                                           + (IF e = w THEN 1 ELSE 0)
<1>1. Slots(e) \in SUBSET Bytes /\ IsFiniteSet(Slots(e)) /\ Cardinality(Slots(e)) \in Nat
  BY Finite DEF Slots
<1>2. b \in Slots(e) <=> e = top_rated[b]
  BY DEF Slots
<1>3. Slots(e)' = IF e = w THEN Slots(e) \cup {b} ELSE Slots(e) \ {b}
  BY DEF Slots, TypeOK
<1>4. CASE e = w /\ e = top_rated[b]
  <2>1. Slots(e)' = Slots(e)
    BY <1>2, <1>3, <1>4
  <2>2. Cardinality(Slots(e)') = Cardinality(Slots(e))
    BY <2>1
  <2>3. Cardinality(Slots(e)) \in Int
    BY <1>1
  <2> QED
    BY <1>3, <1>4, <2>2, <2>3
<1>5. CASE e = w /\ e # top_rated[b]
  <2>1. Cardinality(Slots(e) \cup {b}) = Cardinality(Slots(e)) + 1
    BY <1>1, <1>2, <1>5, OneMore
  <2> QED
    BY <1>1, <1>3, <1>5, <2>1
<1>6. CASE e # w /\ e = top_rated[b]
  <2>1. Cardinality(Slots(e) \ {b}) = Cardinality(Slots(e)) - 1
    BY <1>1, <1>2, <1>6, OneLess
  <2> QED
    BY <1>1, <1>3, <1>6, <2>1
<1>7. CASE e # w /\ e # top_rated[b]
  <2>1. Slots(e)' = Slots(e)
    BY <1>2, <1>3, <1>7
  <2>2. Cardinality(Slots(e)') = Cardinality(Slots(e))
    BY <2>1
  <2>3. Cardinality(Slots(e)) \in Int
    BY <1>1
  <2> QED
    BY <1>3, <1>7, <2>2, <2>3
<1> QED
  BY <1>4, <1>5, <1>6, <1>7

(* The references to an entry's trace stay exact. *)
LEMMA RefCountsStep ==
  ASSUME IInv, [Next]_vars
  PROVE  RefCounts'
<1> USE DEF IInv
<1>1. CASE UNCHANGED <<top_rated, tc_ref, trace_mini>>
  BY <1>1 DEF RefCounts, Slots
<1>2. CASE ScoreByte /\ i \in trace_bits /\ Wins
  <2>1. /\ i \in Bytes /\ q \in Ids /\ q # Nobody
        /\ top_rated' = [top_rated EXCEPT ![i] = q]
        /\ \A e \in Ids : tc_ref'[e] = tc_ref[e] - (IF e = top_rated[i] THEN 1 ELSE 0)
                                                 + (IF e = q THEN 1 ELSE 0)
        /\ \A e \in Ids : trace_mini'[e] =
             IF e = q /\ (trace_mini[q] = {} \/ (top_rated[i] = q /\ tc_ref[q] = 1))
             THEN trace_bits
             ELSE IF e = top_rated[i] /\ tc_ref[e] = 1 THEN {} ELSE trace_mini[e]
    BY <1>2, WinStep
  <2>2. SUFFICES ASSUME NEW e \in Ids
                 PROVE  /\ tc_ref'[e] = Cardinality(Slots(e)')
                        /\ trace_mini'[e] = NoTrace <=> Slots(e)' = {}
    BY DEF RefCounts
  <2>3. /\ tc_ref[e] = Cardinality(Slots(e))
        /\ trace_mini[e] = {} <=> Slots(e) = {}
    BY DEF RefCounts, NoTrace
  <2>4. /\ Slots(e)' = IF e = q THEN Slots(e) \cup {i} ELSE Slots(e) \ {i}
        /\ Cardinality(Slots(e)') = Cardinality(Slots(e)) - (IF e = top_rated[i] THEN 1 ELSE 0)
                                                          + (IF e = q THEN 1 ELSE 0)
    <3>1. PICK b \in Bytes, w \in Ids : b = i /\ w = q
      BY <2>1
    <3>2. top_rated' = [top_rated EXCEPT ![b] = w] /\ TypeOK
      BY <2>1, <3>1
    <3>3. /\ Slots(e)' = IF e = w THEN Slots(e) \cup {b} ELSE Slots(e) \ {b}
          /\ Cardinality(Slots(e)') =
               Cardinality(Slots(e)) - (IF e = top_rated[b] THEN 1 ELSE 0)
                                     + (IF e = w THEN 1 ELSE 0)
      BY <3>2, SlotsStep
    <3> QED
      BY <3>1, <3>3
  <2>5. tc_ref'[e] = Cardinality(Slots(e)')
    BY <2>1, <2>3, <2>4
  <2>6. i \in Slots(e) <=> e = top_rated[i]
    BY <2>1 DEF Slots
  <2>7. CASE e = q
    <3>1. Slots(e)' # {} /\ trace_bits # {}
      BY <1>2, <2>4, <2>7
    <3>2. trace_mini'[e] # {}
      BY <2>1, <2>7, <3>1
    <3> QED
      BY <2>5, <3>1, <3>2 DEF NoTrace
  <2>8. CASE e # q /\ e = top_rated[i]
    <3>1. Slots(e)' \in SUBSET Bytes /\ IsFiniteSet(Slots(e)')
      BY <2>4, Finite DEF Slots
    <3>2. Slots(e)' = {} <=> Cardinality(Slots(e)') = 0
      BY <3>1, FS_EmptySet
    <3>3. Slots(e)' = {} <=> tc_ref[e] = 1
      <4>1. Cardinality(Slots(e)') = tc_ref[e] - 1 /\ tc_ref[e] \in Nat
        BY <2>3, <2>4, <2>8 DEF TypeOK
      <4> QED
        BY <3>2, <4>1
    <3>4. trace_mini[e] # {}
      BY <2>3, <2>6, <2>8
    <3>5. trace_mini'[e] = {} <=> tc_ref[e] = 1
      BY <2>1, <2>8, <3>4
    <3> QED
      BY <2>5, <3>3, <3>5 DEF NoTrace
  <2>9. CASE e # q /\ e # top_rated[i]
    <3>1. Slots(e)' = Slots(e)
      BY <2>4, <2>6, <2>9
    <3>2. trace_mini'[e] = trace_mini[e]
      BY <2>1, <2>9
    <3> QED
      BY <2>3, <2>5, <3>1, <3>2 DEF NoTrace
  <2> QED
    BY <2>7, <2>8, <2>9
<1>3. CASE ScoreByte /\ ~(i \in trace_bits /\ Wins)
  BY <1>1, <1>3 DEF ScoreByte
<1> QED
  BY <1>1, <1>2, <1>3 DEF Next, Client, AddToQueue, MarkFuzzed, CallScore, CallCull, ScoreReturns,
     CullByte, CullReturns, contest, vars

(* Only queued entries take part. *)
LEMMA MembersStep ==
  ASSUME IInv, [Next]_vars
  PROVE  Members'
<1> USE DEF IInv
<1>0. Queued \subseteq Ids /\ Queued = 1 .. queued_paths /\ queued_paths \in Nat
  BY SizesAssumption DEF TypeOK, Queued, Ids
<1>1. CASE AddToQueue
  <2>1. Queued \subseteq Queued'
    BY <1>0, <1>1 DEF AddToQueue, Queued
  <2> QED
    BY <1>1, <2>1 DEF AddToQueue, Members, contest
<1>2. ASSUME NEW e \in Ids, MarkFuzzed(e)
      PROVE  Members'
  BY <1>2 DEF MarkFuzzed, Members, TypeOK, Queued, contest
<1>3. ASSUME NEW e \in Ids, NEW f \in Factors, NEW t \in SUBSET Bytes, ScoreAllowed(e, f, t),
             CallScore(e, f, t)
      PROVE  Members'
  <2>1. /\ UNCHANGED <<queued_paths, was_fuzzed, favored, top_rated>>
        /\ scored' = [scored EXCEPT ![e] = scored[e] \cup t] /\ e \in Queued
    BY <1>3 DEF CallScore, ScoreAllowed, entries
  <2>2. \A g \in Ids : scored[g] \subseteq scored'[g] /\ (scored'[g] # {} => g \in Queued)
    BY <2>1 DEF TypeOK, Members
  <2> QED
    BY <1>0, <2>1, <2>2 DEF Members, TypeOK, Queued
<1>4. CASE CallCull
  BY <1>4 DEF CallCull, Members, Queued, contest
<1>5. CASE ScoreByte /\ i \in trace_bits /\ Wins
  <2>1. /\ q \in Queued /\ i \in scored[q] /\ top_rated' = [top_rated EXCEPT ![i] = q]
        /\ i \in Bytes
    BY <1>5, WinStep
  <2>2. UNCHANGED <<queued_paths, was_fuzzed, favored, scored>>
    BY <1>5 DEF ScoreByte, entries
  <2> QED
    BY <2>1, <2>2 DEF Members, Queued, TypeOK
<1>6. CASE ScoreByte /\ ~(i \in trace_bits /\ Wins)
  BY <1>6 DEF ScoreByte, Members, Queued, entries
<1>7. CASE ScoreReturns
  BY <1>7 DEF ScoreReturns, Members, Queued, entries, contest
<1>8. CASE CullByte
  <2>1. i \in Bytes
    BY <1>8, SizesAssumption DEF CullByte, TypeOK, Bytes
  <2>2. UNCHANGED <<queued_paths, was_fuzzed, scored, top_rated>>
    BY <1>8 DEF CullByte, contest
  <2>3. \A e \in Ids : favored'[e] => favored[e] \/ (e = top_rated[i] /\ e # Nobody)
    BY <1>8 DEF CullByte, TypeOK
  <2> QED
    BY <1>0, <2>1, <2>2, <2>3 DEF Members, Queued
<1>9. CASE CullReturns
  BY <1>9 DEF CullReturns, Members, Queued, contest
<1>10. CASE UNCHANGED vars
  BY <1>10 DEF vars, Members, Queued, entries, contest
<1> QED
  BY <1>1, <1>2, <1>3, <1>4, <1>5, <1>6, <1>7, <1>8, <1>9, <1>10 DEF Next, Client

(* Kept traces are traces the entry was scored for. *)
LEMMA KeptStep ==
  ASSUME IInv, [Next]_vars
  PROVE  Kept'
<1> USE DEF IInv
<1>1. CASE UNCHANGED <<trace_mini, scored>>
  BY <1>1 DEF Kept
<1>2. ASSUME NEW e \in Ids, NEW f \in Factors, NEW t \in SUBSET Bytes, ScoreAllowed(e, f, t),
             CallScore(e, f, t)
      PROVE  Kept'
  <2>1. /\ UNCHANGED trace_mini /\ scored' = [scored EXCEPT ![e] = scored[e] \cup t]
        /\ scored[e] # {} /\ Stable => t = scored[e]
    BY <1>2 DEF CallScore, ScoreAllowed
  <2> QED
    BY <2>1 DEF Kept, TypeOK, NoTrace
<1>3. CASE ScoreByte /\ i \in trace_bits /\ Wins
  <2>1. /\ q \in Ids /\ UNCHANGED scored
        /\ \A e \in Ids : trace_mini'[e] =
             IF e = q /\ (trace_mini[q] = {} \/ (top_rated[i] = q /\ tc_ref[q] = 1))
             THEN trace_bits
             ELSE IF e = top_rated[i] /\ tc_ref[e] = 1 THEN {} ELSE trace_mini[e]
    BY <1>3, WinStep DEF ScoreByte
  <2>2. trace_bits \subseteq scored[q] /\ (Stable => trace_bits = scored[q])
    BY <1>3 DEF Contest, ScoreByte
  <2> QED
    BY <2>1, <2>2 DEF Kept, NoTrace
<1>4. CASE ScoreByte /\ ~(i \in trace_bits /\ Wins)
  BY <1>1, <1>4 DEF ScoreByte
<1> QED
  BY <1>1, <1>2, <1>3, <1>4 DEF Next, Client, AddToQueue, MarkFuzzed, CallCull, ScoreReturns,
     CullByte, CullReturns, contest, vars

(* The entry that competes was scored for the trace it competes with. *)
LEMMA ContestStep ==
  ASSUME IInv, [Next]_vars
  PROVE  Contest'
<1> USE DEF IInv
<1>1. CASE loop' # "score"
  BY <1>1 DEF Contest
<1>2. ASSUME NEW e \in Ids, NEW f \in Factors, NEW t \in SUBSET Bytes, ScoreAllowed(e, f, t),
             CallScore(e, f, t)
      PROVE  Contest'
  <2>1. /\ q' = e /\ e \in Queued /\ trace_bits' = t /\ UNCHANGED queued_paths
        /\ scored' = [scored EXCEPT ![e] = scored[e] \cup t]
        /\ scored[e] # {} /\ Stable => t = scored[e]
    BY <1>2 DEF CallScore, ScoreAllowed, entries
  <2>2. scored'[e] = scored[e] \cup t
    BY <2>1 DEF TypeOK
  <2> QED
    BY <2>1, <2>2 DEF Contest, Queued
<1>3. CASE UNCHANGED <<loop, q, queued_paths, trace_bits, scored>>
  BY <1>3 DEF Contest, Queued
<1> QED
  BY <1>1, <1>2, <1>3 DEF Next, Client, AddToQueue, MarkFuzzed, CallCull, ScoreByte, ScoreReturns,
     Return, CullByte, CullReturns, entries, vars

(* Winners stay the best while contests go on. *)
LEMMA BestStep ==
  ASSUME IInv, [Next]_vars
  PROVE  Best'
<1> USE DEF IInv
<1>0. SUFFICES ASSUME Stable, NEW e \in Ids, NEW b \in scored'[e]
               PROVE  \/ loop' = "score" /\ e = q' /\ i' <= b
                      \/ top_rated'[b] # Nobody /\ fav_factor'[top_rated'[b]] <= fav_factor'[e]
  BY DEF Best
<1>1. CASE UNCHANGED <<loop, q, i, top_rated, fav_factor, scored>>
  BY <1>0, <1>1 DEF Best
<1>2. ASSUME loop \in {"client", "cull"}, UNCHANGED <<top_rated, fav_factor, scored>>
      PROVE  top_rated'[b] # Nobody /\ fav_factor'[top_rated'[b]] <= fav_factor'[e]
  BY <1>0, <1>2 DEF Best
<1>3. ASSUME NEW g \in Ids, NEW f \in Factors, NEW t \in SUBSET Bytes, ScoreAllowed(g, f, t),
             CallScore(g, f, t)
      PROVE  \/ loop' = "score" /\ e = q' /\ i' <= b
             \/ top_rated'[b] # Nobody /\ fav_factor'[top_rated'[b]] <= fav_factor'[e]
  <2>1. /\ loop = "client" /\ loop' = "score" /\ i' = 0 /\ q' = g /\ UNCHANGED top_rated
        /\ fav_factor' = [fav_factor EXCEPT ![g] = f]
        /\ scored' = [scored EXCEPT ![g] = scored[g] \cup t]
        /\ scored[g] # {} => f <= fav_factor[g]
    BY <1>3 DEF CallScore, ScoreAllowed
  <2>2. scored'[e] \subseteq Bytes /\ b \in Bytes /\ 0 <= b
    <3>1. scored \in [Ids -> SUBSET Bytes]
      BY DEF TypeOK
    <3>2. scored'[e] = scored[e] \/ scored'[e] = scored[e] \cup t
      BY <2>1, <3>1
    <3>3. scored'[e] \subseteq Bytes /\ b \in Bytes
      BY <1>0, <3>1, <3>2
    <3> QED
      BY <3>3, SizesAssumption DEF Bytes
  <2>3. CASE e = g
    BY <2>1, <2>2, <2>3
  <2>4. CASE e # g
    <3>1. b \in scored[e] /\ fav_factor'[e] = fav_factor[e]
      BY <1>0, <2>1, <2>4 DEF TypeOK
    <3>2. top_rated[b] # Nobody /\ fav_factor[top_rated[b]] <= fav_factor[e]
      BY <1>0, <2>1, <3>1 DEF Best
    <3>3. top_rated[b] \in Ids /\ b \in scored[top_rated[b]]
      BY <2>2, <3>2 DEF TypeOK, Members
    <3>4. CASE top_rated[b] = g
      <4>1. /\ f <= fav_factor[g] /\ fav_factor[g] <= fav_factor[e] /\ f \in Nat
            /\ fav_factor[g] \in Nat /\ fav_factor[e] \in Nat
        BY <2>1, <3>2, <3>3, <3>4, FactorAssumption DEF TypeOK
      <4>2. fav_factor'[top_rated'[b]] = f
        BY <2>1, <3>4 DEF TypeOK
      <4> QED
        BY <2>1, <3>1, <3>2, <4>1, <4>2
    <3>5. CASE top_rated[b] # g
      BY <2>1, <3>1, <3>2, <3>3, <3>5 DEF TypeOK
    <3> QED
      BY <3>4, <3>5
  <2> QED
    BY <2>3, <2>4
<1>4. CASE ScoreByte
  <2>1. /\ loop = "score" /\ loop' = "score" /\ i' = i + 1 /\ UNCHANGED <<q, fav_factor, scored>>
        /\ i \in Bytes /\ q \in Ids /\ trace_bits = scored[q] /\ i \in Int
    BY <1>0, <1>4, SizesAssumption DEF ScoreByte, TypeOK, Contest, Bytes, Queued, Ids
  <2>2. b \in scored[e] /\ b \in Bytes /\ b \in Int
    BY <1>0, <2>1, SizesAssumption DEF TypeOK, Bytes
  <2>3. \/ e = q /\ i <= b
        \/ top_rated[b] # Nobody /\ fav_factor[top_rated[b]] <= fav_factor[e]
    BY <1>0, <2>2 DEF Best
  <2>4. CASE b # i
    <3>1. top_rated'[b] = top_rated[b]
      BY <1>4, <2>1, <2>2, <2>4 DEF ScoreByte, TypeOK
    <3> QED
      BY <2>1, <2>2, <2>3, <2>4, <3>1
  <2>5. CASE b = i /\ i \in trace_bits /\ Wins
    <3>1. top_rated' = [top_rated EXCEPT ![i] = q] /\ q # Nobody
      BY <1>4, <2>5, WinStep
    <3>2. top_rated'[b] = q
      BY <2>1, <2>5, <3>1 DEF TypeOK
    <3>3. fav_factor[q] \in Nat /\ fav_factor[e] \in Nat
      BY <2>1 DEF TypeOK
    <3>4. CASE e = q
      BY <2>1, <3>1, <3>2, <3>3, <3>4
    <3>5. CASE e # q
      <4>1. top_rated[b] # Nobody /\ fav_factor[top_rated[b]] <= fav_factor[e]
        BY <2>3, <3>5
      <4>2. top_rated[b] \in Ids /\ fav_factor[top_rated[b]] \in Nat
        BY <2>2, <4>1 DEF TypeOK
      <4>3. fav_factor[q] <= fav_factor[top_rated[b]]
        BY <2>5, <4>1 DEF Wins
      <4> QED
        BY <2>1, <3>1, <3>2, <3>3, <4>1, <4>2, <4>3
    <3> QED
      BY <3>4, <3>5
  <2>6. CASE b = i /\ ~(i \in trace_bits /\ Wins)
    <3>1. top_rated' = top_rated
      BY <1>4, <2>6 DEF ScoreByte
    <3>2. CASE e = q
      <4>1. top_rated[i] # Nobody /\ ~(fav_factor[q] <= fav_factor[top_rated[i]])
        BY <2>1, <2>2, <2>6, <3>2 DEF Wins
      <4>2. top_rated[i] \in Ids /\ fav_factor[top_rated[i]] \in Nat /\ fav_factor[q] \in Nat
        BY <2>1, <4>1 DEF TypeOK
      <4> QED
        BY <2>1, <2>6, <3>1, <3>2, <4>1, <4>2
    <3>3. CASE e # q
      BY <2>1, <2>3, <3>1, <3>3
    <3> QED
      BY <3>2, <3>3
  <2> QED
    BY <2>4, <2>5, <2>6
<1>5. CASE ScoreReturns
  <2>1. /\ loop = "score" /\ i = MAP_SIZE /\ UNCHANGED <<top_rated, fav_factor, scored>>
    BY <1>5 DEF ScoreReturns, contest
  <2>2. b \in scored[e] /\ b \in Bytes
    BY <1>0, <2>1 DEF TypeOK
  <2>3. ~(i <= b)
    BY <2>1, <2>2, SizesAssumption DEF Bytes
  <2> QED
    BY <1>0, <2>1, <2>2, <2>3 DEF Best
<1> QED
  BY <1>1, <1>2, <1>3, <1>4, <1>5 DEF Next, Client, AddToQueue, MarkFuzzed, CallCull,
     CullByte, CullReturns, contest, vars

(* A covered byte stays covered while entries, flags and traces only grow. *)
LEMMA CoveredGrows ==
  ASSUME TypeOK, Queued \subseteq Queued',
         \A e \in Queued : favored[e] => favored'[e] /\ scored[e] \subseteq scored'[e],
         NEW b, CoveredByte(b)
  PROVE  CoveredByte(b)'
BY DEF CoveredByte

(* What is left to cover when one step of a cull marked a winner. *)
LEMMA CullMarkStep ==
  ASSUME IInv, CullByte, NEW w \in Queued, NEW c \in Bytes, w = top_rated[i], c = i, c \in temp_v,
         w # Nobody
  PROVE  Cover'
<1> USE DEF IInv
<1>1. /\ loop = "cull" /\ loop' = "cull" /\ ~score_changed /\ ~score_changed' /\ i' = i + 1
      /\ temp_v' = temp_v \ trace_mini[w] /\ favored' = [favored EXCEPT ![w] = TRUE]
      /\ UNCHANGED <<queued_paths, trace_mini, top_rated, scored>>
  BY DEF CullByte, contest, Cover
<1>2. w \in Ids /\ Queued' = Queued /\ Queued \subseteq Ids
  BY <1>1, SizesAssumption DEF TypeOK, Queued, Ids
<1>3. c \in scored[w] /\ trace_mini[w] \subseteq scored[w] /\ favored'[w]
  BY <1>1, <1>2 DEF Members, Kept, TypeOK
<1>4. Stable => trace_mini[w] = scored[w]
  <2>1. c \in Slots(w)
    BY DEF Slots
  <2>2. trace_mini[w] # NoTrace
    BY <1>2, <2>1 DEF RefCounts
  <2> QED
    BY <1>2, <2>2 DEF Kept
<1>5. \A b \in scored[w] : CoveredByte(b)'
  BY <1>1, <1>2, <1>3 DEF CoveredByte
<1>6. \A b \in Bytes : CoveredByte(b) => CoveredByte(b)'
  BY <1>1, <1>2 DEF CoveredByte, TypeOK
<1>7. ASSUME NEW b \in Bytes, b \notin temp_v' \/ (b < i' /\ top_rated'[b] # Nobody)
      PROVE  CoveredByte(b)'
  <2>1. CASE b \notin temp_v \/ (b < i /\ top_rated[b] # Nobody)
    BY <1>1, <1>6, <2>1 DEF Cover
  <2>2. CASE b \in temp_v /\ b \in trace_mini[w]
    BY <1>3, <1>5, <2>2
  <2>3. CASE b = c
    BY <1>3, <1>5, <2>3
  <2>4. b < i' /\ ~(b < i) => b = c
    BY <1>1, SizesAssumption DEF Bytes
  <2> QED
    BY <1>1, <1>7, <2>1, <2>2, <2>3, <2>4
<1>8. ASSUME Stable, NEW e \in Ids, favored'[e]
      PROVE  scored'[e] \cap temp_v' = {}
  <2>1. CASE e = w
    BY <1>1, <1>4, <1>8, <2>1
  <2>2. CASE e # w
    <3>1. favored[e] /\ scored[e] \cap temp_v = {}
      BY <1>1, <1>8, <2>2 DEF Cover, TypeOK
    <3> QED
      BY <1>1, <3>1
  <2> QED
    BY <2>1, <2>2
<1> QED
  BY <1>1, <1>7, <1>8 DEF Cover

(* A cull covers the map byte by byte, and only a won slot undoes that. *)
LEMMA CoverStep ==
  ASSUME IInv, [Next]_vars
  PROVE  Cover'
<1> USE DEF IInv
<1>0. Queued \subseteq Ids /\ Queued = 1 .. queued_paths /\ queued_paths \in Nat
  BY SizesAssumption DEF TypeOK, Queued, Ids
<1>1. CASE UNCHANGED <<queued_paths, favored, scored, top_rated, score_changed, loop, i, temp_v>>
  BY <1>1 DEF Cover, CoveredByte, Queued
<1>2. CASE AddToQueue
  <2>1. /\ loop = "client" /\ loop' = "client" /\ queued_paths' = queued_paths + 1
        /\ UNCHANGED <<favored, scored, top_rated, score_changed>>
    BY <1>2 DEF AddToQueue, contest
  <2>2. Queued \subseteq Queued'
    BY <1>0, <2>1 DEF Queued
  <2>3. \A b \in Bytes : CoveredByte(b) => CoveredByte(b)'
    BY <2>1, <2>2 DEF CoveredByte
  <2> QED
    BY <2>1, <2>3 DEF Cover
<1>3. ASSUME NEW e \in Ids, NEW f \in Factors, NEW t \in SUBSET Bytes, CallScore(e, f, t)
      PROVE  Cover'
  <2>1. /\ loop = "client" /\ loop' = "score" /\ scored' = [scored EXCEPT ![e] = scored[e] \cup t]
        /\ UNCHANGED <<queued_paths, favored, top_rated, score_changed>>
    BY <1>3 DEF CallScore, entries
  <2>2. \A g \in Ids : scored[g] \subseteq scored'[g]
    BY <2>1 DEF TypeOK
  <2>3. Queued' = Queued
    BY <2>1 DEF Queued
  <2>4. \A b \in Bytes : CoveredByte(b) => CoveredByte(b)'
    BY <1>0, <2>1, <2>2, <2>3 DEF CoveredByte
  <2> QED
    BY <2>1, <2>4 DEF Cover
<1>4. CASE CallCull
  <2>1. /\ loop' = "cull" /\ ~score_changed' /\ temp_v' = Bytes /\ i' = 0
        /\ \A e \in Ids : ~favored'[e]
    BY <1>4 DEF CallCull
  <2>2. \A b \in Bytes : ~(b < 0)
    BY SizesAssumption DEF Bytes
  <2> QED
    BY <2>1, <2>2 DEF Cover
<1>5. CASE ScoreByte /\ i \in trace_bits /\ Wins
  <2>1. loop' = "score" /\ score_changed'
    BY <1>5 DEF ScoreByte
  <2> QED
    BY <2>1 DEF Cover
<1>6. CASE ScoreByte /\ ~(i \in trace_bits /\ Wins)
  <2>1. /\ loop = "score" /\ loop' = "score"
        /\ UNCHANGED <<queued_paths, favored, scored, top_rated, score_changed>>
    BY <1>6 DEF ScoreByte, entries
  <2> QED
    BY <2>1 DEF Cover, CoveredByte, Queued
<1>7. CASE ScoreReturns
  <2>1. /\ loop = "score" /\ loop' = "client"
        /\ UNCHANGED <<queued_paths, favored, scored, top_rated, score_changed>>
    BY <1>7 DEF ScoreReturns, Return, entries, contest
  <2> QED
    BY <2>1 DEF Cover, CoveredByte, Queued
<1>8. CASE CullByte /\ top_rated[i] # Nobody /\ i \in temp_v
  <2>1. i \in Bytes
    BY <1>8, SizesAssumption DEF CullByte, TypeOK, Bytes
  <2>2. PICK w \in Queued, c \in Bytes : w = top_rated[i] /\ c = i
    BY <1>8, <2>1 DEF Members
  <2> QED
    BY <1>8, <2>2, CullMarkStep
<1>9. CASE CullByte /\ ~(top_rated[i] # Nobody /\ i \in temp_v)
  <2>1. /\ loop = "cull" /\ loop' = "cull" /\ ~score_changed /\ ~score_changed' /\ i' = i + 1
        /\ UNCHANGED <<queued_paths, favored, temp_v, top_rated, scored>> /\ i \in Int
    BY <1>9 DEF CullByte, contest, Cover, TypeOK
  <2>2. \A b \in Bytes : CoveredByte(b)' <=> CoveredByte(b)
    BY <2>1 DEF CoveredByte, Queued
  <2>3. \A b \in Bytes : b < i' => b < i \/ b = i
    BY <2>1, SizesAssumption DEF Bytes
  <2>4. \A b \in Bytes : b \notin temp_v' \/ (b < i' /\ top_rated'[b] # Nobody) => CoveredByte(b)
    BY <1>9, <2>1, <2>3 DEF Cover
  <2> QED
    BY <2>1, <2>2, <2>4 DEF Cover
<1>10. CASE CullReturns
  <2>1. /\ loop = "cull" /\ loop' = "client" /\ i = MAP_SIZE
        /\ UNCHANGED <<queued_paths, favored, scored, top_rated>>
    BY <1>10 DEF CullReturns, Return, contest
  <2>2. \A b \in Bytes : b < i
    BY <2>1, SizesAssumption DEF Bytes
  <2>3. \A b \in Bytes : top_rated[b] # Nobody => CoveredByte(b)
    BY <2>1, <2>2 DEF Cover
  <2> QED
    BY <2>1, <2>3 DEF Cover, CoveredByte, Queued
<1> QED
  BY <1>1, <1>2, <1>3, <1>4, <1>5, <1>6, <1>7, <1>8, <1>9, <1>10 DEF Next, Client, MarkFuzzed,
     contest, entries, vars

(* The sets behind the counters are finite, so their sizes are numbers. *)
LEMMA Counted ==
  ASSUME TypeOK
  PROVE  /\ Queued \subseteq Ids
         /\ \A S \in SUBSET Queued : IsFiniteSet(S) /\ Cardinality(S) \in Nat
<1>1. Queued \subseteq Ids
  BY SizesAssumption DEF TypeOK, Queued, Ids
<1> QED
  BY <1>1, Finite

(* The counters of a queue that gained an entry. *)
LEMMA AddCounts ==
  ASSUME IInv, AddToQueue
  PROVE  Counts'
<1> USE DEF IInv
<1>1. PICK n \in Ids : n = queued_paths + 1
  BY SizesAssumption DEF AddToQueue, TypeOK, Ids
<1>2. /\ queued_paths' = n /\ pending_not_fuzzed' = pending_not_fuzzed + 1
      /\ UNCHANGED <<was_fuzzed, favored, queued_favored, pending_favored>>
  BY <1>1 DEF AddToQueue
<1>3. Queued' = Queued \cup {n} /\ n \notin Queued
  BY <1>1, <1>2, SizesAssumption DEF TypeOK, Queued
<1>4. ~was_fuzzed[n] /\ ~favored[n]
  BY <1>1, <1>3 DEF Members
<1>5. Unfuzzed' = Unfuzzed \cup {n} /\ n \notin Unfuzzed /\ Unfuzzed \in SUBSET Queued
  BY <1>2, <1>3, <1>4 DEF Unfuzzed
<1>6. Cardinality(Unfuzzed \cup {n}) = Cardinality(Unfuzzed) + 1
  BY <1>5, Counted, OneMore
<1>7. {e \in Unfuzzed : favored[e]}' = {e \in Unfuzzed : favored[e]}
  BY <1>2, <1>4, <1>5
<1>8. Favorites' = Favorites
  BY <1>2, <1>3, <1>4 DEF Favorites
<1> QED
  BY <1>2, <1>5, <1>6, <1>7, <1>8 DEF Counts, PendingFavored

(* The counters after an entry was fuzzed: both pending ones stay at or    *)
(* above zero.                                                             *)
LEMMA FuzzedCounts ==
  ASSUME IInv, NEW e \in Ids, MarkFuzzed(e)
  PROVE  Counts' /\ pending_not_fuzzed' \in Nat /\ pending_favored' \in Nat
<1> USE DEF IInv
<1> DEFINE Waiting == {g \in Unfuzzed : favored[g]}
<1>1. /\ e \in Queued /\ ~was_fuzzed[e] /\ was_fuzzed' = [was_fuzzed EXCEPT ![e] = TRUE]
      /\ pending_not_fuzzed' = pending_not_fuzzed - 1
      /\ pending_favored' = IF favored[e] THEN pending_favored - 1 ELSE pending_favored
      /\ UNCHANGED <<queued_paths, favored, queued_favored>>
  BY DEF MarkFuzzed
<1>2. Queued' = Queued /\ Favorites' = Favorites
  BY <1>1 DEF Queued, Favorites
<1>3. Unfuzzed' = Unfuzzed \ {e} /\ e \in Unfuzzed /\ Unfuzzed \in SUBSET Queued
  BY <1>1, <1>2, Counted DEF Unfuzzed, TypeOK
<1>4. Cardinality(Unfuzzed \ {e}) = Cardinality(Unfuzzed) - 1
  BY <1>3, Counted, OneLess
<1>5. Cardinality(Unfuzzed') \in Nat
  BY <1>3, Counted
<1>6. pending_not_fuzzed' = Cardinality(Unfuzzed')
  BY <1>1, <1>3, <1>4 DEF Counts
<1>7. Waiting' = Waiting \ {e} /\ Waiting \in SUBSET Queued /\ (e \in Waiting <=> favored[e])
  BY <1>1, <1>3
<1>8. Cardinality(Waiting) \in Nat /\ Cardinality(Waiting') \in Nat /\ pending_favored \in Int
  BY <1>7, Counted DEF TypeOK
<1>9. Cardinality(Waiting') = Cardinality(Waiting) - (IF favored[e] THEN 1 ELSE 0)
  <2>1. CASE favored[e]
    <3>1. Cardinality(Waiting \ {e}) = Cardinality(Waiting) - 1
      BY <1>7, <2>1, Counted, OneLess
    <3> QED
      BY <1>7, <2>1, <3>1
  <2>2. CASE ~favored[e]
    <3>1. Waiting' = Waiting
      BY <1>7, <2>2
    <3> HIDE DEF Waiting
    <3> QED
      BY <1>8, <2>2, <3>1
  <2> QED
    BY <2>1, <2>2
<1>10. /\ Cardinality(Waiting) <= pending_favored
       /\ Stable => pending_favored = Cardinality(Waiting)
                    /\ queued_favored = Cardinality(Favorites)
  BY DEF Counts, PendingFavored
<1>11. /\ Cardinality(Waiting') <= pending_favored'
       /\ Stable => pending_favored' = Cardinality(Waiting')
  <2> HIDE DEF Waiting
  <2> QED
    BY <1>1, <1>8, <1>9, <1>10
<1>12. pending_favored' \in Nat
  <2> HIDE DEF Waiting
  <2> QED
    BY <1>1, <1>8, <1>11
<1> QED
  BY <1>1, <1>2, <1>5, <1>6, <1>10, <1>11, <1>12 DEF Counts, PendingFavored

(* The counters when a cull marks a winner that may be marked already. *)
LEMMA MarkCounts ==
  ASSUME IInv, CullByte, NEW w \in Queued, NEW c \in Bytes, w = top_rated[i], c = i, c \in temp_v,
         w # Nobody
  PROVE  Counts'
<1> USE DEF IInv
<1> DEFINE Waiting == {g \in Unfuzzed : favored[g]}
<1>1. /\ loop = "cull" /\ favored' = [favored EXCEPT ![w] = TRUE]
      /\ queued_favored' = queued_favored + 1
      /\ pending_favored' = IF was_fuzzed[w] THEN pending_favored ELSE pending_favored + 1
      /\ UNCHANGED <<queued_paths, was_fuzzed, pending_not_fuzzed>>
  BY DEF CullByte
<1>2. w \in Ids /\ Queued' = Queued /\ Unfuzzed' = Unfuzzed /\ Unfuzzed \in SUBSET Queued
  BY <1>1, Counted DEF Queued, Unfuzzed
<1>3. Favorites' = Favorites \cup {w} /\ Favorites \in SUBSET Queued
  BY <1>1, <1>2, Counted DEF Favorites, TypeOK
<1>4. /\ Waiting' = IF was_fuzzed[w] THEN Waiting ELSE Waiting \cup {w}
      /\ Waiting \in SUBSET Queued
  BY <1>1, <1>2, Counted DEF Unfuzzed, TypeOK
<1>5. Stable => ~favored[w]
  <2>1. c \in scored[w]
    BY DEF Members
  <2> QED
    BY <1>1, <1>2, <2>1 DEF Cover
<1>6. /\ IsFiniteSet(Waiting) /\ Cardinality(Waiting) \in Nat /\ Cardinality(Favorites) \in Nat
      /\ IsFiniteSet(Favorites) /\ pending_favored \in Nat /\ queued_favored \in Nat
  BY <1>3, <1>4, Counted DEF TypeOK
<1>7. Cardinality(Waiting \cup {w}) =
        Cardinality(Waiting) + (IF w \in Waiting THEN 0 ELSE 1)
  <2>1. CASE w \in Waiting
    <3> HIDE DEF Waiting
    <3>1. Waiting \cup {w} = Waiting
      BY <2>1
    <3>2. Cardinality(Waiting) \in Int
      BY <1>6
    <3>3. Cardinality(Waiting \cup {w}) = Cardinality(Waiting)
      BY <3>1
    <3>4. (IF w \in Waiting THEN 0 ELSE 1) = 0
      BY <2>1
    <3> QED
      BY <3>2, <3>3, <3>4
  <2>2. CASE w \notin Waiting
    BY <1>6, <2>2, OneMore
  <2> QED
    BY <2>1, <2>2
<1>8. Stable => Cardinality(Favorites \cup {w}) = Cardinality(Favorites) + 1
  BY <1>5, <1>6, OneMore DEF Favorites
<1>9. /\ Cardinality(Waiting) <= pending_favored
      /\ Stable => pending_favored = Cardinality(Waiting)
                   /\ queued_favored = Cardinality(Favorites)
  BY DEF Counts, PendingFavored
<1>10. /\ Cardinality(Waiting') <= pending_favored'
       /\ Stable => pending_favored' = Cardinality(Waiting')
  <2>1. Stable => w \notin Waiting
    BY <1>5
  <2> HIDE DEF Waiting
  <2> QED
    BY <1>1, <1>4, <1>6, <1>7, <1>9, <2>1
<1>11. Stable => queued_favored' = Cardinality(Favorites')
  BY <1>1, <1>3, <1>8, <1>9
<1>12. pending_not_fuzzed' = Cardinality(Unfuzzed')
  BY <1>1, <1>2 DEF Counts
<1> QED
  BY <1>10, <1>11, <1>12 DEF Counts, PendingFavored

(* The counters that steer fuzz_one() follow the queue. *)
LEMMA CountsStep ==
  ASSUME IInv, [Next]_vars
  PROVE  Counts'
<1> USE DEF IInv
<1>1. CASE UNCHANGED <<queued_paths, was_fuzzed, favored, counters>>
  BY <1>1 DEF Counts, PendingFavored, Favorites, Unfuzzed, Queued, counters
<1>2. CASE AddToQueue
  BY <1>2, AddCounts
<1>3. ASSUME NEW e \in Ids, MarkFuzzed(e)
      PROVE  Counts'
  BY <1>3, FuzzedCounts
<1>4. CASE CallCull
  <2>1. /\ UNCHANGED <<queued_paths, was_fuzzed, pending_not_fuzzed>>
        /\ queued_favored' = 0 /\ pending_favored' = 0 /\ \A e \in Ids : ~favored'[e]
    BY <1>4 DEF CallCull
  <2>2. Unfuzzed' = Unfuzzed /\ Unfuzzed \subseteq Ids /\ Queued' = Queued /\ Queued \subseteq Ids
    BY <2>1, Counted DEF Unfuzzed, Queued
  <2>3. {e \in Unfuzzed : favored[e]}' = {} /\ Favorites' = {}
    BY <2>1, <2>2 DEF Favorites
  <2>4. Cardinality({}) = 0
    BY FS_EmptySet
  <2> QED
    BY <2>1, <2>2, <2>3, <2>4 DEF Counts, PendingFavored
<1>5. CASE CullByte /\ top_rated[i] # Nobody /\ i \in temp_v
  <2>1. i \in Bytes
    BY <1>5, SizesAssumption DEF CullByte, TypeOK, Bytes
  <2>2. PICK w \in Queued, c \in Bytes : w = top_rated[i] /\ c = i
    BY <1>5, <2>1 DEF Members
  <2> QED
    BY <1>5, <2>2, MarkCounts
<1>6. CASE CullByte /\ ~(top_rated[i] # Nobody /\ i \in temp_v)
  BY <1>1, <1>6 DEF CullByte, counters
<1> QED
  BY <1>1, <1>2, <1>3, <1>4, <1>5, <1>6 DEF Next, Client, CallScore, ScoreByte, ScoreReturns,
     CullReturns, entries, vars

(* No counter or index leaves its range; the reference counts do not       *)
(* because they are exact.                                                 *)
LEMMA TypeStep ==
  ASSUME IInv, [Next]_vars
  PROVE  TypeOK'
<1> USE DEF IInv
<1>1. CASE AddToQueue
  <2>1. queued_paths' \in 0 .. MaxPaths /\ pending_not_fuzzed' \in Nat
    BY <1>1, SizesAssumption DEF AddToQueue, TypeOK
  <2> QED
    BY <1>1, <2>1 DEF AddToQueue, TypeOK, contest
<1>2. ASSUME NEW e \in Ids, MarkFuzzed(e)
      PROVE  TypeOK'
  <2>1. pending_not_fuzzed' \in Nat /\ pending_favored' \in Nat
    BY <1>2, FuzzedCounts
  <2>2. was_fuzzed' \in [Ids -> BOOLEAN]
    BY <1>2 DEF MarkFuzzed, TypeOK
  <2> QED
    BY <1>2, <2>1, <2>2 DEF MarkFuzzed, TypeOK, contest
<1>3. ASSUME NEW e \in Ids, NEW f \in Factors, NEW t \in SUBSET Bytes, CallScore(e, f, t)
      PROVE  TypeOK'
  <2>1. /\ fav_factor' \in [Ids -> Nat] /\ scored' \in [Ids -> SUBSET Bytes]
        /\ loop' \in {"client", "score", "cull"} /\ i' \in 0 .. MAP_SIZE /\ q' \in Ids
        /\ trace_bits' \in SUBSET Bytes
    BY <1>3, SizesAssumption, FactorAssumption DEF CallScore, TypeOK
  <2> QED
    BY <1>3, <2>1 DEF CallScore, TypeOK, entries, counters
<1>4. CASE CallCull
  <2>1. favored' \in [Ids -> BOOLEAN] /\ score_changed' \in BOOLEAN
    BY <1>4 DEF CallCull
  <2>2. /\ loop' \in {"client", "score", "cull"} /\ i' \in 0 .. MAP_SIZE
        /\ queued_favored' \in Nat /\ pending_favored' \in Nat /\ temp_v' \in SUBSET Bytes
    BY <1>4, SizesAssumption DEF CallCull
  <2> QED
    BY <1>4, <2>1, <2>2 DEF CallCull, TypeOK, contest
<1>5. CASE ScoreByte /\ i \in trace_bits /\ Wins
  <2>1. /\ tc_ref' \in [Ids -> Int] /\ trace_mini' \in [Ids -> SUBSET Bytes]
        /\ top_rated' = [top_rated EXCEPT ![i] = q] /\ q \in Ids /\ score_changed' = TRUE
    BY <1>5, WinStep
  <2>2. RefCounts'
    BY RefCountsStep
  <2>3. \A e \in Ids : tc_ref'[e] \in Nat
    <3> SUFFICES ASSUME NEW e \in Ids
                 PROVE  tc_ref'[e] \in Nat
      OBVIOUS
    <3>1. tc_ref'[e] = Cardinality(Slots(e)')
      BY <2>2 DEF RefCounts
    <3>2. Slots(e)' \in SUBSET Bytes
      BY DEF Slots
    <3> QED
      BY <3>1, <3>2, Finite
  <2>4. tc_ref' \in [Ids -> Nat] /\ top_rated' \in [Bytes -> Ids \cup {Nobody}]
    BY <2>1, <2>3 DEF TypeOK
  <2>5. i' \in 0 .. MAP_SIZE
    BY <1>5, SizesAssumption DEF ScoreByte, TypeOK
  <2> QED
    BY <1>5, <2>1, <2>4, <2>5 DEF ScoreByte, TypeOK, entries, counters
<1>6. CASE ScoreByte /\ ~(i \in trace_bits /\ Wins)
  <2>1. i' \in 0 .. MAP_SIZE
    BY <1>6, SizesAssumption DEF ScoreByte, TypeOK
  <2> QED
    BY <1>6, <2>1 DEF ScoreByte, TypeOK, entries, counters
<1>7. CASE ScoreReturns
  BY <1>7, SizesAssumption DEF ScoreReturns, Return, TypeOK, entries, contest, counters
<1>8. CASE CullByte
  <2>1. i' \in 0 .. MAP_SIZE
    BY <1>8, SizesAssumption DEF CullByte, TypeOK
  <2>2. favored' \in [Ids -> BOOLEAN]
    BY <1>8 DEF CullByte, TypeOK
  <2>3. temp_v' \in SUBSET Bytes
    BY <1>8 DEF CullByte, TypeOK
  <2>4. queued_favored' \in Nat /\ pending_favored' \in Nat
    BY <1>8 DEF CullByte, TypeOK
  <2> QED
    BY <1>8, <2>1, <2>2, <2>3, <2>4 DEF CullByte, TypeOK, contest
<1>9. CASE CullReturns
  <2>1. /\ fs_redundant' \in [Ids -> BOOLEAN] /\ loop' \in {"client", "score", "cull"}
        /\ i' \in 0 .. MAP_SIZE /\ q' \in Ids \cup {Nobody}
        /\ trace_bits' \in SUBSET Bytes /\ temp_v' \in SUBSET Bytes
    BY <1>9, SizesAssumption DEF CullReturns, Return, TypeOK
  <2> QED
    BY <1>9, <2>1 DEF CullReturns, TypeOK, contest, counters
<1>10. CASE UNCHANGED vars
  BY <1>10 DEF vars, entries, contest, counters, TypeOK
<1> QED
  BY <1>1, <1>2, <1>3, <1>4, <1>5, <1>6, <1>7, <1>8, <1>9, <1>10 DEF Next, Client

(* An empty queue satisfies the invariant. *)
LEMMA InitIInv == Init => IInv
<1> SUFFICES ASSUME Init
             PROVE  IInv
  OBVIOUS
<1>1. TypeOK
  <2>1. /\ was_fuzzed \in [Ids -> BOOLEAN] /\ favored \in [Ids -> BOOLEAN]
        /\ fs_redundant \in [Ids -> BOOLEAN] /\ score_changed \in BOOLEAN
    BY DEF Init
  <2>2. /\ fav_factor \in [Ids -> Nat] /\ tc_ref \in [Ids -> Nat]
        /\ trace_mini \in [Ids -> SUBSET Bytes] /\ scored \in [Ids -> SUBSET Bytes]
        /\ top_rated \in [Bytes -> Ids \cup {Nobody}]
    BY DEF Init, NoTrace
  <2>3. /\ queued_paths \in 0 .. MaxPaths /\ i \in 0 .. MAP_SIZE
        /\ queued_favored \in Nat /\ pending_favored \in Nat /\ pending_not_fuzzed \in Nat
        /\ loop \in {"client", "score", "cull"} /\ q \in Ids \cup {Nobody}
        /\ trace_bits \in SUBSET Bytes /\ temp_v \in SUBSET Bytes
    BY SizesAssumption DEF Init
  <2> QED
    BY <2>1, <2>2, <2>3 DEF TypeOK
<1>2. Queued = {} /\ Cardinality({}) = 0
  BY FS_EmptySet DEF Init, Queued
<1>3. Unfuzzed = {} /\ {e \in Unfuzzed : favored[e]} = {} /\ Favorites = {}
  BY <1>2 DEF Unfuzzed, Favorites
<1>4. \A e \in Ids : Slots(e) = {}
  BY SizesAssumption DEF Init, Slots, Nobody, Ids
<1>5. RefCounts
  BY <1>2, <1>4 DEF Init, RefCounts
<1>6. Members /\ Kept /\ Contest
  BY <1>2 DEF Init, Members, Kept, Contest, NoTrace
<1>7. Best /\ Cover
  BY DEF Init, Best, Cover
<1>8. Counts
  BY <1>2, <1>3 DEF Init, Counts, PendingFavored
<1> QED
  BY <1>1, <1>5, <1>6, <1>7, <1>8 DEF IInv

(* update_bitmap_score() and cull_queue(), stopped at any iteration, with  *)
(* any client and any size of map and queue, keep the invariant.           *)
THEOREM Invariance == Spec => []IInv
<1>1. IInv /\ [Next]_vars => IInv'
  <2> SUFFICES ASSUME IInv, [Next]_vars
               PROVE  IInv'
    OBVIOUS
  <2>1. TypeOK' /\ RefCounts' /\ Members' /\ Kept'
    BY TypeStep, RefCountsStep, MembersStep, KeptStep
  <2>2. Contest' /\ Best' /\ Cover' /\ Counts'
    BY ContestStep, BestStep, CoverStep, CountsStep
  <2> QED
    BY <2>1, <2>2 DEF IInv
<1> QED
  BY InitIInv, <1>1, PTL DEF Spec

(* Every variable keeps its type: no counter of pending entries, and no    *)
(* reference count, ever goes below zero.                                  *)
THEOREM TypeCorrect == Spec => []TypeOK
<1>1. IInv => TypeOK
  BY DEF IInv
<1> QED
  BY Invariance, <1>1, PTL

(* Reference counts are exact and a slot's winner always has its trace:    *)
(* update_bitmap_score() never frees a trace that cull_queue() would read. *)
THEOREM RefCountsExact == Spec => []RefCounts
<1>1. IInv => RefCounts
  BY DEF IInv
<1> QED
  BY Invariance, <1>1, PTL

(* After every cull_queue() the favored entries cover each byte that has a *)
(* winner, also where traces vary from run to run.                         *)
THEOREM CoverHolds == Spec => []FavoredCover
<1>1. IInv => FavoredCover
  BY DEF IInv, Cover, FavoredCover, CoveredByte
<1> QED
  BY Invariance, <1>1, PTL

(* Where a target is stable, the winner of a byte is never worse than any  *)
(* entry that was scored for it.                                           *)
THEOREM BestRatedHolds ==
  ASSUME Stable
  PROVE  Spec => []BestRated
<1>1. IInv => BestRated
  BY DEF IInv, Best, BestRated
<1> QED
  BY Invariance, <1>1, PTL

(* Where a target is stable, pending_favored is the number of favored      *)
(* entries that wait to be fuzzed.                                         *)
THEOREM PendingExact ==
  ASSUME Stable
  PROVE  Spec => []PendingFavoredExact
<1>1. IInv => PendingFavoredExact
  BY DEF IInv, Counts, PendingFavoredExact
<1> QED
  BY Invariance, <1>1, PTL

(* Where a target is stable, so are queued_favored and pending_not_fuzzed. *)
THEOREM CountersHold ==
  ASSUME Stable
  PROVE  Spec => []CountersExact
<1>1. IInv => CountersExact
  BY DEF IInv, Counts, CountersExact, Favorites
<1> QED
  BY Invariance, <1>1, PTL
=============================================================================
