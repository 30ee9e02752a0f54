----------------------------- MODULE TminProofs -----------------------------
(***************************************************************************)
(* afl-tmin never writes an input that it did not try, for every target,   *)
(* every set of inputs and every size of block: the best input so far is   *)
(* at all times the last one that was executed and not refused.  And with  *)
(* a target that always does the same, what it writes at the end cannot    *)
(* do without any of its bytes.                                            *)
(***************************************************************************)
EXTENDS Tmin, SequenceTheorems, WellFoundedInduction, NaturalsInduction, TLAPS

(* OutputWorks is inductive together with the agreement of the two buffers *)
(* of the last stage (614-618): it changes the best input in one byte, but *)
(* what was executed is the other buffer, changed in that byte.            *)
IInv ==
  /\ in_data = last_ok
  /\ pc = "chars" => tmp_buf = in_data
  /\ pc \in {"done", "aborted"} => out_file = in_data

(* At the start the best input is the original.                            *)
LEMMA Initially == Init => IInv
  BY DEF Init, IInv

(* The dry run and the walks over the input keep it as it is.              *)
LEMMA WalkKeeps ==
  ASSUME IInv,
         DryRun \/ BeginPass \/ SkipBlock \/ HalveBlocks \/ BeginSymbols \/ BeginChars
  PROVE  IInv'
  <1>1. CASE DryRun       BY <1>1 DEF DryRun, IInv, cursor
  <1>2. CASE BeginPass    BY <1>2 DEF BeginPass, IInv, mode
  <1>3. CASE SkipBlock    BY <1>3 DEF SkipBlock, IInv, mode
  <1>4. CASE HalveBlocks  BY <1>4 DEF HalveBlocks, IInv, mode
  <1>5. CASE BeginSymbols BY <1>5 DEF BeginSymbols, DeletionDone, IInv, mode
  <1>6. CASE BeginChars   BY <1>6 DEF BeginChars, IInv, mode
  <1> QED BY <1>1, <1>2, <1>3, <1>4, <1>5, <1>6

(* Stage 0: the block is overwritten in a copy, which is taken over only   *)
(* if it was not refused.                                                  *)
LEMMA NormalizeBlockKeeps ==
  ASSUME IInv, NormalizeBlock PROVE IInv'
  <1>1. pc' = pc /\ tmp_buf' = tmp_buf /\ pc = "blocks"
    BY DEF NormalizeBlock
  <1>2. in_data' = last_ok'
    BY DEF NormalizeBlock, Try, IInv
  <1> QED BY <1>1, <1>2 DEF IInv

(* Stage 1: what is executed is the input without the block.               *)
LEMMA DeleteBlockKeeps ==
  ASSUME IInv, DeleteBlock PROVE IInv'
  <1>1. pc' = pc /\ tmp_buf' = tmp_buf /\ pc = "delete"
    BY DEF DeleteBlock
  <1>2. in_data' = last_ok'
    BY DEF DeleteBlock, Try, IInv
  <1> QED BY <1>1, <1>2 DEF IInv

(* Stage 2: every occurrence of the symbol is replaced at once.            *)
LEMMA ReplaceSymbolKeeps ==
  ASSUME IInv, ReplaceSymbol PROVE IInv'
  <1>1. pc' = pc /\ tmp_buf' = tmp_buf /\ pc = "symbols"
    BY DEF ReplaceSymbol
  <1>2. in_data' = last_ok'
    BY DEF ReplaceSymbol, Try, IInv
  <1> QED BY <1>1, <1>2 DEF IInv

(* Stage 3: the two buffers agree again after each byte, taken over or put *)
(* back.                                                                   *)
LEMMA ReplaceCharKeeps ==
  ASSUME IInv, ReplaceChar PROVE IInv'
  <1>1. pc' = pc /\ pc = "chars" /\ tmp_buf = in_data /\ in_data = last_ok
    BY DEF ReplaceChar, IInv
  <1>2. in_data' = last_ok' /\ tmp_buf' = in_data'
    BY <1>1 DEF ReplaceChar, Try, PutBack
  <1> QED BY <1>1, <1>2 DEF IInv

(* Whatever is written is the best input, at the end and after Ctrl-C.     *)
LEMMA WriteKeeps ==
  ASSUME IInv, Finalize \/ Abort \/ Stop PROVE IInv'
  <1>1. CASE Finalize BY <1>1 DEF Finalize, DeletionDone, IInv, mode, cursor
  <1>2. CASE Abort    BY <1>2 DEF Abort, IInv, mode, cursor
  <1>3. CASE Stop     BY <1>3 DEF Stop, IInv, mode, cursor
  <1> QED BY <1>1, <1>2, <1>3

(* All steps together.                                                     *)
LEMMA Inductive == IInv /\ [Next]_vars => IInv'
  <1> SUFFICES ASSUME IInv, [Next]_vars PROVE IInv'
    OBVIOUS
  <1>1. CASE Next
    BY <1>1, WalkKeeps, NormalizeBlockKeeps, DeleteBlockKeeps, ReplaceSymbolKeeps,
       ReplaceCharKeeps, WriteKeeps DEF Next, Step
  <1>2. CASE UNCHANGED vars
    BY <1>2 DEF IInv, vars, cursor
  <1> QED BY <1>1, <1>2

(* The inductive invariant of afl-tmin.                                    *)
THEOREM Invariance == Spec => []IInv
  BY Inductive, Initially, PTL DEF Spec

(* What afl-tmin keeps, and what it writes whenever it stops, was executed *)
(* just so and was not refused, however flaky the target is.               *)
THEOREM OutputWorksHolds == Spec => []OutputWorks
  <1>1. IInv => OutputWorks
    BY DEF IInv, OutputWorks
  <1> QED BY <1>1, Invariance, PTL

---------------------------------------------------------------------------
(* A finite stretch of natural numbers has a greatest one among those of a *)
(* set, and Max() finds it.                                                *)
LEMMA MaxOf ==
  ASSUME NEW m \in Nat, NEW T \in SUBSET (0 .. m), T # {}
  PROVE  Max(T) \in T /\ \A y \in T : y <= Max(T)
  <1> DEFINE R == {ss \in Nat \X Nat : ss[1] < ss[2]}
             D == {m - x : x \in T}
  <1>1. IsWellFoundedOn(R, Nat)
    BY NatLessThanWellFounded DEF OpToRel
  <1>2. D \subseteq Nat /\ D # {}
    <2>1. \A x \in T : m - x \in Nat
      OBVIOUS
    <2> QED BY <2>1
  <1>3. PICK d \in D : \A y \in D : ~(<<y, d>> \in R)
    BY <1>1, <1>2, WFMin
  <1>4. PICK x \in T : d = m - x
    OBVIOUS
  <1>5. ASSUME NEW y \in T, ~(y <= x) PROVE FALSE
    <2>1. m - y \in D /\ m - y < d /\ m - y \in Nat
      BY <1>4, <1>5
    <2>2. <<m - y, d>> \in Nat \X Nat
      BY <2>1, <1>2
    <2> QED BY <1>3, <2>1, <2>2
  <1>6. \A y \in T : x >= y
    BY <1>5
  <1> QED BY <1>6 DEF Max

(* A block is never empty (next_p2(), 521).                                *)
LEMMA BlockSize ==
  ASSUME NEW v \in Nat
  PROVE  next_p2(v) \in Nat \ {0}
  <1>1. CASE v <= 1
    BY <1>1 DEF next_p2
  <1>2. CASE v > 1
    <2> DEFINE T == {2 ^ k : k \in 0 .. v} \cap 0 .. v - 1
    <2>1. 2 ^ 0 = 1
      OBVIOUS
    <2>2. 1 \in T
      <3>1. 0 \in 0 .. v /\ 1 \in 0 .. v - 1
        BY <1>2
      <3>2. 1 \in {2 ^ k : k \in 0 .. v}
        BY <2>1, <3>1, Zenon
      <3> QED BY <3>1, <3>2
    <2>3. next_p2(v) = 2 * Max(T)
      BY <1>2 DEF next_p2
    <2>4. T \in SUBSET (0 .. v - 1) /\ v - 1 \in Nat
      BY <1>2
    <2> HIDE DEF T
    <2>5. Max(T) \in T /\ \A y \in T : y <= Max(T)
      BY <2>2, <2>4, MaxOf
    <2>6. Max(T) \in Nat /\ 1 <= Max(T)
      <3>1. T \subseteq Nat
        BY <2>4
      <3> QED BY <2>2, <2>5, <3>1
    <2> QED BY <2>3, <2>6
  <1> QED BY <1>1, <1>2

(* The input without its byte k.                                           *)
Without(s, k) == SubSeq(s, 1, k - 1) \o SubSeq(s, k + 1, Len(s))

(* What is left after the byte was taken out, byte by byte.                *)
LEMMA WithoutBytes ==
  ASSUME NEW S, NEW s \in Seq(S), NEW k \in 1 .. Len(s)
  PROVE  /\ Without(s, k) \in Seq(S) /\ Len(Without(s, k)) = Len(s) - 1
         /\ \A j \in 1 .. Len(s) - 1 : Without(s, k)[j] = IF j < k THEN s[j] ELSE s[j + 1]
  <1> DEFINE a == SubSeq(s, 1, k - 1)
             b == SubSeq(s, k + 1, Len(s))
  <1>1. Len(s) \in Nat /\ \A j \in 1 .. Len(s) : s[j] \in S
    BY LenProperties, ElementOfSeq
  <1>2. /\ a \in Seq(S) /\ Len(a) = k - 1
        /\ \A j \in 1 .. k - 1 : a[j] = s[j]
    BY <1>1, SubSeqProperties
  <1>3. /\ b \in Seq(S) /\ Len(b) = Len(s) - k
        /\ \A j \in 1 .. Len(s) - k : b[j] = s[k + j]
    <2>1. k + 1 \in Int /\ \A j \in k + 1 .. Len(s) : s[j] \in S
      BY <1>1
    <2>2. /\ b \in Seq(S) /\ Len(b) = IF k + 1 <= Len(s) THEN Len(s) - (k + 1) + 1 ELSE 0
          /\ \A j \in 1 .. Len(s) - (k + 1) + 1 : b[j] = s[k + 1 + j - 1]
      BY <1>1, <2>1, SubSeqProperties
    <2> QED BY <1>1, <2>2
  <1> HIDE DEF a, b
  <1>4. /\ a \o b \in Seq(S) /\ Len(a \o b) = Len(s) - 1
        /\ \A j \in 1 .. Len(s) - 1 :
             (a \o b)[j] = IF j <= k - 1 THEN a[j] ELSE b[j - (k - 1)]
    BY <1>1, <1>2, <1>3, ConcatProperties
  <1>5. \A j \in 1 .. Len(s) - 1 : (a \o b)[j] = IF j < k THEN s[j] ELSE s[j + 1]
    <2> SUFFICES ASSUME NEW j \in 1 .. Len(s) - 1
                 PROVE  (a \o b)[j] = IF j < k THEN s[j] ELSE s[j + 1]
      OBVIOUS
    <2>1. CASE j < k
      BY <1>2, <1>4, <2>1
    <2>2. CASE ~(j < k)
      <3>1. (a \o b)[j] = b[j - (k - 1)]
        BY <1>4, <2>2
      <3>2. j - (k - 1) \in 1 .. Len(s) - k /\ k + (j - (k - 1)) = j + 1
        BY <1>1, <2>2
      <3> QED BY <1>3, <2>2, <3>1, <3>2
    <2> QED BY <2>1, <2>2
  <1> QED BY <1>4, <1>5 DEF Without, a, b

(* Of two equal neighbours it does not matter which one is taken out.      *)
LEMMA TwinsAlike ==
  ASSUME NEW S, NEW s \in Seq(S), NEW k \in 1 .. Len(s) - 1, s[k] = s[k + 1]
  PROVE  Without(s, k) = Without(s, k + 1)
  <1>1. Len(s) \in Nat
    BY LenProperties
  <1>2. k \in 1 .. Len(s) /\ k + 1 \in 1 .. Len(s)
    BY <1>1
  <1>3. /\ Without(s, k) \in Seq(S) /\ Len(Without(s, k)) = Len(s) - 1
        /\ \A j \in 1 .. Len(s) - 1 : Without(s, k)[j] = IF j < k THEN s[j] ELSE s[j + 1]
    BY <1>2, WithoutBytes
  <1>4. /\ Without(s, k + 1) \in Seq(S) /\ Len(Without(s, k + 1)) = Len(s) - 1
        /\ \A j \in 1 .. Len(s) - 1 :
             Without(s, k + 1)[j] = IF j < k + 1 THEN s[j] ELSE s[j + 1]
    BY <1>2, WithoutBytes
  <1>5. \A j \in 1 .. Len(s) - 1 : Without(s, k)[j] = Without(s, k + 1)[j]
    BY <1>1, <1>3, <1>4
  <1> QED BY <1>3, <1>4, <1>5, SeqEqual

---------------------------------------------------------------------------
(* The last pass of a target that always does the same.                    *)

(* What Stable says of its targets.                                        *)
Repeatable ==
  \A t \in Stable : \A b \in Seq(Symbols) : \A r1, r2 \in Result(t, b) : r1 = r2

(* The input cannot do without byte k.                                     *)
Needed(k) == \A r \in Result(target, Without(in_data, k)) : ~Accepts(r)

(* The best input is made of symbols, and where a block was refused before *)
(* there is a block before.                                                *)
Placed ==
  /\ target \in Targets /\ in_data \in Seq(Symbols) /\ del_len \in Nat
  /\ pc \in {"delete", "chars"} => pos \in Nat
  /\ pc = "delete" => del_len # 0 /\ (prev_del \/ pos >= del_len)

(* As long as a pass changed nothing, the bytes that the round with blocks *)
(* of one byte has gone by are needed, and after that round all of them.   *)
Settled ==
  /\ pc = "done" => ~changed_any
  /\ target \in Stable /\ ~changed_any =>
       /\ pc = "delete" /\ del_len = 1 => \A k \in 1 .. in_len : k <= pos => Needed(k)
       /\ pc \in {"symbols", "chars", "done"} => \A k \in 1 .. in_len : Needed(k)

Minimal == IInv /\ Placed /\ Settled

(* At the start nothing has been tried.                                    *)
LEMMA MinimalInitially == Init => Minimal
  <1> SUFFICES ASSUME Init PROVE Placed /\ Settled
    BY Initially DEF Minimal
  <1>1. in_data \in Seq(Symbols)
    BY TminAssumption DEF Init
  <1> QED BY <1>1 DEF Init, Placed, Settled

(* The bytes stay needed while input, target and what is wanted of it do.  *)
LEMMA NeededStays ==
  ASSUME UNCHANGED <<mode, in_data>>, NEW k, Needed(k)
  PROVE  Needed(k)'
  BY DEF Needed, Accepts, mode

(* The steps before the first pass, and those of Ctrl-C.                   *)
LEMMA OtherStepsMinimal ==
  ASSUME Minimal, DryRun \/ NormalizeBlock \/ Abort \/ Stop
  PROVE  Placed' /\ Settled'
  <1> USE DEF Minimal
  <1>1. CASE DryRun
    BY <1>1 DEF DryRun, Placed, Settled, cursor
  <1>2. CASE NormalizeBlock
    <2>1. Zeroed(in_data, pos, set_len) \in Seq(Symbols)
      <3>1. in_data \in Seq(Symbols) /\ Zero \in Symbols
        BY TminAssumption DEF Placed
      <3>2. /\ Len(in_data) \in Nat /\ DOMAIN in_data = 1 .. Len(in_data)
            /\ \A k \in 1 .. Len(in_data) : in_data[k] \in Symbols
        BY <3>1, LenProperties, ElementOfSeq
      <3>3. Zeroed(in_data, pos, set_len) \in [1 .. Len(in_data) -> Symbols]
        BY <3>1, <3>2 DEF Zeroed
      <3> QED BY <3>2, <3>3 DEF Seq
    <2>2. /\ in_data' \in Seq(Symbols) /\ UNCHANGED <<mode, pc, del_len>> /\ pc = "blocks"
      BY <1>2, <2>1 DEF NormalizeBlock, Try, Placed
    <2> QED BY <2>2 DEF Placed, Settled, mode
  <1>3. CASE Abort
    BY <1>3 DEF Abort, Placed, Settled, mode, cursor
  <1>4. CASE Stop
    <2>1. \A k : Needed(k) => Needed(k)'
      BY <1>4, NeededStays DEF Stop
    <2> QED BY <1>4, <2>1 DEF Stop, Placed, Settled, mode, cursor, in_len
  <1> QED BY <1>1, <1>2, <1>3, <1>4

(* Each pass starts with nothing gone by, and so does each round.          *)
LEMMA RoundsMinimal ==
  ASSUME Minimal, BeginPass \/ HalveBlocks
  PROVE  Placed' /\ Settled'
  <1> USE DEF Minimal
  <1>1. CASE BeginPass
    <2>1. in_len \in Nat /\ TRIM_START_STEPS \in Nat \ {0}
      BY TminAssumption, LenProperties DEF Placed, in_len
    <2>2. in_len \div TRIM_START_STEPS \in Nat
      BY <2>1
    <2>3. del_len' \in Nat \ {0}
      BY <1>1, <2>2, BlockSize DEF BeginPass
    <2>4. pc' = "delete" /\ pos' = 0 /\ prev_del' = TRUE /\ UNCHANGED <<in_data, mode>>
      BY <1>1 DEF BeginPass
    <2> QED BY <2>3, <2>4 DEF Placed, Settled, mode
  <1>2. CASE HalveBlocks
    <2>1. del_len \in Nat \ {0} /\ pc = "delete"
      BY <1>2 DEF HalveBlocks, Placed
    <2> DEFINE T == {1, del_len \div 2}
    <2>2. T \in SUBSET (0 .. del_len) /\ T # {} /\ 1 \in T
      BY <2>1
    <2> HIDE DEF T
    <2>3. Max(T) \in T /\ 1 <= Max(T)
      BY <2>1, <2>2, MaxOf
    <2>4. Max(T) \in Nat \ {0}
      <3>1. PICK m \in 0 .. del_len : m = Max(T)
        BY <2>2, <2>3
      <3>2. 1 <= m
        BY <2>3, <3>1
      <3> QED BY <3>1, <3>2
    <2>5. del_len' = Max(T)
      BY <1>2 DEF HalveBlocks, T
    <2>6. pc' = "delete" /\ pos' = 0 /\ prev_del' = TRUE /\ UNCHANGED <<in_data, mode>>
      BY <1>2 DEF HalveBlocks
    <2> QED BY <2>4, <2>5, <2>6 DEF Placed, Settled, mode
  <1> QED BY <1>1, <1>2

(* A byte that equals the one before is as much needed as that one.        *)
LEMMA SkipMinimal ==
  ASSUME Minimal, SkipBlock
  PROVE  Placed' /\ Settled'
  <1> USE DEF Minimal
  <1>1. /\ pc = "delete" /\ pc' = "delete" /\ pos \in Nat /\ del_len \in Nat \ {0}
        /\ pos < in_len /\ Skippable /\ pos' = pos + del_len
        /\ UNCHANGED <<mode, in_data, del_len, prev_del, changed_any>>
    BY DEF SkipBlock, Placed
  <1>2. Placed'
    BY <1>1 DEF Placed, mode
  <1>3. \A k : Needed(k) => Needed(k)'
    BY <1>1, NeededStays
  <1>4. ASSUME target \in Stable, ~changed_any, del_len = 1
        PROVE  \A k \in 1 .. in_len : k <= pos + 1 => Needed(k)
    <2>1. pos \in 1 .. in_len - 1 /\ in_len \in Nat
      BY <1>1, <1>4, LenProperties DEF Placed, Skippable, in_len
    <2>2. Block(pos - 1) = Block(pos)
      BY <1>1, <1>4 DEF Skippable
    <2>3. in_data[pos] = in_data[pos + 1]
      <3>1. \A j \in 1 .. in_len : in_data[j] \in Symbols
        BY ElementOfSeq DEF Placed, in_len
      <3>2. Block(pos - 1)[1] = in_data[pos]
        <4>1. Block(pos - 1) = SubSeq(in_data, pos, pos)
          BY <1>4, <2>1 DEF Block
        <4>2. \A i \in pos .. pos : in_data[i] \in Symbols
          BY <2>1, <3>1
        <4>3. SubSeq(in_data, pos, pos)[1] = in_data[pos + 1 - 1]
          BY <2>1, <4>2, SubSeqProperties
        <4> QED BY <2>1, <4>1, <4>3
      <3>3. Block(pos)[1] = in_data[pos + 1]
        <4>1. Block(pos) = SubSeq(in_data, pos + 1, pos + 1)
          BY <1>4, <2>1 DEF Block
        <4>2. \A i \in pos + 1 .. pos + 1 : in_data[i] \in Symbols
          BY <2>1, <3>1
        <4>3. SubSeq(in_data, pos + 1, pos + 1)[1] = in_data[pos + 1 + 1 - 1]
          BY <2>1, <4>2, SubSeqProperties
        <4> QED BY <2>1, <4>1, <4>3
      <3> QED BY <2>2, <3>2, <3>3
    <2>4. Without(in_data, pos) = Without(in_data, pos + 1)
      BY <2>1, <2>3, TwinsAlike DEF Placed, in_len
    <2>5. \A k \in 1 .. in_len : k <= pos => Needed(k)
      BY <1>1, <1>4 DEF Settled
    <2>6. Needed(pos + 1)
      BY <2>1, <2>4, <2>5 DEF Needed
    <2> QED BY <2>1, <2>5, <2>6
  <1>5. Settled'
    BY <1>1, <1>3, <1>4 DEF Settled, mode, in_len
  <1> QED BY <1>2, <1>5

(* A byte without which the input was refused is needed, and if it was not *)
(* refused the pass has changed something.                                 *)
LEMMA DeleteMinimal ==
  ASSUME Repeatable, Minimal, DeleteBlock
  PROVE  Placed' /\ Settled'
  <1> USE DEF Minimal
  <1> DEFINE candidate == SubSeq(in_data, 1, pos) \o SubSeq(in_data, pos + del_len + 1, in_len)
  <1>1. /\ pc = "delete" /\ pos \in Nat /\ del_len \in Nat \ {0} /\ pos < in_len
        /\ in_len \in Nat /\ in_data \in Seq(Symbols)
    BY LenProperties DEF DeleteBlock, Placed, in_len
  <1>2. candidate \in Seq(Symbols)
    <2>1. \A j \in 1 .. in_len : in_data[j] \in Symbols
      BY <1>1, ElementOfSeq DEF in_len
    <2>2. SubSeq(in_data, 1, pos) \in Seq(Symbols)
      BY <1>1, <2>1, SubSeqProperties
    <2>3. SubSeq(in_data, pos + del_len + 1, in_len) \in Seq(Symbols)
      <3>1. \A j \in pos + del_len + 1 .. in_len : in_data[j] \in Symbols
        BY <1>1, <2>1
      <3>2. pos + del_len + 1 \in Int
        BY <1>1
      <3> QED BY <1>1, <3>1, <3>2, SubSeqProperties
    <2> QED BY <2>2, <2>3, ConcatProperties
  <1> HIDE DEF candidate
  <1>3. \/ /\ in_data' = candidate /\ changed_any' = TRUE /\ pos' = pos
        \/ /\ \E r \in Result(target, candidate) : ~Accepts(r)
           /\ pos' = pos + del_len /\ UNCHANGED <<in_data, changed_any>>
    BY DEF DeleteBlock, Try, candidate
  <1>4. UNCHANGED <<pc, del_len, mode>>
    BY DEF DeleteBlock, Try
  <1>5. Placed'
    <2>1. prev_del' = TRUE \/ pos' = pos + del_len
      BY DEF DeleteBlock
    <2>2. pos' \in Nat /\ (prev_del' = TRUE \/ pos' >= del_len)
      BY <1>1, <1>3, <2>1
    <2>3. in_data' \in Seq(Symbols)
      BY <1>1, <1>2, <1>3
    <2> QED BY <1>1, <1>4, <2>2, <2>3 DEF Placed, mode
  <1>6. CASE changed_any' = TRUE
    BY <1>1, <1>4, <1>5, <1>6 DEF Settled
  <1>7. CASE /\ \E r \in Result(target, candidate) : ~Accepts(r)
             /\ pos' = pos + del_len /\ UNCHANGED <<in_data, changed_any>>
    <2>1. \A k : Needed(k) => Needed(k)'
      BY <1>4, <1>7, NeededStays
    <2>2. ASSUME target \in Stable, ~changed_any, del_len = 1
          PROVE  \A k \in 1 .. in_len : k <= pos + 1 => Needed(k)
      <3>1. SUFFICES ASSUME NEW k \in 1 .. in_len, k <= pos + 1
                     PROVE  Needed(k)
        OBVIOUS
      <3>2. CASE k <= pos
        BY <1>1, <2>2, <3>1, <3>2 DEF Settled
      <3>3. CASE pos = k - 1
        <4>1. candidate = Without(in_data, k)
          <5>1. pos + del_len + 1 = k + 1
            BY <1>1, <2>2, <3>3
          <5>2. SubSeq(in_data, pos + del_len + 1, in_len) = SubSeq(in_data, k + 1, in_len)
            BY ONLY <5>1
          <5>3. SubSeq(in_data, 1, pos) = SubSeq(in_data, 1, k - 1)
            BY ONLY <3>3
          <5>4. candidate = SubSeq(in_data, 1, k - 1) \o SubSeq(in_data, k + 1, in_len)
            BY ONLY <5>2, <5>3 DEF candidate
          <5> QED BY ONLY <5>4 DEF Without, in_len
        <4>2. \A r \in Result(target, candidate) : ~Accepts(r)
          BY <1>2, <1>7, <2>2 DEF Repeatable
        <4> QED BY <4>1, <4>2 DEF Needed
      <3>4. k <= pos \/ pos = k - 1
        BY <1>1, <3>1
      <3> QED BY <3>2, <3>3, <3>4
    <2>3. ASSUME (target \in Stable /\ ~changed_any)', (pc = "delete" /\ del_len = 1)'
          PROVE  (\A k \in 1 .. in_len : k <= pos => Needed(k))'
      <3>1. target \in Stable /\ ~changed_any /\ del_len = 1 /\ pos' = pos + 1
        BY <1>1, <1>4, <1>7, <2>3 DEF mode
      <3>2. \A k \in 1 .. in_len : k <= pos' => Needed(k)
        BY <2>2, <3>1
      <3>3. in_len' = in_len
        BY <1>7 DEF in_len
      <3> QED BY <2>1, <3>2, <3>3
    <2> HIDE DEF Minimal
    <2>4. pc' = "delete"
      BY <1>1, <1>4
    <2> QED BY <1>5, <2>3, <2>4 DEF Settled
  <1> QED BY <1>3, <1>5, <1>6, <1>7

(* The stages that follow leave the input alone, or change something.      *)
LEMMA ReplacingMinimal ==
  ASSUME Minimal, BeginSymbols \/ ReplaceSymbol \/ BeginChars \/ ReplaceChar \/ Finalize
  PROVE  Placed' /\ Settled'
  <1> USE DEF Minimal
  <1>0. /\ in_len \in Nat /\ DOMAIN in_data = 1 .. in_len /\ Zero \in Symbols
        /\ \A k \in 1 .. in_len : in_data[k] \in Symbols
    BY TminAssumption, LenProperties, ElementOfSeq DEF Placed, in_len
  <1>1. CASE BeginSymbols \/ BeginChars \/ Finalize
    <2>1. UNCHANGED <<mode, in_data, del_len, changed_any>> /\ pc # "blocks"
      BY <1>1 DEF BeginSymbols, BeginChars, Finalize, DeletionDone, cursor
    <2>2. \A k : Needed(k) => Needed(k)'
      BY <2>1, NeededStays
    <2>3. DeletionDone /\ target \in Stable /\ ~changed_any => \A k \in 1 .. in_len : Needed(k)
      BY <1>0 DEF DeletionDone, Finer, Settled, Placed
    <2>4. pc' \in {"symbols", "chars", "done"} /\ (pc' = "chars" => pos' = 0)
      BY <1>1 DEF BeginSymbols, BeginChars, Finalize
    <2>5. pc' = "done" => ~changed_any
      BY <1>1 DEF BeginSymbols, BeginChars, Finalize, Fruitless
    <2>6. target \in Stable /\ ~changed_any => \A k \in 1 .. in_len : Needed(k)
      BY <1>1, <2>3 DEF BeginSymbols, BeginChars, Finalize, Settled
    <2> QED BY <2>1, <2>2, <2>4, <2>5, <2>6 DEF Placed, Settled, mode, in_len
  <1>2. ASSUME in_data' \in Seq(Symbols), UNCHANGED <<mode, pc, del_len>>,
               pc \in {"symbols", "chars"}, pc = "chars" => pos' \in Nat,
               changed_any' = TRUE \/ UNCHANGED <<in_data, changed_any>>
        PROVE  Placed' /\ Settled'
    <2>1. Placed'
      BY <1>2 DEF Placed, mode
    <2>2. CASE changed_any' = TRUE
      BY <1>2, <2>1, <2>2 DEF Settled
    <2>3. CASE UNCHANGED <<in_data, changed_any>>
      <3>1. \A k : Needed(k) => Needed(k)'
        BY <1>2, <2>3, NeededStays
      <3> QED BY <1>2, <2>1, <2>3, <3>1 DEF Settled, mode, in_len
    <2> QED BY <1>2, <2>2, <2>3
  <1>3. CASE ReplaceSymbol
    <2> DEFINE c == [k \in DOMAIN in_data |-> IF in_data[k] = Min(symbols) THEN Zero
                                                                           ELSE in_data[k]]
    <2>1. c \in Seq(Symbols)
      <3>1. c \in [1 .. in_len -> Symbols]
        BY <1>0
      <3> QED BY <1>0, <3>1 DEF Seq
    <2>2. \/ in_data' = c /\ changed_any' = TRUE
          \/ UNCHANGED <<in_data, changed_any>>
      BY <1>3 DEF ReplaceSymbol
    <2>3. UNCHANGED <<mode, pc, del_len>> /\ pc = "symbols"
      BY <1>3 DEF ReplaceSymbol, Try
    <2>4. in_data' \in Seq(Symbols)
      BY <2>1, <2>2 DEF Placed
    <2> QED BY <1>2, <2>2, <2>3, <2>4
  <1>4. CASE ReplaceChar
    <2>1. pc = "chars" /\ pos \in Nat /\ pos < in_len /\ UNCHANGED <<pc, del_len, mode>>
      BY <1>4 DEF ReplaceChar, Placed, Try
    <2>2. pos' \in Nat
      BY <1>4, <2>1 DEF ReplaceChar
    <2>3. \/ in_data' = [in_data EXCEPT ![pos + 1] = Zero] /\ changed_any' = TRUE
          \/ UNCHANGED <<in_data, changed_any>>
      BY <1>4 DEF ReplaceChar
    <2>4. in_data \in Seq(Symbols) /\ pos + 1 \in 1 .. Len(in_data)
      BY <1>0, <2>1 DEF Placed, in_len
    <2>5. [in_data EXCEPT ![pos + 1] = Zero] \in Seq(Symbols)
      BY <1>0, <2>4, ExceptSeq
    <2>6. in_data' \in Seq(Symbols)
      BY <2>3, <2>4, <2>5
    <2> QED BY <1>2, <2>1, <2>2, <2>3, <2>6
  <1> QED BY <1>1, <1>3, <1>4

(* afl-tmin's output is 1-minimal, for every target that always does the   *)
(* same: it cannot do without any of its bytes, although a block that      *)
(* looks like the one before is not tried.                                 *)
THEOREM OneMinimalHolds ==
  ASSUME Repeatable
  PROVE  Spec => []OneMinimal
  <1>1. ASSUME Minimal, [Next]_vars PROVE Minimal'
    <2>1. IInv'
      BY <1>1, Inductive DEF Minimal
    <2>2. CASE Next
      BY <1>1, <2>1, <2>2, OtherStepsMinimal, RoundsMinimal, SkipMinimal, DeleteMinimal,
         ReplacingMinimal DEF Next, Step, Minimal
    <2>3. CASE UNCHANGED vars
      <3>1. \A k : Needed(k) => Needed(k)'
        BY <2>3, NeededStays DEF vars
      <3> QED BY <1>1, <2>1, <2>3, <3>1 DEF Minimal, Placed, Settled, vars, mode, cursor, in_len
    <2> QED BY <1>1, <2>2, <2>3
  <1>2. Minimal => OneMinimal
    <2> SUFFICES ASSUME Minimal, pc = "done", target \in Stable, NEW k \in DOMAIN out_file
                 PROVE  \A r \in Result(target, Without(out_file, k)) : ~Accepts(r)
      BY DEF OneMinimal, Without
    <2>1. out_file = in_data /\ k \in 1 .. in_len
      BY LenProperties DEF Minimal, IInv, Placed, in_len
    <2> QED BY <2>1 DEF Minimal, Settled, Needed
  <1> QED BY <1>1, <1>2, MinimalInitially, PTL DEF Spec
=============================================================================
