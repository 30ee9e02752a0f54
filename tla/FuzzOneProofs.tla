---------------------------- MODULE FuzzOneProofs ----------------------------
(***************************************************************************)
(* The stages of fuzz_one().  The effector map never loses a byte that has *)
(* an effect, every offset starts from the input as it was, and what is    *)
(* left out as a duplicate is one, or one of two known exceptions, for     *)
(* inputs, tokens, blocks and thresholds of any size; no tweak of the      *)
(* havoc stage and no splice leaves a buffer or a limit, for any sizes of  *)
(* blocks and files, any queue and any dictionary.                         *)
(***************************************************************************)
EXTENDS Stages, Havoc, FiniteSetTheorems, SequenceTheorems, WellFoundedInduction, NaturalsInduction,
        TLAPS

---------------------------------------------------------------------------
(* The deterministic stages.                                               *)

(* The shortest tokens come first.                                         *)
Shortest(l) == \A j, k \in DOMAIN l : j < k => Len(l[j]) <= Len(l[k])

(* What every stage keeps: the entry is at an offset of a stage.           *)
Placed ==
  /\ in_buf \in Inputs /\ live \subseteq 0 .. len - 1
  /\ stage \in 1 .. 17 /\ pos \in Nat

(* The blocks marked are counted, until the map is filled up.              *)
Counted ==
  /\ eff \subseteq Blocks
  /\ eff_cnt = Cardinality(eff) \/ eff = Blocks

(* Byte by byte, flip8 marks what has an effect; afterwards it stays so.   *)
Seen ==
  /\ stage = 4 => \A b \in live : b < pos => Block(b) \in eff
  /\ stage \in 5 .. 16 => \A b \in live : Block(b) \in eff

(* What is written over the input at an offset is no longer than the last  *)
(* token, and none of the tokens to come is shorter.                       *)
Clobbered ==
  /\ extras \in Seq(Seq(Byte)) /\ Shortest(extras)
  /\ a_extras \in Seq(Seq(Byte)) /\ Shortest(a_extras)
  /\ token \in Nat \ {0} /\ last_len \in Nat
  /\ out_buf \in [1 .. len -> Byte]
  /\ stage < 17 =>
       /\ token # 1 => Working /\ Names[stage] \in {"ext_UO", "ext_AO"}
       /\ token = 1 => last_len = 0
       /\ pos + last_len <= len \/ last_len = 0
       /\ \A k \in token .. Len(Tokens) : last_len <= Len(Tokens[k])
       /\ \A k \in 1 .. len : k \notin pos + 1 .. pos + last_len => out_buf[k] = in_buf[k]

MapInv == Placed /\ Counted /\ Seen
IInv == MapInv /\ Clobbered

---------------------------------------------------------------------------
\* The blocks of two offsets are ordered as the offsets are.
LEMMA DivMonotone ==
  ASSUME NEW a \in Nat, NEW b \in Nat, a <= b, NEW d \in Nat \ {0}
  PROVE  a \div d \in Nat /\ b \div d \in Nat /\ a \div d <= b \div d
  OBVIOUS

\* A set of natural numbers has a least member, and Min() finds it.
LEMMA MinOf ==
  ASSUME NEW T \in SUBSET Nat, T # {}
  PROVE  Min(T) \in T /\ \A y \in T : Min(T) <= y
<1> DEFINE R == {ss \in Nat \X Nat : ss[1] < ss[2]}
<1>1. IsWellFoundedOn(R, Nat)
  BY NatLessThanWellFounded DEF OpToRel
<1>2. PICK x \in T : \A y \in T : ~(<<y, x>> \in R)
  BY <1>1, WFMin
<1>3. ASSUME NEW y \in T, ~(x <= y) PROVE FALSE
  <2>1. <<y, x>> \in Nat \X Nat /\ y < x
    BY <1>3
  <2>2. <<y, x>> \in R
    BY <2>1
  <2> QED
    BY <1>2, <2>2
<1> QED
  BY <1>3 DEF Min

\* The numbers of the stages (Names).
LEMMA Numbers ==
  /\ DOMAIN Names = 1 .. 17
  /\ Number("flip8") = 4 /\ Number("done") = 16 /\ Number("abandoned") = 17
  /\ \A s \in 1 .. 3 : Names[s] \in FlipBits
  /\ Names[4] = "flip8" /\ Names[17] = "abandoned"
  BY DEF Names, Number, FlipBits

\* The blocks are those of the offsets of the input (EFF_ALEN, EFF_APOS).
LEMMA BlockOf ==
  ASSUME Placed, NEW b \in 0 .. len - 1
  PROVE  Block(b) \in Blocks /\ IsFiniteSet(Blocks)
<1>1. len \in Nat \ {0} /\ EFF_BLOCK \in Nat \ {0}
  BY StagesAssumption DEF Placed, len
<1>2. /\ b \div EFF_BLOCK \in Nat /\ (len - 1) \div EFF_BLOCK \in Nat
      /\ b \div EFF_BLOCK <= (len - 1) \div EFF_BLOCK
  BY <1>1, DivMonotone
<1> QED
  BY <1>2, FS_Interval DEF Block, Blocks

\* No stage before flip8 is followed by one after it: flip8 always has an offset.
LEMMA FlipNext ==
  ASSUME Placed, stage < 16
  PROVE  /\ NextStage(stage) \in stage + 1 .. 16
         /\ stage < 4 => NextStage(stage) <= 4
         /\ Offsets("flip8") = len
<1> DEFINE T == {k \in stage + 1 .. 16 : k = 16 \/ Offsets(Names[k]) > 0}
<1>1. len \in Nat \ {0}
  BY StagesAssumption DEF Placed, len
<1>2. NextStage(stage) = Min(T)
  BY Numbers DEF NextStage
<1>3. T \in SUBSET Nat /\ 16 \in T
  BY DEF Placed
<1>4. Offsets("flip8") = Max({0, len - 1 + 1})
  BY DEF Offsets, FlipBits, FlipBytes, Width, Ariths
<1>5. Max({0, len - 1 + 1}) = len
  BY <1>1 DEF Max
<1>6. stage < 4 => 4 \in T
  BY <1>1, <1>4, <1>5, Numbers DEF Placed
<1>7. \A k \in T : k \in stage + 1 .. 16
  OBVIOUS
<1> HIDE DEF T
<1>8. Min(T) \in T /\ \A k \in T : Min(T) <= k
  BY <1>3, MinOf
<1>9. stage < 4 => Min(T) <= 4
  BY <1>6, <1>8
<1> QED
  BY <1>2, <1>4, <1>5, <1>7, <1>8, <1>9

---------------------------------------------------------------------------
\* qsort() leaves the tokens in order (load_extras(), maybe_add_auto()).
LEMMA OrderedIs ==
  ASSUME NEW tokens \in Seq(Seq(Byte)), NEW l \in ByLength(tokens)
  PROVE  l \in Seq(Seq(Byte)) /\ Shortest(l)
<1>1. PICK p \in Bijection(DOMAIN tokens, DOMAIN tokens) :
        l = [k \in DOMAIN tokens |-> tokens[p[k]]]
  BY DEF ByLength
<1>2. DOMAIN tokens = 1 .. Len(tokens) /\ Len(tokens) \in Nat
      /\ \A k \in DOMAIN tokens : tokens[k] \in Seq(Byte)
  BY ElementOfSeq, LenProperties
<1>3. p \in [DOMAIN tokens -> DOMAIN tokens]
  BY DEF Bijection, Injection
<1>4. l \in [1 .. Len(tokens) -> Seq(Byte)]
  BY <1>1, <1>2, <1>3
<1>5. \A j, k \in DOMAIN l : j < k => Len(l[j]) <= Len(l[k])
  BY DEF ByLength
<1>6. l \in Seq(Seq(Byte))
  BY <1>2, <1>4, SeqDef
<1> QED
  BY <1>5, <1>6 DEF Shortest

\* Put() changes what is below the word and nothing else.
LEMMA PutIs ==
  ASSUME NEW n \in Nat, NEW B, NEW buf \in [1 .. n -> B], NEW i \in Nat, NEW v \in Seq(B)
  PROVE  /\ Put(buf, i, v) \in [1 .. n -> B]
         /\ \A k \in 1 .. n : k \notin i + 1 .. i + Len(v) => Put(buf, i, v)[k] = buf[k]
         /\ \A k \in 1 .. n : k \in i + 1 .. i + Len(v) => Put(buf, i, v)[k] = v[k - i]
<1>1. DOMAIN v = 1 .. Len(v) /\ Len(v) \in Nat /\ \A k \in DOMAIN v : v[k] \in B
  BY ElementOfSeq, LenProperties
<1>2. \A k \in 1 .. n : k - i \in DOMAIN v <=> k \in i + 1 .. i + Len(v)
  BY <1>1
<1>3. \A k \in 1 .. n : Put(buf, i, v)[k] = IF k - i \in DOMAIN v THEN v[k - i] ELSE buf[k]
  BY DEF Put
<1>4. Put(buf, i, v) \in [1 .. n -> B]
  BY <1>1 DEF Put
<1> QED
  BY <1>2, <1>3, <1>4

\* Outside the stages that write tokens the buffer is the input.
LEMMA BufUntouched ==
  ASSUME Placed, Clobbered, token = 1, stage < 17
  PROVE  out_buf = in_buf /\ last_len = 0
<1>1. in_buf \in [1 .. len -> Byte] /\ len \in Nat
  BY StagesAssumption, LenProperties DEF Placed, len
<1>2. \A k \in 1 .. len : out_buf[k] = in_buf[k]
  BY <1>1 DEF Clobbered, Placed
<1> QED
  BY <1>1, <1>2 DEF Clobbered

\* A step that writes no token leaves it so.
LEMMA QuietClobbers ==
  ASSUME Placed, Clobbered, UNCHANGED <<fixed, out_buf, token, last_len>>,
         \/ stage' = 17
         \/ stage < 17 /\ token = 1
  PROVE  Clobbered'
<1>1. UNCHANGED <<in_buf, extras, a_extras, out_buf, token, last_len>> /\ len' = len
  BY DEF fixed, len
<1>2. CASE stage' = 17
  BY <1>1, <1>2 DEF Clobbered
<1>3. CASE stage < 17 /\ token = 1
  <2>1. out_buf = in_buf /\ last_len = 0
    BY <1>3, BufUntouched
  <2>2. \A k \in DOMAIN extras : Len(extras[k]) \in Nat
    BY ElementOfSeq, LenProperties DEF Clobbered
  <2>3. \A k \in DOMAIN a_extras : Len(a_extras[k]) \in Nat
    BY ElementOfSeq, LenProperties DEF Clobbered
  <2>4. \A k \in 1 .. Len(Tokens') : 0 <= Len(Tokens'[k])
    BY <1>1, <2>2, <2>3, LenProperties DEF Tokens, Clobbered
  <2> QED BY <1>1, <1>3, <2>1, <2>4 DEF Clobbered
<1> QED
  BY <1>2, <1>3

\* What is known of the tokens of the stage.
LEMMA TokensAre ==
  ASSUME Clobbered
  PROVE  /\ Tokens \in Seq(Seq(Byte)) /\ Shortest(Tokens) /\ Len(Tokens) \in Nat
         /\ \A k \in 1 .. Len(Tokens) :
              Tokens[k] \in Seq(Byte) /\ Len(Tokens[k]) \in Nat /\ k \in DOMAIN Tokens
<1>1. Tokens \in Seq(Seq(Byte)) /\ Shortest(Tokens)
  BY DEF Tokens, Clobbered
<1> QED
  BY <1>1, ElementOfSeq, LenProperties

\* In a stage that writes tokens an offset is within the input.
LEMMA WritesWithin ==
  ASSUME Placed, Working, Names[stage] \in {"ext_UO", "ext_AO"}
  PROVE  pos < len /\ pos \in Nat /\ len \in Nat /\ stage < 16
<1>1. len \in Nat
  BY StagesAssumption, LenProperties DEF Placed, len
<1>2. Offsets("ext_UO") = (IF extras = << >> THEN 0 ELSE len)
      /\ Offsets("ext_AO") = (IF a_extras = << >> THEN 0 ELSE len)
  BY DEF Offsets, FlipBits, FlipBytes, Ariths, Ints
<1> QED
  BY <1>1, <1>2, Numbers DEF Working, Placed

\* A token that is written covers what the one before has clobbered (5893-5923).
LEMMA OverwriteClobbers ==
  ASSUME Placed, Clobbered, Overwrite
  PROVE  Clobbered'
<1> DEFINE t == Tokens[token]
<1>1. /\ Working /\ Names[stage] \in {"ext_UO", "ext_AO"} /\ token <= Len(Tokens)
      /\ token' = token + 1 /\ UNCHANGED <<fixed, stage, pos>>
      /\ \/ UNCHANGED <<out_buf, last_len>>
         \/ Placeable(t) /\ out_buf' = Put(out_buf, pos, t) /\ last_len' = Len(t)
  BY DEF Overwrite
<1>2. UNCHANGED <<in_buf, extras, a_extras>> /\ len' = len /\ Tokens' = Tokens
  BY <1>1 DEF fixed, len, Tokens, At
<1>3. Working' /\ Names[stage'] \in {"ext_UO", "ext_AO"}
  BY <1>1, <1>2 DEF fixed, Working, Offsets, len
<1>4. pos \in Nat /\ len \in Nat /\ token \in Nat /\ stage < 17 /\ token # 0
  <2>1. pos \in Nat /\ len \in Nat /\ stage < 16
    BY <1>1, WritesWithin
  <2> QED BY <2>1 DEF Clobbered, Placed
<1>5. t \in Seq(Byte) /\ Len(t) \in Nat /\ token \in 1 .. Len(Tokens) /\ Len(Tokens) \in Nat
  BY <1>1, <1>4, TokensAre
<1> HIDE DEF t
<1>6. CASE UNCHANGED <<out_buf, last_len>>
  <2>1. \A k \in token' .. Len(Tokens') : last_len' <= Len(Tokens'[k])
    BY <1>1, <1>2, <1>4, <1>5, <1>6 DEF Clobbered
  <2> QED BY <1>1, <1>2, <1>3, <1>4, <1>6, <2>1 DEF Clobbered
<1>7. CASE Placeable(t) /\ out_buf' = Put(out_buf, pos, t) /\ last_len' = Len(t)
  <2>1. last_len <= Len(t) /\ last_len \in Nat
    BY <1>4, <1>5 DEF Clobbered, t
  <2>2. pos + Len(t) <= len
    BY <1>4, <1>5, <1>7 DEF Placeable
  <2>3. /\ out_buf' \in [1 .. len -> Byte]
        /\ \A k \in 1 .. len : k \notin pos + 1 .. pos + Len(t) => out_buf'[k] = out_buf[k]
    <3>1. out_buf \in [1 .. len -> Byte]
      BY DEF Clobbered
    <3>2. /\ Put(out_buf, pos, t) \in [1 .. len -> Byte]
          /\ \A k \in 1 .. len :
               k \notin pos + 1 .. pos + Len(t) => Put(out_buf, pos, t)[k] = out_buf[k]
      BY <1>4, <1>5, <3>1, PutIs
    <3> QED BY <1>7, <3>2
  <2>4. \A k \in 1 .. len : k \notin pos + 1 .. pos + Len(t) => out_buf'[k] = in_buf[k]
    <3>1. \A k \in 1 .. len :
            k \notin pos + 1 .. pos + Len(t) => k \notin pos + 1 .. pos + last_len
      BY <1>4, <1>5, <2>1
    <3> QED BY <1>4, <2>3, <3>1 DEF Clobbered
  <2>5. \A k \in token + 1 .. Len(Tokens) : Len(t) <= Len(Tokens[k])
    BY <1>4, <1>5, TokensAre DEF Shortest, t
  <2>6. token' # 1 /\ token' \in Nat \ {0}
    BY <1>1, <1>4
  <2> QED BY <1>1, <1>2, <1>3, <1>4, <1>5, <1>7, <2>2, <2>3, <2>4, <2>5, <2>6 DEF Clobbered
<1> QED
  BY <1>1, <1>6, <1>7

\* So undoing the last token undoes them all (5928-5929).
LEMMA RestoreClobbers ==
  ASSUME Placed, Clobbered, Restore
  PROVE  Clobbered'
<1> DEFINE word == Word(in_buf, pos, last_len)
<1>1. /\ Working /\ Names[stage] \in {"ext_UO", "ext_AO"}
      /\ out_buf' = Put(out_buf, pos, word) /\ token' = 1 /\ last_len' = 0 /\ pos' = pos + 1
      /\ UNCHANGED <<fixed, stage>>
  BY DEF Restore
<1>2. UNCHANGED <<in_buf, extras, a_extras>> /\ len' = len /\ Tokens' = Tokens
  BY <1>1 DEF fixed, len, Tokens, At
<1>3. /\ pos \in Nat /\ len \in Nat /\ last_len \in Nat /\ stage < 17
      /\ pos + last_len <= len /\ in_buf \in Seq(Byte) /\ len = Len(in_buf)
  BY <1>1, WritesWithin, StagesAssumption DEF Clobbered, Placed, len
<1>4. /\ word \in Seq(Byte) /\ Len(word) = last_len
      /\ \A k \in 1 .. last_len : word[k] = in_buf[pos + k]
  <2>1. \A i \in pos + 1 .. pos + last_len : in_buf[i] \in Byte
    BY <1>3, ElementOfSeq, LenProperties
  <2>2. pos + 1 \in Int /\ pos + last_len \in Int
    BY <1>3
  <2>3. /\ SubSeq(in_buf, pos + 1, pos + last_len) \in Seq(Byte)
        /\ Len(SubSeq(in_buf, pos + 1, pos + last_len)) =
             IF pos + 1 <= pos + last_len THEN (pos + last_len) - (pos + 1) + 1 ELSE 0
        /\ \A k \in 1 .. (pos + last_len) - (pos + 1) + 1 :
             SubSeq(in_buf, pos + 1, pos + last_len)[k] = in_buf[(pos + 1) + k - 1]
    BY <2>1, <2>2, SubSeqProperties
  <2>4. word = SubSeq(in_buf, pos + 1, pos + last_len)
    BY DEF Word
  <2> HIDE DEF word
  <2>5. Len(word) = last_len
    BY <1>3, <2>3, <2>4
  <2>6. ASSUME NEW k \in 1 .. last_len PROVE word[k] = in_buf[pos + k]
    <3>1. k \in 1 .. (pos + last_len) - (pos + 1) + 1 /\ (pos + 1) + k - 1 = pos + k
      BY <1>3
    <3> QED BY <2>3, <2>4, <3>1
  <2> QED BY <2>3, <2>4, <2>5, <2>6
<1> HIDE DEF word
<1>5. /\ out_buf' \in [1 .. len -> Byte]
      /\ \A k \in 1 .. len : k \notin pos + 1 .. pos + last_len => out_buf'[k] = out_buf[k]
      /\ \A k \in 1 .. len : k \in pos + 1 .. pos + last_len => out_buf'[k] = word[k - pos]
  <2>1. out_buf \in [1 .. len -> Byte]
    BY DEF Clobbered
  <2>2. pos \in Nat /\ len \in Nat /\ word \in Seq(Byte)
    BY <1>3, <1>4
  <2>3. Put(out_buf, pos, word) \in [1 .. len -> Byte]
    BY <2>1, <2>2, PutIs
  <2>4. \A k \in 1 .. len :
          k \notin pos + 1 .. pos + Len(word) => Put(out_buf, pos, word)[k] = out_buf[k]
    BY <2>1, <2>2, PutIs
  <2>5. \A k \in 1 .. len :
          k \in pos + 1 .. pos + Len(word) => Put(out_buf, pos, word)[k] = word[k - pos]
    BY <2>1, <2>2, PutIs
  <2> QED BY <1>1, <1>4, <2>3, <2>4, <2>5
<1>6. ASSUME NEW k \in 1 .. len PROVE out_buf'[k] = in_buf[k]
  <2>1. CASE k \in pos + 1 .. pos + last_len
    <3>1. k - pos \in 1 .. last_len /\ pos + (k - pos) = k
      BY <1>3, <2>1
    <3> QED BY <1>4, <1>5, <2>1, <3>1
  <2>2. CASE k \notin pos + 1 .. pos + last_len
    BY <1>3, <1>5, <2>2 DEF Clobbered
  <2> QED BY <2>1, <2>2
<1>7. \A k \in 1 .. Len(Tokens) : 0 <= Len(Tokens[k])
  BY TokensAre
<1> QED
  BY <1>1, <1>2, <1>3, <1>5, <1>6, <1>7 DEF Clobbered

---------------------------------------------------------------------------
\* The first and the last block are marked before the first stage (5304-5317).
LEMMA InitIInv == Init => IInv
<1> SUFFICES ASSUME Init PROVE IInv
  OBVIOUS
<1>1. Placed
  BY DEF Init, Placed, len
<1>2. 0 \in 0 .. len - 1 /\ len - 1 \in 0 .. len - 1
  BY StagesAssumption DEF Init, len
<1>3. Block(0) = 0 /\ Block(len - 1) = (Len(in_buf) - 1) \div EFF_BLOCK
  <2>1. EFF_BLOCK \in Nat \ {0}
    BY StagesAssumption
  <2> QED BY <2>1 DEF Block, len
<1>4. eff \subseteq Blocks
  BY <1>1, <1>2, <1>3, BlockOf DEF Init
<1>5. eff_cnt = Cardinality(eff)
  <2> DEFINE last == (Len(in_buf) - 1) \div EFF_BLOCK
  <2>1. CASE last = 0
    <3>1. eff = {0} /\ eff_cnt = 1
      BY <2>1 DEF Init
    <3> QED
      BY <3>1, FS_Singleton
  <2>2. CASE last # 0
    <3>1. eff = {0} \cup {last} /\ eff_cnt = 2 /\ last \notin {0}
      BY <2>2 DEF Init
    <3>2. IsFiniteSet({0}) /\ Cardinality({0}) = 1
      BY FS_Singleton
    <3>3. Cardinality({0} \cup {last}) = 1 + 1
      BY <3>1, <3>2, FS_AddElement
    <3> HIDE DEF last
    <3>4. Cardinality(eff) = 1 + 1
      BY <3>1, <3>3, Zenon
    <3> QED
      BY <3>1, <3>4
  <2> QED
    BY <2>1, <2>2
<1>6. Clobbered
  <2>1. Extras \in Seq(Seq(Byte)) /\ AutoTokens \in Seq(Seq(Byte))
    BY StagesAssumption
  <2> DEFINE n == Min({Len(AutoTokens), USE_AUTO_EXTRAS})
             used == SubSeq(AutoTokens, 1, n)
  <2>2. n \in Nat /\ n <= Len(AutoTokens)
    <3>1. {Len(AutoTokens), USE_AUTO_EXTRAS} \in SUBSET Nat
      BY <2>1, StagesAssumption, LenProperties
    <3> QED BY <3>1, MinOf
  <2> HIDE DEF n
  <2>3. used \in Seq(Seq(Byte))
    <3>1. \A i \in 1 .. n : AutoTokens[i] \in Seq(Byte)
      BY <2>1, <2>2, ElementOfSeq, LenProperties
    <3> QED BY <2>2, <3>1, SubSeqProperties
  <2> HIDE DEF used
  <2>4. extras \in ByLength(Extras) /\ a_extras \in ByLength(used)
    BY DEF Init, n, used
  <2>5. /\ extras \in Seq(Seq(Byte)) /\ Shortest(extras)
        /\ a_extras \in Seq(Seq(Byte)) /\ Shortest(a_extras)
    BY <2>1, <2>3, <2>4, OrderedIs
  <2>6. \A k \in 1 .. Len(Tokens) : 0 <= Len(Tokens[k])
    <3>1. Tokens \in Seq(Seq(Byte))
      BY <2>5 DEF Tokens
    <3> QED BY <3>1, ElementOfSeq, LenProperties
  <2>7. out_buf \in [1 .. len -> Byte] /\ out_buf = in_buf
    BY <1>1, StagesAssumption, LenProperties DEF Init, Placed, len
  <2> QED BY <2>5, <2>6, <2>7 DEF Init, Clobbered
<1> QED
  BY <1>1, <1>4, <1>5, <1>6 DEF Init, IInv, MapInv, Counted, Seen

\* A step of a stage moves on to the next offset and leaves the rest of Placed alone.
LEMMA WorkPlaced ==
  ASSUME Placed, UNCHANGED <<fixed, stage>>, pos' = pos + 1 \/ pos' = pos
  PROVE  Placed'
  BY DEF Placed, fixed, len

\* Each step keeps the invariant; only flip8 and the end of a stage touch the map.
LEMMA NextMap == MapInv /\ [Next]_vars => MapInv'
<1> SUFFICES ASSUME MapInv, [Next]_vars PROVE MapInv'
  OBVIOUS
<1> USE DEF MapInv
<1> DEFINE Others == WalkBits \/ Arithmetic \/ Interesting \/ Insert
<1>1. CASE Others \/ Overwrite \/ Restore
  <2>1. /\ UNCHANGED <<fixed, stage, eff, eff_cnt>> /\ (pos' = pos + 1 \/ pos' = pos)
        /\ Names[stage] # "flip8"
    BY <1>1 DEF WalkBits, Arithmetic, Interesting, Overwrite, Restore, Insert, Work, FlipBits,
         Ariths, Ints, At
  <2>2. Placed'
    BY <2>1, WorkPlaced
  <2>3. Counted'
    BY <2>1 DEF Counted, Blocks, Block, len, fixed
  <2>4. stage # 4
    BY <2>1, Numbers
  <2> QED
    BY <2>1, <2>2, <2>3, <2>4 DEF Seen, Block, fixed
<1>2. CASE WalkBytes
  <2>1. UNCHANGED <<fixed, stage>> /\ pos' = pos + 1
    BY <1>2 DEF WalkBytes, Work
  <2>2. Placed'
    BY <2>1, WorkPlaced
  <2>3. CASE stage = 4 /\ Block(pos) \notin eff /\ Marked(pos)
    <3>1. eff' = eff \cup {Block(pos)} /\ eff_cnt' = eff_cnt + 1 /\ pos < Offsets("flip8")
      BY <1>2, <2>3, Numbers DEF WalkBytes, At, Working
    <3>2. pos \in 0 .. len - 1
      BY <2>3, <3>1, FlipNext, StagesAssumption DEF Placed, len
    <3>3. Block(pos) \in Blocks /\ IsFiniteSet(Blocks)
      BY <3>2, BlockOf
    <3>4. IsFiniteSet(eff) /\ eff_cnt = Cardinality(eff)
      BY <2>3, <3>3, FS_Subset DEF Counted
    <3>5. Cardinality(eff') = Cardinality(eff) + 1
      BY <2>3, <3>1, <3>4, FS_AddElement
    <3>6. Counted'
      BY <2>1, <3>1, <3>3, <3>4, <3>5 DEF Counted, Blocks, Block, len, fixed
    <3> QED
      BY <2>1, <2>2, <2>3, <3>1, <3>6 DEF Seen, Placed, Block, fixed
  <2>4. CASE ~(stage = 4 /\ Block(pos) \notin eff /\ Marked(pos))
    <3>1. At("flip8") <=> stage = 4
      BY Numbers DEF At, Placed, Names
    <3>2. UNCHANGED <<eff, eff_cnt>>
      BY <1>2, <2>4, <3>1 DEF WalkBytes
    <3>3. Counted'
      BY <2>1, <3>2 DEF Counted, Blocks, Block, len, fixed
    <3>4. stage = 4 /\ pos \in live => Block(pos) \in eff
      BY <2>4 DEF Marked
    <3> QED
      BY <2>1, <2>2, <3>2, <3>3, <3>4 DEF Seen, Placed, Block, fixed
  <2> QED
    BY <2>3, <2>4
<1>3. CASE EndStage
  <2>1. /\ stage < 16 /\ pos = Offsets(Names[stage]) /\ stage' = NextStage(stage) /\ pos' = 0
        /\ UNCHANGED <<fixed, eff_cnt>>
        /\ eff' = eff \/ (stage = 4 /\ eff' = Blocks)
    BY <1>3, Numbers DEF EndStage, At, Names, Placed
  <2>2. Placed'
    <3>1. stage' \in stage + 1 .. 16
      BY <2>1, FlipNext
    <3>2. in_buf' = in_buf /\ live' = live /\ pos' = 0
      BY <2>1 DEF fixed
    <3>3. stage' \in 1 .. 17
      BY <3>1 DEF Placed
    <3> QED
      BY <3>2, <3>3 DEF Placed, len
  <2>3. eff \subseteq eff' /\ Counted'
    BY <2>1 DEF Counted, Blocks, Block, len, fixed
  <2>4. CASE stage < 4
    BY <2>1, <2>2, <2>3, <2>4, FlipNext DEF Seen, Placed
  <2>5. CASE stage = 4
    <3>1. \A b \in live : Block(b) \in eff
      BY <2>1, <2>5, Numbers, FlipNext DEF Seen, Placed
    <3> QED
      BY <2>1, <2>2, <2>3, <2>5, <3>1, FlipNext DEF Seen, Block, fixed
  <2>6. CASE stage > 4
    BY <2>1, <2>2, <2>3, <2>6, FlipNext DEF Seen, Block, fixed, Placed
  <2> QED
    BY <2>4, <2>5, <2>6 DEF Placed
<1>4. CASE Abandon
  <2>1. stage' = 17 /\ UNCHANGED <<in_buf, live, pos, eff, eff_cnt>>
    BY <1>4, Numbers DEF Abandon, fixed
  <2>2. Placed'
    BY <2>1 DEF Placed, len
  <2>3. Counted'
    BY <2>1 DEF Counted, Blocks, Block, len
  <2> QED
    BY <2>1, <2>2, <2>3 DEF Seen
<1>5. CASE UNCHANGED vars
  BY <1>5 DEF vars, Placed, Counted, Seen, Blocks, Block, len
<1>6. Others \/ Overwrite \/ Restore \/ WalkBytes \/ EndStage \/ Abandon \/ UNCHANGED vars
  BY DEF Next
<1> QED
  BY <1>1, <1>2, <1>3, <1>4, <1>5, <1>6

\* Each step keeps what is known of the buffer.
LEMMA NextClobbers == Placed /\ Clobbered /\ [Next]_vars => Clobbered'
<1> SUFFICES ASSUME Placed, Clobbered, [Next]_vars PROVE Clobbered'
  OBVIOUS
<1>1. CASE WalkBits \/ WalkBytes \/ Arithmetic \/ Interesting \/ Insert
  <2>1. /\ UNCHANGED <<fixed, out_buf, token, last_len, stage>> /\ stage < 16
        /\ Names[stage] \notin {"ext_UO", "ext_AO"}
    <3> USE Numbers DEF Work, Working, At
    <3>1. CASE WalkBits    BY <3>1 DEF WalkBits, FlipBits
    <3>2. CASE WalkBytes   BY <3>2 DEF WalkBytes, FlipBytes
    <3>3. CASE Arithmetic  BY <3>3 DEF Arithmetic, Ariths
    <3>4. CASE Interesting BY <3>4 DEF Interesting, Ints
    <3>5. CASE Insert      BY <3>5 DEF Insert
    <3> QED BY <1>1, <3>1, <3>2, <3>3, <3>4, <3>5
  <2>2. stage < 17 /\ token = 1
    BY <2>1 DEF Clobbered, Placed
  <2> QED BY <2>1, <2>2, QuietClobbers
<1>2. CASE Overwrite
  BY <1>2, OverwriteClobbers
<1>3. CASE Restore
  BY <1>3, RestoreClobbers
<1>4. CASE EndStage
  <2>1. /\ UNCHANGED <<fixed, out_buf, token, last_len>> /\ stage < 16
        /\ pos = Offsets(Names[stage])
    BY <1>4, Numbers DEF EndStage
  <2>2. Offsets("ext_UO") \in {0, len} /\ Offsets("ext_AO") \in {0, len} /\ len \in Nat
    BY StagesAssumption, LenProperties DEF Offsets, FlipBits, FlipBytes, Ariths, Ints, Placed, len
  <2>3. ~(Working /\ Names[stage] \in {"ext_UO", "ext_AO"})
    BY <2>1, <2>2 DEF Working, Placed
  <2>4. stage < 17 /\ token = 1
    BY <2>1, <2>3 DEF Clobbered, Placed
  <2> QED BY <2>1, <2>4, QuietClobbers
<1>5. CASE Abandon
  <2>1. UNCHANGED <<fixed, out_buf, token, last_len>> /\ stage' = 17
    BY <1>5, Numbers DEF Abandon
  <2> QED BY <2>1, QuietClobbers
<1>6. CASE UNCHANGED vars
  BY <1>6 DEF vars, Clobbered, Working, Offsets, len, Tokens, At
<1> QED
  BY <1>1, <1>2, <1>3, <1>4, <1>5, <1>6 DEF Next

\* The invariant holds throughout.
LEMMA IInvHolds == Spec => []IInv
<1>1. IInv /\ [Next]_vars => IInv'
  BY NextMap, NextClobbers DEF IInv, MapInv
<1> QED
  BY <1>1, InitIInv, PTL DEF Spec

\* Bytes seen to have an effect are never treated as idle after flip8, and the counter
\* of marked blocks is exact until the map is filled up (5323-5356).
THEOREM EffectorsAlwaysCover == Spec => []EffectorsCover
<1>1. IInv => EffectorsCover
  BY Numbers DEF IInv, MapInv, Placed, Counted, Seen, EffectorsCover, At, Names
<1> QED
  BY <1>1, IInvHolds, PTL

\* Every offset starts from the input as it was, for any tokens and inputs: the tokens are sorted,
\* so the last one covers all that were written before it (5893-5929, 6002-6029).
THEOREM BufIsRestored == Spec => []BufRestored
<1>1. IInv => BufRestored
  <2> SUFFICES ASSUME IInv, token = 1, ~At("abandoned") PROVE out_buf = in_buf
    BY DEF BufRestored
  <2>1. stage < 17
    BY Numbers DEF IInv, MapInv, Placed, At
  <2> QED BY <2>1, BufUntouched DEF IInv, MapInv
<1> QED
  BY <1>1, IInvHolds, PTL

---------------------------------------------------------------------------
(* Bits of bytes. *)

\* A byte after FLIP_BIT turned its bit n, counted from the lowest.
Toggled(v, n) == IF (v \div Weight[n + 1]) % 2 = 1 THEN v - Weight[n + 1] ELSE v + Weight[n + 1]

\* The eight bits of a byte.
LEMMA BitIs ==
  ASSUME NEW v \in Byte
  PROVE  /\ Bit(v, 0) = v % 2 /\ Bit(v, 1) = (v \div 2) % 2
         /\ Bit(v, 2) = (v \div 4) % 2 /\ Bit(v, 3) = (v \div 8) % 2
         /\ Bit(v, 4) = (v \div 16) % 2 /\ Bit(v, 5) = (v \div 32) % 2
         /\ Bit(v, 6) = (v \div 64) % 2 /\ Bit(v, 7) = (v \div 128) % 2
         /\ \A n \in 0 .. 7 : Bit(v, n) \in {0, 1}
<1>1. /\ Bit(v, 0) = v % 2 /\ Bit(v, 1) = (v \div 2) % 2
      /\ Bit(v, 2) = (v \div 4) % 2 /\ Bit(v, 3) = (v \div 8) % 2
      /\ Bit(v, 4) = (v \div 16) % 2 /\ Bit(v, 5) = (v \div 32) % 2
      /\ Bit(v, 6) = (v \div 64) % 2 /\ Bit(v, 7) = (v \div 128) % 2
  BY DEF Bit, Weight, Byte
<1>2. /\ v % 2 \in {0, 1} /\ (v \div 2) % 2 \in {0, 1}
      /\ (v \div 4) % 2 \in {0, 1} /\ (v \div 8) % 2 \in {0, 1}
      /\ (v \div 16) % 2 \in {0, 1} /\ (v \div 32) % 2 \in {0, 1}
      /\ (v \div 64) % 2 \in {0, 1} /\ (v \div 128) % 2 \in {0, 1}
  BY DEF Byte
<1>3. \A n \in 0 .. 7 : n = 0 \/ n = 1 \/ n = 2 \/ n = 3 \/ n = 4 \/ n = 5 \/ n = 6 \/ n = 7
  OBVIOUS
<1> QED
  BY <1>1, <1>2, <1>3

\* A byte is the sum of its bits, so bytes with the same bits are the same.
LEMMA SameBits ==
  ASSUME NEW u \in Byte, NEW v \in Byte, \A n \in 0 .. 7 : Bit(u, n) = Bit(v, n)
  PROVE  u = v
<1> DEFINE Sum(x) == (x % 2) + 2 * ((x \div 2) % 2) + 4 * ((x \div 4) % 2) + 8 * ((x \div 8) % 2)
                     + 16 * ((x \div 16) % 2) + 32 * ((x \div 32) % 2)
                     + 64 * ((x \div 64) % 2) + 128 * ((x \div 128) % 2)
<1>1. ASSUME NEW x \in Byte PROVE x = Sum(x)
  <2> USE DEF Byte
  <2>1. x = (x % 2) + 2 * (x \div 2)
    OBVIOUS
  <2>2. x \div 2 = ((x \div 2) % 2) + 2 * (x \div 4)
    OBVIOUS
  <2>3. x \div 4 = ((x \div 4) % 2) + 2 * (x \div 8)
    OBVIOUS
  <2>4. x \div 8 = ((x \div 8) % 2) + 2 * (x \div 16)
    OBVIOUS
  <2>5. x \div 16 = ((x \div 16) % 2) + 2 * (x \div 32)
    OBVIOUS
  <2>6. x \div 32 = ((x \div 32) % 2) + 2 * (x \div 64)
    OBVIOUS
  <2>7. x \div 64 = ((x \div 64) % 2) + 2 * (x \div 128)
    OBVIOUS
  <2>8. x \div 128 = (x \div 128) % 2
    OBVIOUS
  <2> QED BY <2>1, <2>2, <2>3, <2>4, <2>5, <2>6, <2>7, <2>8
<1>2. /\ Bit(u, 0) = Bit(v, 0) /\ Bit(u, 1) = Bit(v, 1) /\ Bit(u, 2) = Bit(v, 2)
      /\ Bit(u, 3) = Bit(v, 3) /\ Bit(u, 4) = Bit(v, 4) /\ Bit(u, 5) = Bit(v, 5)
      /\ Bit(u, 6) = Bit(v, 6) /\ Bit(u, 7) = Bit(v, 7)
  OBVIOUS
<1> DEFINE OfBits(x) == Bit(x, 0) + 2 * Bit(x, 1) + 4 * Bit(x, 2) + 8 * Bit(x, 3)
                        + 16 * Bit(x, 4) + 32 * Bit(x, 5) + 64 * Bit(x, 6) + 128 * Bit(x, 7)
<1>3. Sum(u) = OfBits(u) /\ Sum(v) = OfBits(v)
  BY BitIs
<1>4. OfBits(u) = OfBits(v)
  BY <1>2
<1> HIDE DEF Sum, OfBits
<1> QED
  BY <1>1, <1>3, <1>4

\* Turning a bit changes that bit alone.
LEMMA ToggleIs ==
  ASSUME NEW v \in Byte, NEW n \in 0 .. 7
  PROVE  /\ Toggled(v, n) \in Byte
         /\ \A j \in 0 .. 7 : Bit(Toggled(v, n), j) = IF j = n THEN 1 - Bit(v, j) ELSE Bit(v, j)
<1>1. \A j \in 0 .. 7 :
        j = 0 \/ j = 1 \/ j = 2 \/ j = 3 \/ j = 4 \/ j = 5 \/ j = 6 \/ j = 7
  OBVIOUS
<1> DEFINE Turned(m) == IF (v \div m) % 2 = 1 THEN v - m ELSE v + m
<1> USE DEF Byte
<1>2. ASSUME NEW m \in {1, 2, 4, 8, 16, 32, 64, 128}
      PROVE  /\ Turned(m) \in Byte
             /\ Turned(m) % 2 = (IF m = 1 THEN 1 - (v % 2) ELSE v % 2)
             /\ (Turned(m) \div 2) % 2 = (IF m = 2 THEN 1 - ((v \div 2) % 2) ELSE (v \div 2) % 2)
             /\ (Turned(m) \div 4) % 2 = (IF m = 4 THEN 1 - ((v \div 4) % 2) ELSE (v \div 4) % 2)
             /\ (Turned(m) \div 8) % 2 = (IF m = 8 THEN 1 - ((v \div 8) % 2) ELSE (v \div 8) % 2)
             /\ (Turned(m) \div 16) % 2
                  = (IF m = 16 THEN 1 - ((v \div 16) % 2) ELSE (v \div 16) % 2)
             /\ (Turned(m) \div 32) % 2
                  = (IF m = 32 THEN 1 - ((v \div 32) % 2) ELSE (v \div 32) % 2)
             /\ (Turned(m) \div 64) % 2
                  = (IF m = 64 THEN 1 - ((v \div 64) % 2) ELSE (v \div 64) % 2)
             /\ (Turned(m) \div 128) % 2
                  = (IF m = 128 THEN 1 - ((v \div 128) % 2) ELSE (v \div 128) % 2)
  <2>1. CASE m = 1   BY <2>1, SMTT(60)
  <2>2. CASE m = 2   BY <2>2, SMTT(60)
  <2>3. CASE m = 4   BY <2>3, SMTT(60)
  <2>4. CASE m = 8   BY <2>4, SMTT(60)
  <2>5. CASE m = 16  BY <2>5, SMTT(60)
  <2>6. CASE m = 32  BY <2>6, SMTT(60)
  <2>7. CASE m = 64  BY <2>7, SMTT(60)
  <2>8. CASE m = 128 BY <2>8, SMTT(60)
  <2> QED BY <1>2, <2>1, <2>2, <2>3, <2>4, <2>5, <2>6, <2>7, <2>8
<1> DEFINE t == Toggled(v, n)
<1>3. t = Turned(Weight[n + 1])
  BY DEF Toggled
<1>4. /\ Weight[n + 1] \in {1, 2, 4, 8, 16, 32, 64, 128}
      /\ Weight[n + 1] = 1 <=> n = 0
      /\ Weight[n + 1] = 2 <=> n = 1
      /\ Weight[n + 1] = 4 <=> n = 2
      /\ Weight[n + 1] = 8 <=> n = 3
      /\ Weight[n + 1] = 16 <=> n = 4
      /\ Weight[n + 1] = 32 <=> n = 5
      /\ Weight[n + 1] = 64 <=> n = 6
      /\ Weight[n + 1] = 128 <=> n = 7
  BY <1>1 DEF Weight
<1> HIDE DEF Turned, t
<1>5. t \in Byte
  BY <1>2, <1>3, <1>4
<1>6. /\ Bit(t, 0) = IF n = 0 THEN 1 - Bit(v, 0) ELSE Bit(v, 0)
      /\ Bit(t, 1) = IF n = 1 THEN 1 - Bit(v, 1) ELSE Bit(v, 1)
      /\ Bit(t, 2) = IF n = 2 THEN 1 - Bit(v, 2) ELSE Bit(v, 2)
      /\ Bit(t, 3) = IF n = 3 THEN 1 - Bit(v, 3) ELSE Bit(v, 3)
      /\ Bit(t, 4) = IF n = 4 THEN 1 - Bit(v, 4) ELSE Bit(v, 4)
      /\ Bit(t, 5) = IF n = 5 THEN 1 - Bit(v, 5) ELSE Bit(v, 5)
      /\ Bit(t, 6) = IF n = 6 THEN 1 - Bit(v, 6) ELSE Bit(v, 6)
      /\ Bit(t, 7) = IF n = 7 THEN 1 - Bit(v, 7) ELSE Bit(v, 7)
  <2> HIDE DEF Byte
  <2> QED BY <1>2, <1>3, <1>4, <1>5, BitIs
<1> HIDE DEF Byte
<1> QED
  BY <1>1, <1>5, <1>6 DEF t

\* Turning a whole byte changes every bit.
LEMMA ComplementIs ==
  ASSUME NEW v \in Byte
  PROVE  \A n \in 0 .. 7 : Bit(255 - v, n) = 1 - Bit(v, n)
<1>1. 255 - v \in Byte
  BY DEF Byte
<1> USE DEF Byte
<1>2. (255 - v) % 2 = 1 - (v % 2)
  OBVIOUS
<1>3. ((255 - v) \div 2) % 2 = 1 - ((v \div 2) % 2)
  OBVIOUS
<1>4. ((255 - v) \div 4) % 2 = 1 - ((v \div 4) % 2)
  OBVIOUS
<1>5. ((255 - v) \div 8) % 2 = 1 - ((v \div 8) % 2)
  OBVIOUS
<1>6. ((255 - v) \div 16) % 2 = 1 - ((v \div 16) % 2)
  OBVIOUS
<1>7. ((255 - v) \div 32) % 2 = 1 - ((v \div 32) % 2)
  OBVIOUS
<1>8. ((255 - v) \div 64) % 2 = 1 - ((v \div 64) % 2)
  OBVIOUS
<1>9. ((255 - v) \div 128) % 2 = 1 - ((v \div 128) % 2)
  OBVIOUS
<1>10. \A n \in 0 .. 7 : n = 0 \/ n = 1 \/ n = 2 \/ n = 3 \/ n = 4 \/ n = 5 \/ n = 6 \/ n = 7
  OBVIOUS
<1> HIDE DEF Byte
<1> QED
  BY <1>1, <1>2, <1>3, <1>4, <1>5, <1>6, <1>7, <1>8, <1>9, <1>10, BitIs

---------------------------------------------------------------------------
(* Walking bits. *)

\* `new` is `old` but for the bits T of byte i.
BitsTurned(n, old, new, i, T) ==
  /\ new \in [1 .. n -> Byte]
  /\ \A k \in 1 .. n : k # i + 1 => new[k] = old[k]
  /\ \A j \in 0 .. 7 :
       Bit(new[i + 1], j) = IF j \in T THEN 1 - Bit(old[i + 1], j) ELSE Bit(old[i + 1], j)

\* Only one buffer differs from another in given bits of a byte.
LEMMA BitsDetermine ==
  ASSUME NEW n \in Nat, NEW old, NEW i \in 0 .. n - 1, NEW T, NEW a, NEW b,
         BitsTurned(n, old, a, i, T), BitsTurned(n, old, b, i, T)
  PROVE  a = b
<1>1. a[i + 1] \in Byte /\ b[i + 1] \in Byte
  BY DEF BitsTurned
<1>2. \A j \in 0 .. 7 : Bit(a[i + 1], j) = Bit(b[i + 1], j)
  BY DEF BitsTurned
<1>3. a[i + 1] = b[i + 1]
  BY <1>1, <1>2, SameBits
<1> QED
  BY <1>3 DEF BitsTurned

\* FLIP_BIT turns one more bit; bit 0 is the highest of its byte.
LEMMA FlipIs ==
  ASSUME NEW n \in Nat, NEW old \in [1 .. n -> Byte], NEW new, NEW i \in 0 .. n - 1,
         NEW T \in SUBSET (0 .. 7), NEW m \in (0 .. 7) \ T, BitsTurned(n, old, new, i, T),
         NEW b, b = 8 * i + (7 - m)
  PROVE  BitsTurned(n, old, FlipBit(new, b), i, T \cup {m})
<1>1. b \div 8 = i /\ 8 - (b % 8) = m + 1
  OBVIOUS
<1>2. FlipBit(new, b) = [new EXCEPT ![i + 1] = Toggled(new[i + 1], m)]
  BY <1>1 DEF FlipBit, Toggled
<1>3. new[i + 1] \in Byte /\ new \in [1 .. n -> Byte] /\ i + 1 \in 1 .. n
  BY DEF BitsTurned
<1> DEFINE t == Toggled(new[i + 1], m)
<1>4. t \in Byte /\ \A j \in 0 .. 7 :
        Bit(t, j) = IF j = m THEN 1 - Bit(new[i + 1], j) ELSE Bit(new[i + 1], j)
  BY <1>3, ToggleIs
<1> HIDE DEF t
<1>5. /\ FlipBit(new, b) \in [1 .. n -> Byte] /\ FlipBit(new, b)[i + 1] = t
      /\ \A k \in 1 .. n : k # i + 1 => FlipBit(new, b)[k] = new[k]
  BY <1>2, <1>3, <1>4 DEF t
<1>6. \A j \in 0 .. 7 :
        Bit(t, j) = IF j \in T \cup {m} THEN 1 - Bit(old[i + 1], j) ELSE Bit(old[i + 1], j)
  BY <1>4 DEF BitsTurned
<1> QED
  BY <1>5, <1>6 DEF BitsTurned

\* The walking bits turn a run of bits, if it lies within a byte.
LEMMA FlippedIs ==
  ASSUME NEW n \in Nat, NEW old \in [1 .. n -> Byte], NEW i \in 0 .. n - 1, NEW w \in {1, 2, 4},
         NEW m \in 0 .. 8 - w
  PROVE  BitsTurned(n, old, Flipped(old, 8 * i + ((8 - w) - m), w), i, m .. m + w - 1)
<1> DEFINE b == 8 * i + ((8 - w) - m)
<1>1. BitsTurned(n, old, old, i, {}) /\ {} \in SUBSET (0 .. 7)
  BY DEF BitsTurned
<1>2. /\ b = 8 * i + (7 - (m + w - 1))
      /\ w > 1 => b + 1 = 8 * i + (7 - (m + w - 2))
      /\ w > 2 => b + 2 = 8 * i + (7 - (m + 1)) /\ (b + 2) + 1 = 8 * i + (7 - m)
  OBVIOUS
<1> DEFINE f1 == FlipBit(old, b)
           f2 == FlipBit(f1, b + 1)
           f3 == FlipBit(f2, b + 2)
           f4 == FlipBit(f3, (b + 2) + 1)
<1>3. /\ Flipped(old, b, 1) = f1
      /\ Flipped(old, b, 2) = f2
      /\ Flipped(old, b, 4) = f4
  BY DEF Flipped
<1> HIDE DEF b, f1, f2, f3, f4
<1>4. BitsTurned(n, old, f1, i, {} \cup {m + w - 1})
  <2>1. m + w - 1 \in (0 .. 7) \ {}
    OBVIOUS
  <2>2. BitsTurned(n, old, FlipBit(old, b), i, {} \cup {m + w - 1})
    BY <1>1, <1>2, <2>1, FlipIs
  <2> QED BY <2>2 DEF f1
<1>5. CASE w = 1
  <2>1. {} \cup {m + w - 1} = m .. m + w - 1
    BY <1>5
  <2> QED BY <1>3, <1>4, <1>5, <2>1 DEF b
<1>6. ASSUME w > 1 PROVE BitsTurned(n, old, f2, i, {m + w - 1} \cup {m + w - 2})
  <2>1. {m + w - 1} \in SUBSET (0 .. 7) /\ m + w - 2 \in (0 .. 7) \ {m + w - 1}
    BY <1>6
  <2>2. BitsTurned(n, old, f1, i, {m + w - 1}) /\ b + 1 = 8 * i + (7 - (m + w - 2))
    BY <1>2, <1>4, <1>6
  <2>3. BitsTurned(n, old, FlipBit(f1, b + 1), i, {m + w - 1} \cup {m + w - 2})
    BY <2>1, <2>2, FlipIs
  <2> QED BY <2>3 DEF f2
<1>7. CASE w = 2
  <2>1. {m + w - 1} \cup {m + w - 2} = m .. m + w - 1
    BY <1>7
  <2>2. Flipped(old, b, w) = f2
    BY <1>3, <1>7
  <2>3. BitsTurned(n, old, f2, i, {m + w - 1} \cup {m + w - 2})
    BY <1>6, <1>7
  <2>4. BitsTurned(n, old, f2, i, m .. m + w - 1)
    BY <2>1, <2>3, Zenon
  <2> QED BY <2>2, <2>4 DEF b
<1>8. CASE w = 4
  <2> DEFINE T == {m + 3} \cup {m + 2}
  <2>1. T \in SUBSET (0 .. 7) /\ m + 1 \in (0 .. 7) \ T
    BY <1>8
  <2>2. {m + w - 1} \cup {m + w - 2} = T /\ b + 2 = 8 * i + (7 - (m + 1))
    BY <1>2, <1>8
  <2>3. BitsTurned(n, old, f2, i, T)
    BY <1>6, <1>8, <2>2
  <2> HIDE DEF T
  <2>4. BitsTurned(n, old, FlipBit(f2, b + 2), i, T \cup {m + 1})
    BY <2>1, <2>2, <2>3, FlipIs
  <2>5. BitsTurned(n, old, f3, i, T \cup {m + 1})
    BY <2>4 DEF f3
  <2>6. /\ T \cup {m + 1} \in SUBSET (0 .. 7) /\ m \in (0 .. 7) \ (T \cup {m + 1})
        /\ (T \cup {m + 1}) \cup {m} = m .. m + w - 1
    BY <1>8 DEF T
  <2>7. BitsTurned(n, old, FlipBit(f3, (b + 2) + 1), i, (T \cup {m + 1}) \cup {m})
    <3>1. (b + 2) + 1 = 8 * i + (7 - m)
      BY <1>2, <1>8
    <3> QED BY <2>5, <2>6, <3>1, FlipIs
  <2>8. Flipped(old, b, w) = f4
    BY <1>3, <1>8
  <2> QED BY <2>6, <2>7, <2>8 DEF f4, b
<1> QED
  BY <1>5, <1>7, <1>8

---------------------------------------------------------------------------
(* Runs of bits. *)

\* A bounded set of natural numbers has a greatest member, and Max() finds it.
LEMMA MaxOf ==
  ASSUME NEW N \in Nat, NEW T \in SUBSET (0 .. N), T # {}
  PROVE  Max(T) \in T /\ \A y \in T : y <= Max(T)
<1> DEFINE U == {N - x : x \in T}
<1>1. U \in SUBSET Nat /\ U # {}
  <2>1. \A x \in T : N - x \in Nat
    OBVIOUS
  <2>2. PICK x : x \in T
    OBVIOUS
  <2>3. N - x \in U
    BY <2>2
  <2> QED BY <2>1, <2>3
<1>2. Min(U) \in U /\ \A y \in U : Min(U) <= y
  BY <1>1, MinOf
<1>3. PICK x \in T : Min(U) = N - x
  BY <1>2
<1>4. ASSUME NEW y \in T PROVE x >= y
  <2>1. N - x <= N - y
    BY <1>2, <1>3
  <2> QED BY <2>1
<1>5. \A y \in T : Max(T) >= y /\ Max(T) \in T
  BY <1>4 DEF Max
<1> QED
  BY <1>5

\* The ends of an interval, and its size.
LEMMA IntervalIs ==
  ASSUME NEW a \in Nat, NEW b \in Nat, a <= b
  PROVE  Min(a .. b) = a /\ Max(a .. b) = b /\ Cardinality(a .. b) = b - a + 1
<1>1. a .. b \in SUBSET (0 .. b) /\ a .. b # {} /\ a .. b \in SUBSET Nat
  OBVIOUS
<1>2. Max(a .. b) \in a .. b /\ \A y \in a .. b : y <= Max(a .. b)
  BY <1>1, MaxOf
<1>3. Min(a .. b) \in a .. b /\ \A y \in a .. b : Min(a .. b) <= y
  BY <1>1, MinOf
<1>4. a \in a .. b /\ b \in a .. b
  OBVIOUS
<1>5. Max(a .. b) = b
  BY <1>2, <1>4
<1>6. Min(a .. b) = a
  BY <1>3, <1>4
<1>7. Cardinality(a .. b) = b - a + 1
  BY FS_Interval
<1> QED
  BY <1>5, <1>6, <1>7

\* As many numbers as lie between the ends leave no gap.
LEMMA RunOf ==
  ASSUME NEW N \in Nat, NEW T \in SUBSET (0 .. N), T # {}, Max(T) - Min(T) + 1 = Cardinality(T)
  PROVE  /\ Min(T) \in 0 .. N /\ Max(T) \in 0 .. N /\ Min(T) <= Max(T)
         /\ T = Min(T) .. Max(T)
<1>1. Max(T) \in T /\ \A y \in T : y <= Max(T)
  BY MaxOf
<1>2. Min(T) \in T /\ \A y \in T : Min(T) <= y
  BY MinOf
<1> DEFINE I == Min(T) .. Max(T)
<1>3. T \in SUBSET I /\ Min(T) \in Int /\ Max(T) \in Int /\ Min(T) <= Max(T)
  <2>1. ASSUME NEW lo \in T, NEW hi \in T, \A y \in T : lo <= y /\ y <= hi
        PROVE  T \in SUBSET (lo .. hi) /\ lo \in Int /\ hi \in Int /\ lo <= hi
    <3>1. \A y \in T : y \in lo .. hi
      BY <2>1
    <3> QED BY <2>1, <3>1
  <2> QED BY <1>1, <1>2, <2>1
<1>4. IsFiniteSet(I) /\ Cardinality(I) = Max(T) - Min(T) + 1
  BY <1>3, FS_Interval
<1> HIDE DEF I
<1>5. I = T
  BY <1>3, <1>4, FS_Subset
<1> QED
  BY <1>1, <1>2, <1>3, <1>5 DEF I

\* What Put() makes of a buffer, with a word that fits.
LEMMA PutWord ==
  ASSUME NEW n \in Nat, NEW buf \in [1 .. n -> Byte], NEW i \in Nat, NEW w \in Nat,
         NEW v \in [1 .. w -> Byte]
  PROVE  /\ Put(buf, i, v) \in [1 .. n -> Byte]
         /\ \A k \in 1 .. n : k \notin i + 1 .. i + w => Put(buf, i, v)[k] = buf[k]
         /\ \A k \in 1 .. n : k \in i + 1 .. i + w => Put(buf, i, v)[k] = v[k - i]
<1>1. \A k \in 1 .. n : k - i \in DOMAIN v <=> k \in i + 1 .. i + w
  OBVIOUS
<1>2. \A k \in 1 .. n : Put(buf, i, v)[k] = IF k - i \in DOMAIN v THEN v[k - i] ELSE buf[k]
  BY DEF Put
<1>3. Put(buf, i, v) \in [1 .. n -> Byte]
  BY DEF Put
<1> QED
  BY <1>1, <1>2, <1>3

\* A buffer of n bytes after a word of w bytes was put into it.
Written(res, n, buf, i, w, v) ==
  /\ res \in [1 .. n -> Byte]
  /\ \A k \in 1 .. n : k \notin i + 1 .. i + w => res[k] = buf[k]
  /\ \A k \in 1 .. n : k \in i + 1 .. i + w => res[k] = v[k - i]

\* The same of Put().
LEMMA PutWritten ==
  ASSUME NEW n \in Nat, NEW buf \in [1 .. n -> Byte], NEW i \in Nat, NEW w \in Nat,
         NEW v \in [1 .. w -> Byte]
  PROVE  Written(Put(buf, i, v), n, buf, i, w, v)
  BY PutWord DEF Written

\* Xor() by the numbers of the bits: that of a bit tells its byte and its place in it.
XorByBit(n, a, b) ==
  \A x : x \in Xor(a, b) <=> /\ x \in 0 .. 8 * n - 1
                             /\ Bit(a[(x \div 8) + 1], x % 8) # Bit(b[(x \div 8) + 1], x % 8)

\* What Xor() contains.
LEMMA XorIs ==
  ASSUME NEW n \in Nat, NEW a \in [1 .. n -> Byte], NEW b \in [1 .. n -> Byte]
  PROVE  XorByBit(n, a, b)
<1> SUFFICES ASSUME NEW x
             PROVE  x \in Xor(a, b) <=>
                      /\ x \in 0 .. 8 * n - 1
                      /\ Bit(a[(x \div 8) + 1], x % 8) # Bit(b[(x \div 8) + 1], x % 8)
  BY DEF XorByBit
<1>1. ASSUME x \in Xor(a, b)
      PROVE  /\ x \in 0 .. 8 * n - 1
             /\ Bit(a[(x \div 8) + 1], x % 8) # Bit(b[(x \div 8) + 1], x % 8)
  <2>1. PICK j \in 1 .. n, m \in 0 .. 7 : Bit(a[j], m) # Bit(b[j], m) /\ x = 8 * (j - 1) + m
    <3>1. PICK y \in (DOMAIN a) \X (0 .. 7) :
            Bit(a[y[1]], y[2]) # Bit(b[y[1]], y[2]) /\ x = 8 * (y[1] - 1) + y[2]
      BY <1>1 DEF Xor
    <3>2. y[1] \in 1 .. n /\ y[2] \in 0 .. 7
      OBVIOUS
    <3> QED BY <3>1, <3>2
  <2>2. (x \div 8) + 1 = j /\ x % 8 = m /\ x \in 0 .. 8 * n - 1
    BY <2>1
  <2> QED BY <2>1, <2>2
<1>2. ASSUME x \in 0 .. 8 * n - 1,
             Bit(a[(x \div 8) + 1], x % 8) # Bit(b[(x \div 8) + 1], x % 8)
      PROVE  x \in Xor(a, b)
  <2>1. PICK j \in 1 .. n, m \in 0 .. 7 :
          j = (x \div 8) + 1 /\ m = x % 8 /\ x = 8 * (j - 1) + m
    <3>1. (x \div 8) + 1 \in 1 .. n /\ x % 8 \in 0 .. 7 /\ x = 8 * (((x \div 8) + 1) - 1) + (x % 8)
      BY <1>2
    <3> QED BY <3>1
  <2> DEFINE y == <<j, m>>
  <2>2. y \in (DOMAIN a) \X (0 .. 7) /\ y[1] = j /\ y[2] = m
    OBVIOUS
  <2>3. Bit(a[y[1]], y[2]) # Bit(b[y[1]], y[2]) /\ x = 8 * (y[1] - 1) + y[2]
    BY <1>2, <2>1, <2>2
  <2> HIDE DEF y
  <2> QED BY <2>2, <2>3 DEF Xor
<1> QED
  BY <1>1, <1>2

\* The bits in which a buffer differs after a word was put into it.
LEMMA XorShift ==
  ASSUME NEW n \in Nat, NEW buf \in [1 .. n -> Byte], NEW i \in Nat, NEW w \in Nat, i + w <= n,
         NEW old \in [1 .. w -> Byte], \A k \in 1 .. w : old[k] = buf[i + k],
         NEW new \in [1 .. w -> Byte], NEW y \in Int
  PROVE  y \in Xor(buf, Put(buf, i, new)) <=> y - 8 * i \in Xor(old, new)
<1> DEFINE res == Put(buf, i, new)
<1>1. /\ res \in [1 .. n -> Byte]
      /\ \A k \in 1 .. n : k \notin i + 1 .. i + w => res[k] = buf[k]
      /\ \A k \in 1 .. n : k \in i + 1 .. i + w => res[k] = new[k - i]
  BY PutWord
<1> HIDE DEF res
<1> DEFINE z == y - 8 * i
<1>2. PICK k \in Int, m \in 0 .. 7 : k = (y \div 8) + 1 /\ m = y % 8 /\ y = 8 * (k - 1) + m
  OBVIOUS
<1>3. z % 8 = m /\ (z \div 8) + 1 = k - i /\ z \in Int
  BY <1>2
<1>4. y \in Xor(buf, res) <=> y \in 0 .. 8 * n - 1 /\ Bit(buf[k], m) # Bit(res[k], m)
  <2>1. XorByBit(n, buf, res)
    BY <1>1, XorIs
  <2> QED BY <1>2, <2>1 DEF XorByBit
<1>5. z \in Xor(old, new) <=> z \in 0 .. 8 * w - 1 /\ Bit(old[k - i], m) # Bit(new[k - i], m)
  <2>1. XorByBit(w, old, new)
    BY XorIs
  <2> HIDE DEF z
  <2> QED BY <1>3, <2>1 DEF XorByBit
<1>6. CASE z \in 0 .. 8 * w - 1
  <2>1. k \in i + 1 .. i + w /\ k \in 1 .. n /\ y \in 0 .. 8 * n - 1 /\ k - i \in 1 .. w
        /\ i + (k - i) = k
    BY <1>2, <1>6
  <2>2. res[k] = new[k - i] /\ buf[k] = old[k - i]
    BY <1>1, <2>1
  <2> HIDE DEF z
  <2>3. y \in Xor(buf, res) <=> z \in Xor(old, new)
    BY <1>4, <1>5, <1>6, <2>1, <2>2
  <2> QED BY <2>3 DEF res, z
<1>7. CASE z \notin 0 .. 8 * w - 1
  <2>1. ASSUME y \in 0 .. 8 * n - 1 PROVE res[k] = buf[k]
    <3>1. k \in 1 .. n /\ k \notin i + 1 .. i + w
      BY <1>2, <1>7, <2>1
    <3> QED BY <1>1, <3>1
  <2> HIDE DEF z
  <2>2. y \in Xor(buf, res) <=> z \in Xor(old, new)
    BY <1>4, <1>5, <1>7, <2>1
  <2> QED BY <2>2 DEF res, z
<1> QED
  BY <1>6, <1>7

---------------------------------------------------------------------------
(* Words and buffers. *)

\* A copy of w bytes of a buffer.
Copied(v, buf, i, w) ==
  v \in [1 .. w -> Byte] /\ Len(v) = w /\ \A k \in 1 .. w : v[k] = buf[i + k]

\* A word is what lies at its offset.
LEMMA WordIs ==
  ASSUME NEW n \in Nat, NEW buf \in [1 .. n -> Byte], NEW i \in Nat, NEW w \in Nat, i + w <= n
  PROVE  Copied(Word(buf, i, w), buf, i, w)
<1>1. i + 1 \in Int /\ i + w \in Int /\ \A k \in i + 1 .. i + w : buf[k] \in Byte
  OBVIOUS
<1> DEFINE word == SubSeq(buf, i + 1, i + w)
<1>2. /\ word \in Seq(Byte)
      /\ Len(word) = IF i + 1 <= i + w THEN (i + w) - (i + 1) + 1 ELSE 0
      /\ \A k \in 1 .. (i + w) - (i + 1) + 1 : word[k] = buf[(i + 1) + k - 1]
  BY <1>1, SubSeqProperties
<1> HIDE DEF word
<1>3. Len(word) = w
  BY <1>2
<1>4. ASSUME NEW k \in 1 .. w PROVE word[k] = buf[i + k]
  <2>1. k \in 1 .. (i + w) - (i + 1) + 1 /\ (i + 1) + k - 1 = i + k
    OBVIOUS
  <2> QED BY <1>2, <2>1
<1>5. word \in [1 .. w -> Byte]
  BY <1>2, <1>3, LenProperties
<1> QED
  BY <1>3, <1>4, <1>5 DEF word, Word, Copied

\* SWAP16 and SWAP32 undo themselves.
LEMMA SwapIs ==
  ASSUME NEW w \in Nat, NEW v \in [1 .. w -> Byte]
  PROVE  /\ Swap(v) \in [1 .. w -> Byte] /\ Len(v) = w
         /\ \A k \in 1 .. w : Swap(v)[k] = v[(w - k) + 1]
         /\ Swap(Swap(v)) = v
<1>1. Len(v) = w
  OBVIOUS
<1>2. ASSUME NEW u \in [1 .. w -> Byte]
      PROVE  Swap(u) \in [1 .. w -> Byte] /\ \A k \in 1 .. w : Swap(u)[k] = u[(w - k) + 1]
  <2>1. Len(u) = w
    OBVIOUS
  <2>2. Swap(u) = [k \in 1 .. w |-> u[(w - k) + 1]]
    BY <2>1 DEF Swap, Reverse
  <2>3. \A k \in 1 .. w : (w - k) + 1 \in 1 .. w
    OBVIOUS
  <2> QED BY <2>2, <2>3
<1>3. \A k \in 1 .. w : Swap(Swap(v))[k] = v[k]
  <2> TAKE k \in 1 .. w
  <2>1. (w - k) + 1 \in 1 .. w /\ (w - ((w - k) + 1)) + 1 = k
    OBVIOUS
  <2>2. Swap(v) \in [1 .. w -> Byte] /\ \A l \in 1 .. w : Swap(v)[l] = v[(w - l) + 1]
    BY <1>2
  <2>3. Swap(Swap(v))[k] = Swap(v)[(w - k) + 1]
    BY <1>2, <2>2
  <2> QED BY <2>1, <2>2, <2>3
<1> QED
  BY <1>1, <1>2, <1>3

\* A word from its other end.
Reversed(r, w, v) == r \in [1 .. w -> Byte] /\ \A k \in 1 .. w : r[k] = v[(w - k) + 1]

\* The same of Swap().
LEMMA SwapReverses ==
  ASSUME NEW w \in Nat, NEW v \in [1 .. w -> Byte]
  PROVE  Reversed(Swap(v), w, v)
  BY SwapIs DEF Reversed

\* Buffers with the same bytes are the same.
LEMMA SameBuf ==
  ASSUME NEW n \in Nat, NEW a \in [1 .. n -> Byte], NEW b \in [1 .. n -> Byte],
         \A k \in 1 .. n : a[k] = b[k]
  PROVE  a = b
  OBVIOUS

\* Writing a word where it was changes nothing.
LEMMA PutSame ==
  ASSUME NEW n \in Nat, NEW buf \in [1 .. n -> Byte], NEW i \in Nat, NEW w \in Nat, i + w <= n
  PROVE  Put(buf, i, Word(buf, i, w)) = buf
<1> DEFINE v == Word(buf, i, w)
<1>1. v \in [1 .. w -> Byte] /\ \A k \in 1 .. w : v[k] = buf[i + k]
  BY WordIs DEF Copied
<1> HIDE DEF v
<1>2. /\ Put(buf, i, v) \in [1 .. n -> Byte]
      /\ \A k \in 1 .. n : k \notin i + 1 .. i + w => Put(buf, i, v)[k] = buf[k]
      /\ \A k \in 1 .. n : k \in i + 1 .. i + w => Put(buf, i, v)[k] = v[k - i]
  BY <1>1, PutWord
<1>3. \A k \in i + 1 .. i + w : v[k - i] = buf[k]
  BY <1>1
<1>4. \A k \in 1 .. n : Put(buf, i, v)[k] = buf[k]
  BY <1>2, <1>3
<1>5. Put(buf, i, v) = buf
  BY <1>2, <1>4, SameBuf
<1> QED
  BY <1>5 DEF v

\* A word within a word lies at the sum of the offsets.
LEMMA PutPut ==
  ASSUME NEW n \in Nat, NEW buf \in [1 .. n -> Byte], NEW i \in Nat, NEW w \in Nat, i + w <= n,
         NEW j \in Nat, NEW u \in Nat, j + u <= w, NEW v \in [1 .. u -> Byte]
  PROVE  Put(buf, i, Put(Word(buf, i, w), j, v)) = Put(buf, i + j, v)
<1> DEFINE word == Word(buf, i, w)
           new == Put(word, j, v)
           a == Put(buf, i, new)
           b == Put(buf, i + j, v)
<1>1. word \in [1 .. w -> Byte] /\ \A k \in 1 .. w : word[k] = buf[i + k]
  BY WordIs DEF Copied
<1> HIDE DEF word
<1>2. /\ new \in [1 .. w -> Byte]
      /\ \A k \in 1 .. w : k \notin j + 1 .. j + u => new[k] = word[k]
      /\ \A k \in 1 .. w : k \in j + 1 .. j + u => new[k] = v[k - j]
  BY <1>1, PutWord
<1> HIDE DEF new
<1>3. /\ a \in [1 .. n -> Byte]
      /\ \A k \in 1 .. n : k \notin i + 1 .. i + w => a[k] = buf[k]
      /\ \A k \in 1 .. n : k \in i + 1 .. i + w => a[k] = new[k - i]
  <2>1. new \in [1 .. w -> Byte]
    BY <1>2
  <2> QED BY <2>1, PutWord
<1>4. i + j \in Nat
  OBVIOUS
<1>5. /\ b \in [1 .. n -> Byte]
      /\ \A k \in 1 .. n : k \notin (i + j) + 1 .. (i + j) + u => b[k] = buf[k]
      /\ \A k \in 1 .. n : k \in (i + j) + 1 .. (i + j) + u => b[k] = v[k - (i + j)]
  BY <1>4, PutWord
<1> HIDE DEF a, b
<1>6. ASSUME NEW k \in 1 .. n PROVE a[k] = b[k]
  <2>1. CASE k \notin i + 1 .. i + w
    BY <1>3, <1>5, <2>1
  <2>2. CASE k \in i + 1 .. i + w /\ k - i \notin j + 1 .. j + u
    <3>1. k - i \in 1 .. w /\ i + (k - i) = k /\ k \notin (i + j) + 1 .. (i + j) + u
      BY <2>2
    <3> QED BY <1>1, <1>2, <1>3, <1>5, <2>2, <3>1
  <2>3. CASE k \in i + 1 .. i + w /\ k - i \in j + 1 .. j + u
    <3>1. k - i \in 1 .. w /\ (k - i) - j = k - (i + j) /\ k \in (i + j) + 1 .. (i + j) + u
      BY <2>3
    <3> QED BY <1>2, <1>3, <1>5, <2>3, <3>1
  <2> QED BY <2>1, <2>2, <2>3
<1>7. a = b
  BY <1>3, <1>5, <1>6, SameBuf
<1> QED
  BY <1>7 DEF a, b, new, word

\* One word after another.
Joined(v, p, q, m, n) ==
  /\ v \in [1 .. m + n -> Byte]
  /\ \A k \in 1 .. m : v[k] = p[k]
  /\ \A k \in 1 .. n : v[m + k] = q[k]

\* That is what \o makes of them.
LEMMA JoinIs ==
  ASSUME NEW m \in Nat, NEW n \in Nat, NEW p \in [1 .. m -> Byte], NEW q \in [1 .. n -> Byte]
  PROVE  Joined(p \o q, p, q, m, n)
<1>1. p \in Seq(Byte) /\ q \in Seq(Byte) /\ Len(p) = m /\ Len(q) = n
  BY SeqDef
<1>2. /\ p \o q \in Seq(Byte) /\ Len(p \o q) = Len(p) + Len(q)
      /\ \A i \in 1 .. Len(p) + Len(q) :
           (p \o q)[i] = IF i <= Len(p) THEN p[i] ELSE q[i - Len(p)]
  BY <1>1, ConcatProperties
<1> DEFINE v == p \o q
<1>3. v \in Seq(Byte) /\ Len(v) = m + n
  BY <1>1, <1>2
<1>4. \A i \in 1 .. m + n : v[i] = IF i <= m THEN p[i] ELSE q[i - m]
  BY <1>1, <1>2
<1> HIDE DEF v
<1>5. v \in [1 .. m + n -> Byte]
  BY <1>3, LenProperties
<1>6. ASSUME NEW k \in 1 .. m PROVE v[k] = p[k]
  BY <1>4
<1>7. ASSUME NEW k \in 1 .. n PROVE v[m + k] = q[k]
  <2>1. m + k \in 1 .. m + n /\ ~(m + k <= m) /\ (m + k) - m = k
    OBVIOUS
  <2> QED BY <1>4, <2>1
<1> QED
  BY <1>5, <1>6, <1>7 DEF Joined, v

---------------------------------------------------------------------------
(* What the stages before have executed. *)

\* Every run of one, two or four bits, and every word of bytes that has an effect, was flipped.
BitsAll ==
  \A w \in {1, 2, 4}, p \in Nat : p + w <= 8 * len => Flipped(in_buf, p, w) \in tried
BytesAll ==
  \A w \in {1, 2, 4}, p \in Nat : p + w <= len => Inverted(in_buf, p, w) \in tried \/ Idle(p, w)

\* Every change of a word of w bytes is accounted for: additions, values.
AddsAll(w) ==
  \A p \in Nat : p + w <= len =>
    \A c \in Changes(w) : Known(Put(in_buf, p, Altered(Word(in_buf, p, w), c)))
IntsAll(w) ==
  \A p \in Nat : p + w <= len => \A c \in Values(w) : Known(Put(in_buf, p, Chosen(w, c)))

\* The input is a tuple of bytes.
InputIs == len \in Nat \ {0} /\ in_buf \in [1 .. len -> Byte]

\* It is one of those the stages may start from.
LEMMA InputTyped == Placed => InputIs
  BY StagesAssumption, LenProperties DEF Placed, len, InputIs

\* A word of the input.
LEMMA OldIs ==
  ASSUME InputIs, NEW i \in Nat, NEW w \in Nat, i + w <= len
  PROVE  Copied(Word(in_buf, i, w), in_buf, i, w)
  BY WordIs DEF InputIs

\* A change of bytes that have no effect need not have been tried.
LEMMA IdleKnown ==
  ASSUME InputIs, NEW i \in Nat, NEW w \in Nat, i + w <= len, Idle(i, w),
         NEW v \in [1 .. w -> Byte]
  PROVE  Known(Put(in_buf, i, v))
<1> DEFINE res == Put(in_buf, i, v)
<1>1. /\ res \in [1 .. len -> Byte]
      /\ \A k \in 1 .. len : k \notin i + 1 .. i + w => res[k] = in_buf[k]
  BY PutWord DEF InputIs
<1> HIDE DEF res
<1>2. ASSUME NEW x \in Changed(res) PROVE Block(x) \notin eff
  <2>1. PICK k \in 1 .. len : x = k - 1 /\ res[k] # in_buf[k]
    BY <1>1 DEF Changed
  <2>2. x \in i .. i + w - 1
    BY <1>1, <2>1 DEF InputIs
  <2> QED BY <2>2 DEF Idle
<1> QED
  BY <1>2 DEF Known, res

\* The bits in which two words differ are a run of bits.
BitsDiffer(w, old, new, lo, hi) ==
  \A k \in 1 .. w, j \in 0 .. 7 : Bit(new[k], j) # Bit(old[k], j) <=> 8 * (k - 1) + j \in lo .. hi

\* Xor() by byte and bit.
LEMMA RunDiffers ==
  ASSUME NEW w \in Nat, NEW old \in [1 .. w -> Byte], NEW new \in [1 .. w -> Byte],
         NEW lo \in Nat, NEW hi \in Nat, Xor(old, new) = lo .. hi
  PROVE  BitsDiffer(w, old, new, lo, hi)
<1>1. XorByBit(w, old, new)
  BY XorIs
<1> SUFFICES ASSUME NEW k \in 1 .. w, NEW j \in 0 .. 7
             PROVE  Bit(new[k], j) # Bit(old[k], j) <=> 8 * (k - 1) + j \in lo .. hi
  BY DEF BitsDiffer
<1> DEFINE x == 8 * (k - 1) + j
<1>2. (x \div 8) + 1 = k /\ x % 8 = j /\ x \in 0 .. 8 * w - 1
  OBVIOUS
<1>3. x \in Xor(old, new)
      <=> x \in 0 .. 8 * w - 1 /\ Bit(old[(x \div 8) + 1], x % 8) # Bit(new[(x \div 8) + 1], x % 8)
  BY <1>1, Zenon DEF XorByBit
<1> HIDE DEF x
<1>4. x \in Xor(old, new) <=> Bit(old[k], j) # Bit(new[k], j)
  BY <1>2, <1>3
<1>5. x \in lo .. hi <=> Bit(old[k], j) # Bit(new[k], j)
  BY <1>4
<1> QED
  BY <1>5 DEF x

\* Words that differ in no bit are the same.
LEMMA NoneDiffers ==
  ASSUME NEW w \in Nat, NEW old \in [1 .. w -> Byte], NEW new \in [1 .. w -> Byte],
         Xor(old, new) = {}
  PROVE  old = new
<1>1. 1 .. 0 = {}
  OBVIOUS
<1>2. Xor(old, new) = 1 .. 0
  BY <1>1, Zenon
<1>3. BitsDiffer(w, old, new, 1, 0)
  BY <1>2, RunDiffers
<1>4. \A k \in 1 .. w, j \in 0 .. 7 : Bit(new[k], j) = Bit(old[k], j)
  BY <1>3 DEF BitsDiffer
<1>5. \A k \in 1 .. w : old[k] = new[k]
  BY <1>4, SameBits
<1> QED
  BY <1>5, SameBuf

\* A run within a byte is one that the walking bits came to.
LEMMA WithinByteKnown ==
  ASSUME InputIs, BitsAll, NEW i \in Nat, NEW w \in Nat, i + w <= len,
         NEW new \in [1 .. w -> Byte], NEW lo \in Nat, NEW hi \in Nat, hi < 8 * w,
         hi - lo + 1 \in {1, 2, 4}, lo \div 8 = hi \div 8,
         BitsDiffer(w, Word(in_buf, i, w), new, lo, hi)
  PROVE  Known(Put(in_buf, i, new))
<1> DEFINE res == Put(in_buf, i, new)
           old == Word(in_buf, i, w)
           n == hi - lo + 1
<1>1. old \in [1 .. w -> Byte] /\ \A k \in 1 .. w : old[k] = in_buf[i + k]
  BY OldIs DEF Copied
<1>2. PICK b \in 0 .. w - 1, m \in 0 .. 7 : lo = 8 * b + m /\ m + n <= 8
  <2>1. lo \div 8 \in 0 .. w - 1 /\ lo % 8 \in 0 .. 7 /\ lo = 8 * (lo \div 8) + (lo % 8)
        /\ (lo % 8) + n <= 8
    OBVIOUS
  <2> QED BY <2>1
<1> HIDE DEF old
<1>3. /\ res \in [1 .. len -> Byte]
      /\ \A k \in 1 .. len : k \notin i + 1 .. i + w => res[k] = in_buf[k]
      /\ \A k \in 1 .. len : k \in i + 1 .. i + w => res[k] = new[k - i]
  BY PutWord DEF InputIs
<1> HIDE DEF res
<1>4. n \in {1, 2, 4} /\ m \in 0 .. 8 - n /\ i + b \in 0 .. len - 1 /\ hi = 8 * b + m + n - 1
  BY <1>2 DEF InputIs
<1>5. \A k \in 1 .. w, j \in 0 .. 7 :
        Bit(new[k], j) # Bit(old[k], j) <=> 8 * (k - 1) + j \in lo .. hi
  BY DEF BitsDiffer, old
<1> HIDE DEF n
<1>6. \A k \in 1 .. w, j \in 0 .. 7 :
        8 * (k - 1) + j \in lo .. hi <=> k = b + 1 /\ j \in m .. m + n - 1
  BY <1>2, <1>4
<1>7. ASSUME NEW k \in 1 .. len, k # (i + b) + 1 PROVE res[k] = in_buf[k]
  <2>1. CASE k \in i + 1 .. i + w
    <3>1. k - i \in 1 .. w /\ i + (k - i) = k /\ k - i # b + 1
      BY <1>7, <2>1
    <3>2. \A j \in 0 .. 7 : Bit(new[k - i], j) = Bit(old[k - i], j)
      BY <1>5, <1>6, <3>1
    <3>3. new[k - i] \in Byte /\ old[k - i] \in Byte
      BY <1>1, <3>1
    <3>4. new[k - i] = old[k - i]
      BY <3>2, <3>3, SameBits
    <3> QED BY <1>1, <1>3, <2>1, <3>1, <3>4
  <2>2. CASE k \notin i + 1 .. i + w
    BY <1>3, <2>2
  <2> QED BY <2>1, <2>2
<1>8. BitsTurned(len, in_buf, res, i + b, m .. m + n - 1)
  <2>1. (i + b) + 1 \in i + 1 .. i + w /\ (i + b) + 1 \in 1 .. len /\ b + 1 \in 1 .. w
        /\ ((i + b) + 1) - i = b + 1 /\ i + (b + 1) = (i + b) + 1
    BY <1>4 DEF InputIs
  <2>2. res[(i + b) + 1] = new[b + 1] /\ in_buf[(i + b) + 1] = old[b + 1]
    BY <1>1, <1>3, <2>1
  <2>3. \A j \in 0 .. 7 : Bit(new[b + 1], j) # Bit(old[b + 1], j) <=> j \in m .. m + n - 1
    BY <1>5, <1>6, <2>1
  <2>4. new[b + 1] \in Byte /\ old[b + 1] \in Byte
    BY <1>1, <2>1
  <2>5. \A j \in 0 .. 7 : Bit(new[b + 1], j) \in {0, 1} /\ Bit(old[b + 1], j) \in {0, 1}
    BY <2>4, BitIs
  <2>6. \A j \in 0 .. 7 : Bit(new[b + 1], j)
          = IF j \in m .. m + n - 1 THEN 1 - Bit(old[b + 1], j) ELSE Bit(old[b + 1], j)
    <3> TAKE j \in 0 .. 7
    <3> DEFINE x == Bit(new[b + 1], j)
               y == Bit(old[b + 1], j)
    <3>1. x \in {0, 1} /\ y \in {0, 1}
      BY <2>5
    <3>2. x # y <=> j \in m .. m + n - 1
      BY <2>3
    <3> HIDE DEF x, y
    <3>3. x # y => x = 1 - y
      BY <3>1
    <3>4. x = IF j \in m .. m + n - 1 THEN 1 - y ELSE y
      BY <3>2, <3>3
    <3> QED BY <3>4 DEF x, y
  <2> QED BY <1>3, <1>7, <2>2, <2>6 DEF BitsTurned
<1> DEFINE p == 8 * (i + b) + ((8 - n) - m)
           fl == Flipped(in_buf, p, n)
<1>9. BitsTurned(len, in_buf, fl, i + b, m .. m + n - 1)
  BY <1>4, FlippedIs DEF InputIs
<1>10. fl \in tried
  <2>1. p \in Nat /\ p + n <= 8 * len
    BY <1>4 DEF InputIs
  <2> HIDE DEF p
  <2> QED BY <1>4, <2>1 DEF BitsAll
<1> HIDE DEF p, fl
<1>11. res = fl
  BY <1>4, <1>8, <1>9, BitsDetermine DEF InputIs
<1> QED
  BY <1>10, <1>11 DEF Known, res

\* A run across bytes is one of the known exceptions.
LEMMA AcrossKnown ==
  ASSUME InputIs, NEW i \in Nat, NEW w \in Nat, i + w <= len,
         NEW new \in [1 .. w -> Byte], NEW lo \in Nat, NEW hi \in Nat,
         Xor(Word(in_buf, i, w), new) = lo .. hi,
         hi - lo + 1 \in {1, 2, 4}, lo \div 8 # hi \div 8
  PROVE  Known(Put(in_buf, i, new))
<1> DEFINE res == Put(in_buf, i, new)
           old == Word(in_buf, i, w)
           d == Xor(in_buf, res)
<1>1. old \in [1 .. w -> Byte] /\ \A k \in 1 .. w : old[k] = in_buf[i + k]
  BY OldIs DEF Copied
<1>2. res \in [1 .. len -> Byte]
  BY PutWord DEF InputIs
<1>3. \A y \in Int : y \in d <=> y - 8 * i \in lo .. hi
  <2> TAKE y \in Int
  <2>1. y \in Xor(in_buf, Put(in_buf, i, new)) <=> y - 8 * i \in Xor(old, new)
    <3> HIDE DEF old
    <3> QED BY <1>1, XorShift DEF InputIs
  <2>2. Xor(old, new) = lo .. hi
    OBVIOUS
  <2> HIDE DEF old
  <2>3. y - 8 * i \in Xor(old, new) <=> y - 8 * i \in lo .. hi
    BY <2>2
  <2> QED BY <2>1, <2>3
<1>4. d \subseteq Int
  <2>1. XorByBit(len, in_buf, res)
    BY <1>2, XorIs DEF InputIs
  <2> QED BY <2>1 DEF XorByBit
<1> HIDE DEF d, res, old
<1> DEFINE a == 8 * i + lo
           z == 8 * i + hi
<1>5. d = a .. z
  <2>1. \A y \in Int : y \in d <=> y \in a .. z
    <3> TAKE y \in Int
    <3>1. y - 8 * i \in lo .. hi <=> y \in a .. z
      OBVIOUS
    <3> QED BY <1>3, <3>1
  <2>2. a .. z \subseteq Int
    OBVIOUS
  <2> HIDE DEF a, z
  <2> QED BY <1>4, <2>1, <2>2, Zenon
<1>6. a \in Nat /\ z \in Nat /\ a <= z /\ z - a + 1 \in {2, 4} /\ a \div 8 # z \div 8
  OBVIOUS
<1> HIDE DEF a, z
<1>7. Min(a .. z) = a /\ Max(a .. z) = z /\ Cardinality(a .. z) = z - a + 1
  BY <1>6, IntervalIs
<1>8. Min(d) = a /\ Max(d) = z /\ Cardinality(d) = z - a + 1
  BY <1>5, <1>7, Zenon
<1>9. AcrossBytes(res)
  BY <1>6, <1>8 DEF AcrossBytes, d
<1> QED
  BY <1>9 DEF Known, res

\* A run of whole bytes is one that the longer flips came to, or left alone for good reason.
LEMMA WholeBytesKnown ==
  ASSUME InputIs, BytesAll, NEW i \in Nat, NEW w \in Nat, i + w <= len,
         NEW new \in [1 .. w -> Byte], NEW lo \in Nat, NEW hi \in Nat, hi < 8 * w,
         hi - lo + 1 \in {8, 16, 32}, lo % 8 = 0,
         BitsDiffer(w, Word(in_buf, i, w), new, lo, hi)
  PROVE  Known(Put(in_buf, i, new))
<1> DEFINE res == Put(in_buf, i, new)
           old == Word(in_buf, i, w)
<1>1. PICK b \in 0 .. w - 1, u \in {1, 2, 4} : lo = 8 * b /\ hi = 8 * (b + u) - 1 /\ b + u <= w
  <2> DEFINE b == lo \div 8
             u == (hi - lo + 1) \div 8
  <2>1. b \in 0 .. w - 1 /\ u \in {1, 2, 4} /\ lo = 8 * b /\ hi = 8 * (b + u) - 1 /\ b + u <= w
    OBVIOUS
  <2> QED BY <2>1
<1>2. old \in [1 .. w -> Byte] /\ \A k \in 1 .. w : old[k] = in_buf[i + k]
  BY OldIs DEF Copied
<1>3. \A k \in 1 .. w, j \in 0 .. 7 :
        Bit(new[k], j) # Bit(old[k], j) <=> 8 * (k - 1) + j \in lo .. hi
  BY DEF BitsDiffer
<1> HIDE DEF old
<1>4. /\ res \in [1 .. len -> Byte]
      /\ \A k \in 1 .. len : k \notin i + 1 .. i + w => res[k] = in_buf[k]
      /\ \A k \in 1 .. len : k \in i + 1 .. i + w => res[k] = new[k - i]
  BY PutWord DEF InputIs
<1> HIDE DEF res
<1>5. \A k \in 1 .. w, j \in 0 .. 7 : 8 * (k - 1) + j \in lo .. hi <=> k \in b + 1 .. b + u
  BY <1>1
<1>6. ASSUME NEW k \in 1 .. w
      PROVE  new[k] = IF k \in b + 1 .. b + u THEN 255 - old[k] ELSE old[k]
  <2>1. new[k] \in Byte /\ old[k] \in Byte
    BY <1>2
  <2>2. 255 - old[k] \in Byte
    <3>1. \A x \in Byte : 255 - x \in Byte
      BY DEF Byte
    <3> QED BY <2>1, <3>1
  <2>3. CASE k \in b + 1 .. b + u
    <3>1. \A j \in 0 .. 7 : Bit(new[k], j) # Bit(old[k], j)
      BY <1>3, <1>5, <2>3 DEF old
    <3>2. \A j \in 0 .. 7 : Bit(255 - old[k], j) = 1 - Bit(old[k], j)
      BY <2>1, ComplementIs
    <3>3. \A j \in 0 .. 7 : Bit(new[k], j) \in {0, 1} /\ Bit(old[k], j) \in {0, 1}
      BY <2>1, BitIs
    <3>4. \A j \in 0 .. 7 : Bit(new[k], j) = Bit(255 - old[k], j)
      <4> TAKE j \in 0 .. 7
      <4> DEFINE x == Bit(new[k], j)
                 y == Bit(old[k], j)
      <4>1. x \in {0, 1} /\ y \in {0, 1} /\ x # y
        BY <3>1, <3>3
      <4>2. Bit(255 - old[k], j) = 1 - y
        BY <3>2
      <4> HIDE DEF x, y
      <4>3. x = 1 - y
        BY <4>1
      <4> QED BY <4>2, <4>3 DEF x
    <3>5. new[k] = 255 - old[k]
      BY <2>1, <2>2, <3>4, SameBits
    <3> QED BY <2>3, <3>5
  <2>4. CASE k \notin b + 1 .. b + u
    <3>1. \A j \in 0 .. 7 : Bit(new[k], j) = Bit(old[k], j)
      BY <1>3, <1>5, <2>4 DEF old
    <3>2. new[k] = old[k]
      BY <2>1, <3>1, SameBits
    <3> QED BY <2>4, <3>2
  <2> QED BY <2>3, <2>4
<1> DEFINE v == [k \in 1 .. u |-> 255 - in_buf[(i + b) + k]]
           fl == Put(in_buf, i + b, v)
<1>7. v \in [1 .. u -> Byte] /\ i + b \in Nat /\ u \in Nat /\ (i + b) + u <= len
  <2>1. \A k \in 1 .. u : in_buf[(i + b) + k] \in Byte
    BY <1>1 DEF InputIs
  <2>2. \A k \in 1 .. u : 255 - in_buf[(i + b) + k] \in Byte
    <3>1. \A x \in Byte : 255 - x \in Byte
      BY DEF Byte
    <3> QED BY <2>1, <3>1
  <2>3. i + b \in Nat /\ u \in Nat /\ (i + b) + u <= len
    BY <1>1 DEF InputIs
  <2> QED BY <2>2, <2>3
<1>8. \A k \in 1 .. u : v[k] = 255 - in_buf[(i + b) + k]
  OBVIOUS
<1> HIDE DEF v
<1>9. /\ fl \in [1 .. len -> Byte]
      /\ \A k \in 1 .. len : k \notin (i + b) + 1 .. (i + b) + u => fl[k] = in_buf[k]
      /\ \A k \in 1 .. len : k \in (i + b) + 1 .. (i + b) + u => fl[k] = v[k - (i + b)]
  BY <1>7, PutWord DEF InputIs
<1> HIDE DEF fl
<1>10. ASSUME NEW k \in 1 .. len PROVE res[k] = fl[k]
  <2>1. CASE k \notin i + 1 .. i + w
    <3>1. k \notin (i + b) + 1 .. (i + b) + u
      BY <1>1, <2>1 DEF InputIs
    <3> QED BY <1>4, <1>9, <2>1, <3>1
  <2>2. CASE k \in i + 1 .. i + w /\ k - i \notin b + 1 .. b + u
    <3>1. k \notin (i + b) + 1 .. (i + b) + u /\ k - i \in 1 .. w /\ i + (k - i) = k
      BY <1>1, <2>2 DEF InputIs
    <3>2. new[k - i] = old[k - i] /\ in_buf[k] = old[k - i]
      BY <1>2, <1>6, <2>2, <3>1
    <3>3. fl[k] = in_buf[k]
      BY <1>9, <3>1
    <3> QED BY <1>4, <2>2, <3>2, <3>3
  <2>3. CASE k \in i + 1 .. i + w /\ k - i \in b + 1 .. b + u
    <3>1. /\ k \in (i + b) + 1 .. (i + b) + u /\ k - i \in 1 .. w /\ i + (k - i) = k
          /\ k - (i + b) \in 1 .. u /\ (i + b) + (k - (i + b)) = k
      BY <1>1, <2>3 DEF InputIs
    <3>2. new[k - i] = 255 - old[k - i] /\ in_buf[k] = old[k - i]
      BY <1>2, <1>6, <2>3, <3>1
    <3>3. v[k - (i + b)] = 255 - in_buf[k]
      BY <1>8, <3>1
    <3>4. fl[k] = v[k - (i + b)]
      BY <1>9, <3>1
    <3> QED BY <1>4, <2>3, <3>2, <3>3, <3>4
  <2> QED BY <2>1, <2>2, <2>3
<1>11. res = fl
  BY <1>4, <1>9, <1>10, SameBuf DEF InputIs
<1>12. Inverted(in_buf, i + b, u) \in tried \/ Idle(i + b, u)
  BY <1>1, <1>7 DEF BytesAll
<1>13. Inverted(in_buf, i + b, u) = fl
  BY DEF Inverted, fl, v
<1>14. Idle(i + b, u) => Known(fl)
  BY <1>7, IdleKnown DEF fl
<1>15. Known(fl)
  BY <1>12, <1>13, <1>14 DEF Known
<1> QED
  BY <1>11, <1>15 DEF res

\* could_be_bitflip() says so only of what the flips have covered, or of a known exception.
LEMMA BitflipKnown ==
  ASSUME InputIs, BitsAll, BytesAll, NEW i \in Nat, NEW w \in Nat, i + w <= len,
         NEW new \in [1 .. w -> Byte], could_be_bitflip(Xor(Word(in_buf, i, w), new))
  PROVE  Known(Put(in_buf, i, new))
<1> DEFINE old == Word(in_buf, i, w)
           T == Xor(old, new)
<1>1. old \in [1 .. w -> Byte]
  BY OldIs DEF Copied
<1>2. T \subseteq 0 .. 8 * w - 1
  <2> HIDE DEF old
  <2>1. XorByBit(w, old, new)
    BY <1>1, XorIs
  <2> QED BY <2>1 DEF XorByBit
<1>3. could_be_bitflip(T)
  OBVIOUS
<1>4. CASE T = {}
  <2> HIDE DEF old
  <2>1. old = new
    BY <1>1, <1>4, NoneDiffers
  <2>2. Put(in_buf, i, old) = in_buf
    BY PutSame DEF InputIs, old
  <2> QED BY <2>1, <2>2 DEF Known
<1>5. CASE T # {}
  <2> DEFINE lo == Min(T)
             hi == Max(T)
             n == hi - lo + 1
  <2> HIDE DEF T
  <2>1. /\ Max(T) - Min(T) + 1 = Cardinality(T)
        /\ Cardinality(T) \in {1, 2, 4} \/ (Cardinality(T) \in {8, 16, 32} /\ Min(T) % 8 = 0)
    BY <1>3, <1>5 DEF could_be_bitflip
  <2>2. 8 * w - 1 \in Nat /\ T \in SUBSET (0 .. 8 * w - 1)
    <3>1. PICK x \in T : x \in 0 .. 8 * w - 1
      BY <1>2, <1>5
    <3>2. 8 * w - 1 \in Nat
      BY <3>1
    <3> QED BY <1>2, <3>2
  <2> DEFINE N == 8 * w - 1
  <2>3. N \in Nat /\ T \in SUBSET (0 .. N)
    BY <2>2
  <2> HIDE DEF N
  <2>4. lo \in 0 .. N /\ hi \in 0 .. N /\ lo <= hi /\ T = lo .. hi
    BY <1>5, <2>1, <2>3, RunOf
  <2> HIDE DEF lo, hi
  <2>5. lo \in Nat /\ hi \in Nat /\ hi < 8 * w
    BY <2>4 DEF N
  <2>6. n \in {1, 2, 4} \/ (n \in {8, 16, 32} /\ lo % 8 = 0)
    BY <2>1 DEF lo, hi
  <2>7. Xor(old, new) = lo .. hi
    BY <2>4, Zenon DEF T
  <2>8. BitsDiffer(w, old, new, lo, hi)
    <3> HIDE DEF old
    <3> QED BY <1>1, <2>5, <2>7, RunDiffers
  <2>9. CASE n \in {1, 2, 4} /\ lo \div 8 = hi \div 8
    BY <2>5, <2>8, <2>9, WithinByteKnown
  <2>10. CASE n \in {1, 2, 4} /\ lo \div 8 # hi \div 8
    BY <2>5, <2>7, <2>10, AcrossKnown
  <2>11. CASE n \in {8, 16, 32} /\ lo % 8 = 0
    BY <2>5, <2>8, <2>11, WholeBytesKnown
  <2> QED BY <2>6, <2>9, <2>10, <2>11
<1> QED
  BY <1>4, <1>5

---------------------------------------------------------------------------
(* Additions. *)

\* What is left of a number in a byte or a word.
LEMMA Remainders ==
  /\ \A x \in Int : /\ x % 256 \in Byte /\ (x \div 256) % 256 \in Byte
                    /\ x % 65536 \in Int /\ x \div 65536 \in Int
                    /\ (x % 65536) % 256 = x % 256
  /\ \A x, y \in Int : (x + 256 * y) % 256 = x % 256
<1>1. ASSUME NEW x \in Int PROVE x % 256 \in 0 .. 255
  OBVIOUS
<1>2. ASSUME NEW x \in Int PROVE x \div 256 \in Int /\ x % 65536 \in Int /\ x \div 65536 \in Int
  OBVIOUS
<1>3. ASSUME NEW x \in Int PROVE (x % 65536) % 256 = x % 256
  <2>1. x = 65536 * (x \div 65536) + (x % 65536)
    OBVIOUS
  <2> QED BY <2>1
<1>4. ASSUME NEW x \in Int, NEW y \in Int PROVE (x + 256 * y) % 256 = x % 256
  OBVIOUS
<1> QED
  BY <1>1, <1>2, <1>3, <1>4 DEF Byte

\* The two bytes of a 16-bit word.
LEMMA TwoBytes ==
  ASSUME NEW x \in Int
  PROVE  Bytes(x, 2) \in [1 .. 2 -> Byte] /\ Bytes(x, 2)[1] = x % 256
<1>1. Bytes(x, 2) = [k \in 1 .. 2 |-> (x \div <<1, 256, 65536, 16777216>>[k]) % 256]
  BY DEF Bytes
<1>2. \A k \in 1 .. 2 : k = 1 \/ k = 2
  OBVIOUS
<1>3. x \div 1 = x
  OBVIOUS
<1>4. \A k \in 1 .. 2 : (x \div <<1, 256, 65536, 16777216>>[k]) % 256 \in Byte
  BY <1>2, <1>3, Remainders
<1> QED
  BY <1>1, <1>3, <1>4

\* A sum is a word again.
LEMMA AddOne ==
  ASSUME NEW v \in [1 .. 1 -> Byte], NEW d \in Int
  PROVE  Add(v, d) \in [1 .. 1 -> Byte] /\ Add(v, d)[1] = (v[1] + d) % 256
<1>1. Len(v) = 1 /\ v[1] \in Int
  BY DEF Byte
<1>2. Add(v, d) = << (v[1] + d) % 256 >>
  BY <1>1 DEF Add
<1>3. (v[1] + d) % 256 \in Byte
  <2>1. v[1] + d \in Int
    BY <1>1
  <2> QED BY <2>1, Remainders
<1> QED
  BY <1>2, <1>3

\* The lower byte of a 16-bit sum is the sum of the lower bytes.
LEMMA AddTwo ==
  ASSUME NEW v \in [1 .. 2 -> Byte], NEW d \in Int
  PROVE  Add(v, d) \in [1 .. 2 -> Byte] /\ Add(v, d)[1] = (v[1] + d) % 256
<1> DEFINE x == v[1] + 256 * v[2] + d
<1>1. Len(v) = 2 /\ v[1] \in Int /\ v[2] \in Int
  BY DEF Byte
<1>2. Add(v, d) = Bytes(x % 65536, 2)
  BY <1>1 DEF Add, Value16
<1>3. x \in Int /\ x = (v[1] + d) + 256 * v[2] /\ v[1] + d \in Int
  BY <1>1
<1> HIDE DEF x
<1>4. x % 65536 \in Int /\ (x % 65536) % 256 = x % 256
  BY <1>3, Remainders
<1>5. x % 256 = (v[1] + d) % 256
  BY <1>1, <1>3, Remainders
<1>6. Bytes(x % 65536, 2) \in [1 .. 2 -> Byte] /\ Bytes(x % 65536, 2)[1] = (x % 65536) % 256
  BY <1>4, TwoBytes
<1> QED
  BY <1>2, <1>4, <1>5, <1>6

\* The lower half of a 32-bit sum is the sum of the lower halves.
LEMMA AddFour ==
  ASSUME NEW v \in [1 .. 4 -> Byte], NEW d \in Int
  PROVE  /\ Add(v, d) \in [1 .. 4 -> Byte]
         /\ \A k \in 1 .. 2 : Add(v, d)[k] = Add(Word(v, 0, 2), d)[k]
<1> DEFINE l == Word(v, 0, 2)
           h == Word(v, 2, 2)
           low == Value16(l) + d
           high == Value16(h) + (low \div 65536)
           p == Bytes(low % 65536, 2)
           q == Bytes(high % 65536, 2)
<1>1. Copied(l, v, 0, 2) /\ Copied(h, v, 2, 2)
  <2>1. 0 \in Nat /\ 2 \in Nat /\ 4 \in Nat /\ 0 + 2 <= 4 /\ 2 + 2 <= 4
    OBVIOUS
  <2> QED BY <2>1, WordIs
<1>2. Len(v) # 1 /\ Len(v) # 2
  OBVIOUS
<1>3. Add(v, d) = p \o q
  <2>1. Add(v, d) = Add32(v, d)
    BY <1>2 DEF Add
  <2>2. Add32(v, d) = p \o q
    BY SMT DEF Add32
  <2> QED BY <2>1, <2>2
<1> HIDE DEF l, h
<1>4. l \in [1 .. 2 -> Byte] /\ h \in [1 .. 2 -> Byte] /\ Len(l) = 2
  BY <1>1 DEF Copied
<1>5. Add(l, d) = p
  BY <1>4 DEF Add
<1>6. Value16(l) \in Int /\ Value16(h) \in Int
  <2>1. l[1] \in Int /\ l[2] \in Int /\ h[1] \in Int /\ h[2] \in Int
    BY <1>4 DEF Byte
  <2> QED BY <2>1 DEF Value16
<1>7. low % 65536 \in Int /\ high % 65536 \in Int
  <2>1. low \in Int
    BY <1>6
  <2> HIDE DEF low
  <2>2. low \div 65536 \in Int
    BY <2>1, Remainders
  <2>3. high \in Int
    BY <1>6, <2>2
  <2> HIDE DEF high
  <2> QED BY <2>1, <2>3, Remainders
<1> HIDE DEF low, high
<1>8. p \in [1 .. 2 -> Byte] /\ q \in [1 .. 2 -> Byte]
  BY <1>7, TwoBytes
<1> HIDE DEF p, q
<1>9. Joined(p \o q, p, q, 2, 2)
  BY <1>8, JoinIs
<1>10. p \o q \in [1 .. 4 -> Byte] /\ \A k \in 1 .. 2 : (p \o q)[k] = p[k]
  BY <1>9 DEF Joined
<1> QED
  BY <1>3, <1>5, <1>10 DEF l

\* The changes: an amount, an order of bytes, a sign.
LEMMA ChangeIs ==
  ASSUME NEW w \in {1, 2, 4}, NEW c \in Changes(w)
  PROVE  /\ c[1] \in 1 .. ARITH_MAX /\ c[2] \in BOOLEAN /\ c[3] \in {1, -1}
         /\ c[3] * c[1] \in Int
<1>1. c \in (1 .. ARITH_MAX) \X (IF w = 1 THEN {FALSE} ELSE BOOLEAN) \X {1, -1}
  BY DEF Changes
<1>2. c[1] \in 1 .. ARITH_MAX /\ c[3] \in {1, -1}
  BY <1>1
<1>3. c[2] \in BOOLEAN
  BY <1>1
<1>4. c[3] * c[1] \in Int
  <2>1. c[1] \in Int /\ 1 * c[1] \in Int /\ (-1) * c[1] \in Int
    BY <1>2, StagesAssumption
  <2>2. c[3] = 1 \/ c[3] = -1
    BY <1>2
  <2> QED BY <2>1, <2>2
<1> QED
  BY <1>2, <1>3, <1>4

\* A sum is a word again, and its low half is the sum of the low half.
LEMMA AddTyped ==
  ASSUME NEW w \in {1, 2, 4}, NEW v \in [1 .. w -> Byte], NEW d \in Int
  PROVE  Add(v, d) \in [1 .. w -> Byte]
<1>1. CASE w = 1
  BY <1>1, AddOne
<1>2. CASE w = 2
  BY <1>2, AddTwo
<1>3. CASE w = 4
  BY <1>3, AddFour
<1> QED
  BY <1>1, <1>2, <1>3

\* The lower h bytes of a sum are those of another.
LowSum(sum, low, d, h) == \A k \in 1 .. h : sum[k] = Add(low, d)[k]

\* The low half does not depend on the high one.
LEMMA AddLow ==
  ASSUME NEW w \in {2, 4}, NEW v \in [1 .. w -> Byte], NEW d \in Int, NEW h, h = w \div 2
  PROVE  LowSum(Add(v, d), Word(v, 0, h), d, h)
<1> SUFFICES ASSUME NEW k \in 1 .. h PROVE Add(v, d)[k] = Add(Word(v, 0, h), d)[k]
  BY DEF LowSum
<1>1. CASE w = 2
  <2>1. h = 1 /\ k = 1
    BY <1>1
  <2>2. Copied(Word(v, 0, h), v, 0, h)
    <3>1. 0 + h <= w /\ 0 \in Nat /\ h \in Nat /\ w \in Nat
      BY <1>1, <2>1
    <3> QED BY <3>1, WordIs
  <2>3. Word(v, 0, h) \in [1 .. 1 -> Byte] /\ Word(v, 0, h)[1] = v[1]
    <3>1. \A l \in 1 .. h : Word(v, 0, h)[l] = v[0 + l]
      BY <2>2 DEF Copied
    <3>2. Word(v, 0, h) \in [1 .. h -> Byte] /\ 0 + 1 = 1
      BY <2>2 DEF Copied
    <3> QED BY <2>1, <3>1, <3>2
  <2>4. Add(Word(v, 0, h), d)[1] = (Word(v, 0, h)[1] + d) % 256
    BY <2>3, AddOne
  <2>5. Add(v, d)[1] = (v[1] + d) % 256
    BY <1>1, AddTwo
  <2> QED BY <2>1, <2>3, <2>4, <2>5
<1>2. CASE w = 4
  <2>1. h = 2 /\ k \in 1 .. 2 /\ v \in [1 .. 4 -> Byte]
    BY <1>2
  <2>2. \A l \in 1 .. 2 : Add(v, d)[l] = Add(Word(v, 0, 2), d)[l]
    BY <2>1, AddFour
  <2> QED BY <2>1, <2>2
<1> QED
  BY <1>1, <1>2

\* A word of w bytes like that at i, but for u bytes at j.
HasPart(new, i, w, j, u, e) ==
  \A k \in 1 .. w : new[k] = IF k \in j + 1 .. j + u THEN e[k - j] ELSE in_buf[i + k]

\* A word that differs from the input only in a part of it is put there by that part.
LEMMA PutPart ==
  ASSUME InputIs, NEW i \in Nat, NEW w \in Nat, i + w <= len, NEW new \in [1 .. w -> Byte],
         NEW j \in Nat, NEW u \in Nat, j + u <= w, NEW e \in [1 .. u -> Byte],
         HasPart(new, i, w, j, u, e)
  PROVE  Put(in_buf, i, new) = Put(in_buf, i + j, e)
<1> DEFINE old == Word(in_buf, i, w)
           part == Put(old, j, e)
<1>1. old \in [1 .. w -> Byte] /\ \A k \in 1 .. w : old[k] = in_buf[i + k]
  BY OldIs DEF Copied
<1> HIDE DEF old
<1>2. Written(part, w, old, j, u, e)
  BY <1>1, PutWritten
<1> HIDE DEF part
<1>3. \A k \in 1 .. w : new[k] = part[k]
  BY <1>1, <1>2 DEF Written, HasPart
<1>4. new = part
  BY <1>2, <1>3, SameBuf DEF Written
<1>5. Put(in_buf, i, Put(Word(in_buf, i, w), j, e)) = Put(in_buf, i + j, e)
  BY PutPut DEF InputIs
<1> QED
  BY <1>4, <1>5, Zenon DEF part, old

\* What an arithmetic stage writes is a word.
LEMMA AlteredTyped ==
  ASSUME NEW w \in {1, 2, 4}, NEW v \in [1 .. w -> Byte], NEW c \in Changes(w)
  PROVE  Altered(v, c) \in [1 .. w -> Byte]
<1>1. c[3] * c[1] \in Int /\ c[2] \in BOOLEAN
  BY ChangeIs
<1>2. CASE c[2]
  <2>1. Swap(v) \in [1 .. w -> Byte]
    BY SwapIs
  <2> DEFINE s == Add(Swap(v), c[3] * c[1])
  <2>2. s \in [1 .. w -> Byte]
    BY <1>1, <2>1, AddTyped
  <2> HIDE DEF s
  <2>3. Swap(s) \in [1 .. w -> Byte]
    BY <2>2, SwapIs
  <2> QED BY <1>2, <2>3 DEF Altered, s
<1>3. CASE ~c[2]
  <2>1. Add(v, c[3] * c[1]) \in [1 .. w -> Byte]
    BY <1>1, AddTyped
  <2> QED BY <1>3, <2>1 DEF Altered
<1> QED
  BY <1>2, <1>3

\* Without a carry into the upper half the change is one of a shorter word.
LEMMA CarryKnown ==
  ASSUME InputIs, NEW i \in Nat, NEW w \in {2, 4}, i + w <= len, NEW c \in Changes(w),
         AddsAll(w \div 2), NEW old, old = Word(in_buf, i, w),
         ~Carries(IF c[2] THEN Swap(old) ELSE old, c[3] * c[1])
  PROVE  Known(Put(in_buf, i, Altered(old, c)))
<1> DEFINE h == w \div 2
           d == c[3] * c[1]
           v == IF c[2] THEN Swap(old) ELSE old
           sum == Add(v, d)
           new == Altered(old, c)
<1>1. /\ c[1] \in 1 .. ARITH_MAX /\ c[2] \in BOOLEAN /\ c[3] \in {1, -1} /\ d \in Int
      /\ h \in {1, 2} /\ w = h + h /\ w \in {1, 2, 4} /\ w \in Nat /\ h \in Nat
  <2>1. w \in {1, 2, 4}
    OBVIOUS
  <2>2. c[1] \in 1 .. ARITH_MAX /\ c[2] \in BOOLEAN /\ c[3] \in {1, -1} /\ d \in Int
    BY <2>1, ChangeIs
  <2>3. h \in {1, 2} /\ w = h + h /\ w \in Nat /\ h \in Nat
    OBVIOUS
  <2> QED BY <2>1, <2>2, <2>3
<1>2. Copied(old, in_buf, i, w)
  BY OldIs
<1>3. old \in [1 .. w -> Byte] /\ \A k \in 1 .. w : old[k] = in_buf[i + k]
  BY <1>2 DEF Copied
<1>4. /\ Swap(old) \in [1 .. w -> Byte]
      /\ \A k \in 1 .. w : Swap(old)[k] = old[(w - k) + 1]
  BY <1>1, <1>3, SwapReverses DEF Reversed
<1>5. v \in [1 .. w -> Byte] /\ Len(v) = w
  BY <1>1, <1>3, <1>4
<1>6. ~Carries(v, d)
  OBVIOUS
<1> HIDE DEF h, d, v
<1>7. sum \in [1 .. w -> Byte]
  BY <1>1, <1>5, AddTyped
<1> HIDE DEF sum
<1>8. \A k \in h + 1 .. w : sum[k] = v[k]
  <2>1. SubSeq(sum, h + 1, w) = SubSeq(v, h + 1, w)
    BY <1>5, <1>6 DEF Carries, h, sum
  <2>2. Word(sum, h, h) = Word(v, h, h)
    BY <1>1, <2>1 DEF Word
  <2>3. Copied(Word(sum, h, h), sum, h, h) /\ Copied(Word(v, h, h), v, h, h)
    BY <1>1, <1>5, <1>7, WordIs
  <2>4. \A k \in 1 .. h : sum[h + k] = v[h + k]
    BY <2>2, <2>3 DEF Copied
  <2>5. \A k \in h + 1 .. w : k - h \in 1 .. h /\ h + (k - h) = k
    BY <1>1
  <2> QED BY <2>4, <2>5
<1>9. \A k \in 1 .. h : sum[k] = Add(Word(v, 0, h), d)[k]
  <2>1. h = w \div 2
    BY DEF h
  <2>2. LowSum(sum, Word(v, 0, h), d, h)
    BY <1>1, <1>5, <2>1, AddLow DEF sum
  <2> QED BY <2>2 DEF LowSum
<1>10. Copied(Word(v, 0, h), v, 0, h)
  <2>1. 0 \in Nat /\ h \in Nat /\ w \in Nat /\ 0 + h <= w
    BY <1>1
  <2> QED BY <1>5, <2>1, WordIs
<1>11. Word(v, 0, h) \in [1 .. h -> Byte] /\ \A k \in 1 .. h : Word(v, 0, h)[k] = v[k]
  BY <1>10 DEF Copied
<1>12. new \in [1 .. w -> Byte]
  BY <1>1, <1>3, AlteredTyped
<1>13. CASE ~c[2]
  <2> DEFINE half == Word(in_buf, i, h)
             c1 == <<c[1], FALSE, c[3]>>
             e == Add(half, d)
  <2>1. Copied(half, in_buf, i, h)
    <3>1. h \in Nat /\ i + h <= len
      BY <1>1 DEF InputIs
    <3> QED BY <3>1, OldIs
  <2> HIDE DEF half
  <2>2. half \in [1 .. h -> Byte] /\ \A k \in 1 .. h : half[k] = in_buf[i + k]
    BY <2>1 DEF Copied
  <2>3. v = old /\ new = sum
    BY <1>13 DEF v, sum, Altered, d
  <2> HIDE DEF new
  <2>4. half = Word(v, 0, h)
    <3>1. \A k \in 1 .. h : k \in 1 .. w
      BY <1>1
    <3>2. \A k \in 1 .. h : half[k] = Word(v, 0, h)[k]
      BY <1>3, <1>11, <2>2, <2>3, <3>1
    <3> QED BY <1>1, <1>11, <2>2, <3>2, SameBuf
  <2>5. e \in [1 .. h -> Byte]
    BY <1>1, <2>2, AddTyped
  <2>6. \A k \in 1 .. h : sum[k] = e[k]
    BY <1>9, <2>4
  <2> HIDE DEF e
  <2>7. HasPart(new, i, w, 0, h, e)
    <3>1. \A k \in 1 .. w : new[k] = IF k \in 0 + 1 .. 0 + h THEN e[k - 0] ELSE in_buf[i + k]
      BY <1>1, <1>3, <1>8, <2>3, <2>6
    <3> QED BY <3>1 DEF HasPart
  <2>8. Put(in_buf, i, new) = Put(in_buf, i + 0, e)
    <3>1. 0 \in Nat /\ h \in Nat /\ w \in Nat /\ 0 + h <= w
      BY <1>1
    <3> QED BY <1>12, <2>5, <2>7, <3>1, PutPart DEF new
  <2>9. c1 \in Changes(h) /\ Altered(half, c1) = e
    <3>1. c1 \in Changes(h)
      BY <1>1 DEF Changes
    <3>2. c1[1] = c[1] /\ c1[2] = FALSE /\ c1[3] = c[3]
      OBVIOUS
    <3> HIDE DEF c1
    <3> QED BY <3>1, <3>2 DEF Altered, e, d
  <2> HIDE DEF c1
  <2>10. Known(Put(in_buf, i, Altered(half, c1)))
    <3>1. i + h <= len
      BY <1>1 DEF InputIs
    <3> QED BY <2>9, <3>1 DEF AddsAll, half, h
  <2>11. i + 0 = i
    OBVIOUS
  <2> QED BY <2>8, <2>9, <2>10, <2>11 DEF new
<1>14. CASE c[2]
  <2> DEFINE half == Word(in_buf, i + h, h)
             c1 == <<c[1], h # 1, c[3]>>
             e == Swap(Add(Swap(half), d))
  <2>1. Copied(half, in_buf, i + h, h)
    <3>1. h \in Nat /\ i + h \in Nat /\ (i + h) + h <= len
      BY <1>1 DEF InputIs
    <3> QED BY <3>1, OldIs
  <2> HIDE DEF half
  <2>2. half \in [1 .. h -> Byte] /\ \A k \in 1 .. h : half[k] = in_buf[(i + h) + k]
    BY <2>1 DEF Copied
  <2>3. v = Swap(old) /\ new = Swap(sum)
    BY <1>14 DEF v, sum, Altered, d
  <2> HIDE DEF new
  <2>4. Swap(half) \in [1 .. h -> Byte] /\ \A k \in 1 .. h : Swap(half)[k] = half[(h - k) + 1]
    <3>1. h \in Nat
      BY <1>1
    <3> QED BY <2>2, <3>1, SwapIs
  <2>5. Swap(half) = Word(v, 0, h)
    <3>1. ASSUME NEW k \in 1 .. h PROVE Swap(half)[k] = Word(v, 0, h)[k]
      <4>1. /\ k \in 1 .. w /\ (h - k) + 1 \in 1 .. h /\ (w - k) + 1 \in 1 .. w
            /\ (i + h) + ((h - k) + 1) = i + ((w - k) + 1)
        BY <1>1
      <4>2. Swap(half)[k] = in_buf[i + ((w - k) + 1)]
        BY <2>2, <2>4, <4>1
      <4>3. Word(v, 0, h)[k] = in_buf[i + ((w - k) + 1)]
        BY <1>3, <1>4, <1>11, <2>3, <4>1
      <4> QED BY <4>2, <4>3
    <3>2. h \in Nat
      BY <1>1
    <3> QED BY <1>11, <2>4, <3>1, <3>2, SameBuf
  <2> DEFINE t == Add(Swap(half), d)
  <2>6. t \in [1 .. h -> Byte] /\ \A k \in 1 .. h : sum[k] = t[k]
    <3>1. t \in [1 .. h -> Byte]
      BY <1>1, <2>4, AddTyped
    <3> QED BY <1>9, <2>5, <3>1
  <2> HIDE DEF t
  <2>7. /\ Swap(t) \in [1 .. h -> Byte] /\ \A k \in 1 .. h : Swap(t)[k] = t[(h - k) + 1]
        /\ h = 1 => Swap(t) = t /\ Swap(half) = half
    <3>1. h \in Nat
      BY <1>1
    <3>2. Swap(t) \in [1 .. h -> Byte] /\ \A k \in 1 .. h : Swap(t)[k] = t[(h - k) + 1]
      BY <2>6, <3>1, SwapIs
    <3>3. ASSUME h = 1 PROVE \A k \in 1 .. h : Swap(t)[k] = t[k] /\ Swap(half)[k] = half[k]
      BY <2>4, <3>2, <3>3
    <3>4. ASSUME h = 1 PROVE Swap(t) = t /\ Swap(half) = half
      BY <2>2, <2>4, <2>6, <3>1, <3>2, <3>3, <3>4, SameBuf
    <3> QED BY <3>2, <3>4
  <2>8. e = Swap(t)
    BY DEF t
  <2> HIDE DEF e
  <2>9. Swap(sum) \in [1 .. w -> Byte] /\ \A k \in 1 .. w : Swap(sum)[k] = sum[(w - k) + 1]
    BY <1>7, SwapIs
  <2>10. ASSUME NEW k \in 1 .. w
         PROVE  new[k] = IF k \in h + 1 .. h + h THEN e[k - h] ELSE in_buf[i + k]
    <3>1. CASE k \in h + 1 .. h + h
      <4>1. /\ k - h \in 1 .. h /\ (h - (k - h)) + 1 = (w - k) + 1 /\ (w - k) + 1 \in 1 .. h
        BY <1>1, <3>1
      <4>2. new[k] = t[(w - k) + 1]
        BY <2>3, <2>6, <2>9, <4>1
      <4>3. e[k - h] = t[(w - k) + 1]
        BY <2>7, <2>8, <4>1
      <4> QED BY <3>1, <4>2, <4>3
    <3>2. CASE k \notin h + 1 .. h + h
      <4>1. (w - k) + 1 \in h + 1 .. w /\ (w - k) + 1 \in 1 .. w
            /\ (w - ((w - k) + 1)) + 1 = k
        BY <1>1, <3>2
      <4>2. new[k] = v[(w - k) + 1]
        BY <1>8, <2>3, <2>9, <4>1
      <4>3. v[(w - k) + 1] = in_buf[i + k]
        <5>1. v[(w - k) + 1] = old[(w - ((w - k) + 1)) + 1]
          BY <1>4, <2>3, <4>1
        <5>2. old[k] = in_buf[i + k]
          BY <1>3
        <5> QED BY <4>1, <5>1, <5>2
      <4> QED BY <3>2, <4>2, <4>3
    <3> QED BY <3>1, <3>2
  <2>11. Put(in_buf, i, new) = Put(in_buf, i + h, e)
    <3>1. h \in Nat /\ w \in Nat /\ h + h <= w
      <4>1. h + h <= h + h
        BY <1>1
      <4> QED BY <1>1, <4>1
    <3>3. HasPart(new, i, w, h, h, e)
      BY <2>10 DEF HasPart
    <3>2. e \in [1 .. h -> Byte]
      BY <2>7, <2>8
    <3>4. new \in [1 .. w -> Byte]
      BY <1>12
    <3>5. i \in Nat /\ i + w <= len
      OBVIOUS
    <3>6. \A part \in [1 .. h -> Byte] :
            HasPart(new, i, w, h, h, part) => Put(in_buf, i, new) = Put(in_buf, i + h, part)
      BY <3>1, <3>4, <3>5, PutPart, SMTT(30)
    <3> QED BY <3>2, <3>3, <3>6
  <2>12. c1 \in Changes(h) /\ Altered(half, c1) = e
    <3>1. c1 \in Changes(h)
      BY <1>1 DEF Changes
    <3>2. c1[1] = c[1] /\ c1[2] = (h # 1) /\ c1[3] = c[3]
      OBVIOUS
    <3> HIDE DEF c1
    <3>3. CASE h = 1
      <4>1. Altered(half, c1) = Add(half, d)
        BY <3>2, <3>3 DEF Altered, d
      <4>2. Add(half, d) = t
        BY <2>7, <3>3 DEF t
      <4> QED BY <2>7, <2>8, <3>1, <3>3, <4>1, <4>2
    <3>4. CASE h # 1
      <4>1. Altered(half, c1) = Swap(t)
        BY <3>2, <3>4 DEF Altered, d, t
      <4> QED BY <2>8, <3>1, <4>1
    <3> QED BY <3>3, <3>4
  <2> HIDE DEF c1
  <2>13. Known(Put(in_buf, i + h, Altered(half, c1)))
    <3>1. i + h \in Nat /\ (i + h) + h <= len
      BY <1>1 DEF InputIs
    <3> QED BY <2>12, <3>1 DEF AddsAll, half, h
  <2> QED BY <2>11, <2>12, <2>13 DEF new
<1> QED
  BY <1>1, <1>13, <1>14

---------------------------------------------------------------------------
(* A difference can be taken back. *)

\* A number of 16 bits.
Is16(x) == x \in Nat /\ x < 65536

\* A 16-bit word and its two bytes.
LEMMA Value16Is ==
  ASSUME NEW v \in [1 .. 2 -> Byte]
  PROVE  Is16(Value16(v)) /\ Bytes(Value16(v), 2) = v
<1> DEFINE x == Value16(v)
<1>1. v[1] \in Byte /\ v[2] \in Byte
  OBVIOUS
<1>2. x = v[1] + 256 * v[2]
  BY DEF Value16
<1>3. x \in Nat /\ x < 65536 /\ x % 256 = v[1] /\ (x \div 256) % 256 = v[2] /\ x \div 1 = x
  <2>1. \A a, b \in Int : 0 <= a /\ a < 256 /\ 0 <= b /\ b < 256 =>
          /\ a + 256 * b \in Nat /\ a + 256 * b < 65536 /\ (a + 256 * b) % 256 = a
          /\ ((a + 256 * b) \div 256) % 256 = b /\ (a + 256 * b) \div 1 = a + 256 * b
    BY SMT
  <2>2. /\ v[1] \in Int /\ 0 <= v[1] /\ v[1] < 256
        /\ v[2] \in Int /\ 0 <= v[2] /\ v[2] < 256
    BY <1>1 DEF Byte
  <2> HIDE DEF x
  <2> QED BY <1>2, <2>1, <2>2, SMT
<1> HIDE DEF x
<1>4. Bytes(x, 2)[1] = v[1] /\ Bytes(x, 2)[2] = v[2]
  <2>1. Bytes(x, 2)[1] = (x \div 1) % 256 /\ Bytes(x, 2)[2] = (x \div 256) % 256
    BY SMT DEF Bytes
  <2>2. (x \div 1) % 256 = v[1]
    BY <1>3, SMT
  <2> QED BY <1>3, <2>1, <2>2, SMT
<1>5. \A k \in 1 .. 2 : Bytes(x, 2)[k] = v[k]
  BY <1>4
<1>6. Bytes(x, 2) \in [1 .. 2 -> Byte]
  <2>1. x \in Int
    BY <1>3, SMT
  <2> QED BY <2>1, TwoBytes
<1>7. Bytes(x, 2) = v
  BY <1>5, <1>6, SameBuf
<1>8. Is16(x)
  BY <1>3, SMT DEF Is16
<1> QED
  BY <1>7, <1>8 DEF x

\* Two bytes make the 16-bit word they were taken from.
LEMMA Bytes16Is ==
  ASSUME NEW x, Is16(x)
  PROVE  Value16(Bytes(x, 2)) = x
<1>1. Bytes(x, 2)[1] = (x \div 1) % 256 /\ Bytes(x, 2)[2] = (x \div 256) % 256
  BY SMT DEF Bytes
<1>2. x \in Int /\ 0 <= x /\ x < 65536
  BY SMT DEF Is16
<1>3. x = ((x \div 1) % 256) + 256 * ((x \div 256) % 256)
  BY <1>2, SMT
<1>4. Value16(Bytes(x, 2)) = Bytes(x, 2)[1] + 256 * Bytes(x, 2)[2]
  BY DEF Value16
<1> QED
  BY <1>1, <1>3, <1>4, SMT

\* What is left of a number in 16 bits, and what is carried.
Low(x) == x % 65536
High(x) == x \div 65536

\* Subtraction after an addition, with the carry.
LEMMA TakeBack ==
  /\ \A x \in Byte, d \in Int : (((x + d) % 256) + (0 - d)) % 256 = x
  /\ \A x, d : Is16(x) /\ d \in Int =>
       /\ Is16(Low(x + d)) /\ High(x + d) \in Int
       /\ Low(Low(x + d) + (0 - d)) = x
       /\ High(Low(x + d) + (0 - d)) = 0 - High(x + d)
<1>1. ASSUME NEW x \in Byte, NEW d \in Int
      PROVE  (((x + d) % 256) + (0 - d)) % 256 = x
  <2>1. x \in Int /\ 0 <= x /\ x < 256
    BY DEF Byte
  <2>2. PICK q \in Int, r \in Int : x + d = 256 * q + r /\ r = (x + d) % 256
    <3>1. x + d = 256 * ((x + d) \div 256) + ((x + d) % 256)
          /\ (x + d) \div 256 \in Int /\ (x + d) % 256 \in Int
      BY <2>1, SMT
    <3> DEFINE q == (x + d) \div 256
               r == (x + d) % 256
    <3>2. q \in Int /\ r \in Int /\ x + d = 256 * q + r /\ r = (x + d) % 256
      BY <3>1
    <3> HIDE DEF q, r
    <3> QED BY <3>2
  <2>3. r + (0 - d) = x + 256 * (0 - q)
    BY <2>1, <2>2, SMT
  <2>4. (x + 256 * (0 - q)) % 256 = x
    BY <2>1, SMT
  <2> QED BY <2>2, <2>3, <2>4
<1>2. ASSUME NEW x, NEW d, Is16(x), d \in Int
      PROVE  /\ Is16(Low(x + d)) /\ High(x + d) \in Int
             /\ Low(Low(x + d) + (0 - d)) = x
             /\ High(Low(x + d) + (0 - d)) = 0 - High(x + d)
  <2>1. x \in Int /\ 0 <= x /\ x < 65536 /\ d \in Int
    BY <1>2, SMT DEF Is16
  <2>2. /\ x + d = 65536 * High(x + d) + Low(x + d)
        /\ High(x + d) \in Int /\ Low(x + d) \in Int
        /\ 0 <= Low(x + d) /\ Low(x + d) < 65536
    BY <2>1, SMT DEF High, Low
  <2>3. PICK q \in Int, r \in Int : x + d = 65536 * q + r /\ r = Low(x + d) /\ q = High(x + d)
    BY <2>2, SMT
  <2>4. r + (0 - d) = x + 65536 * (0 - q)
    BY <2>1, <2>3, SMT
  <2>5. Low(x + 65536 * (0 - q)) = x /\ High(x + 65536 * (0 - q)) = 0 - q
    BY <2>1, SMT DEF Low, High
  <2>6. Is16(Low(x + d))
    BY <2>2, SMT DEF Is16
  <2> QED BY <2>2, <2>3, <2>4, <2>5, <2>6
<1> QED
  BY <1>1, <1>2

\* 32 bits are added by halves: those of the sum are sums of those of the word.
HasHalves(sum, v, d) ==
  LET low == Value16(Word(v, 0, 2)) + d
      high == Value16(Word(v, 2, 2)) + High(low)
  IN /\ Is16(Value16(Word(v, 0, 2))) /\ Is16(Value16(Word(v, 2, 2)))
     /\ Word(sum, 0, 2) = Bytes(Low(low), 2) /\ Word(sum, 2, 2) = Bytes(Low(high), 2)

\* That is how Add32() does it.
LEMMA HalvesIs ==
  ASSUME NEW v \in [1 .. 4 -> Byte], NEW d \in Int
  PROVE  HasHalves(Add(v, d), v, d)
<1> DEFINE l == Word(v, 0, 2)
           h == Word(v, 2, 2)
           low == Value16(l) + d
           high == Value16(h) + High(low)
           p == Bytes(Low(low), 2)
           q == Bytes(Low(high), 2)
           sum == Add(v, d)
<1>1. Copied(l, v, 0, 2) /\ Copied(h, v, 2, 2)
  <2>1. 0 \in Nat /\ 2 \in Nat /\ 4 \in Nat /\ 0 + 2 <= 4 /\ 2 + 2 <= 4
    OBVIOUS
  <2> QED BY <2>1, WordIs
<1>2. sum = p \o q
  <2>1. Len(v) # 1 /\ Len(v) # 2
    OBVIOUS
  <2>2. Add(v, d) = Add32(v, d)
    BY <2>1, SMT DEF Add
  <2>3. Add32(v, d) = p \o q
    BY SMT DEF Add32, High, Low
  <2> QED BY <2>2, <2>3
<1>3. sum \in [1 .. 4 -> Byte]
  BY AddFour
<1> HIDE DEF l, h, sum
<1>4. Is16(Value16(l)) /\ Is16(Value16(h))
  <2>1. l \in [1 .. 2 -> Byte] /\ h \in [1 .. 2 -> Byte]
    BY <1>1 DEF Copied
  <2> QED BY <2>1, Value16Is
<1>5. Low(low) \in Int /\ Low(high) \in Int
  <2>1. Is16(Low(low)) /\ High(low) \in Int
    BY <1>4, TakeBack
  <2>2. Is16(Low(high))
    <3> DEFINE c == High(low)
    <3>1. c \in Int
      BY <2>1
    <3> HIDE DEF c
    <3>2. Is16(Low(Value16(h) + c))
      BY <1>4, <3>1, TakeBack
    <3> QED BY <3>2 DEF c
  <2> HIDE DEF low, high
  <2> QED BY <2>1, <2>2, SMT DEF Is16
<1> HIDE DEF low, high
<1>6. p \in [1 .. 2 -> Byte] /\ q \in [1 .. 2 -> Byte]
  BY <1>5, TwoBytes
<1> HIDE DEF p, q
<1>7. Joined(sum, p, q, 2, 2)
  BY <1>2, <1>6, JoinIs
<1>8. Copied(Word(sum, 0, 2), sum, 0, 2) /\ Copied(Word(sum, 2, 2), sum, 2, 2)
  <2>1. 0 \in Nat /\ 2 \in Nat /\ 4 \in Nat /\ 0 + 2 <= 4 /\ 2 + 2 <= 4
    OBVIOUS
  <2> QED BY <1>3, <2>1, WordIs
<1>9. \A k \in 1 .. 2 : sum[0 + k] = p[k] /\ sum[2 + k] = q[k]
  BY <1>7 DEF Joined
<1>10. Word(sum, 0, 2) = p /\ Word(sum, 2, 2) = q
  <2>1. /\ Word(sum, 0, 2) \in [1 .. 2 -> Byte] /\ Word(sum, 2, 2) \in [1 .. 2 -> Byte]
        /\ \A k \in 1 .. 2 : Word(sum, 0, 2)[k] = p[k] /\ Word(sum, 2, 2)[k] = q[k]
    BY <1>8, <1>9 DEF Copied
  <2>2. Word(sum, 0, 2) = p
    BY <1>6, <2>1, SameBuf
  <2>3. Word(sum, 2, 2) = q
    BY <1>6, <2>1, SameBuf
  <2> QED BY <2>2, <2>3
<1> QED
  BY <1>4, <1>10 DEF l, h, low, high, p, q, sum, HasHalves

\* Words of 32 bits with the same halves are the same.
LEMMA SameHalves ==
  ASSUME NEW a \in [1 .. 4 -> Byte], NEW b \in [1 .. 4 -> Byte],
         Word(a, 0, 2) = Word(b, 0, 2), Word(a, 2, 2) = Word(b, 2, 2)
  PROVE  a = b
<1>1. /\ Copied(Word(a, 0, 2), a, 0, 2) /\ Copied(Word(a, 2, 2), a, 2, 2)
      /\ Copied(Word(b, 0, 2), b, 0, 2) /\ Copied(Word(b, 2, 2), b, 2, 2)
  <2>1. 0 \in Nat /\ 2 \in Nat /\ 4 \in Nat /\ 0 + 2 <= 4 /\ 2 + 2 <= 4
    OBVIOUS
  <2> QED BY <2>1, WordIs
<1>2. \A k \in 1 .. 2 : a[0 + k] = b[0 + k] /\ a[2 + k] = b[2 + k]
  BY <1>1 DEF Copied
<1>3. \A k \in 1 .. 4 : a[k] = b[k]
  <2>1. 1 \in 1 .. 2 /\ 2 \in 1 .. 2 /\ 0 + 1 = 1 /\ 0 + 2 = 2 /\ 2 + 1 = 3 /\ 2 + 2 = 4
    OBVIOUS
  <2>2. a[1] = b[1] /\ a[2] = b[2] /\ a[3] = b[3] /\ a[4] = b[4]
    BY <1>2, <2>1
  <2> QED BY <2>2
<1> QED
  BY <1>3, SameBuf

\* What was added can be subtracted again.
LEMMA AddInverse ==
  ASSUME NEW w \in {1, 2, 4}, NEW v \in [1 .. w -> Byte], NEW d \in Int
  PROVE  Add(Add(v, d), 0 - d) = v
<1> DEFINE sum == Add(v, d)
           back == Add(sum, 0 - d)
<1>0. 0 - d \in Int
  OBVIOUS
<1>1. sum \in [1 .. w -> Byte]
  BY AddTyped
<1>2. back \in [1 .. w -> Byte]
  <2> HIDE DEF sum
  <2> QED BY <1>0, <1>1, AddTyped
<1>3. CASE w = 1
  <2>1. sum[1] = (v[1] + d) % 256
    BY <1>3, AddOne
  <2>2. back[1] = (sum[1] + (0 - d)) % 256
    <3> HIDE DEF sum
    <3> QED BY <1>0, <1>1, <1>3, AddOne
  <2>3. v[1] \in Byte
    BY <1>3
  <2>4. back[1] = v[1]
    <3> HIDE DEF sum, back
    <3>1. (((v[1] + d) % 256) + (0 - d)) % 256 = v[1]
      BY <2>3, TakeBack
    <3> QED BY <2>1, <2>2, <3>1
  <2> HIDE DEF back
  <2>5. \A k \in 1 .. w : back[k] = v[k]
    BY <1>3, <2>4
  <2>6. back = v
    BY <1>2, <2>5, SameBuf
  <2> QED BY <2>6 DEF back
<1>4. CASE w = 2
  <2> DEFINE x == Value16(v)
             y == Low(x + d)
  <2>1. Is16(x) /\ Bytes(x, 2) = v
    BY <1>4, Value16Is
  <2>2. Len(v) = 2 /\ Len(sum) = 2
    <3> HIDE DEF sum
    <3> QED BY <1>1, <1>4
  <2>3. sum = Bytes(y, 2)
    BY <2>2, SMT DEF Add, Low
  <2>4. back = Bytes(Low(Value16(sum) + (0 - d)), 2)
    <3> HIDE DEF sum
    <3> QED BY <2>2, SMT DEF Add, Low
  <2> HIDE DEF x
  <2>5. Is16(y) /\ Low(y + (0 - d)) = x
    BY <2>1, TakeBack
  <2> HIDE DEF y, sum
  <2>6. Value16(sum) = y
    BY <2>3, <2>5, Bytes16Is
  <2>7. back = v
    BY <2>1, <2>4, <2>5, <2>6
  <2> QED BY <2>7 DEF sum
<1>5. CASE w = 4
  <2> DEFINE l == Value16(Word(v, 0, 2))
             h == Value16(Word(v, 2, 2))
             q == High(l + d)
             sl == Value16(Word(sum, 0, 2))
             sh == Value16(Word(sum, 2, 2))
  <2>1. v \in [1 .. 4 -> Byte] /\ sum \in [1 .. 4 -> Byte] /\ back \in [1 .. 4 -> Byte]
    BY <1>1, <1>2, <1>5
  <2>2. /\ Is16(l) /\ Is16(h)
        /\ Word(sum, 0, 2) = Bytes(Low(l + d), 2)
        /\ Word(sum, 2, 2) = Bytes(Low(h + q), 2)
    <3>1. HasHalves(sum, v, d)
      BY <2>1, HalvesIs
    <3> QED BY <3>1 DEF HasHalves
  <2> HIDE DEF sum
  <2>3. /\ Word(back, 0, 2) = Bytes(Low(sl + (0 - d)), 2)
        /\ Word(back, 2, 2) = Bytes(Low(sh + High(sl + (0 - d))), 2)
    <3>1. HasHalves(back, sum, 0 - d)
      BY <1>0, <2>1, HalvesIs
    <3> QED BY <3>1 DEF HasHalves
  <2> HIDE DEF l, h, back
  <2>4. /\ Is16(Low(l + d)) /\ q \in Int
        /\ Low(Low(l + d) + (0 - d)) = l
        /\ High(Low(l + d) + (0 - d)) = 0 - q
    BY <2>2, TakeBack
  <2> HIDE DEF q
  <2>5. Is16(Low(h + q)) /\ Low(Low(h + q) + (0 - q)) = h
    BY <2>2, <2>4, TakeBack
  <2>6. sl = Low(l + d) /\ sh = Low(h + q)
    BY <2>2, <2>4, <2>5, Bytes16Is
  <2> HIDE DEF sl, sh
  <2>7. Low(sl + (0 - d)) = l /\ Low(sh + High(sl + (0 - d))) = h
    BY <2>4, <2>5, <2>6
  <2>8. Word(back, 0, 2) = Bytes(l, 2) /\ Word(back, 2, 2) = Bytes(h, 2)
    BY <2>3, <2>7
  <2>9. Word(v, 0, 2) = Bytes(l, 2) /\ Word(v, 2, 2) = Bytes(h, 2)
    <3>1. Copied(Word(v, 0, 2), v, 0, 2) /\ Copied(Word(v, 2, 2), v, 2, 2)
      <4>1. 0 \in Nat /\ 2 \in Nat /\ 4 \in Nat /\ 0 + 2 <= 4 /\ 2 + 2 <= 4
        OBVIOUS
      <4> QED BY <2>1, <4>1, WordIs
    <3>2. Word(v, 0, 2) \in [1 .. 2 -> Byte] /\ Word(v, 2, 2) \in [1 .. 2 -> Byte]
      BY <3>1 DEF Copied
    <3> QED BY <3>2, Value16Is DEF l, h
  <2>10. back = v
    BY <2>1, <2>8, <2>9, SameHalves
  <2> QED BY <2>10 DEF back, sum
<1> QED
  BY <1>3, <1>4, <1>5

\* Nothing added, nothing changed.
LEMMA AddZero ==
  ASSUME NEW w \in {1, 2, 4}, NEW v \in [1 .. w -> Byte]
  PROVE  Add(v, 0) = v
<1>0. 0 \in Int /\ Add(v, 0) \in [1 .. w -> Byte]
  <2>1. 0 \in Int
    OBVIOUS
  <2> QED BY <2>1, AddTyped
<1>1. CASE w = 1
  <2>1. Add(v, 0)[1] = (v[1] + 0) % 256
    BY <1>0, <1>1, AddOne
  <2>2. v[1] \in Int /\ 0 <= v[1] /\ v[1] < 256
    <3>1. v[1] \in Byte
      BY <1>1
    <3>2. \A x \in Byte : x \in Int /\ 0 <= x /\ x < 256
      BY DEF Byte
    <3> QED BY <3>1, <3>2
  <2>3. Add(v, 0)[1] = v[1]
    BY <2>1, <2>2
  <2>4. \A k \in 1 .. w : Add(v, 0)[k] = v[k]
    BY <1>1, <2>3
  <2> QED BY <1>0, <2>4, SameBuf
<1>2. CASE w = 2
  <2>1. Is16(Value16(v)) /\ Bytes(Value16(v), 2) = v
    BY <1>2, Value16Is
  <2>2. Len(v) = 2
    BY <1>2
  <2>3. Add(v, 0) = Bytes(Low(Value16(v) + 0), 2)
    BY <2>2, SMT DEF Add, Low
  <2>4. Low(Value16(v) + 0) = Value16(v)
    BY <2>1, SMT DEF Low, Is16
  <2> QED BY <2>1, <2>3, <2>4
<1>3. CASE w = 4
  <2> DEFINE l == Value16(Word(v, 0, 2))
             h == Value16(Word(v, 2, 2))
             sum == Add(v, 0)
  <2>1. v \in [1 .. 4 -> Byte] /\ sum \in [1 .. 4 -> Byte]
    BY <1>0, <1>3
  <2>2. HasHalves(sum, v, 0)
    BY <1>0, <2>1, HalvesIs
  <2> HIDE DEF sum
  <2>3. /\ Is16(l) /\ Is16(h) /\ Word(sum, 0, 2) = Bytes(Low(l + 0), 2)
        /\ Word(sum, 2, 2) = Bytes(Low(h + High(l + 0)), 2)
    BY <2>2 DEF HasHalves
  <2>4. Low(l + 0) = l /\ Low(h + High(l + 0)) = h
    <3> HIDE DEF l, h
    <3>1. \A x : Is16(x) => Low(x + 0) = x /\ High(x + 0) = 0
      BY SMT DEF Low, High, Is16
    <3> QED BY <2>3, <3>1
  <2>5. Word(v, 0, 2) = Bytes(l, 2) /\ Word(v, 2, 2) = Bytes(h, 2)
    <3>1. Copied(Word(v, 0, 2), v, 0, 2) /\ Copied(Word(v, 2, 2), v, 2, 2)
      <4>1. 0 \in Nat /\ 2 \in Nat /\ 4 \in Nat /\ 0 + 2 <= 4 /\ 2 + 2 <= 4
        OBVIOUS
      <4> QED BY <2>1, <4>1, WordIs
    <3>2. Word(v, 0, 2) \in [1 .. 2 -> Byte] /\ Word(v, 2, 2) \in [1 .. 2 -> Byte]
      BY <3>1 DEF Copied
    <3> QED BY <3>2, Value16Is
  <2>6. Word(sum, 0, 2) = Word(v, 0, 2) /\ Word(sum, 2, 2) = Word(v, 2, 2)
    BY <2>3, <2>4, <2>5
  <2>7. sum = v
    BY <2>1, <2>6, SameHalves
  <2> QED BY <2>7 DEF sum
<1> QED
  BY <1>1, <1>2, <1>3

\* Of two words that are near each other, one step of an arithmetic stage makes the second.
LEMMA NearChange ==
  ASSUME NEW w \in {1, 2, 4}, NEW a \in [1 .. w -> Byte], NEW b \in [1 .. w -> Byte],
         a # b, Near(a, b)
  PROVE  \E d \in 1 .. ARITH_MAX, s \in {1, -1} : Add(a, s * d) = b
<1>1. PICK d \in 0 .. ARITH_MAX : Add(a, d) = b \/ Add(b, d) = a
  BY DEF Near
<1>2. d # 0
  BY <1>1, AddZero
<1>3. d \in 1 .. ARITH_MAX /\ d \in Int /\ 1 * d = d /\ (-1) * d = 0 - d
  BY <1>2, StagesAssumption
<1>4. CASE Add(a, d) = b
  <2>1. Add(a, 1 * d) = b
    BY <1>3, <1>4
  <2> QED BY <1>3, <2>1
<1>5. CASE Add(b, d) = a
  <2>1. Add(Add(b, d), 0 - d) = b
    BY <1>3, AddInverse
  <2>2. Add(a, (-1) * d) = b
    BY <1>3, <1>5, <2>1
  <2> QED BY <1>3, <2>2
<1> QED
  BY <1>1, <1>4, <1>5

---------------------------------------------------------------------------
(* could_be_arith() *)

\* A word within a word of the input.
LEMMA WordWord ==
  ASSUME InputIs, NEW i \in Nat, NEW w \in Nat, i + w <= len, NEW j \in Nat, NEW u \in Nat,
         j + u <= w
  PROVE  Word(Word(in_buf, i, w), j, u) = Word(in_buf, i + j, u)
<1> DEFINE old == Word(in_buf, i, w)
           a == Word(old, j, u)
           b == Word(in_buf, i + j, u)
<1>1. old \in [1 .. w -> Byte] /\ \A k \in 1 .. w : old[k] = in_buf[i + k]
  BY OldIs DEF Copied
<1> HIDE DEF old
<1>2. Copied(a, old, j, u)
  BY <1>1, WordIs
<1>3. Copied(b, in_buf, i + j, u)
  <2>1. i + j \in Nat /\ (i + j) + u <= len
    BY DEF InputIs
  <2> QED BY <2>1, OldIs
<1> HIDE DEF a, b
<1>4. \A k \in 1 .. u : a[k] = b[k]
  <2> TAKE k \in 1 .. u
  <2>1. j + k \in 1 .. w /\ i + (j + k) = (i + j) + k
    OBVIOUS
  <2> QED BY <1>1, <1>2, <1>3, <2>1 DEF Copied
<1>5. a = b
  BY <1>2, <1>3, <1>4, SameBuf DEF Copied
<1> QED
  BY <1>5, Zenon DEF a, b, old

\* Which part of u bytes a byte is in.
LEMMA PartOf ==
  ASSUME NEW w \in {1, 2, 4}, NEW u \in {1, 2, 4}, u <= w
  PROVE  /\ \A k \in 0 .. (w \div u) - 1 : k * u \in Nat /\ k * u + u <= w
         /\ \A x \in 1 .. w : \E k \in 0 .. (w \div u) - 1 : x - k * u \in 1 .. u
<1>1. CASE u = 1
  <2>1. \A k \in 0 .. (w \div u) - 1 : k * u \in Nat /\ k * u + u <= w
    BY <1>1
  <2>2. ASSUME NEW x \in 1 .. w PROVE x - 1 \in 0 .. (w \div u) - 1 /\ x - (x - 1) * u \in 1 .. u
    BY <1>1
  <2> QED BY <2>1, <2>2
<1>2. CASE u = 2
  <2>1. \A k \in 0 .. (w \div u) - 1 : k * u \in Nat /\ k * u + u <= w
    BY <1>2
  <2>2. ASSUME NEW x \in 1 .. w
        PROVE  (x - 1) \div 2 \in 0 .. (w \div u) - 1 /\ x - ((x - 1) \div 2) * u \in 1 .. u
    BY <1>2
  <2> QED BY <2>1, <2>2
<1>3. CASE u = 4
  <2>1. \A k \in 0 .. (w \div u) - 1 : k * u \in Nat /\ k * u + u <= w
    BY <1>3
  <2>2. ASSUME NEW x \in 1 .. w PROVE 0 \in 0 .. (w \div u) - 1 /\ x - 0 * u \in 1 .. u
    BY <1>3
  <2> QED BY <2>1, <2>2
<1> QED
  BY <1>1, <1>2, <1>3

\* Words that differ in one part of u bytes, the k-th.
PartDiffers(old, new, w, u, k) ==
  /\ k \in 0 .. (w \div u) - 1 /\ k * u \in Nat /\ k * u + u <= w
  /\ Word(old, k * u, u) # Word(new, k * u, u)
  /\ \A x \in 1 .. w : x \notin k * u + 1 .. k * u + u => new[x] = old[x]

\* Differing() says which.
LEMMA OneDiffers ==
  ASSUME NEW w \in {1, 2, 4}, NEW u \in {1, 2, 4}, u <= w,
         NEW old \in [1 .. w -> Byte], NEW new \in [1 .. w -> Byte],
         Cardinality(Differing(old, new, u)) = 1, NEW k \in Differing(old, new, u)
  PROVE  PartDiffers(old, new, w, u, k)
<1> DEFINE D == Differing(old, new, u)
           last == (w \div u) - 1
<1>1. Len(old) = w /\ w \in Nat /\ u \in Nat \ {0} /\ last \in Int
  OBVIOUS
<1>2. D = {j \in 0 .. last : Word(old, j * u, u) # Word(new, j * u, u)}
  BY <1>1 DEF Differing
<1>3. /\ \A j \in 0 .. last : j * u \in Nat /\ j * u + u <= w
      /\ \A x \in 1 .. w : \E j \in 0 .. last : x - j * u \in 1 .. u
  BY PartOf
<1> HIDE DEF last
<1>4. IsFiniteSet(D)
  <2>1. IsFiniteSet(0 .. last)
    BY <1>1, FS_Interval
  <2>2. D \subseteq 0 .. last
    BY <1>2
  <2> QED BY <2>1, <2>2, FS_Subset
<1>5. Cardinality(D) = 1 /\ k \in D
  OBVIOUS
<1> HIDE DEF D
<1>6. D = {k}
  BY <1>4, <1>5, FS_Singleton
<1>7. ASSUME NEW x \in 1 .. w, x \notin k * u + 1 .. k * u + u PROVE new[x] = old[x]
  <2>1. PICK j \in 0 .. last : x - j * u \in 1 .. u
    BY <1>3
  <2>2. j * u \in Nat /\ j * u + u <= w /\ k * u \in Nat
    BY <1>2, <1>3, <1>5
  <2>3. j # k
    BY <1>1, <1>7, <2>1, <2>2
  <2>4. Word(old, j * u, u) = Word(new, j * u, u)
    BY <1>2, <1>6, <2>3
  <2>5. Copied(Word(old, j * u, u), old, j * u, u) /\ Copied(Word(new, j * u, u), new, j * u, u)
    BY <1>1, <2>2, WordIs
  <2> DEFINE m == x - j * u
  <2>6. m \in 1 .. u /\ j * u + m = x
    BY <2>1, <2>2
  <2> HIDE DEF m
  <2> QED BY <2>4, <2>5, <2>6 DEF Copied
<1>8. k \in 0 .. last /\ Word(old, k * u, u) # Word(new, k * u, u)
  BY <1>2, <1>5
<1>9. k * u \in Nat /\ k * u + u <= w
  BY <1>3, <1>8
<1> QED
  BY <1>7, <1>8, <1>9 DEF PartDiffers, last

\* A change of one part of a word, near to what it was, is one of an arithmetic stage.
LEMMA PartAdded ==
  ASSUME InputIs, NEW i \in Nat, NEW w \in {1, 2, 4}, i + w <= len, NEW new \in [1 .. w -> Byte],
         NEW u \in {1, 2, 4}, AddsAll(u), NEW k, PartDiffers(Word(in_buf, i, w), new, w, u, k),
         NEW a, a = Word(Word(in_buf, i, w), k * u, u), NEW b, b = Word(new, k * u, u),
         Near(a, b) \/ (u > 1 /\ Near(Swap(a), Swap(b)))
  PROVE  Known(Put(in_buf, i, new))
<1> DEFINE old == Word(in_buf, i, w)
           j == k * u
<1>1. /\ j \in Nat /\ j + u <= w /\ a # b
      /\ \A x \in 1 .. w : x \notin j + 1 .. j + u => new[x] = old[x]
  BY DEF PartDiffers
<1>2. w \in Nat /\ u \in Nat
  OBVIOUS
<1>3. Copied(old, in_buf, i, w)
  BY <1>2, OldIs
<1>4. a = Word(in_buf, i + j, u)
  BY <1>1, <1>2, WordWord
<1>5. Copied(b, new, j, u)
  BY <1>1, <1>2, WordIs
<1> HIDE DEF old, j
<1>6. i + j \in Nat /\ (i + j) + u <= len
  BY <1>1, <1>2 DEF InputIs
<1>7. Copied(a, in_buf, i + j, u)
  BY <1>2, <1>4, <1>6, OldIs
<1>8. a \in [1 .. u -> Byte] /\ b \in [1 .. u -> Byte]
  BY <1>5, <1>7 DEF Copied
<1>9. HasPart(new, i, w, j, u, b)
  <2>1. ASSUME NEW x \in 1 .. w
        PROVE  new[x] = IF x \in j + 1 .. j + u THEN b[x - j] ELSE in_buf[i + x]
    <3>1. CASE x \in j + 1 .. j + u
      <4>1. x - j \in 1 .. u /\ j + (x - j) = x
        BY <1>1, <1>2, <3>1
      <4> QED BY <1>5, <3>1, <4>1 DEF Copied
    <3>2. CASE x \notin j + 1 .. j + u
      BY <1>1, <1>3, <3>2 DEF Copied
    <3> QED BY <3>1, <3>2
  <2> QED BY <2>1 DEF HasPart
<1>10. Put(in_buf, i, new) = Put(in_buf, i + j, b)
  BY <1>1, <1>2, <1>8, <1>9, PutPart
<1>11. ASSUME NEW c \in Changes(u), Altered(a, c) = b PROVE Known(Put(in_buf, i, new))
  BY <1>4, <1>6, <1>10, <1>11 DEF AddsAll
<1>12. CASE Near(a, b)
  <2>1. PICK d \in 1 .. ARITH_MAX, s \in {1, -1} : Add(a, s * d) = b
    BY <1>1, <1>8, <1>12, NearChange
  <2> DEFINE c == <<d, FALSE, s>>
  <2>2. c \in Changes(u)
    BY DEF Changes
  <2>3. c[1] = d /\ c[2] = FALSE /\ c[3] = s
    OBVIOUS
  <2> HIDE DEF c
  <2>4. Altered(a, c) = b
    BY <2>1, <2>3 DEF Altered
  <2> QED BY <1>11, <2>2, <2>4
<1>13. CASE u > 1 /\ Near(Swap(a), Swap(b))
  <2>1. /\ Swap(a) \in [1 .. u -> Byte] /\ Swap(b) \in [1 .. u -> Byte]
        /\ Swap(Swap(a)) = a /\ Swap(Swap(b)) = b
    BY <1>2, <1>8, SwapIs
  <2>2. Swap(a) # Swap(b)
    BY <1>1, <2>1
  <2>3. PICK d \in 1 .. ARITH_MAX, s \in {1, -1} : Add(Swap(a), s * d) = Swap(b)
    BY <1>13, <2>1, <2>2, NearChange
  <2> DEFINE c == <<d, u # 1, s>>
  <2>4. c \in Changes(u)
    BY DEF Changes
  <2>5. c[1] = d /\ c[2] = (u # 1) /\ c[3] = s
    OBVIOUS
  <2> HIDE DEF c
  <2>6. u # 1
    BY <1>13
  <2>7. Altered(a, c) = b
    BY <2>1, <2>3, <2>5, <2>6 DEF Altered
  <2> QED BY <1>11, <2>4, <2>7
<1> QED
  BY <1>12, <1>13

\* Where no_arith left the additions out, could_be_arith() is wrong, but only of single bytes.
LEMMA ByteNeverAdded ==
  ASSUME InputIs, no_arith, NEW i \in Nat, i + 1 <= len, NEW new \in [1 .. 1 -> Byte],
         Word(in_buf, i, 1) # new, Near(Word(in_buf, i, 1), new)
  PROVE  Known(Put(in_buf, i, new))
<1> DEFINE old == Word(in_buf, i, 1)
           res == Put(in_buf, i, new)
<1>1. old \in [1 .. 1 -> Byte] /\ old[1] = in_buf[i + 1]
  <2>1. Copied(old, in_buf, i, 1)
    BY OldIs
  <2> QED BY <2>1 DEF Copied
<1>2. Near(old, new) /\ old # new
  OBVIOUS
<1>3. Written(res, len, in_buf, i, 1, new)
  BY PutWritten DEF InputIs
<1> HIDE DEF old, res
<1>4. old = <<in_buf[i + 1]>>
  BY <1>1
<1>5. i + 1 \in 1 .. len /\ (i + 1) - i = 1 /\ i + 1 \in i + 1 .. i + 1 /\ (i + 1) - 1 = i
  BY DEF InputIs
<1>6. res[i + 1] = new[1]
  BY <1>3, <1>5 DEF Written
<1>7. new = <<res[i + 1]>>
  BY <1>6
<1>8. res[i + 1] # in_buf[i + 1]
  BY <1>2, <1>4, <1>7
<1>9. Changed(res) = {i}
  <2>1. DOMAIN res = 1 .. len
    BY <1>3 DEF Written
  <2>2. ASSUME NEW x \in Changed(res) PROVE x = i
    <3>1. PICK k \in 1 .. len : x = k - 1 /\ res[k] # in_buf[k]
      BY <2>1 DEF Changed
    <3>2. k \in i + 1 .. i + 1
      BY <1>3, <3>1 DEF Written
    <3> QED BY <3>1, <3>2 DEF InputIs
  <2>3. i \in Changed(res)
    BY <1>5, <1>8, <2>1 DEF Changed
  <2> QED BY <2>2, <2>3
<1>10. Cardinality(Changed(res)) = 1
  BY <1>9, FS_Singleton
<1>11. NeverAdded(res)
  BY <1>2, <1>4, <1>7, <1>9, <1>10 DEF NeverAdded
<1> QED
  BY <1>11 DEF Known, res

\* What could_be_arith() says is true of words whose additions are accounted for; without
\* additions it is asked of single bytes only.
LEMMA ArithKnown ==
  ASSUME InputIs, NEW i \in Nat, NEW w \in {1, 2, 4}, i + w <= len, NEW new \in [1 .. w -> Byte],
         could_be_arith(Word(in_buf, i, w), new),
         \/ \A u \in {1, 2, 4} : u <= w => AddsAll(u)
         \/ no_arith /\ w = 1
  PROVE  Known(Put(in_buf, i, new))
<1> DEFINE old == Word(in_buf, i, w)
<1>1. old \in [1 .. w -> Byte] /\ Len(old) = w /\ w \in Nat
  <2>1. w \in Nat
    OBVIOUS
  <2> QED BY <2>1, OldIs DEF Copied
<1>2. CASE old = new
  <2>1. Put(in_buf, i, old) = in_buf
    BY <1>1, PutSame DEF InputIs
  <2> QED BY <1>2, <2>1 DEF Known
<1>3. CASE old # new
  <2>0. could_be_arith(old, new)
    OBVIOUS
  <2>1. old = Word(in_buf, i, w)
    OBVIOUS
  <2> HIDE DEF old
  <2>2. PICK u \in {1, 2, 4} :
          /\ u <= w /\ Cardinality(Differing(old, new, u)) = 1
          /\ \E k \in Differing(old, new, u) :
               LET a == Word(old, k * u, u)
                   b == Word(new, k * u, u)
               IN Near(a, b) \/ (u > 1 /\ Near(Swap(a), Swap(b)))
    BY <1>1, <1>3, <2>0 DEF could_be_arith
  <2>3. PICK k \in Differing(old, new, u) :
          LET a == Word(old, k * u, u)
              b == Word(new, k * u, u)
          IN Near(a, b) \/ (u > 1 /\ Near(Swap(a), Swap(b)))
    BY <2>2
  <2>4. PartDiffers(old, new, w, u, k)
    BY <1>1, <2>2, OneDiffers
  <2> DEFINE a == Word(old, k * u, u)
             b == Word(new, k * u, u)
  <2>5. Near(a, b) \/ (u > 1 /\ Near(Swap(a), Swap(b)))
    BY <2>3
  <2>6. CASE \A x \in {1, 2, 4} : x <= w => AddsAll(x)
    <3>1. AddsAll(u)
      BY <2>2, <2>6
    <3>2. a = Word(Word(in_buf, i, w), k * u, u) /\ b = Word(new, k * u, u)
      BY <2>1
    <3>3. PartDiffers(Word(in_buf, i, w), new, w, u, k)
      BY <2>1, <2>4
    <3> HIDE DEF a, b
    <3> QED BY <2>5, <3>1, <3>2, <3>3, PartAdded
  <2>7. CASE no_arith /\ w = 1
    <3>1. u = 1 /\ k = 0 /\ k * u = 0
      BY <2>2, <2>4, <2>7 DEF PartDiffers
    <3>2. Word(old, 0, 1) = old /\ Word(new, 0, 1) = new
      <4>1. 0 \in Nat /\ 1 \in Nat /\ 0 + 1 <= 1 /\ 0 + 1 = 1
        OBVIOUS
      <4>2. Copied(Word(old, 0, 1), old, 0, 1) /\ Copied(Word(new, 0, 1), new, 0, 1)
        BY <1>1, <2>7, <4>1, WordIs
      <4>3. /\ Word(old, 0, 1) \in [1 .. 1 -> Byte] /\ Word(new, 0, 1) \in [1 .. 1 -> Byte]
            /\ \A x \in 1 .. 1 : Word(old, 0, 1)[x] = old[x] /\ Word(new, 0, 1)[x] = new[x]
        BY <4>1, <4>2 DEF Copied
      <4>4. old \in [1 .. 1 -> Byte] /\ new \in [1 .. 1 -> Byte]
        BY <1>1, <2>7
      <4>5. Word(old, 0, 1) = old
        BY <4>1, <4>3, <4>4, SameBuf
      <4>6. Word(new, 0, 1) = new
        BY <4>1, <4>3, <4>4, SameBuf
      <4> QED BY <4>5, <4>6
    <3>3. Near(old, new)
      BY <2>5, <3>1, <3>2
    <3>4. new \in [1 .. 1 -> Byte] /\ old = Word(in_buf, i, 1) /\ i + 1 <= len
      BY <2>1, <2>7
    <3> QED BY <1>3, <2>7, <3>3, <3>4, ByteNeverAdded
  <2> QED BY <2>6, <2>7
<1> QED
  BY <1>2, <1>3

---------------------------------------------------------------------------
(* could_be_interest() *)

\* Any number as a word of w bytes.
LEMMA BytesTyped ==
  ASSUME NEW x \in Int, NEW w \in {1, 2, 4}
  PROVE  Bytes(x, w) \in [1 .. w -> Byte]
<1> DEFINE t == <<1, 256, 65536, 16777216>>
<1>1. \A k \in 1 .. w : k = 1 \/ k = 2 \/ k = 3 \/ k = 4
  OBVIOUS
<1>2. t[1] \in Nat \ {0} /\ t[2] \in Nat \ {0} /\ t[3] \in Nat \ {0} /\ t[4] \in Nat \ {0}
  BY SMT
<1>3. Bytes(x, w) = [k \in 1 .. w |-> (x \div t[k]) % 256]
  BY SMT DEF Bytes
<1> HIDE DEF t
<1>4. ASSUME NEW k \in 1 .. w PROVE (x \div t[k]) % 256 \in Byte
  <2>1. PICK y \in Nat \ {0} : y = t[k]
    BY <1>1, <1>2
  <2>2. x \div y \in Int
    BY SMT
  <2>3. (x \div y) % 256 \in Byte
    BY <2>2, Remainders
  <2> QED BY <2>1, <2>3
<1> QED
  BY <1>3, <1>4

\* The interesting values are words.
LEMMA InterestingTyped ==
  ASSUME NEW w \in {1, 2, 4}, NEW j \in DOMAIN interesting[w]
  PROVE  interesting[w][j] \in [1 .. w -> Byte]
<1> DEFINE more == IF w > 1 THEN INTERESTING_16 ELSE << >>
           most == IF w > 2 THEN INTERESTING_32 ELSE << >>
           ints == INTERESTING_8 \o more \o most
<1>1. /\ INTERESTING_8 \in Seq(Int) /\ INTERESTING_16 \in Seq(Int) /\ INTERESTING_32 \in Seq(Int)
      /\ << >> \in Seq(Int)
  BY SMT DEF INTERESTING_8, INTERESTING_16, INTERESTING_32
<1>2. ints \in Seq(Int)
  <2>1. more \in Seq(Int) /\ most \in Seq(Int)
    BY <1>1
  <2> HIDE DEF more, most
  <2>2. INTERESTING_8 \o more \in Seq(Int)
    BY <1>1, <2>1, ConcatProperties
  <2> QED BY <2>1, <2>2, ConcatProperties
<1>3. interesting[w] = [k \in DOMAIN ints |-> Bytes(ints[k], w)]
  BY Zenon DEF interesting
<1> HIDE DEF ints
<1>4. j \in DOMAIN ints /\ interesting[w][j] = Bytes(ints[j], w)
  BY <1>3
<1>5. ints[j] \in Int
  BY <1>2, <1>4, ElementOfSeq, LenProperties
<1> QED
  BY <1>4, <1>5, BytesTyped

\* What an int stage writes is a word: a value, or the same from its other end.
LEMMA ChosenIs ==
  ASSUME NEW w \in {1, 2, 4}, NEW c \in Values(w)
  PROVE  /\ c[1] \in DOMAIN interesting[w] /\ c[2] \in BOOLEAN /\ (w = 1 => ~c[2])
         /\ Chosen(w, c) \in [1 .. w -> Byte]
         /\ c[2] => Chosen(w, c) = Swap(interesting[w][c[1]])
         /\ ~c[2] => Chosen(w, c) = interesting[w][c[1]]
<1> DEFINE D == DOMAIN interesting[w]
<1>1. c \in D \X (IF w = 1 THEN {FALSE} ELSE BOOLEAN)
  BY DEF Values
<1> HIDE DEF D
<1>2. c[1] \in D /\ c[2] \in (IF w = 1 THEN {FALSE} ELSE BOOLEAN)
  BY <1>1
<1>3. c[2] \in BOOLEAN /\ (w = 1 => c[2] = FALSE)
  BY <1>2
<1>4. interesting[w][c[1]] \in [1 .. w -> Byte]
  BY <1>2, InterestingTyped DEF D
<1>5. CASE c[2]
  <2>1. Chosen(w, c) = Swap(interesting[w][c[1]])
    BY <1>5, Zenon DEF Chosen
  <2>2. w \in Nat
    OBVIOUS
  <2>3. Swap(interesting[w][c[1]]) \in [1 .. w -> Byte]
    BY <1>4, <2>2, SwapIs
  <2> QED BY <1>2, <1>3, <1>5, <2>1, <2>3 DEF D
<1>6. CASE ~c[2]
  <2>1. Chosen(w, c) = interesting[w][c[1]]
    BY <1>6, Zenon DEF Chosen
  <2> QED BY <1>2, <1>3, <1>4, <1>6, <2>1 DEF D
<1> QED
  BY <1>3, <1>5, <1>6

\* A value is one of the stage for its width.
LEMMA ValueKnown ==
  ASSUME InputIs, NEW w \in {1, 2, 4}, IntsAll(w), NEW p \in Nat, p + w <= len,
         NEW j \in DOMAIN interesting[w]
  PROVE  /\ Known(Put(in_buf, p, interesting[w][j]))
         /\ w # 1 => Known(Put(in_buf, p, Swap(interesting[w][j])))
<1> DEFINE D == DOMAIN interesting[w]
<1>0. j \in D
  OBVIOUS
<1> HIDE DEF D
<1>1. <<j, FALSE>> \in Values(w)
  <2>1. Values(w) = D \X (IF w = 1 THEN {FALSE} ELSE BOOLEAN)
    BY DEF Values, D
  <2> QED BY <1>0, <2>1
<1>2. <<j, w # 1>> \in Values(w)
  <2>1. Values(w) = D \X (IF w = 1 THEN {FALSE} ELSE BOOLEAN)
    BY DEF Values, D
  <2> QED BY <1>0, <2>1
<1>3. Chosen(w, <<j, FALSE>>) = interesting[w][j]
  BY DEF Chosen
<1>4. w # 1 => Chosen(w, <<j, w # 1>>) = Swap(interesting[w][j])
  BY DEF Chosen
<1>5. \A c \in Values(w) : Known(Put(in_buf, p, Chosen(w, c)))
  BY DEF IntsAll
<1>6. Known(Put(in_buf, p, Chosen(w, <<j, FALSE>>)))
  BY <1>1, <1>5
<1>7. Known(Put(in_buf, p, Chosen(w, <<j, w # 1>>)))
  BY <1>2, <1>5
<1> QED
  BY <1>3, <1>4, <1>6, <1>7

\* What a stage is about to execute, or is accounted for.
Done(R, b) == b \in R \/ Known(b)

\* The values of this stage and offset that are written low byte first.
LittleDone(R, i, w) == \A j \in DOMAIN interesting[w] : Done(R, Put(in_buf, i, interesting[w][j]))

\* could_be_interest() says so only of the values of the stages for shorter words, and, if asked,
\* of those of the same stage that are written low byte first.
LEMMA InterestKnown ==
  ASSUME InputIs, NEW i \in Nat, NEW w \in {2, 4}, i + w <= len, NEW new \in [1 .. w -> Byte],
         NEW check_le, could_be_interest(Word(in_buf, i, w), new, check_le),
         IntsAll(1), w = 4 => IntsAll(2), NEW R, check_le => LittleDone(R, i, w)
  PROVE  Done(R, Put(in_buf, i, new))
<1> DEFINE old == Word(in_buf, i, w)
<1>0. w \in Nat /\ w \in {1, 2, 4}
  OBVIOUS
<1>1. old \in [1 .. w -> Byte] /\ Len(old) = w
  BY <1>0, OldIs DEF Copied
<1>2. ASSUME NEW u \in {1, 2, 4}, NEW q \in Nat, q + u <= w, NEW v \in [1 .. u -> Byte],
             Put(old, q, v) = new
      PROVE  /\ Put(in_buf, i, new) = Put(in_buf, i + q, v) /\ i + q \in Nat /\ (i + q) + u <= len
  <2>1. u \in Nat
    OBVIOUS
  <2>2. Put(in_buf, i, Put(old, q, v)) = Put(in_buf, i + q, v)
    BY <1>0, <1>2, <2>1, PutPut DEF InputIs
  <2>3. i + q \in Nat /\ (i + q) + u <= len
    <3> HIDE DEF old
    <3> QED BY <1>0, <1>2, <2>1 DEF InputIs
  <2> QED BY <1>2, <2>2, <2>3
<1>3. could_be_interest(old, new, check_le)
  OBVIOUS
<1>4. \/ old = new
      \/ \E q \in 0 .. w - 1, j \in DOMAIN interesting[1] : Put(old, q, interesting[1][j]) = new
      \/ /\ w > 2 \/ check_le
         /\ \E q \in 0 .. w - 2, j \in DOMAIN interesting[2] :
               \/ Put(old, q, interesting[2][j]) = new
               \/ w > 2 /\ Put(old, q, Swap(interesting[2][j])) = new
      \/ w = 4 /\ check_le /\ \E j \in DOMAIN interesting[4] : new = interesting[4][j]
  <2> HIDE DEF old
  <2> QED BY <1>1, <1>3, Zenon DEF could_be_interest
<1>5. CASE old = new
  <2>1. Put(in_buf, i, old) = in_buf
    BY <1>0, PutSame DEF InputIs
  <2> QED BY <1>5, <2>1 DEF Known, Done
<1>6. ASSUME NEW q \in 0 .. w - 1, NEW j \in DOMAIN interesting[1],
             Put(old, q, interesting[1][j]) = new
      PROVE  Done(R, Put(in_buf, i, new))
  <2>0. 1 \in {1, 2, 4}
    OBVIOUS
  <2>1. interesting[1][j] \in [1 .. 1 -> Byte]
    BY <2>0, InterestingTyped
  <2>2. q \in Nat /\ q + 1 <= w
    BY <1>0
  <2>3. /\ Put(in_buf, i, new) = Put(in_buf, i + q, interesting[1][j])
        /\ i + q \in Nat /\ (i + q) + 1 <= len
    BY <1>2, <1>6, <2>0, <2>1, <2>2
  <2>4. Known(Put(in_buf, i + q, interesting[1][j]))
    BY <2>0, <2>3, ValueKnown
  <2> QED BY <2>3, <2>4 DEF Done
<1>7. ASSUME NEW q \in 0 .. w - 2, NEW j \in DOMAIN interesting[2], w > 2 \/ check_le,
             \/ Put(old, q, interesting[2][j]) = new
             \/ w > 2 /\ Put(old, q, Swap(interesting[2][j])) = new
      PROVE  Done(R, Put(in_buf, i, new))
  <2> DEFINE v == interesting[2][j]
  <2>0. 2 \in {1, 2, 4} /\ 2 \in Nat /\ 2 # 1
    OBVIOUS
  <2>1. v \in [1 .. 2 -> Byte]
    BY <2>0, InterestingTyped
  <2>2. q \in Nat /\ q + 2 <= w
    BY <1>0
  <2>3. CASE w = 4
    <3>1. IntsAll(2)
      BY <2>3
    <3>2. CASE Put(old, q, v) = new
      <4>1. /\ Put(in_buf, i, new) = Put(in_buf, i + q, v)
            /\ i + q \in Nat /\ (i + q) + 2 <= len
        BY <1>2, <2>0, <2>1, <2>2, <3>2
      <4>2. Known(Put(in_buf, i + q, v))
        BY <2>0, <3>1, <4>1, ValueKnown
      <4> QED BY <4>1, <4>2 DEF Done
    <3>3. CASE Put(old, q, Swap(v)) = new
      <4>1. Swap(v) \in [1 .. 2 -> Byte]
        BY <2>0, <2>1, SwapIs
      <4>2. /\ Put(in_buf, i, new) = Put(in_buf, i + q, Swap(v))
            /\ i + q \in Nat /\ (i + q) + 2 <= len
        BY <1>2, <2>0, <2>2, <3>3, <4>1
      <4>3. Known(Put(in_buf, i + q, Swap(v)))
        BY <2>0, <3>1, <4>2, ValueKnown
      <4> QED BY <4>2, <4>3 DEF Done
    <3> QED BY <1>7, <3>2, <3>3
  <2>4. CASE w = 2
    <3>1. check_le /\ q = 0 /\ Put(old, q, v) = new
      BY <1>7, <2>4
    <3>2. /\ Put(in_buf, i, new) = Put(in_buf, i + q, v)
      BY <1>2, <2>0, <2>1, <2>2, <3>1
    <3>3. i + q = i
      BY <3>1
    <3>4. Done(R, Put(in_buf, i, v))
      BY <2>4, <3>1 DEF LittleDone
    <3> QED BY <3>2, <3>3, <3>4
  <2> QED BY <2>3, <2>4
<1>8. ASSUME NEW j \in DOMAIN interesting[4], w = 4, check_le, new = interesting[4][j]
      PROVE  Done(R, Put(in_buf, i, new))
  BY <1>8 DEF LittleDone
<1> HIDE DEF old
<1> QED
  BY <1>4, <1>5, <1>6, <1>7, <1>8

---------------------------------------------------------------------------
(* What a stage leaves out at an offset. *)

\* A change that an arithmetic stage leaves out.
LEMMA LeftOutAdded ==
  ASSUME InputIs, BitsAll, BytesAll, NEW i \in Nat, NEW w \in {1, 2, 4}, i + w <= len,
         w # 1 => AddsAll(w \div 2), NEW c \in Changes(w), ~Worthwhile(Word(in_buf, i, w), c)
  PROVE  Known(Put(in_buf, i, Altered(Word(in_buf, i, w), c)))
<1> DEFINE old == Word(in_buf, i, w)
           v == IF c[2] THEN Swap(old) ELSE old
<1>1. w \in Nat
  OBVIOUS
<1>2. old \in [1 .. w -> Byte]
  BY <1>1, OldIs DEF Copied
<1>3. ~Carries(v, c[3] * c[1]) \/ could_be_bitflip(Xor(old, Altered(old, c)))
  BY Zenon DEF Worthwhile
<1>4. CASE could_be_bitflip(Xor(old, Altered(old, c)))
  <2>1. Altered(old, c) \in [1 .. w -> Byte]
    <3> HIDE DEF old
    <3> QED BY <1>2, AlteredTyped
  <2> QED BY <1>1, <1>4, <2>1, BitflipKnown
<1>5. CASE ~Carries(v, c[3] * c[1]) /\ w # 1
  <2>1. w \in {2, 4}
    BY <1>5
  <2>2. AddsAll(w \div 2)
    BY <1>5
  <2>3. ~Carries(v, c[3] * c[1])
    BY <1>5
  <2> QED BY <2>1, <2>2, <2>3, CarryKnown
<1>6. CASE ~Carries(v, c[3] * c[1]) /\ w = 1
  <2>1. Swap(old) \in [1 .. w -> Byte] /\ c[2] \in BOOLEAN
    BY <1>1, <1>2, SwapIs, ChangeIs
  <2>2. Len(v) = 1
    <3> HIDE DEF old
    <3>1. v \in [1 .. 1 -> Byte]
      BY <1>2, <1>6, <2>1
    <3> QED BY <3>1
  <2> HIDE DEF v
  <2>3. Len(v) \div 2 = 0
    BY <2>2
  <2>4. Carries(v, c[3] * c[1])
    BY <2>3 DEF Carries
  <2> QED BY <1>6, <2>4
<1> QED
  BY <1>3, <1>4, <1>5, <1>6

\* The additions that could_be_arith() counts on.
AddsBelow(w) == (\A u \in {1, 2, 4} : u <= w => AddsAll(u)) \/ (no_arith /\ w = 1)

\* A value that an int stage leaves out.
LEMMA LeftOutValue ==
  ASSUME InputIs, BitsAll, BytesAll, NEW i \in Nat, NEW w \in {1, 2, 4}, i + w <= len,
         AddsBelow(w), w # 1 => IntsAll(1), w = 4 => IntsAll(2),
         NEW c \in Values(w), ~Fresh(Word(in_buf, i, w), c), NEW R, c[2] => LittleDone(R, i, w)
  PROVE  Done(R, Put(in_buf, i, Chosen(w, c)))
<1> DEFINE old == Word(in_buf, i, w)
           new == Chosen(w, c)
           v == interesting[w][c[1]]
<1>1. w \in Nat
  OBVIOUS
<1>2. /\ c[1] \in DOMAIN interesting[w] /\ c[2] \in BOOLEAN /\ (w = 1 => ~c[2])
      /\ new \in [1 .. w -> Byte]
      /\ c[2] => new = Swap(v)
      /\ ~c[2] => new = v
  BY ChosenIs
<1>3. Len(old) = w
  BY <1>1, OldIs DEF Copied
<1>4. \/ c[2] /\ new = Swap(new)
      \/ could_be_bitflip(Xor(old, new))
      \/ could_be_arith(old, new)
      \/ w > 1 /\ could_be_interest(old, new, c[2])
  <2>1. ~Fresh(old, c)
    OBVIOUS
  <2> HIDE DEF old
  <2> QED BY <1>3, <2>1, Zenon DEF Fresh
<1>5. CASE c[2] /\ new = Swap(new)
  <2>1. v \in [1 .. w -> Byte]
    BY <1>2, InterestingTyped
  <2>2. new = Swap(v)
    BY <1>2, <1>5
  <2>3. Swap(Swap(v)) = v
    BY <1>1, <2>1, SwapIs
  <2>4. new = v
    BY <1>5, <2>2, <2>3
  <2>5. Done(R, Put(in_buf, i, v))
    BY <1>2, <1>5 DEF LittleDone
  <2> QED BY <2>4, <2>5
<1>6. CASE could_be_bitflip(Xor(old, new))
  <2>1. Known(Put(in_buf, i, new))
    <3> HIDE DEF new
    <3> QED BY <1>1, <1>2, <1>6, BitflipKnown
  <2> QED BY <2>1 DEF Done
<1>7. CASE could_be_arith(old, new)
  <2>1. Known(Put(in_buf, i, new))
    <3> HIDE DEF new
    <3> QED BY <1>2, <1>7, ArithKnown DEF AddsBelow
  <2> QED BY <2>1 DEF Done
<1>8. CASE w > 1 /\ could_be_interest(old, new, c[2])
  <2>1. w \in {2, 4} /\ IntsAll(1) /\ (w = 4 => IntsAll(2))
    BY <1>8
  <2> DEFINE le == c[2]
  <2>2. could_be_interest(old, new, le) /\ (le => LittleDone(R, i, w))
    BY <1>8
  <2> HIDE DEF new, le
  <2>3. Done(R, Put(in_buf, i, new))
    BY <1>2, <2>1, <2>2, InterestKnown
  <2> QED BY <2>3 DEF new
<1> QED
  BY <1>4, <1>5, <1>6, <1>7, <1>8

\* So every value is executed by the stage or accounted for.
LEMMA ValuesDone ==
  ASSUME InputIs, BitsAll, BytesAll, NEW i \in Nat, NEW w \in {1, 2, 4}, i + w <= len,
         AddsBelow(w), w # 1 => IntsAll(1), w = 4 => IntsAll(2), NEW R,
         \A c \in Values(w) : Fresh(Word(in_buf, i, w), c) => Put(in_buf, i, Chosen(w, c)) \in R
  PROVE  \A c \in Values(w) : Done(R, Put(in_buf, i, Chosen(w, c)))
<1>1. LittleDone(R, i, w)
  <2> SUFFICES ASSUME NEW j \in DOMAIN interesting[w]
               PROVE  Done(R, Put(in_buf, i, interesting[w][j]))
    BY DEF LittleDone
  <2> DEFINE D == DOMAIN interesting[w]
             c == <<j, FALSE>>
  <2>1. c \in Values(w)
    <3>0. j \in D
      OBVIOUS
    <3> HIDE DEF D
    <3>1. Values(w) = D \X (IF w = 1 THEN {FALSE} ELSE BOOLEAN)
      BY DEF Values, D
    <3> QED BY <3>0, <3>1
  <2>2. Chosen(w, c) = interesting[w][j]
    BY DEF Chosen
  <2>3. ~c[2]
    OBVIOUS
  <2> HIDE DEF c
  <2>4. CASE Fresh(Word(in_buf, i, w), c)
    BY <2>1, <2>2, <2>4 DEF Done
  <2>5. CASE ~Fresh(Word(in_buf, i, w), c)
    <3>1. Done(R, Put(in_buf, i, Chosen(w, c)))
      BY <2>1, <2>3, <2>5, LeftOutValue
    <3> QED BY <2>2, <3>1
  <2> QED BY <2>4, <2>5
<1>2. ASSUME NEW c \in Values(w) PROVE Done(R, Put(in_buf, i, Chosen(w, c)))
  <2>1. CASE Fresh(Word(in_buf, i, w), c)
    BY <2>1 DEF Done
  <2>2. CASE ~Fresh(Word(in_buf, i, w), c)
    BY <1>1, <2>2, LeftOutValue
  <2> QED BY <2>1, <2>2
<1> QED
  BY <1>2

---------------------------------------------------------------------------
(* What is behind the stages. *)

\* The width of a stage, and how far it goes.
W(s) == Width[Names[s]]

\* The deterministic stages by their numbers.
LEMMA StagesAre ==
  /\ \A s \in 1 .. 3 : Names[s] \in FlipBits
  /\ \A s \in 4 .. 6 : Names[s] \in FlipBytes
  /\ \A s \in 7 .. 9 : Names[s] \in Ariths
  /\ \A s \in 10 .. 12 : Names[s] \in Ints
  /\ \A s \in 1 .. 12 : W(s) \in {1, 2, 4}
  /\ W(1) = 1 /\ W(2) = 2 /\ W(3) = 4 /\ W(4) = 1 /\ W(5) = 2 /\ W(6) = 4
  /\ W(7) = 1 /\ W(8) = 2 /\ W(9) = 4 /\ W(10) = 1 /\ W(11) = 2 /\ W(12) = 4
  /\ \A s \in 1 .. 17 : /\ Names[s] \in FlipBits => s \in 1 .. 3
                        /\ Names[s] \in FlipBytes => s \in 4 .. 6
                        /\ Names[s] \in Ariths => s \in 7 .. 9
                        /\ Names[s] \in Ints => s \in 10 .. 12
                        /\ Names[s] \in {"int16", "int32"} <=> s \in 11 .. 12
                        /\ Names[s] = "flip8" <=> s = 4
                        /\ Names[s] = "ext_UI" => s = 14
                        /\ Names[s] \in {"ext_UO", "ext_AO"} => s \in {13, 15}
<1> USE DEF Names, Width, W, FlipBits, FlipBytes, Ariths, Ints
<1>1. \A s \in 1 .. 12 : s = 1 \/ s = 2 \/ s = 3 \/ s = 4 \/ s = 5 \/ s = 6 \/ s = 7 \/ s = 8
                          \/ s = 9 \/ s = 10 \/ s = 11 \/ s = 12
  OBVIOUS
<1>2. /\ W(1) = 1 /\ W(2) = 2 /\ W(3) = 4 /\ W(4) = 1 /\ W(5) = 2 /\ W(6) = 4
      /\ W(7) = 1 /\ W(8) = 2 /\ W(9) = 4 /\ W(10) = 1 /\ W(11) = 2 /\ W(12) = 4
  OBVIOUS
<1>3. \A s \in 1 .. 12 : W(s) \in {1, 2, 4}
  <2> HIDE DEF W
  <2> QED BY <1>1, <1>2
<1>4. /\ \A s \in 1 .. 3 : Names[s] \in FlipBits
      /\ \A s \in 4 .. 6 : Names[s] \in FlipBytes
      /\ \A s \in 7 .. 9 : Names[s] \in Ariths
      /\ \A s \in 10 .. 12 : Names[s] \in Ints
  OBVIOUS
<1>5. \A s \in 1 .. 17 : /\ Names[s] \in FlipBits => s \in 1 .. 3
                         /\ Names[s] \in FlipBytes => s \in 4 .. 6
                         /\ Names[s] \in Ariths => s \in 7 .. 9
                         /\ Names[s] \in Ints => s \in 10 .. 12
  OBVIOUS
<1>6. \A s \in 1 .. 17 : /\ Names[s] \in {"int16", "int32"} <=> s \in 11 .. 12
                         /\ Names[s] = "flip8" <=> s = 4
                         /\ Names[s] = "ext_UI" => s = 14
                         /\ Names[s] \in {"ext_UO", "ext_AO"} => s \in {13, 15}
  OBVIOUS
<1> QED
  BY <1>2, <1>3, <1>4, <1>5, <1>6

\* A stage that is left out has no offset.
Left(s) == no_arith /\ s \in {7, 8, 9, 11, 12}

\* The offsets of a stage are those at which a word of its width lies within the input.
LEMMA OffsetsAre ==
  ASSUME InputIs, NEW s \in 1 .. 12, NEW p \in Nat
  PROVE  /\ Offsets(Names[s]) \in Nat
         /\ s \in 1 .. 3 => (p < Offsets(Names[s]) <=> p + W(s) <= 8 * len)
         /\ s \in 4 .. 12 => (p < Offsets(Names[s]) <=> ~Left(s) /\ p + W(s) <= len)
<1> DEFINE w == W(s)
           n == Names[s]
<1>1. w \in {1, 2, 4} /\ len \in Nat \ {0} /\ n \in FlipBits \cup FlipBytes \cup Ariths \cup Ints
  BY StagesAre DEF InputIs
<1>2. Max({0, len - w + 1}) \in Nat /\ (p < Max({0, len - w + 1}) <=> p + w <= len)
  <2> DEFINE m == len - w + 1
  <2>1. m \in Int /\ (p < m <=> p + w <= len)
    BY <1>1
  <2> HIDE DEF m
  <2>2. CASE m > 0
    <3>1. Max({0, m}) = m
      BY <2>1, <2>2 DEF Max
    <3> QED BY <2>1, <2>2, <3>1 DEF m
  <2>3. CASE ~(m > 0)
    <3>1. Max({0, m}) = 0
      BY <2>1, <2>3 DEF Max
    <3> QED BY <2>1, <2>3, <3>1 DEF m
  <2> QED BY <2>2, <2>3
<1>3. CASE s \in 1 .. 3
  <2>1. n \in FlipBits
    BY <1>3, StagesAre
  <2>2. Offsets(n) = 8 * len - w + 1
    <3>1. w = Width[n]
      BY DEF W
    <3>2. n \notin FlipBytes \cup Ariths \cup Ints /\ n \notin {"ext_UO", "ext_UI", "ext_AO"}
      <4>1. \A x \in FlipBits : /\ x \notin FlipBytes \cup Ariths \cup Ints
                                /\ x \notin {"ext_UO", "ext_UI", "ext_AO"}
        BY DEF FlipBits, FlipBytes, Ariths, Ints
      <4> QED BY <2>1, <4>1
    <3> HIDE DEF w, n
    <3> QED BY <2>1, <3>1, <3>2 DEF Offsets
  <2> HIDE DEF w, n
  <2>3. Offsets(n) \in Nat /\ (p < Offsets(n) <=> p + w <= 8 * len)
    BY <1>1, <2>2
  <2> QED BY <1>3, <2>3 DEF w, n
<1>4. CASE s \in 4 .. 12
  <2>1. n \notin FlipBits /\ n \in FlipBytes \cup Ariths \cup Ints
    <3>1. \A k \in 1 .. 17 : Names[k] \in FlipBits => k \in 1 .. 3
      BY StagesAre, Zenon
    <3>2. s \in 1 .. 17 /\ s \notin 1 .. 3
      BY <1>4
    <3> QED BY <1>1, <3>1, <3>2
  <2>2. no_arith /\ n \in Ariths \cup {"int16", "int32"} <=> Left(s)
    <3>1. s \in 1 .. 17 /\ (s \in {7, 8, 9, 11, 12} <=> s \in 7 .. 9 \/ s \in 11 .. 12)
      BY <1>4
    <3>2. /\ n \in Ariths <=> s \in 7 .. 9
          /\ n \in {"int16", "int32"} <=> s \in 11 .. 12
      BY <3>1, StagesAre, Zenon
    <3> QED BY <3>1, <3>2, Zenon DEF Left
  <2>3. w = Width[n] /\ n \notin {"ext_UO", "ext_UI", "ext_AO"}
    <3>1. \A x \in FlipBytes \cup Ariths \cup Ints : x \notin {"ext_UO", "ext_UI", "ext_AO"}
      BY DEF FlipBytes, Ariths, Ints
    <3> QED BY <2>1, <3>1 DEF W
  <2> HIDE DEF w, n
  <2>4. /\ Left(s) => Offsets(n) = 0
        /\ ~Left(s) => Offsets(n) = Max({0, len - w + 1})
    BY <2>1, <2>2, <2>3 DEF Offsets
  <2>5. Offsets(n) \in Nat /\ (p < Offsets(n) <=> ~Left(s) /\ p + w <= len)
    BY <1>2, <2>4
  <2> QED BY <1>4, <2>5 DEF w, n
<1> QED
  BY <1>3, <1>4

\* The buffers an arithmetic stage, or an int stage, has to account for at an offset.
Added(p, w) == {Put(in_buf, p, Altered(Word(in_buf, p, w), c)) : c \in Changes(w)}
Valued(p, w) == {Put(in_buf, p, Chosen(w, c)) : c \in Values(w)}

\* An offset of a stage that has been dealt with.
Covered(s, p) ==
  /\ s \in 1 .. 3 => Flipped(in_buf, p, W(s)) \in tried
  /\ s \in 4 .. 6 => Inverted(in_buf, p, W(s)) \in tried \/ (W(s) > 1 /\ Idle(p, W(s)))
  /\ s \in 7 .. 9 => \A b \in Added(p, W(s)) : Known(b)
  /\ s \in 10 .. 12 => \A b \in Valued(p, W(s)) : Known(b)

\* An offset the stages are past.
Past(s, p) == p < Offsets(Names[s]) /\ (s < stage \/ (s = stage /\ p < pos))

\* Until the tokens come, everything behind has been dealt with.
Hist == stage <= 12 => \A s \in 1 .. 12, p \in Nat : Past(s, p) => Covered(s, p)

\* A buffer that tokens were written into was executed, unless it is still the input.
OutKnown == token # 1 => out_buf \in tried \cup {in_buf}

\* What the stages before a stage have done.
LEMMA HistGives ==
  ASSUME Placed, Hist, stage <= 12
  PROVE  /\ InputIs
         /\ stage > 3 => BitsAll
         /\ stage > 6 => BytesAll
         /\ \A s \in 7 .. 9 : s < stage /\ ~no_arith => AddsAll(W(s))
         /\ \A s \in 10 .. 12 : s < stage /\ (s = 10 \/ ~no_arith) => IntsAll(W(s))
<1>1. InputIs
  BY InputTyped
<1>2. ASSUME NEW s \in 1 .. 12, s < stage, NEW p \in Nat, p < Offsets(Names[s])
      PROVE  Covered(s, p)
  BY <1>2 DEF Hist, Past
<1>3. ASSUME stage > 3 PROVE BitsAll
  <2> SUFFICES ASSUME NEW w \in {1, 2, 4}, NEW p \in Nat, p + w <= 8 * len
               PROVE  Flipped(in_buf, p, w) \in tried
    BY DEF BitsAll
  <2>1. PICK s \in 1 .. 3 : w = W(s)
    <3>1. W(1) = 1 /\ W(2) = 2 /\ W(3) = 4
      BY StagesAre
    <3> QED BY <3>1
  <2>2. s \in 1 .. 12 /\ s < stage
    BY <1>3, <2>1 DEF Placed
  <2>3. p < Offsets(Names[s])
    BY <1>1, <2>1, <2>2, OffsetsAre
  <2>4. Covered(s, p)
    BY <1>2, <2>2, <2>3
  <2> QED BY <2>1, <2>4 DEF Covered
<1>4. ASSUME stage > 6 PROVE BytesAll
  <2> SUFFICES ASSUME NEW w \in {1, 2, 4}, NEW p \in Nat, p + w <= len
               PROVE  Inverted(in_buf, p, w) \in tried \/ Idle(p, w)
    BY DEF BytesAll
  <2>1. PICK s \in 4 .. 6 : w = W(s)
    <3>1. W(4) = 1 /\ W(5) = 2 /\ W(6) = 4
      BY StagesAre
    <3> QED BY <3>1
  <2>2. s \in 1 .. 12 /\ s < stage /\ s \in 4 .. 12 /\ ~Left(s)
    BY <1>4, <2>1 DEF Placed, Left
  <2>3. p < Offsets(Names[s])
    BY <1>1, <2>1, <2>2, OffsetsAre
  <2>4. Covered(s, p)
    BY <1>2, <2>2, <2>3
  <2> QED BY <2>1, <2>4 DEF Covered
<1>5. ASSUME NEW s \in 7 .. 9, s < stage, ~no_arith PROVE AddsAll(W(s))
  <2>1. s \in 1 .. 12 /\ s \in 4 .. 12 /\ ~Left(s)
    BY <1>5 DEF Left
  <2> SUFFICES ASSUME NEW p \in Nat, p + W(s) <= len, NEW c \in Changes(W(s))
               PROVE  Known(Put(in_buf, p, Altered(Word(in_buf, p, W(s)), c)))
    BY DEF AddsAll
  <2>2. p < Offsets(Names[s])
    BY <1>1, <2>1, OffsetsAre
  <2>3. Covered(s, p)
    BY <1>2, <1>5, <2>1, <2>2
  <2>4. Put(in_buf, p, Altered(Word(in_buf, p, W(s)), c)) \in Added(p, W(s))
    BY DEF Added
  <2> QED BY <2>3, <2>4 DEF Covered
<1>6. ASSUME NEW s \in 10 .. 12, s < stage, s = 10 \/ ~no_arith PROVE IntsAll(W(s))
  <2>1. s \in 1 .. 12 /\ s \in 4 .. 12 /\ ~Left(s)
    BY <1>6 DEF Left
  <2> SUFFICES ASSUME NEW p \in Nat, p + W(s) <= len, NEW c \in Values(W(s))
               PROVE  Known(Put(in_buf, p, Chosen(W(s), c)))
    BY DEF IntsAll
  <2>2. p < Offsets(Names[s])
    BY <1>1, <2>1, OffsetsAre
  <2>3. Covered(s, p)
    BY <1>2, <1>6, <2>1, <2>2
  <2>4. Put(in_buf, p, Chosen(W(s), c)) \in Valued(p, W(s))
    BY DEF Valued
  <2> QED BY <2>3, <2>4 DEF Covered
<1> QED
  BY <1>1, <1>3, <1>4, <1>5, <1>6

---------------------------------------------------------------------------
(* The steps of the stages. *)

\* What is accounted for stays so while the stages go on.
LEMMA KnownStays ==
  ASSUME UNCHANGED <<in_buf, no_arith, eff>>, tried \subseteq tried', NEW b, Known(b)
  PROVE  Known(b)'
  BY DEF Known, AcrossBytes, NeverAdded, Changed, Block

\* So does what is behind.
LEMMA CoveredStays ==
  ASSUME UNCHANGED <<in_buf, no_arith>>, tried \subseteq tried', NEW s \in 1 .. 12, NEW p \in Nat,
         eff' = eff \/ s <= 4, Covered(s, p)
  PROVE  Covered(s, p)'
<1>1. /\ Added(p, W(s))' = Added(p, W(s)) /\ Valued(p, W(s))' = Valued(p, W(s))
  BY DEF Added, Valued
<1>2. CASE eff' = eff
  <2>1. \A b : Known(b) => Known(b)'
    BY <1>2, KnownStays
  <2>2. Idle(p, W(s))' = Idle(p, W(s))
    BY <1>2 DEF Idle, Block
  <2> QED BY <1>1, <2>1, <2>2 DEF Covered
<1>3. CASE s <= 4
  <2>1. W(4) = 1
    BY StagesAre
  <2>2. s = 4 => ~(W(s) > 1)
    BY <2>1
  <2>3. s \in 1 .. 3 \/ s = 4
    BY <1>3
  <2>4. s \notin 7 .. 9 /\ s \notin 10 .. 12 /\ (s \in 4 .. 6 => s = 4)
    BY <1>3
  <2> QED BY <2>2, <2>3, <2>4 DEF Covered
<1> QED
  BY <1>2, <1>3

\* A step at an offset of a stage deals with that offset.
LEMMA WorkKeeps ==
  ASSUME Placed, Hist, Working, stage <= 12,
         UNCHANGED <<in_buf, no_arith, extras, a_extras, stage>>, pos' = pos + 1,
         tried \subseteq tried', eff' = eff \/ stage = 4,
         \A s \in 1 .. 12, p \in Nat : s = stage /\ p = pos => Covered(s, p)'
  PROVE  Hist'
<1>1. \A s : Offsets(Names[s])' = Offsets(Names[s])
  BY DEF Offsets, len
<1>2. stage \in 1 .. 12 /\ pos \in Nat
  BY DEF Placed
<1> SUFFICES ASSUME NEW s \in 1 .. 12, NEW p \in Nat, Past(s, p)' PROVE Covered(s, p)'
  BY DEF Hist
<1>3. p < Offsets(Names[s]) /\ (s < stage \/ (s = stage /\ p < pos + 1))
  BY <1>1 DEF Past
<1>4. Past(s, p) \/ (s = stage /\ p = pos)
  BY <1>2, <1>3 DEF Past
<1>5. CASE Past(s, p)
  <2>1. Covered(s, p)
    BY <1>5 DEF Hist
  <2>2. eff' = eff \/ s <= 4
    BY <1>2, <1>3
  <2> QED BY <2>1, <2>2, CoveredStays
<1>6. CASE s = stage /\ p = pos
  BY <1>6
<1> QED
  BY <1>4, <1>5, <1>6

\* The end of a stage: what comes between it and the next has no offsets (5420-5872).
LEMMA EndKeeps ==
  ASSUME Placed, Hist, EndStage
  PROVE  Hist'
<1>1. /\ stage < 16 /\ pos = Offsets(Names[stage]) /\ stage' = NextStage(stage) /\ pos' = 0
      /\ UNCHANGED <<in_buf, no_arith, extras, a_extras>>
      /\ tried' = IF stage' < Number("ext_UO") THEN tried ELSE {}
      /\ eff' = eff \/ stage = 4
  <2>1. At("flip8") <=> stage = 4
    BY StagesAre DEF At, Placed
  <2> QED BY <2>1, Numbers DEF EndStage, fixed
<1>2. Number("ext_UO") = 13
  BY DEF Number, Names
<1>3. \A s : Offsets(Names[s])' = Offsets(Names[s])
  BY <1>1 DEF Offsets, len
<1> DEFINE T == {k \in stage + 1 .. 16 : k = 16 \/ Offsets(Names[k]) > 0}
<1>4. stage' = Min(T) /\ T \in SUBSET Nat /\ 16 \in T
  <2>1. NextStage(stage) = Min(T)
    BY Numbers DEF NextStage
  <2>2. T \in SUBSET Nat /\ 16 \in T
    BY <1>1 DEF Placed
  <2> HIDE DEF T
  <2> QED BY <1>1, <2>1, <2>2
<1>5. stage' \in T /\ \A k \in T : stage' <= k
  BY <1>4, MinOf
<1>6. stage \in 1 .. 17 /\ pos \in Nat
  BY DEF Placed
<1> SUFFICES ASSUME stage' <= 12, NEW s \in 1 .. 12, NEW p \in Nat, Past(s, p)'
             PROVE  Covered(s, p)'
  BY DEF Hist
<1>7. p < Offsets(Names[s]) /\ s < stage'
  BY <1>1, <1>3 DEF Past
<1>8. stage < stage' /\ stage <= 12
  BY <1>1, <1>5, <1>6
<1>9. s <= stage
  <2>1. ASSUME stage < s PROVE FALSE
    <3>1. s \notin T
      BY <1>5, <1>6, <1>7
    <3>2. ~(Offsets(Names[s]) > 0)
      BY <1>6, <2>1, <3>1
    <3>3. Offsets(Names[s]) \in Nat
      BY InputTyped, OffsetsAre
    <3> QED BY <1>7, <3>2, <3>3
  <2> QED BY <1>6, <2>1
<1>10. Past(s, p)
  BY <1>1, <1>6, <1>7, <1>9 DEF Past
<1>11. Covered(s, p)
  BY <1>8, <1>10 DEF Hist
<1>12. tried' = tried
  <2>1. stage' < 13
    BY <1>5, <1>6
  <2> QED BY <1>1, <1>2, <2>1
<1>13. eff' = eff \/ s <= 4
  BY <1>1, <1>6, <1>9
<1> QED
  BY <1>1, <1>11, <1>12, <1>13, CoveredStays

\* What the last steps have left known, and what every step keeps.
KnownInv == Hist /\ OutKnown /\ SkipsAreKnown

\* A step that writes no token leaves the buffer known.
LEMMA OutStays ==
  ASSUME OutKnown, UNCHANGED <<in_buf, out_buf, token>>, tried \subseteq tried'
  PROVE  OutKnown'
  BY DEF OutKnown

\* Before the tokens every offset starts from the input.
LEMMA StartsClean ==
  ASSUME IInv, stage <= 12
  PROVE  /\ Placed /\ InputIs /\ out_buf = in_buf /\ stage \in 1 .. 12 /\ pos \in Nat
         /\ W(stage) \in {1, 2, 4}
<1>1. Placed /\ Clobbered
  BY DEF IInv, MapInv
<1>2. stage \in 1 .. 12 /\ stage \in 1 .. 17 /\ pos \in Nat
  BY <1>1 DEF Placed
<1>3. Names[stage] \notin {"ext_UO", "ext_AO"}
  BY <1>2, StagesAre
<1>4. token = 1 /\ stage < 17
  BY <1>1, <1>2, <1>3 DEF Clobbered
<1> QED
  BY <1>1, <1>2, <1>4, BufUntouched, InputTyped, StagesAre

\* Walking bits are executed at every offset (5101-5248).
LEMMA WalkBitsKnown ==
  ASSUME IInv, KnownInv, WalkBits
  PROVE  KnownInv'
<1>1. /\ Working /\ Names[stage] \in FlipBits
      /\ tried' = tried \cup {Flipped(out_buf, pos, W(stage))} /\ skipped' = {} /\ pos' = pos + 1
      /\ UNCHANGED <<token, last_len, stage, out_buf, eff>>
      /\ UNCHANGED <<in_buf, no_arith, extras, a_extras>>
  BY DEF WalkBits, Work, fixed, W
<1>2. stage \in 1 .. 3 /\ stage <= 12
  BY <1>1, StagesAre DEF IInv, MapInv, Placed
<1>3. Placed /\ InputIs /\ out_buf = in_buf
  BY <1>2, StartsClean
<1>4. ASSUME NEW s \in 1 .. 12, NEW p \in Nat, s = stage, p = pos PROVE Covered(s, p)'
  <2>1. Flipped(in_buf, p, W(s)) \in tried'
    BY <1>1, <1>3, <1>4
  <2>2. s \in 1 .. 3 /\ s \notin 4 .. 6 /\ s \notin 7 .. 9 /\ s \notin 10 .. 12
    BY <1>2, <1>4
  <2> QED BY <1>1, <2>1, <2>2 DEF Covered
<1>5. Hist'
  BY <1>1, <1>2, <1>3, <1>4, WorkKeeps DEF KnownInv
<1>6. OutKnown' /\ SkipsAreKnown'
  BY <1>1, OutStays DEF KnownInv, SkipsAreKnown
<1> QED
  BY <1>5, <1>6 DEF KnownInv

\* So are walking bytes, except words that have no effect (5279-5418).
LEMMA WalkBytesKnown ==
  ASSUME IInv, KnownInv, WalkBytes
  PROVE  KnownInv'
<1>1. /\ Working /\ Names[stage] \in FlipBytes /\ skipped' = {} /\ pos' = pos + 1
      /\ \/ W(stage) > 1 /\ Idle(pos, W(stage)) /\ tried' = tried
         \/ tried' = tried \cup {Inverted(out_buf, pos, W(stage))}
      /\ UNCHANGED <<token, last_len, stage, out_buf>>
      /\ UNCHANGED <<in_buf, no_arith, extras, a_extras>>
      /\ eff' = eff \/ At("flip8")
  BY DEF WalkBytes, Work, fixed, W
<1>2. stage \in 4 .. 6 /\ stage <= 12 /\ (At("flip8") <=> stage = 4)
  BY <1>1, StagesAre DEF IInv, MapInv, Placed, At
<1>3. Placed /\ InputIs /\ out_buf = in_buf
  BY <1>2, StartsClean
<1>4. ASSUME NEW s \in 1 .. 12, NEW p \in Nat, s = stage, p = pos PROVE Covered(s, p)'
  <2>1. s \notin 1 .. 3 /\ s \notin 7 .. 9 /\ s \notin 10 .. 12
    BY <1>2, <1>4
  <2>2. CASE tried' = tried \cup {Inverted(out_buf, pos, W(stage))}
    <3>1. Inverted(in_buf, p, W(s)) \in tried'
      BY <1>3, <1>4, <2>2
    <3> QED BY <1>1, <2>1, <3>1 DEF Covered
  <2>3. CASE W(stage) > 1 /\ Idle(pos, W(stage))
    <3>1. W(4) = 1
      BY StagesAre
    <3>2. stage # 4
      BY <2>3, <3>1
    <3>3. eff' = eff
      BY <1>1, <1>2, <3>2
    <3>4. W(s) > 1 /\ Idle(p, W(s))
      BY <1>4, <2>3
    <3>5. Idle(p, W(s))'
      BY <3>3, <3>4 DEF Idle, Block
    <3> QED BY <2>1, <3>4, <3>5 DEF Covered
  <2> QED BY <1>1, <2>2, <2>3
<1>5. Hist'
  <2>1. tried \subseteq tried' /\ (eff' = eff \/ stage = 4)
    BY <1>1, <1>2
  <2> QED BY <1>1, <1>2, <1>3, <1>4, <2>1, WorkKeeps DEF KnownInv
<1>6. OutKnown' /\ SkipsAreKnown'
  <2>1. tried \subseteq tried'
    BY <1>1
  <2> QED BY <1>1, <2>1, OutStays DEF KnownInv, SkipsAreKnown
<1> QED
  BY <1>5, <1>6 DEF KnownInv

\* A stage is not left out at an offset it works at.
LEMMA WorksAt ==
  ASSUME Placed, InputIs, Working, stage \in 4 .. 12
  PROVE  ~Left(stage) /\ pos + W(stage) <= len
<1>1. stage \in 1 .. 12 /\ pos \in Nat /\ pos < Offsets(Names[stage])
  BY DEF Working, Placed
<1> QED
  BY <1>1, OffsetsAre

\* Changes by a small amount are executed, or accounted for (5424-5670).
LEMMA ArithmeticKnown ==
  ASSUME IInv, KnownInv, Arithmetic
  PROVE  KnownInv'
<1> DEFINE w == W(stage)
           run == {c \in Changes(w) : Worthwhile(Word(out_buf, pos, w), c)}
           Buffers(C) == {Put(out_buf, pos, Altered(Word(out_buf, pos, w), c)) : c \in C}
<1>1. /\ Working /\ Names[stage] \in Ariths /\ pos' = pos + 1
      /\ \/ Idle(pos, w) /\ tried' = tried \cup {} /\ skipped' = {}
         \/ tried' = tried \cup Buffers(run) /\ skipped' = Buffers(Changes(w) \ run)
      /\ UNCHANGED <<token, last_len, stage, out_buf, eff>>
      /\ UNCHANGED <<in_buf, no_arith, extras, a_extras>>
  BY DEF Arithmetic, Work, fixed, W
<1>2. stage \in 7 .. 9 /\ stage <= 12 /\ stage > 3 /\ stage > 6 /\ stage \in 4 .. 12
  BY <1>1, StagesAre DEF IInv, MapInv, Placed
<1>3. Placed /\ InputIs /\ out_buf = in_buf /\ pos \in Nat /\ w \in {1, 2, 4}
  BY <1>2, StartsClean
<1>4. BitsAll /\ BytesAll /\ \A s \in 7 .. 9 : s < stage /\ ~no_arith => AddsAll(W(s))
  BY <1>2, <1>3, HistGives DEF KnownInv
<1>5. ~no_arith /\ pos + w <= len
  BY <1>1, <1>2, <1>3, WorksAt DEF Left
<1>6. w # 1 => AddsAll(w \div 2)
  <2>1. W(7) = 1 /\ W(8) = 2 /\ W(9) = 4
    BY StagesAre
  <2>2. stage = 7 \/ stage = 8 \/ stage = 9
    BY <1>2
  <2>3. CASE stage = 8
    <3>1. w = 2 /\ w \div 2 = 1
      BY <2>1, <2>3
    <3>2. AddsAll(W(7))
      BY <1>4, <1>5, <2>3
    <3> QED BY <2>1, <3>1, <3>2
  <2>4. CASE stage = 9
    <3>1. w = 4 /\ w \div 2 = 2
      BY <2>1, <2>4
    <3>2. AddsAll(W(8))
      BY <1>4, <1>5, <2>4
    <3> QED BY <2>1, <3>1, <3>2
  <2> QED BY <2>1, <2>2, <2>3, <2>4
<1> DEFINE B(c) == Put(in_buf, pos, Altered(Word(in_buf, pos, w), c))
<1>7. tried \subseteq tried' /\ \A b : Known(b) => Known(b)'
  <2>1. tried \subseteq tried'
    BY <1>1
  <2> QED BY <1>1, <2>1, KnownStays
<1>8. ASSUME NEW c \in Changes(w), ~Worthwhile(Word(in_buf, pos, w), c) PROVE Known(B(c))
  <2> HIDE DEF w
  <2> QED BY <1>3, <1>4, <1>5, <1>6, <1>8, LeftOutAdded
<1>9. ASSUME NEW b \in Added(pos, w), b \notin tried' PROVE Known(b)
  <2>1. PICK c \in Changes(w) : b = B(c)
    BY DEF Added
  <2>2. CASE Idle(pos, w)
    <3> HIDE DEF w
    <3>1. w \in Nat
      BY <1>3
    <3>2. Word(in_buf, pos, w) \in [1 .. w -> Byte]
      BY <1>3, <1>5, <3>1, OldIs DEF Copied
    <3>3. Altered(Word(in_buf, pos, w), c) \in [1 .. w -> Byte]
      BY <1>3, <3>2, AlteredTyped
    <3>4. Known(B(c))
      BY <1>3, <1>5, <2>2, <3>1, <3>3, IdleKnown
    <3> QED BY <2>1, <3>4
  <2>3. CASE tried' = tried \cup Buffers(run)
    <3>1. ASSUME Worthwhile(Word(in_buf, pos, w), c) PROVE B(c) \in Buffers(run)
      BY <1>3, <3>1
    <3>2. ~Worthwhile(Word(in_buf, pos, w), c)
      BY <1>9, <2>1, <2>3, <3>1
    <3>3. Known(B(c))
      BY <1>8, <3>2
    <3> QED BY <2>1, <3>3
  <2> QED BY <1>1, <2>2, <2>3
<1>10. ASSUME NEW b \in Added(pos, w) PROVE Known(b)'
  <2>1. CASE b \in tried'
    BY <2>1 DEF Known
  <2> QED BY <1>7, <1>9, <2>1
<1>11. skipped' \subseteq Added(pos, w)
  <2>1. Buffers(Changes(w) \ run) \subseteq Added(pos, w)
    BY <1>3 DEF Added
  <2> QED BY <1>1, <2>1
<1>12. SkipsAreKnown'
  BY <1>10, <1>11 DEF SkipsAreKnown
<1>13. ASSUME NEW s \in 1 .. 12, NEW p \in Nat, s = stage, p = pos PROVE Covered(s, p)'
  <2>1. s \notin 1 .. 3 /\ s \notin 4 .. 6 /\ s \notin 10 .. 12
    BY <1>2, <1>13
  <2>2. Added(p, W(s))' = Added(pos, w)
    BY <1>1, <1>13 DEF Added
  <2> HIDE DEF w
  <2>3. \A b \in Added(p, W(s))' : Known(b)'
    BY <1>10, <2>2
  <2> QED BY <2>1, <2>3 DEF Covered
<1>14. Hist'
  BY <1>1, <1>2, <1>3, <1>7, <1>13, WorkKeeps DEF KnownInv
<1>15. OutKnown'
  BY <1>1, <1>7, OutStays DEF KnownInv
<1> QED
  BY <1>12, <1>14, <1>15 DEF KnownInv

\* So are interesting values (5680-5864).
LEMMA InterestingKnown ==
  ASSUME IInv, KnownInv, Interesting
  PROVE  KnownInv'
<1> DEFINE w == W(stage)
           run == {c \in Values(w) : Fresh(Word(out_buf, pos, w), c)}
           Buffers(C) == {Put(out_buf, pos, Chosen(w, c)) : c \in C}
           B(c) == Put(in_buf, pos, Chosen(w, c))
<1>1. /\ Working /\ Names[stage] \in Ints /\ pos' = pos + 1
      /\ \/ Idle(pos, w) /\ tried' = tried \cup {} /\ skipped' = {}
         \/ tried' = tried \cup Buffers(run) /\ skipped' = Buffers(Values(w) \ run)
      /\ UNCHANGED <<token, last_len, stage, out_buf, eff>>
      /\ UNCHANGED <<in_buf, no_arith, extras, a_extras>>
  BY DEF Interesting, Work, fixed, W
<1>2. /\ stage \in 10 .. 12 /\ stage <= 12 /\ stage > 3 /\ stage > 6 /\ stage \in 4 .. 12
      /\ \A s \in 7 .. 9 : s < stage
  BY <1>1, StagesAre DEF IInv, MapInv, Placed
<1>3. Placed /\ InputIs /\ out_buf = in_buf /\ pos \in Nat /\ w \in {1, 2, 4}
  BY <1>2, StartsClean
<1>4. /\ BitsAll /\ BytesAll /\ \A s \in 7 .. 9 : ~no_arith => AddsAll(W(s))
      /\ \A s \in 10 .. 12 : s < stage /\ (s = 10 \/ ~no_arith) => IntsAll(W(s))
  BY <1>2, <1>3, HistGives DEF KnownInv
<1>5. (stage # 10 => ~no_arith) /\ pos + w <= len
  BY <1>1, <1>2, <1>3, WorksAt DEF Left
<1>6. W(7) = 1 /\ W(8) = 2 /\ W(9) = 4 /\ W(10) = 1 /\ W(11) = 2 /\ W(12) = 4
  BY StagesAre
<1>7. AddsBelow(w)
  <2>1. CASE no_arith
    BY <1>5, <1>6, <2>1 DEF AddsBelow
  <2>2. CASE ~no_arith
    <3>1. AddsAll(1) /\ AddsAll(2) /\ AddsAll(4)
      BY <1>4, <1>6, <2>2
    <3> QED BY <3>1 DEF AddsBelow
  <2> QED BY <2>1, <2>2
<1>8. (w # 1 => IntsAll(1)) /\ (w = 4 => IntsAll(2))
  <2>1. CASE stage = 10
    BY <1>6, <2>1
  <2>2. CASE stage \in 11 .. 12
    <3>1. IntsAll(1)
      BY <1>4, <1>6, <2>2
    <3>2. ASSUME w = 4 PROVE IntsAll(2)
      <4>1. stage = 12 /\ ~no_arith
        BY <1>5, <1>6, <2>2, <3>2
      <4> QED BY <1>4, <1>6, <4>1
    <3> QED BY <3>1, <3>2
  <2> QED BY <1>2, <2>1, <2>2
<1>9. tried \subseteq tried' /\ \A b : Known(b) => Known(b)'
  <2>1. tried \subseteq tried'
    BY <1>1
  <2> QED BY <1>1, <2>1, KnownStays
<1>10. ASSUME NEW b \in Valued(pos, w), b \notin tried' PROVE Known(b)
  <2>1. PICK c \in Values(w) : b = B(c)
    BY DEF Valued
  <2>2. CASE Idle(pos, w)
    <3> HIDE DEF w
    <3>1. w \in Nat
      BY <1>3
    <3>2. Chosen(w, c) \in [1 .. w -> Byte]
      BY <1>3, ChosenIs
    <3>3. Known(B(c))
      BY <1>3, <1>5, <2>2, <3>1, <3>2, IdleKnown
    <3> QED BY <2>1, <3>3
  <2>3. CASE tried' = tried \cup Buffers(run)
    <3>1. \A d \in Values(w) : Fresh(Word(in_buf, pos, w), d) => B(d) \in Buffers(run)
      BY <1>3
    <3> DEFINE R == Buffers(run)
    <3>2. R \subseteq tried'
      BY <2>3
    <3> HIDE DEF R, w
    <3>3. \A d \in Values(w) : Fresh(Word(in_buf, pos, w), d) => B(d) \in R
      BY <3>1 DEF R
    <3>4. \A d \in Values(w) : Done(R, B(d))
      BY <1>3, <1>4, <1>5, <1>7, <1>8, <3>3, ValuesDone
    <3>5. Done(R, b)
      BY <2>1, <3>4
    <3> QED BY <1>10, <3>2, <3>5 DEF Done
  <2> QED BY <1>1, <2>2, <2>3
<1>11. ASSUME NEW b \in Valued(pos, w) PROVE Known(b)'
  <2>1. CASE b \in tried'
    BY <2>1 DEF Known
  <2> QED BY <1>9, <1>10, <2>1
<1>12. skipped' \subseteq Valued(pos, w)
  <2>1. Buffers(Values(w) \ run) \subseteq Valued(pos, w)
    BY <1>3 DEF Valued
  <2> QED BY <1>1, <2>1
<1>13. SkipsAreKnown'
  BY <1>11, <1>12 DEF SkipsAreKnown
<1>14. ASSUME NEW s \in 1 .. 12, NEW p \in Nat, s = stage, p = pos PROVE Covered(s, p)'
  <2>1. s \notin 1 .. 3 /\ s \notin 4 .. 6 /\ s \notin 7 .. 9
    BY <1>2, <1>14
  <2>2. Valued(p, W(s))' = Valued(pos, w)
    BY <1>1, <1>14 DEF Valued
  <2> HIDE DEF w
  <2>3. \A b \in Valued(p, W(s))' : Known(b)'
    BY <1>11, <2>2
  <2> QED BY <2>1, <2>3 DEF Covered
<1>15. Hist'
  BY <1>1, <1>2, <1>3, <1>9, <1>14, WorkKeeps DEF KnownInv
<1>16. OutKnown'
  BY <1>1, <1>9, OutStays DEF KnownInv
<1> QED
  BY <1>13, <1>15, <1>16 DEF KnownInv

\* A token is left out because it changes nothing: what it was written over was executed when it
\* was, or is the input (5880-5926, 5989-6006).
LEMMA OverwriteKnown ==
  ASSUME IInv, KnownInv, Overwrite
  PROVE  KnownInv'
<1> DEFINE t == Tokens[token]
           new == Put(out_buf, pos, t)
<1>1. /\ Names[stage] \in {"ext_UO", "ext_AO"} /\ stage' = stage
      /\ UNCHANGED <<in_buf, no_arith, eff>>
      /\ \/ /\ skipped' = {} \/ (new = out_buf /\ skipped' = {new})
            /\ UNCHANGED <<out_buf, tried>>
         \/ out_buf' = new /\ tried' = tried \cup {new} /\ skipped' = {}
  BY DEF Overwrite, fixed
<1> HIDE DEF t
<1>2. stage \in 13 .. 15
  BY <1>1, StagesAre DEF IInv, MapInv, Placed
<1>3. Hist'
  BY <1>1, <1>2 DEF Hist
<1>4. out_buf \in tried \cup {in_buf}
  <2>1. CASE token = 1
    <3>1. Placed /\ Clobbered /\ stage < 17
      BY <1>2 DEF IInv, MapInv
    <3> QED BY <2>1, <3>1, BufUntouched
  <2>2. CASE token # 1
    BY <2>2 DEF KnownInv, OutKnown
  <2> QED BY <2>1, <2>2
<1>5. OutKnown'
  BY <1>1, <1>4 DEF OutKnown
<1>6. SkipsAreKnown'
  <2> SUFFICES ASSUME NEW b \in skipped' PROVE Known(b)'
    BY DEF SkipsAreKnown
  <2> HIDE DEF new
  <2>1. b = out_buf /\ tried' = tried
    BY <1>1
  <2>2. b \in tried' \cup {in_buf'}
    BY <1>1, <1>4, <2>1
  <2> QED BY <2>2 DEF Known
<1> QED
  BY <1>3, <1>5, <1>6 DEF KnownInv

\* The other steps leave nothing out.
LEMMA QuietKnown ==
  ASSUME IInv, IInv', KnownInv, Restore \/ Insert \/ EndStage \/ Abandon
  PROVE  KnownInv'
<1>1. skipped' = {}
  BY DEF Restore, Insert, EndStage, Abandon, Work
<1>2. SkipsAreKnown'
  BY <1>1 DEF SkipsAreKnown
<1>3. Placed
  BY DEF IInv, MapInv
<1>4. CASE Restore
  <2>1. stage' = stage /\ Names[stage] \in {"ext_UO", "ext_AO"} /\ token' = 1
    BY <1>4 DEF Restore
  <2>2. stage \in 13 .. 15
    BY <1>3, <2>1, StagesAre DEF Placed
  <2> QED BY <1>2, <2>1, <2>2 DEF KnownInv, Hist, OutKnown
<1>5. CASE Insert
  <2>1. /\ stage' = stage /\ Names[stage] = "ext_UI" /\ UNCHANGED <<token, out_buf, in_buf>>
        /\ tried \subseteq tried'
    BY <1>5 DEF Insert, At, Work, fixed
  <2>2. stage = 14
    BY <1>3, <2>1, StagesAre DEF Placed
  <2>3. OutKnown'
    BY <2>1, OutStays DEF KnownInv
  <2> QED BY <1>2, <2>1, <2>2, <2>3 DEF KnownInv, Hist
<1>6. CASE EndStage
  <2>1. Hist'
    BY <1>3, <1>6, EndKeeps DEF KnownInv
  <2>2. token' = 1
    <3>1. pos' = 0 /\ token' = token /\ stage < 16 /\ pos = Offsets(Names[stage])
      BY <1>6, Numbers DEF EndStage
    <3>2. ~Working /\ stage < 17
      BY <1>3, <3>1 DEF Working, Placed
    <3> QED BY <3>1, <3>2 DEF IInv, Clobbered
  <2> QED BY <1>2, <2>1, <2>2 DEF KnownInv, OutKnown
<1>7. CASE Abandon
  <2>1. stage' = 17 /\ UNCHANGED <<token, out_buf, in_buf, tried>>
    BY <1>7, Numbers DEF Abandon, fixed
  <2> QED BY <1>2, <2>1 DEF KnownInv, Hist, OutKnown
<1> QED
  BY <1>4, <1>5, <1>6, <1>7

\* Every step keeps it.
LEMMA NextKnown == IInv /\ IInv' /\ KnownInv /\ [Next]_vars => KnownInv'
<1> SUFFICES ASSUME IInv, IInv', KnownInv, [Next]_vars PROVE KnownInv'
  OBVIOUS
<1>1. CASE WalkBits
  BY <1>1, WalkBitsKnown
<1>2. CASE WalkBytes
  BY <1>2, WalkBytesKnown
<1>3. CASE Arithmetic
  BY <1>3, ArithmeticKnown
<1>4. CASE Interesting
  BY <1>4, InterestingKnown
<1>5. CASE Overwrite
  BY <1>5, OverwriteKnown
<1>6. CASE Restore \/ Insert \/ EndStage \/ Abandon
  BY <1>6, QuietKnown
<1>7. CASE UNCHANGED vars
  <2>1. Hist'
    <3>1. /\ UNCHANGED <<in_buf, no_arith, extras, a_extras, stage, pos>>
          /\ eff' = eff /\ tried \subseteq tried'
      BY <1>7 DEF vars
    <3>2. \A s \in 1 .. 12, p \in Nat : Covered(s, p) => Covered(s, p)'
      BY <3>1, CoveredStays
    <3>3. \A s \in 1 .. 12, p \in Nat : Past(s, p)' <=> Past(s, p)
      BY <3>1 DEF Past, Offsets, len
    <3> QED BY <3>1, <3>2, <3>3 DEF KnownInv, Hist
  <2>2. OutKnown' /\ SkipsAreKnown'
    BY <1>7 DEF vars, KnownInv, OutKnown, SkipsAreKnown, Known, Block, AcrossBytes, NeverAdded,
         Changed
  <2> QED BY <2>1, <2>2 DEF KnownInv
<1> QED
  BY <1>1, <1>2, <1>3, <1>4, <1>5, <1>6, <1>7 DEF Next

\* What the stages leave out as a duplicate was executed before, or is without effect, or is one of
\* the two exceptions, for inputs of any length, any tokens and any ARITH_MAX below 128: the tables
\* of could_be_bitflip(), could_be_arith() and could_be_interest() fit the steps of the stages
\* before (4757-4933, 5424-5872).
THEOREM SkipsAreAlwaysKnown == Spec => []SkipsAreKnown
<1>1. Init => KnownInv
  <2> SUFFICES ASSUME Init PROVE KnownInv
    OBVIOUS
  <2>1. Hist
    <3>1. stage = 1 /\ pos = 0
      BY DEF Init
    <3> QED BY <3>1 DEF Hist, Past
  <2> QED BY <2>1 DEF Init, KnownInv, OutKnown, SkipsAreKnown
<1>2. KnownInv => SkipsAreKnown
  BY DEF KnownInv
<1> QED
  BY <1>1, <1>2, IInvHolds, NextKnown, PTL DEF Spec

---------------------------------------------------------------------------
(* The random stages.                                                      *)

(* The buffers are large enough for what they hold: out_buf for the input  *)
(* being tweaked, or, before the stage, for the input it starts from.      *)
Fits ==
  /\ length <= in_size
  /\ pc \in {"score", "havoc"} => length <= out_size
  /\ pc \in {"stack", "tweak"} => temp_len <= out_size

HavocInv ==
  /\ TypeOK /\ Fits /\ wild = FALSE /\ SplicedWithAnother
  /\ pc = "score" => splicing_with = 0

---------------------------------------------------------------------------
(* The dice.                                                               *)

(* UR(limit) stays below a limit that is positive.                         *)
LEMMA URBelow ==
  ASSUME NEW limit \in Int, limit > 0, NEW x \in UR(limit)
  PROVE  x \in Int /\ 0 <= x /\ x < limit
  BY DEF UR

(* choose_block_len() returns a block that fits, and no larger one than    *)
(* HAVOC_BLK_XL: what its callers add to and subtract from lengths.        *)
LEMMA BlockFits ==
  ASSUME NEW limit \in Nat \ {0}, NEW b \in choose_block_len(limit)
  PROVE  b \in Int /\ 1 <= b /\ b <= limit /\ b <= HAVOC_BLK_XL
  <1> DEFINE low(r) == IF r[1] >= limit THEN 1 ELSE r[1]
  <1>1. PICK r \in BlockRanges :
          b \in {low(r) + x : x \in UR(Least(r[2], limit) - low(r) + 1)}
    BY DEF choose_block_len
  <1>2. /\ r[1] \in Nat \ {0} /\ r[2] \in Nat \ {0}
        /\ r[1] <= r[2] /\ r[2] <= HAVOC_BLK_XL
    BY HavocAssumption DEF BlockRanges
  <1>3. low(r) \in Nat \ {0} /\ low(r) <= Least(r[2], limit) /\ Least(r[2], limit) \in Nat
    BY <1>2 DEF Least
  <1>4. PICK x \in UR(Least(r[2], limit) - low(r) + 1) : b = low(r) + x
    BY <1>1
  <1> HIDE DEF low
  <1>5. x \in Int /\ 0 <= x /\ x < Least(r[2], limit) - low(r) + 1
    BY <1>3, <1>4, URBelow
  <1>6. Least(r[2], limit) <= r[2] /\ Least(r[2], limit) <= limit
    BY <1>2 DEF Least
  <1>7. b \in Int /\ 1 <= b /\ b <= Least(r[2], limit)
    BY <1>3, <1>4, <1>5
  <1>8. HAVOC_BLK_XL \in Nat
    BY HavocAssumption
  <1> QED BY <1>2, <1>3, <1>6, <1>7, <1>8

(* An access that ends within the buffer leaves no mark.                   *)
LEMMA NoMark ==
  ASSUME wild = FALSE, NEW upto, NEW size, ~(upto > size), Within(upto, size)
  PROVE  wild' = FALSE
  BY Zenon DEF Within

---------------------------------------------------------------------------
(* At the start both buffers have the length of the entry.                 *)
LEMMA Initially == HavocInit => HavocInv
  <1> SUFFICES ASSUME HavocInit PROVE HavocInv
    OBVIOUS
  <1>1. queue \in Seq(Lengths) /\ current_entry \in DOMAIN queue
    BY HavocAssumption DEF HavocInit
  <1>2. queue[current_entry] \in Lengths
    BY <1>1
  <1> QED BY <1>1, <1>2, HavocAssumption
          DEF HavocInit, HavocInv, TypeOK, Fits, SplicedWithAnother,
               Lengths, queued_paths

(* The steps between the tweaks: scoring, the start of the stage and of a  *)
(* stack of tweaks, and every end.                                         *)
LEMMA WalkKeeps ==
  ASSUME HavocInv,
         \/ Score \/ EnterHavoc \/ Stack \/ EndHavoc \/ GiveUp \/ EndSplice
  PROVE  HavocInv'
  <1> USE DEF HavocInv, TypeOK, Fits, SplicedWithAnother, queued_paths, entry, score,
              progress, splicing
  <1>1. CASE Score      BY <1>1 DEF Score
  <1>2. CASE EnterHavoc BY <1>2 DEF EnterHavoc
  <1>3. CASE Stack      BY <1>3 DEF Stack
  <1>4. CASE EndHavoc   BY <1>4 DEF EndHavoc
  <1>5. CASE GiveUp    BY <1>5 DEF GiveUp
  <1>6. CASE EndSplice  BY <1>6 DEF EndSplice
  <1> QED BY <1>1, <1>2, <1>3, <1>4, <1>5, <1>6

(* What a tweak must see to: a length that is one, a buffer that holds it, *)
(* and no access outside.                                                  *)
LEMMA TweakKeeps ==
  ASSUME HavocInv, OneMore, Untouched,
         temp_len' \in Lengths, out_size' \in Nat, temp_len' <= out_size', wild' = FALSE
  PROVE  HavocInv'
  BY DEF HavocInv, TypeOK, Fits, SplicedWithAnother, queued_paths, OneMore, Untouched,
       entry, score,
         progress, splicing

(* Cases 0 to 10: a value is written where there is room for it.           *)
LEMMA TweakValueKeeps == ASSUME HavocInv, TweakValue PROVE HavocInv'
  <1>1. temp_len \in Nat /\ temp_len <= out_size /\ out_size \in Nat /\ wild = FALSE
    BY DEF HavocInv, TypeOK, Fits, TweakValue, OneMore, Lengths
  <1>2. PICK w \in {1, 2, 4} :
          IF ~Wide(w) THEN UNCHANGED wild
          ELSE \E p \in UR(temp_len - w + 1) : Within(p + w, out_size)
    BY DEF TweakValue
  <1>3. wild' = FALSE
    <2>1. CASE ~Wide(w) BY <1>1, <1>2, <2>1
    <2>2. CASE Wide(w)
      <3>1. PICK p \in UR(temp_len - w + 1) : Within(p + w, out_size)
        BY <1>2, <2>2
      <3>2. p \in Int /\ p + w <= temp_len
        BY <1>1, <2>2, <3>1, URBelow DEF Wide
      <3>3. ~(p + w > out_size)
        BY <1>1, <3>2
      <3> QED BY <1>1, <3>1, <3>3, NoMark
    <2> QED BY <2>1, <2>2
  <1> QED BY <1>1, <1>3, TweakKeeps DEF TweakValue, HavocInv, TypeOK

(* Case 14: a block is copied over another one of the same input.          *)
LEMMA OverwriteBytesKeeps == ASSUME HavocInv, OverwriteBytes PROVE HavocInv'
  <1>1. temp_len \in Nat /\ temp_len <= out_size /\ out_size \in Nat /\ wild = FALSE
    BY DEF HavocInv, TypeOK, Fits, OverwriteBytes, OneMore, Lengths
  <1>2. wild' = FALSE
    <2>1. CASE temp_len < 2 BY <1>1, <2>1 DEF OverwriteBytes
    <2>2. CASE ~(temp_len < 2)
      <3>0. PICK copy_len \in choose_block_len(temp_len - 1) :
              \E copy_from, copy_to \in UR(temp_len - copy_len + 1) :
                Within(Most(copy_from, copy_to) + copy_len, out_size)
        BY <2>2 DEF OverwriteBytes
      <3>1. PICK copy_from \in UR(temp_len - copy_len + 1),
                 copy_to \in UR(temp_len - copy_len + 1) :
              Within(Most(copy_from, copy_to) + copy_len, out_size)
        BY <3>0
      <3>2. copy_len \in Int /\ 1 <= copy_len /\ copy_len <= temp_len - 1
        BY <1>1, <2>2, <3>0, BlockFits
      <3>3. /\ copy_from \in Int /\ copy_from + copy_len <= temp_len
            /\ copy_to \in Int /\ copy_to + copy_len <= temp_len
        BY <1>1, <3>1, <3>2, URBelow
      <3>4. ~(Most(copy_from, copy_to) + copy_len > out_size)
        BY <1>1, <3>2, <3>3 DEF Most
      <3> QED BY <1>1, <3>1, <3>4, NoMark
    <2> QED BY <2>1, <2>2
  <1> QED BY <1>1, <1>2, TweakKeeps DEF OverwriteBytes, HavocInv, TypeOK

(* Case 15: a token is written over a part of the input.                   *)
LEMMA OverwriteExtraKeeps == ASSUME HavocInv, OverwriteExtra PROVE HavocInv'
  <1>1. temp_len \in Nat /\ temp_len <= out_size /\ out_size \in Nat /\ wild = FALSE
    BY DEF HavocInv, TypeOK, Fits, OverwriteExtra, OneMore, Lengths
  <1>2. PICK extra_len \in TokenLengths \cup AutoLengths :
          IF extra_len > temp_len THEN UNCHANGED wild
          ELSE \E insert_at \in UR(temp_len - extra_len + 1) :
                 Within(insert_at + extra_len, out_size)
    BY DEF OverwriteExtra
  <1>3. extra_len \in Nat
    BY <1>2, HavocAssumption DEF HavocInv, Lengths
  <1>4. wild' = FALSE
    <2>1. CASE extra_len > temp_len BY <1>1, <1>2, <2>1
    <2>2. CASE ~(extra_len > temp_len)
      <3>1. PICK insert_at \in UR(temp_len - extra_len + 1) :
              Within(insert_at + extra_len, out_size)
        BY <1>2, <2>2
      <3>2. insert_at \in Int /\ insert_at + extra_len <= temp_len
        BY <1>1, <1>3, <2>2, <3>1, URBelow
      <3>3. ~(insert_at + extra_len > out_size)
        BY <1>1, <1>3, <3>2
      <3> QED BY <1>1, <3>1, <3>3, NoMark
    <2> QED BY <2>1, <2>2
  <1> QED BY <1>1, <1>4, TweakKeeps DEF OverwriteExtra, HavocInv, TypeOK

(* Cases 11 and 12: at least one byte is left.                             *)
LEMMA DeleteBytesKeeps == ASSUME HavocInv, DeleteBytes PROVE HavocInv'
  <1>1. /\ temp_len \in Lengths /\ temp_len \in Nat /\ MAX_FILE \in Nat /\ temp_len <= MAX_FILE
        /\ temp_len <= out_size /\ out_size \in Nat /\ wild = FALSE
    <2>1. MAX_FILE \in Nat
      BY HavocAssumption
    <2>2. pc = "tweak"
      BY DEF DeleteBytes, OneMore
    <2> QED BY <2>1, <2>2 DEF HavocInv, TypeOK, Fits, Lengths
  <1>2. temp_len' \in Lengths /\ temp_len' <= temp_len /\ wild' = FALSE
    <2>1. CASE temp_len < 2 BY <1>1, <2>1 DEF DeleteBytes
    <2>2. CASE ~(temp_len < 2)
      <3>1. PICK del_len \in choose_block_len(temp_len - 1) :
              /\ \E del_from \in UR(temp_len - del_len + 1) :
                    Within(Most(temp_len, del_from + del_len), out_size)
              /\ temp_len' = temp_len - del_len
        BY <2>2 DEF DeleteBytes
      <3>2. del_len \in Int /\ 1 <= del_len /\ del_len <= temp_len - 1
        BY <1>1, <2>2, <3>1, BlockFits
      <3>3. PICK del_from \in UR(temp_len - del_len + 1) :
              Within(Most(temp_len, del_from + del_len), out_size)
        BY <3>1
      <3>4. del_from \in Int /\ del_from + del_len <= temp_len
        BY <1>1, <3>2, <3>3, URBelow
      <3>5. wild' = FALSE
        <4>1. ~(Most(temp_len, del_from + del_len) > out_size)
          BY <1>1, <3>2, <3>4 DEF Most
        <4> QED BY <1>1, <3>3, <4>1, NoMark
      <3> QED BY <1>1, <3>1, <3>2, <3>5 DEF Lengths
    <2> QED BY <2>1, <2>2
  <1>3. out_size' = out_size
    BY DEF DeleteBytes
  <1>4. temp_len' \in Nat /\ temp_len' <= out_size'
    BY <1>1, <1>2, <1>3 DEF Lengths
  <1> QED BY <1>1, <1>2, <1>3, <1>4, TweakKeeps DEF DeleteBytes

(* Case 13: the new buffer is as long as what it gets, and MAX_FILE is     *)
(* kept because the block is at most HAVOC_BLK_XL long.                    *)
LEMMA CloneBytesKeeps == ASSUME HavocInv, CloneBytes PROVE HavocInv'
  <1>1. /\ temp_len \in Lengths /\ temp_len \in Nat \ {0} /\ MAX_FILE \in Nat
        /\ temp_len <= MAX_FILE /\ HAVOC_BLK_XL \in Nat \ {0}
        /\ temp_len <= out_size /\ out_size \in Nat /\ wild = FALSE
    <2>1. MAX_FILE \in Nat /\ HAVOC_BLK_XL \in Nat \ {0}
      BY HavocAssumption
    <2>2. pc = "tweak"
      BY DEF CloneBytes, OneMore
    <2> QED BY <2>1, <2>2 DEF HavocInv, TypeOK, Fits, Lengths
  <1>2. /\ temp_len' \in Lengths /\ out_size' \in Nat /\ temp_len' <= out_size'
        /\ wild' = FALSE
    <2>1. CASE ~RoomToGrow BY <1>1, <2>1 DEF CloneBytes
    <2>2. CASE RoomToGrow
      <3>1. PICK clone \in BOOLEAN :
              \E clone_len \in choose_block_len(IF clone THEN temp_len ELSE HAVOC_BLK_XL) :
                /\ \E clone_from \in (IF clone THEN UR(temp_len - clone_len + 1) ELSE {0}),
                      clone_to \in UR(temp_len) :
                      Within(Most(clone_to, IF clone THEN clone_from + clone_len ELSE 0),
                           out_size)
                /\ out_size' = temp_len + clone_len
                /\ temp_len' = temp_len + clone_len
        BY <2>2 DEF CloneBytes
      <3>2. PICK clone_len \in choose_block_len(IF clone THEN temp_len ELSE HAVOC_BLK_XL) :
              /\ \E clone_from \in (IF clone THEN UR(temp_len - clone_len + 1) ELSE {0}),
                    clone_to \in UR(temp_len) :
                    Within(Most(clone_to, IF clone THEN clone_from + clone_len ELSE 0),
                         out_size)
              /\ out_size' = temp_len + clone_len
              /\ temp_len' = temp_len + clone_len
        BY <3>1
      <3>3. /\ clone_len \in Int /\ 1 <= clone_len /\ clone_len <= HAVOC_BLK_XL
            /\ clone => clone_len <= temp_len
        <4>1. CASE clone  BY <1>1, <3>2, <4>1, BlockFits
        <4>2. CASE ~clone BY <1>1, <3>2, <4>2, BlockFits
        <4> QED BY <4>1, <4>2
      <3>4. PICK clone_from \in (IF clone THEN UR(temp_len - clone_len + 1) ELSE {0}),
                 clone_to \in UR(temp_len) :
              Within(Most(clone_to, IF clone THEN clone_from + clone_len ELSE 0), out_size)
        BY <3>2
      <3>5. clone_to \in Int /\ clone_to < temp_len
        BY <1>1, <3>4, URBelow
      <3>6. clone => clone_from \in Int /\ clone_from + clone_len <= temp_len
        BY <1>1, <3>3, <3>4, URBelow
      <3>7. wild' = FALSE
        <4>1. ~(Most(clone_to, IF clone THEN clone_from + clone_len ELSE 0) > out_size)
          <5>1. CASE clone  BY <1>1, <3>3, <3>5, <3>6, <5>1 DEF Most
          <5>2. CASE ~clone BY <1>1, <3>5, <5>2 DEF Most
          <5> QED BY <5>1, <5>2
        <4> QED BY <1>1, <3>4, <4>1, NoMark
      <3> QED BY <1>1, <2>2, <3>2, <3>3, <3>7 DEF RoomToGrow, Lengths
    <2> QED BY <2>1, <2>2
  <1> QED BY <1>2, TweakKeeps DEF CloneBytes

(* Case 16: a token is inserted; the new buffer has room for both.         *)
LEMMA InsertExtraKeeps == ASSUME HavocInv, InsertExtra PROVE HavocInv'
  <1>1. /\ temp_len \in Lengths /\ temp_len \in Nat \ {0} /\ MAX_FILE \in Nat
        /\ temp_len <= out_size /\ out_size \in Nat /\ wild = FALSE
    <2>1. MAX_FILE \in Nat
      BY HavocAssumption
    <2>2. pc = "tweak"
      BY DEF InsertExtra, OneMore
    <2> QED BY <2>1, <2>2 DEF HavocInv, TypeOK, Fits, Lengths
  <1>2. PICK extra_len \in TokenLengths \cup AutoLengths :
          IF temp_len + extra_len >= MAX_FILE THEN UNCHANGED <<temp_len, out_size, wild>>
          ELSE /\ \E insert_at \in UR(temp_len + 1) :
                    Within(Most(insert_at, temp_len), out_size)
               /\ out_size' = temp_len + extra_len
               /\ temp_len' = temp_len + extra_len
    BY DEF InsertExtra
  <1>3. extra_len \in Nat
    BY <1>2, HavocAssumption DEF HavocInv, Lengths
  <1>4. /\ temp_len' \in Lengths /\ out_size' \in Nat /\ temp_len' <= out_size'
        /\ wild' = FALSE
    <2>1. CASE temp_len + extra_len >= MAX_FILE BY <1>1, <1>2, <2>1
    <2>2. CASE ~(temp_len + extra_len >= MAX_FILE)
      <3>1. PICK insert_at \in UR(temp_len + 1) : Within(Most(insert_at, temp_len), out_size)
        BY <1>2, <2>2
      <3>2. insert_at \in Int /\ insert_at <= temp_len
        BY <1>1, <3>1, URBelow
      <3>3. wild' = FALSE
        <4>1. ~(Most(insert_at, temp_len) > out_size)
          BY <1>1, <3>2 DEF Most
        <4> QED BY <1>1, <3>1, <4>1, NoMark
      <3> QED BY <1>1, <1>2, <1>3, <2>2, <3>3 DEF Lengths
    <2> QED BY <2>1, <2>2
  <1> QED BY <1>4, TweakKeeps DEF InsertExtra

---------------------------------------------------------------------------
(* After an execution the buffer holds the input again, and it is long     *)
(* enough for that: it was exchanged if the tweaks left less.              *)
LEMMA ExecuteKeeps == ASSUME HavocInv, Execute PROVE HavocInv'
  <1>1. /\ queue \in Seq(Lengths) /\ current_entry \in DOMAIN queue /\ pc = "tweak"
        /\ length \in Nat /\ temp_len \in Lengths /\ temp_len \in Nat
        /\ in_size \in Nat /\ out_size \in Nat
        /\ length <= in_size /\ temp_len <= out_size /\ wild = FALSE
    BY DEF HavocInv, TypeOK, Fits, Execute, Lengths
  <1>2. out_size' \in Nat /\ length <= out_size' /\ wild' = FALSE
    <2>1. out_size' \in Nat /\ length <= out_size'
      BY <1>1 DEF Execute, Restored
    <2>2. ~(temp_len > out_size) /\ ~(length > out_size') /\ ~(length > in_size)
      BY <1>1, <2>1
    <2>3. wild' = (wild \/ temp_len > out_size \/ length > out_size' \/ length > in_size)
      BY DEF Execute
    <2>4. wild' = FALSE
      BY <1>1, <2>2, <2>3, Zenon
    <2> QED BY <2>1, <2>4
  <1>3. \/ queue' = queue
        \/ queue' = Append(queue, temp_len)
    BY DEF Execute
  <1>4. /\ queue' \in Seq(Lengths) /\ Len(queue) <= Len(queue')
        /\ \A i \in DOMAIN queue : i \in DOMAIN queue' /\ queue'[i] = queue[i]
    <2>1. CASE queue' = queue
      BY <1>1, <2>1
    <2>2. CASE queue' = Append(queue, temp_len)
      BY <1>1, <2>2, AppendProperties
    <2> QED BY <1>3, <2>1, <2>2
  <1>5. TypeOK'
    BY <1>1, <1>2, <1>4 DEF Execute, HavocInv, TypeOK, entry, splicing, queued_paths
  <1>6. Fits'
    BY <1>1, <1>2 DEF Execute, Fits
  <1>7. SplicedWithAnother'
    BY <1>1, <1>4 DEF Execute, HavocInv, SplicedWithAnother, entry, splicing
  <1> QED BY <1>2, <1>5, <1>6, <1>7 DEF Execute, HavocInv

(* A splice cuts inside of both inputs, and the stage starts over with     *)
(* buffers of the partner's length.                                        *)
LEMMA TrySpliceKeeps == ASSUME HavocInv, TrySplice PROVE HavocInv'
  <1>1. /\ queue \in Seq(Lengths) /\ current_entry \in DOMAIN queue /\ pc = "splice"
        /\ wild = FALSE /\ splice_cycle \in Nat /\ Len(queue) \in Nat
    BY DEF HavocInv, TypeOK, TrySplice
  <1>2. /\ queue' = queue /\ current_entry' = current_entry /\ queue_cycle' = queue_cycle
        /\ queue[current_entry] \in Lengths
    BY <1>1 DEF TrySplice, entry
  <1>3. PICK tid \in DOMAIN queue \ {current_entry} :
          /\ splice_cycle' = Tries(tid)
          /\ \/ /\ splicing_with' = (IF Partners(tid) = {} THEN queued_paths + 1
                                     ELSE CHOOSE i \in Partners(tid) : TRUE)
                /\ length' = queue[current_entry] /\ in_size' = length'
                /\ UNCHANGED <<pc, split, temp_len, out_size, wild>>
             \/ \E i \in Partners(tid) :
                LET common == Least(queue[current_entry], queue[i])
                IN \E first, last \in 0 .. common - 1 :
                     /\ first <= last /\ FarApart(first, last)
                     /\ \E x \in UR(last - first) :
                          /\ split' = <<first, first + x, last>>
                          /\ Within(first + x, common)
                     /\ splicing_with' = i
                     /\ length' = queue[i] /\ in_size' = length' /\ out_size' = length'
                     /\ pc' = "havoc" /\ UNCHANGED temp_len
    BY DEF TrySplice
  <1>4. splice_cycle' \in Nat
    BY <1>1, <1>3 DEF Tries
  <1>5. Partners(tid) \subseteq 1 .. Len(queue)
    BY <1>1 DEF Partners, queued_paths
  <1>6. CASE /\ splicing_with' = (IF Partners(tid) = {} THEN queued_paths + 1
                                  ELSE CHOOSE i \in Partners(tid) : TRUE)
             /\ length' = queue[current_entry] /\ in_size' = length'
             /\ UNCHANGED <<pc, split, temp_len, out_size, wild>>
    <2>1. splicing_with' \in 0 .. Len(queue) + 1
      <3>1. CASE Partners(tid) = {} BY <1>1, <1>6, <3>1 DEF queued_paths
      <3>2. CASE Partners(tid) # {} BY <1>1, <1>5, <1>6, <3>2
      <3> QED BY <3>1, <3>2
    <2>2. length' \in Nat /\ length' \in Lengths /\ in_size' = length' /\ pc' = pc
      BY <1>2, <1>6 DEF Lengths
    <2>3. TypeOK'
      BY <1>1, <1>2, <1>4, <1>6, <2>1, <2>2 DEF HavocInv, TypeOK, queued_paths
    <2>4. Fits' /\ SplicedWithAnother'
      BY <1>1, <1>6, <2>2 DEF Fits, SplicedWithAnother
    <2> QED BY <1>1, <1>6, <2>3, <2>4 DEF HavocInv
  <1>7. CASE \E i \in Partners(tid) :
                LET common == Least(queue[current_entry], queue[i])
                IN \E first, last \in 0 .. common - 1 :
                     /\ first <= last /\ FarApart(first, last)
                     /\ \E x \in UR(last - first) :
                          /\ split' = <<first, first + x, last>>
                          /\ Within(first + x, common)
                     /\ splicing_with' = i
                     /\ length' = queue[i] /\ in_size' = length' /\ out_size' = length'
                     /\ pc' = "havoc" /\ UNCHANGED temp_len
    <2> DEFINE common(i) == Least(queue[current_entry], queue[i])
    <2>1. PICK i \in Partners(tid) :
            \E first, last \in 0 .. common(i) - 1 :
              /\ first <= last /\ FarApart(first, last)
              /\ \E x \in UR(last - first) :
                   /\ split' = <<first, first + x, last>>
                   /\ Within(first + x, common(i))
              /\ splicing_with' = i
              /\ length' = queue[i] /\ in_size' = length' /\ out_size' = length'
              /\ pc' = "havoc" /\ UNCHANGED temp_len
      BY <1>7
    <2>2. i \in DOMAIN queue /\ i # current_entry /\ queue[i] \in Lengths
      BY <1>1, <1>5 DEF Partners, Usable
    <2>3. common(i) \in Nat /\ common(i) <= queue[i]
      BY <1>2, <2>2 DEF Least, Lengths
    <2> HIDE DEF common
    <2>4. PICK first \in 0 .. common(i) - 1, last \in 0 .. common(i) - 1 :
            /\ first <= last /\ FarApart(first, last)
            /\ \E x \in UR(last - first) :
                 /\ split' = <<first, first + x, last>>
                 /\ Within(first + x, common(i))
            /\ splicing_with' = i
            /\ length' = queue[i] /\ in_size' = length' /\ out_size' = length'
            /\ pc' = "havoc" /\ UNCHANGED temp_len
      BY <2>1
    <2>5. PICK x \in UR(last - first) :
            split' = <<first, first + x, last>> /\ Within(first + x, common(i))
      BY <2>4
    <2>6. x \in Int /\ 0 <= x /\ x < last - first
      BY <2>3, <2>4, <2>5, URBelow DEF FarApart
    <2>7. wild' = FALSE
      <3>1. ~(first + x > common(i))
        BY <2>3, <2>4, <2>6
      <3> QED BY <1>1, <2>5, <3>1, NoMark
    <2>8. SplicedWithAnother'
      <3>1. /\ split'[1] <= split'[2] /\ split'[2] <= split'[3] - 1 /\ split'[3] < length'
        BY <2>2, <2>3, <2>4, <2>5, <2>6 DEF Lengths
      <3> QED BY <1>2, <2>2, <2>4, <3>1 DEF SplicedWithAnother
    <2>9. TypeOK'
      <3>1. /\ length' = queue[i] /\ in_size' = queue[i] /\ out_size' = queue[i]
            /\ pc' = "havoc" /\ UNCHANGED temp_len
        BY <2>4
      <3>2. length' \in Lengths /\ in_size' \in Nat /\ out_size' \in Nat
        <4>1. queue[i] \in Nat
          BY <2>2 DEF Lengths
        <4>2. Lengths' = Lengths
          BY DEF Lengths
        <4> HIDE DEF Lengths
        <4> QED BY <2>2, <3>1, <4>1, <4>2
      <3>3. /\ queue' \in Seq(Lengths) /\ current_entry' \in DOMAIN queue' /\ pc' = "havoc"
            /\ temp_len' \in Lengths
        BY <1>1, <1>2, <3>1 DEF HavocInv, TypeOK
      <3>4. queue_cycle' \in Nat \ {0} /\ splice_cycle' \in Nat
        BY <1>1, <1>2, <1>4 DEF HavocInv, TypeOK
      <3>5. splicing_with' \in 0 .. queued_paths' + 1
        BY <1>1, <1>2, <2>2, <2>4 DEF queued_paths
      <3> QED BY <3>2, <3>3, <3>4, <3>5 DEF TypeOK
    <2>10. Fits'
      BY <2>2, <2>4 DEF Fits, Lengths
    <2> QED BY <2>4, <2>7, <2>8, <2>9, <2>10 DEF HavocInv
  <1> QED BY <1>3, <1>6, <1>7

---------------------------------------------------------------------------
(* The inductive invariant of the random stages.                           *)
LEMMA NextKeeps == HavocInv /\ [HavocNext]_havocVars => HavocInv'
  <1> SUFFICES ASSUME HavocInv, [HavocNext]_havocVars PROVE HavocInv'
    OBVIOUS
  <1>1. CASE HavocNext
    BY <1>1, WalkKeeps, TweakValueKeeps, DeleteBytesKeeps, CloneBytesKeeps,
       OverwriteBytesKeeps, OverwriteExtraKeeps, InsertExtraKeeps, ExecuteKeeps, TrySpliceKeeps
       DEF HavocNext
  <1>2. CASE UNCHANGED havocVars
    BY <1>2 DEF HavocInv, TypeOK, Fits, SplicedWithAnother, queued_paths, havocVars
  <1> QED BY <1>1, <1>2

(* The inductive invariant of the random stages holds throughout.          *)
THEOREM Invariance == HavocSpec => []HavocInv
  BY Initially, NextKeeps, PTL DEF HavocSpec

(* No input grows beyond MAX_FILE, nor below one byte.                     *)
THEOREM TypeCorrect == HavocSpec => []TypeOK
  <1>1. HavocInv => TypeOK BY DEF HavocInv
  <1> QED BY <1>1, Invariance, PTL

(* However many tweaks are stacked, no access leaves its buffer.           *)
THEOREM NothingWildHolds == HavocSpec => []NothingWild
  <1>1. HavocInv => NothingWild BY DEF HavocInv, NothingWild
  <1> QED BY <1>1, Invariance, PTL

(* Havoc works on a splice with another entry that is still that long.     *)
THEOREM SplicedWithAnotherHolds == HavocSpec => []SplicedWithAnother
  <1>1. HavocInv => SplicedWithAnother BY DEF HavocInv
  <1> QED BY <1>1, Invariance, PTL
=============================================================================
