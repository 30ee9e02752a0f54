------------------------------- MODULE Stages -------------------------------
(***************************************************************************)
(* The deterministic stages of fuzz_one() for one entry: which mutations   *)
(* of the input are executed, which are left out, and for what reason.  A  *)
(* step does the work of a stage at one offset of the input, or, where      *)
(* tokens are written over each other, with one token.  Words are           *)
(* little-endian tuples of bytes, as the x86 build sees them.               *)
(***************************************************************************)
EXTENDS FuzzOne, FiniteSets, SequencesExt, FiniteSetsExt

CONSTANTS
  Inputs,            \* inputs to start from, tuples of bytes
  Extras,            \* user tokens, in the order they were read
  AutoTokens,        \* collected tokens, the most used first
  NoArith,           \* values of no_arith (AFL_NO_ARITH)
  ARITH_MAX, EFF_BLOCK, EFF_MIN_LEN, EFF_MAX_PERC, MAX_DET_EXTRAS, USE_AUTO_EXTRAS

Byte == 0 .. 255

ASSUME StagesAssumption ==
  /\ Inputs \subseteq Seq(Byte) \ {<< >>}
  /\ {Extras, AutoTokens} \subseteq Seq(Seq(Byte))
  /\ {ARITH_MAX, EFF_BLOCK, USE_AUTO_EXTRAS, MAX_FILE} \subseteq Nat \ {0} /\ ARITH_MAX < 128
  /\ NoArith \subseteq BOOLEAN

VARIABLES
  in_buf, no_arith, dumb,   \* the input, AFL_NO_ARITH, dumb_mode
  extras, a_extras,         \* the tokens that are used, in the order qsort() left them in
  live,        \* offsets of the bytes whose flipping changes the path
  stage,       \* the stage, by its number in Names
  pos,         \* the offset it has come to (of a bit in the first three stages)
  out_buf,
  token, last_len,          \* the next token at this offset, and the length of the last one written
  eff, eff_cnt,             \* blocks marked in eff_map, and their counter
  tried,       \* history: buffers executed so far (with tokens: at this offset)
  skipped      \* history: buffers the last step left out as duplicates

vars == <<in_buf, no_arith, dumb, extras, a_extras, live, stage, pos, out_buf, stage_cur, stage_max,
          token, last_len, eff, eff_cnt, tried, skipped>>
fixed == <<in_buf, no_arith, dumb, extras, a_extras, live>>

---------------------------------------------------------------------------
(* Bytes and words. *)

Weight == <<1, 2, 4, 8, 16, 32, 64, 128>>
Bit(byte, n) == (byte \div Weight[n + 1]) % 2
Bytes(v, w) == [k \in 1 .. w |-> (v \div <<1, 256, 65536, 16777216>>[k]) % 256]
Swap(v) == Reverse(v)

Word(buf, i, w) == SubSeq(buf, i + 1, i + w)
Put(buf, i, v) == [k \in DOMAIN buf |-> IF k - i \in DOMAIN v THEN v[k - i] ELSE buf[k]]

\* The bits in which two words differ: the set bits of old ^ new, numbered as in C.
Xor(a, b) ==
  {8 * (x[1] - 1) + x[2] : x \in {y \in (DOMAIN a) \X (0 .. 7) :
                                   Bit(a[y[1]], y[2]) # Bit(b[y[1]], y[2])}}

Value16(v) == v[1] + 256 * v[2]

\* v + d in as many bytes as v has; 32 bits by halves.
Add32(v, d) ==
  LET low == Value16(Word(v, 0, 2)) + d
      high == Value16(Word(v, 2, 2)) + (low \div 65536)
  IN Bytes(low % 65536, 2) \o Bytes(high % 65536, 2)

Add(v, d) ==
  CASE Len(v) = 1 -> << (v[1] + d) % 256 >>
    [] Len(v) = 2 -> Bytes((Value16(v) + d) % 65536, 2)
    [] OTHER -> Add32(v, d)

INTERESTING_8 == <<-128, -1, 0, 1, 16, 32, 64, 100, 127>>
INTERESTING_16 == <<-32768, -129, 128, 255, 256, 512, 1000, 1024, 4096, 32767>>
INTERESTING_32 ==
  <<-2147483647 - 1, -100663046, -32769, 32768, 65535, 65536, 100663045, 2147483647>>

\* interesting_8, interesting_16 and interesting_32, as words of w bytes.
interesting[w \in {1, 2, 4}] ==
  LET ints == INTERESTING_8 \o (IF w > 1 THEN INTERESTING_16 ELSE << >>)
                            \o (IF w > 2 THEN INTERESTING_32 ELSE << >>)
  IN [j \in DOMAIN ints |-> Bytes(ints[j], w)]

---------------------------------------------------------------------------
(* Would an earlier stage have come up with this? *)

\* A version that forgets where the steps of the longer flips start.
could_be_bitflip_anywhere(xor) ==
  xor = {} \/ (Max(xor) - Min(xor) + 1 = Cardinality(xor)
               /\ Cardinality(xor) \in {1, 2, 4, 8, 16, 32})

\* Runs of 1, 2 and 4 bits anywhere, runs of 8, 16 and 32 bits from a byte boundary.
could_be_bitflip(xor) ==
  xor = {} \/ LET n == Cardinality(xor)
              IN /\ Max(xor) - Min(xor) + 1 = n
                 /\ n \in {1, 2, 4} \/ (n \in {8, 16, 32} /\ Min(xor) % 8 = 0)

Near(a, b) == \E d \in 0 .. ARITH_MAX : Add(a, d) = b \/ Add(b, d) = a

\* The parts of w bytes (w divides the length) in which two words differ.
Differing(old, new, w) ==
  {k \in 0 .. (Len(old) \div w) - 1 : Word(old, k * w, w) # Word(new, k * w, w)}

could_be_arith(old, new) ==
  \/ old = new
  \/ \E w \in {1, 2, 4} :
        /\ w <= Len(old)
        /\ Cardinality(Differing(old, new, w)) = 1
        /\ \E k \in Differing(old, new, w) :
              LET a == Word(old, k * w, w)
                  b == Word(new, k * w, w)
              IN Near(a, b) \/ (w > 1 /\ Near(Swap(a), Swap(b)))

could_be_interest(old, new, check_le) ==
  LET n == Len(old)
      Inserted(w, i, v) == Put(old, i, v) = new
  IN \/ old = new
     \/ \E i \in 0 .. n - 1, j \in DOMAIN interesting[1] : Inserted(1, i, interesting[1][j])
     \/ /\ n > 2 \/ check_le
        /\ \E i \in 0 .. n - 2, j \in DOMAIN interesting[2] :
              \/ Inserted(2, i, interesting[2][j])
              \/ n > 2 /\ Inserted(2, i, Swap(interesting[2][j]))
     \/ n = 4 /\ check_le /\ \E j \in DOMAIN interesting[4] : new = interesting[4][j]

---------------------------------------------------------------------------
(* The stages. *)

Names == << "flip1", "flip2", "flip4", "flip8", "flip16", "flip32", "arith8", "arith16", "arith32",
            "int8", "int16", "int32", "ext_UO", "ext_UI", "ext_AO", "done", "abandoned" >>
Number(name) == CHOOSE s \in DOMAIN Names : Names[s] = name
At(name) == Names[stage] = name
Width == [flip1 |-> 1, flip2 |-> 2, flip4 |-> 4, flip8 |-> 1, flip16 |-> 2, flip32 |-> 4,
          arith8 |-> 1, arith16 |-> 2, arith32 |-> 4, int8 |-> 1, int16 |-> 2, int32 |-> 4]
FlipBits == {"flip1", "flip2", "flip4"}
FlipBytes == {"flip8", "flip16", "flip32"}
Ariths == {"arith8", "arith16", "arith32"}
Ints == {"int8", "int16", "int32"}

len == Len(in_buf)

\* A version that leaves the tokens as they come.
AsTheyCome(tokens) == {tokens}

\* Sorted by length, which the overwriting of one token by the next relies on; qsort() leaves
\* the order of equals open.
ByLength(tokens) ==
  {l \in {[k \in DOMAIN tokens |-> tokens[p[k]]] : p \in Bijection(DOMAIN tokens, DOMAIN tokens)} :
     \A j, k \in DOMAIN l : j < k => Len(l[j]) <= Len(l[k])}

\* How many offsets a stage goes through: none if it is left out.
Offsets(name) ==
  CASE name \in FlipBits -> 8 * len - Width[name] + 1
    [] name \in FlipBytes \cup Ariths \cup Ints ->
         IF no_arith /\ name \in Ariths \cup {"int16", "int32"} THEN 0
         ELSE Max({0, len - Width[name] + 1})
    [] name = "ext_UO" -> IF extras = << >> THEN 0 ELSE len
    [] name = "ext_UI" -> IF extras = << >> THEN 0 ELSE len + 1
    [] name = "ext_AO" -> IF a_extras = << >> THEN 0 ELSE len

\* stage_max as it is when the stage begins.
InitialMax(name) ==
  CASE name \in FlipBits \cup FlipBytes -> Offsets(name)
    [] name = "arith8" -> 2 * len * ARITH_MAX
    [] name \in Ariths \ {"arith8"} -> 4 * Offsets(name) * ARITH_MAX
    [] name = "int8" -> len * Len(interesting[1])
    [] name \in Ints \ {"int8"} -> 2 * Offsets(name) * Len(interesting[Width[name]])
    [] name \in {"ext_UO", "ext_UI"} -> Len(extras) * len
    [] name = "ext_AO" -> Len(a_extras) * len

Block(i) == i \div EFF_BLOCK
Blocks == 0 .. Block(len - 1)
Span(i, w) == Block(i) .. Block(i + w - 1)
Idle(i, w) == \A k \in i .. i + w - 1 : Block(k) \notin eff

\* The next stage that has something to do.
NextStage(s) ==
  Min({k \in s + 1 .. Number("done") : k = Number("done") \/ Offsets(Names[k]) > 0})

Init ==
  /\ in_buf \in Inputs /\ no_arith \in NoArith /\ dumb \in BOOLEAN
  /\ live \in SUBSET (0 .. Len(in_buf) - 1)
  /\ extras \in ByLength(Extras)
  /\ a_extras \in ByLength(SubSeq(AutoTokens, 1, Min({Len(AutoTokens), USE_AUTO_EXTRAS})))
  /\ token = 1 /\ last_len = 0
  /\ stage = 1 /\ pos = 0 /\ out_buf = in_buf
  /\ stage_cur = 0 /\ stage_max = 8 * Len(in_buf)
  /\ eff = {0, (Len(in_buf) - 1) \div EFF_BLOCK}
  /\ eff_cnt = IF (Len(in_buf) - 1) \div EFF_BLOCK # 0 THEN 2 ELSE 1
  /\ tried = {} /\ skipped = {}

\* What a stage did at an offset: it ran the buffers `ran`, left `dups` out as duplicates,
\* and did `did` of the `all` executions it had counted on.
Work(ran, dups, did, all) ==
  /\ tried' = tried \cup ran
  /\ skipped' = dups
  /\ stage_cur' = stage_cur + did
  /\ stage_max' = stage_max - (all - did)
  /\ pos' = pos + 1
  /\ UNCHANGED <<token, last_len>>

Working == stage < Number("done") /\ pos < Offsets(Names[stage])

\* FLIP_BIT: bit 0 is the highest of byte 0.
FlipBit(buf, b) ==
  LET m == Weight[8 - (b % 8)]
  IN [buf EXCEPT ![(b \div 8) + 1] = IF (@ \div m) % 2 = 1 THEN @ - m ELSE @ + m]

\* One, two or four walking bits.
Flipped(buf, b, n) ==
  LET Two(x, y) == FlipBit(FlipBit(x, y), y + 1)
  IN CASE n = 1 -> FlipBit(buf, b)
       [] n = 2 -> Two(buf, b)
       [] n = 4 -> Two(Two(buf, b), b + 2)

WalkBits ==
  /\ Working /\ Names[stage] \in FlipBits
  /\ Work({Flipped(out_buf, pos, Width[Names[stage]])}, {}, 1, 1)
  /\ UNCHANGED <<fixed, stage, out_buf, eff, eff_cnt>>

\* A version that takes the block of the next byte for the one just flipped.
MarkedByNext(i) == dumb \/ len < EFF_MIN_LEN \/ i + 1 \in live

\* Does flip8 mark the block of byte i?
Marked(i) == dumb \/ len < EFF_MIN_LEN \/ i \in live

\* A whole word flipped.
Inverted(buf, i, w) == Put(buf, i, [k \in 1 .. w |-> 255 - buf[i + k]])

WalkBytes ==
  /\ Working /\ Names[stage] \in FlipBytes
  /\ LET w == Width[Names[stage]]
     IN IF w > 1 /\ Idle(pos, w) THEN Work({}, {}, 0, 1)
        ELSE Work({Inverted(out_buf, pos, w)}, {}, 1, 1)
  /\ IF At("flip8") /\ Block(pos) \notin eff /\ Marked(pos)
     THEN eff' = eff \cup {Block(pos)} /\ eff_cnt' = eff_cnt + 1
     ELSE UNCHANGED <<eff, eff_cnt>>
  /\ UNCHANGED <<fixed, stage, out_buf>>

\* Would the change by d reach beyond the lower half of the word (of both halves, for a byte)?
Carries(v, d) ==
  LET h == Len(v) \div 2
  IN h = 0 \/ SubSeq(Add(v, d), h + 1, Len(v)) # SubSeq(v, h + 1, Len(v))

\* Amount, big-endian, sign.
Changes(w) == (1 .. ARITH_MAX) \X (IF w = 1 THEN {FALSE} ELSE BOOLEAN) \X {1, -1}

Altered(orig, c) ==
  IF c[2] THEN Swap(Add(Swap(orig), c[3] * c[1])) ELSE Add(orig, c[3] * c[1])

\* A change is left out if one of a shorter word, or a bitflip, comes to the same.
Worthwhile(orig, c) ==
  /\ Carries(IF c[2] THEN Swap(orig) ELSE orig, c[3] * c[1])
  /\ ~could_be_bitflip(Xor(orig, Altered(orig, c)))

Arithmetic ==
  /\ Working /\ Names[stage] \in Ariths
  /\ LET w == Width[Names[stage]]
         orig == Word(out_buf, pos, w)
         run == {c \in Changes(w) : Worthwhile(orig, c)}
         Buffers(C) == {Put(out_buf, pos, Altered(orig, c)) : c \in C}
     IN IF Idle(pos, w) THEN Work({}, {}, 0, Cardinality(Changes(w)))
        ELSE Work(Buffers(run), Buffers(Changes(w) \ run),
                  Cardinality(run), Cardinality(Changes(w)))
  /\ UNCHANGED <<fixed, stage, out_buf, eff, eff_cnt>>

\* Number of the value, big-endian.
Values(w) == (DOMAIN interesting[w]) \X (IF w = 1 THEN {FALSE} ELSE BOOLEAN)
Chosen(w, c) == IF c[2] THEN Swap(interesting[w][c[1]]) ELSE interesting[w][c[1]]

\* A value is left out if it reads the same backwards, or an earlier stage came up with it.
Fresh(orig, c) ==
  LET w == Len(orig)
      new == Chosen(w, c)
  IN /\ c[2] => new # Swap(new)
     /\ ~could_be_bitflip(Xor(orig, new))
     /\ ~could_be_arith(orig, new)
     /\ w > 1 => ~could_be_interest(orig, new, c[2])

Interesting ==
  /\ Working /\ Names[stage] \in Ints
  /\ LET w == Width[Names[stage]]
         orig == Word(out_buf, pos, w)
         run == {c \in Values(w) : Fresh(orig, c)}
         Buffers(C) == {Put(out_buf, pos, Chosen(w, c)) : c \in C}
     IN IF Idle(pos, w) THEN Work({}, {}, 0, Cardinality(Values(w)))
        ELSE Work(Buffers(run), Buffers(Values(w) \ run),
                  Cardinality(run), Cardinality(Values(w)))
  /\ UNCHANGED <<fixed, stage, out_buf, eff, eff_cnt>>

Tokens == IF At("ext_UO") THEN extras ELSE a_extras

\* Is there room for a token, and is any byte below it known to have an effect?
Placeable(t) == Len(t) <= len - pos /\ Span(pos, Len(t)) \cap eff # {}

\* One token is written over the one before; with many user tokens, each is left to chance.
Overwrite ==
  /\ Working /\ Names[stage] \in {"ext_UO", "ext_AO"} /\ token <= Len(Tokens)
  /\ token' = token + 1
  /\ LET t == Tokens[token]
         new == Put(out_buf, pos, t)
     IN \/ /\ \/ At("ext_UO") /\ Len(extras) > MAX_DET_EXTRAS
              \/ ~Placeable(t) \/ new = out_buf
           /\ stage_max' = stage_max - 1
           /\ skipped' = (IF Placeable(t) /\ new = out_buf THEN {new} ELSE {})
           /\ UNCHANGED <<out_buf, last_len, stage_cur, tried>>
        \/ /\ Placeable(t) /\ new # out_buf
           /\ out_buf' = new /\ last_len' = Len(t)
           /\ stage_cur' = stage_cur + 1
           /\ tried' = tried \cup {new} /\ skipped' = {}
           /\ UNCHANGED stage_max
  /\ UNCHANGED <<fixed, stage, pos, eff, eff_cnt>>

\* Only the last one is undone.
Restore ==
  /\ Working /\ Names[stage] \in {"ext_UO", "ext_AO"} /\ token > Len(Tokens)
  /\ out_buf' = Put(out_buf, pos, Word(in_buf, pos, last_len))
  /\ token' = 1 /\ last_len' = 0 /\ pos' = pos + 1
  /\ tried' = {} /\ skipped' = {}
  /\ UNCHANGED <<fixed, stage, stage_cur, stage_max, eff, eff_cnt>>

Insertable == {j \in DOMAIN extras : len + Len(extras[j]) <= MAX_FILE}

Insert ==
  /\ Working /\ At("ext_UI")
  /\ Work({SubSeq(out_buf, 1, pos) \o extras[j] \o SubSeq(out_buf, pos + 1, len) :
             j \in Insertable}, {}, Cardinality(Insertable), Len(extras))
  /\ UNCHANGED <<fixed, stage, out_buf, eff, eff_cnt>>

\* After flip8 a map that is nearly full is filled up.
Filled == eff_cnt # Cardinality(Blocks) /\ (eff_cnt * 100) \div Cardinality(Blocks) > EFF_MAX_PERC

EndStage ==
  /\ stage < Number("done") /\ pos = Offsets(Names[stage])
  /\ stage' = NextStage(stage) /\ pos' = 0 /\ stage_cur' = 0
  /\ stage_max' = (IF stage' = Number("done") THEN 0 ELSE InitialMax(Names[stage']))
  /\ eff' = (IF At("flip8") /\ Filled THEN Blocks ELSE eff)
  /\ skipped' = {}
  /\ tried' = (IF stage' < Number("ext_UO") THEN tried ELSE {})
  /\ UNCHANGED <<fixed, out_buf, token, last_len, eff_cnt>>

\* common_fuzz_stuff() wants the entry given up: a stop, a skip request, too many timeouts.
Abandon ==
  /\ Working
  /\ stage' = Number("abandoned") /\ skipped' = {}
  /\ UNCHANGED <<fixed, pos, out_buf, stage_cur, stage_max, token, last_len, eff, eff_cnt, tried>>

Next ==
  \/ WalkBits \/ WalkBytes \/ Arithmetic \/ Interesting \/ Overwrite \/ Restore \/ Insert
  \/ EndStage \/ Abandon

Spec == Init /\ [][Next]_vars
---------------------------------------------------------------------------
Changed(buf) == {k - 1 : k \in {x \in DOMAIN buf : buf[x] # in_buf[x]}}

\* What the code is known to miss: runs of two or four bits across a byte boundary, which
\* FLIP_BIT numbers the other way round, and additions that interest 8/8 believes were done
\* although no_arith left them out.
AcrossBytes(b) ==
  LET d == Xor(in_buf, b)
  IN /\ Cardinality(d) \in {2, 4} /\ Max(d) - Min(d) + 1 = Cardinality(d)
     /\ Min(d) \div 8 # Max(d) \div 8

NeverAdded(b) ==
  no_arith /\ Cardinality(Changed(b)) = 1
  /\ \A i \in Changed(b) : Near(<<in_buf[i + 1]>>, <<b[i + 1]>>)

Known(b) ==
  \/ b \in tried \cup {in_buf}
  \/ \A i \in Changed(b) : Block(i) \notin eff
  \/ AcrossBytes(b) \/ NeverAdded(b)

\* Comments at 4750 and 4785: a mutation is left out only if an earlier stage executed the
\* same buffer, or did not because none of the bytes it changes has an effect.  The two
\* known exceptions are listed.
SkipsAreKnown == \A b \in skipped : Known(b)

\* Bytes that were seen to have an effect are never treated as idle afterwards, and the
\* counter that the density is computed from agrees with the map.
EffectorsCover ==
  stage > Number("flip8") => /\ At("abandoned") \/ \A i \in live : Block(i) \in eff
                             /\ eff_cnt = Cardinality(eff) \/ eff = Blocks

\* Every offset starts from the unchanged input, although tokens of different lengths
\* are written over each other and only the last one is undone.
BufRestored == token = 1 /\ ~At("abandoned") => out_buf = in_buf
============================================================================
