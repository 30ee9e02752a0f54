------------------------------- MODULE Havoc -------------------------------
(***************************************************************************)
(* The random part of fuzz_one(): the score of an entry, the havoc stage   *)
(* with its stacked tweaks, and splicing.  Of the buffers only the sizes   *)
(* matter here: what is written where, how long the input is while it is    *)
(* tweaked, and how long the stage goes on.                                *)
(***************************************************************************)
EXTENDS FuzzOne

CONSTANTS
  Queues,            \* queues to start from: sequences of the lengths of their entries
  MaxPaths,          \* bound on the length of the queue
  TokenLengths, AutoLengths,  \* the lengths of the user's and of the collected tokens
  Cycles,            \* values of queue_cycle
  Averages,          \* execution times and bitmap sizes, of the entry and on average
  Depths, Handicaps, \* depth and handicap of the entry
  HAVOC_BLK_SMALL, HAVOC_BLK_MEDIUM, HAVOC_BLK_LARGE, HAVOC_BLK_XL,
  HAVOC_CYCLES, HAVOC_CYCLES_INIT, HAVOC_MIN, HAVOC_MAX_MULT, HAVOC_STACK_POW2,
  SPLICE_CYCLES, SPLICE_HAVOC

Lengths == 1 .. MAX_FILE

ASSUME HavocAssumption ==
  /\ {MAX_FILE, HAVOC_BLK_SMALL, HAVOC_BLK_MEDIUM, HAVOC_BLK_LARGE, HAVOC_BLK_XL}
       \subseteq Nat \ {0}
  /\ HAVOC_BLK_SMALL <= HAVOC_BLK_MEDIUM /\ HAVOC_BLK_MEDIUM <= HAVOC_BLK_LARGE
  /\ HAVOC_BLK_LARGE <= HAVOC_BLK_XL
  /\ \A q \in Queues : q \in Seq(Lengths) /\ q # << >>
  /\ TokenLengths \subseteq Lengths /\ AutoLengths \subseteq Lengths
  /\ Cycles \subseteq Nat \ {0}
  /\ SPLICE_CYCLES \in Nat /\ MaxPaths \in Nat

VARIABLES
  queue,           \* the lengths of the entries; those found are appended
  current_entry, handicap,
  queue_cycle, run_over10m, doing_det, use_splicing,
  pc,              \* "score", "havoc", "stack", "tweak", "splice" or "done"
  perf_score, orig_perf,
  use_stacking,    \* tweaks still to be made
  havoc_queued,
  splice_cycle, splicing_with,
  length, in_size, \* the length of the input (len), and the size of the buffer in_buf
  temp_len, out_size,  \* the same for the input being tweaked, in out_buf
  split,           \* first difference of the inputs spliced, where they were cut, and the last
  wild             \* history: something outside a buffer was read or written

havocVars ==
  <<queue, current_entry, handicap, queue_cycle, run_over10m, doing_det, use_splicing, pc,
    perf_score, orig_perf, stage_cur, stage_max, use_stacking, havoc_queued, splice_cycle,
    splicing_with, length, in_size, temp_len, out_size, split, wild>>
entry == <<current_entry, queue_cycle, run_over10m, doing_det, use_splicing>>
score == <<handicap, perf_score, orig_perf>>
progress == <<stage_cur, stage_max, havoc_queued>>
splicing == <<splice_cycle, splicing_with, split>>

queued_paths == Len(queue)

---------------------------------------------------------------------------
(* The dice. *)

Least(a, b) == IF a < b THEN a ELSE b

\* UR(limit); with a limit that is not positive anything could come out.
UR(limit) == IF limit > 0 THEN 0 .. limit - 1 ELSE 0 .. MAX_FILE

\* The ranges that choose_block_len() may choose from.
BlockRanges ==
  LET rlim == IF run_over10m THEN Least(queue_cycle, 3) ELSE 1
  IN {<<1, HAVOC_BLK_SMALL>>}
     \cup (IF rlim > 1 THEN {<<HAVOC_BLK_SMALL, HAVOC_BLK_MEDIUM>>} ELSE {})
     \cup (IF rlim > 2 THEN {<<HAVOC_BLK_MEDIUM, HAVOC_BLK_LARGE>>,
                             <<HAVOC_BLK_LARGE, HAVOC_BLK_XL>>} ELSE {})

\* A version that keeps the lower end of the range.
choose_block_len_unclamped(limit) ==
  UNION {{r[1] + x : x \in UR(Least(r[2], limit) - r[1] + 1)} : r \in BlockRanges}

choose_block_len(limit) ==
  UNION {LET low == IF r[1] >= limit THEN 1 ELSE r[1]
         IN {low + x : x \in UR(Least(r[2], limit) - low + 1)} : r \in BlockRanges}

---------------------------------------------------------------------------
(* The score. *)

\* Each multiplier holds up to where the next one begins.
SpeedScore(us, avg) ==
  CASE us > 10 * avg -> 10
    [] us > 4 * avg /\ us <= 10 * avg -> 25
    [] us > 2 * avg /\ us <= 4 * avg -> 50
    [] 3 * us > 4 * avg /\ us <= 2 * avg -> 75
    [] 4 * us < avg -> 300
    [] 3 * us < avg /\ 4 * us >= avg -> 200
    [] 2 * us < avg /\ 3 * us >= avg -> 150
    [] OTHER -> 100

BitmapScore(perf, size, avg) ==
  CASE 3 * size > 10 * avg -> perf * 3
    [] size > 2 * avg /\ 3 * size <= 10 * avg -> perf * 2
    [] 3 * size > 4 * avg /\ size <= 2 * avg -> (perf * 3) \div 2
    [] 3 * size < avg -> perf \div 4
    [] 2 * size < avg /\ 3 * size >= avg -> perf \div 2
    [] 3 * size < 2 * avg /\ 2 * size >= avg -> (perf * 3) \div 4
    [] OTHER -> perf

DepthFactor(depth) ==
  CASE depth <= 3 -> 1
    [] depth \in 4 .. 7 -> 2
    [] depth \in 8 .. 13 -> 3
    [] depth \in 14 .. 25 -> 4
    [] OTHER -> 5

HandicapFactor == IF handicap >= 4 THEN 4 ELSE IF handicap > 0 THEN 2 ELSE 1

calculate_score(us, avg_us, size, avg_size, depth) ==
  Least(BitmapScore(SpeedScore(us, avg_us), size, avg_size) * HandicapFactor * DepthFactor(depth),
        HAVOC_MAX_MULT * 100)

HavocInit ==
  /\ queue \in Queues /\ current_entry \in DOMAIN queue /\ handicap \in Handicaps
  /\ queue_cycle \in Cycles /\ run_over10m \in BOOLEAN /\ doing_det \in BOOLEAN
  /\ use_splicing \in BOOLEAN
  /\ pc = "score" /\ perf_score = 0 /\ orig_perf = 0
  /\ stage_cur = 0 /\ stage_max = 0 /\ use_stacking = 0 /\ havoc_queued = 0
  /\ splice_cycle = 0 /\ splicing_with = 0 /\ split = << >>
  /\ length = queue[current_entry] /\ in_size = length
  /\ temp_len = length /\ out_size = length
  /\ wild = FALSE

Score ==
  /\ pc = "score"
  /\ \E us \in Averages, avg_us \in Averages, size \in Averages, avg_size \in Averages,
        depth \in Depths :
        perf_score' = calculate_score(us, avg_us, size, avg_size, depth)
  /\ orig_perf' = perf_score'
  /\ handicap' = (IF handicap >= 4 THEN handicap - 4 ELSE IF handicap > 0 THEN handicap - 1 ELSE 0)
  /\ pc' = "havoc"
  /\ UNCHANGED <<queue, entry, progress, use_stacking, splicing, length, in_size, temp_len,
                 out_size, wild>>

---------------------------------------------------------------------------
(* Havoc. *)

Most(a, b) == IF a > b THEN a ELSE b

\* The label havoc_stage.
EnterHavoc ==
  /\ pc = "havoc"
  /\ perf_score' = (IF splice_cycle = 0 THEN perf_score ELSE orig_perf)
  /\ LET cycles == CASE splice_cycle > 0 -> SPLICE_HAVOC
                     [] splice_cycle = 0 /\ doing_det -> HAVOC_CYCLES_INIT
                     [] OTHER -> HAVOC_CYCLES
     IN stage_max' = Most((cycles * perf_score') \div 100, HAVOC_MIN)
  /\ stage_cur' = 0 /\ havoc_queued' = queued_paths
  /\ temp_len' = length
  /\ pc' = "stack"
  /\ UNCHANGED <<queue, entry, handicap, orig_perf, use_stacking, splicing, length, in_size,
                 out_size, wild>>

Stack ==
  /\ pc = "stack" /\ stage_cur < stage_max
  /\ \E p \in 1 .. HAVOC_STACK_POW2 : use_stacking' = 2 ^ p
  /\ pc' = "tweak"
  /\ UNCHANGED <<queue, entry, score, progress, splicing, length, in_size, temp_len,
                 out_size, wild>>

\* One of the stacked tweaks: reads or writes up to `upto` in a buffer of `size` bytes.
Within(upto, size) == wild' = (wild \/ upto > size)
OneMore == pc = "tweak" /\ use_stacking > 0 /\ use_stacking' = use_stacking - 1
Untouched == UNCHANGED <<queue, entry, score, progress, splicing, length, in_size, pc>>

\* Cases 0 to 10: a value of w bytes somewhere, if there is room for it.
Wide(w) == temp_len >= w

TweakValue ==
  /\ OneMore
  /\ \E w \in {1, 2, 4} :
        IF ~Wide(w) THEN UNCHANGED wild
        ELSE \E p \in UR(temp_len - w + 1) : Within(p + w, out_size)
  /\ Untouched /\ UNCHANGED <<temp_len, out_size>>

\* Cases 11 and 12.
DeleteBytes ==
  /\ OneMore
  /\ IF temp_len < 2 THEN UNCHANGED <<temp_len, wild>>
     ELSE \E del_len \in choose_block_len(temp_len - 1) :
            /\ \E del_from \in UR(temp_len - del_len + 1) :
                  Within(Most(temp_len, del_from + del_len), out_size)
            /\ temp_len' = temp_len - del_len
  /\ Untouched /\ UNCHANGED out_size

RoomToGrow == temp_len + HAVOC_BLK_XL < MAX_FILE

\* Case 13: a copy of a part, or a run of one byte, is inserted.
CloneBytes ==
  /\ OneMore
  /\ IF ~RoomToGrow THEN UNCHANGED <<temp_len, out_size, wild>>
     ELSE \E clone \in BOOLEAN :
          \E clone_len \in choose_block_len(IF clone THEN temp_len ELSE HAVOC_BLK_XL) :
            /\ \E clone_from \in (IF clone THEN UR(temp_len - clone_len + 1) ELSE {0}),
                  clone_to \in UR(temp_len) :
                  Within(Most(clone_to, IF clone THEN clone_from + clone_len ELSE 0), out_size)
            /\ out_size' = temp_len + clone_len
            /\ temp_len' = temp_len + clone_len
  /\ Untouched

\* Case 14.
OverwriteBytes ==
  /\ OneMore
  /\ IF temp_len < 2 THEN UNCHANGED wild
     ELSE \E copy_len \in choose_block_len(temp_len - 1) :
          \E copy_from, copy_to \in UR(temp_len - copy_len + 1) :
            Within(Most(copy_from, copy_to) + copy_len, out_size)
  /\ Untouched /\ UNCHANGED <<temp_len, out_size>>

\* Case 15.
OverwriteExtra ==
  /\ OneMore
  /\ \E extra_len \in TokenLengths \cup AutoLengths :
        IF extra_len > temp_len THEN UNCHANGED wild
        ELSE \E insert_at \in UR(temp_len - extra_len + 1) : Within(insert_at + extra_len, out_size)
  /\ Untouched /\ UNCHANGED <<temp_len, out_size>>

\* Case 16.
InsertExtra ==
  /\ OneMore
  /\ \E extra_len \in TokenLengths \cup AutoLengths :
        IF temp_len + extra_len >= MAX_FILE THEN UNCHANGED <<temp_len, out_size, wild>>
        ELSE /\ \E insert_at \in UR(temp_len + 1) : Within(Most(insert_at, temp_len), out_size)
             /\ out_size' = temp_len + extra_len
             /\ temp_len' = temp_len + extra_len
  /\ Untouched

\* The size of out_buf once it is made to hold the input again.
Restored == IF temp_len < length THEN length ELSE out_size

MayExtend == perf_score <= HAVOC_MAX_MULT * 100

\* common_fuzz_stuff() and what follows: the result may be a new entry of the queue,
\* and then the stage goes on for longer.
Execute ==
  /\ pc = "tweak" /\ use_stacking = 0
  /\ queue' \in {queue} \cup {Append(queue, temp_len) : x \in 1 .. MaxPaths - queued_paths}
  /\ out_size' = Restored /\ temp_len' = length
  /\ wild' = (wild \/ temp_len > out_size \/ length > out_size' \/ length > in_size)
  /\ IF queue' # queue /\ MayExtend
     THEN stage_max' = 2 * stage_max /\ perf_score' = 2 * perf_score
     ELSE UNCHANGED <<stage_max, perf_score>>
  /\ havoc_queued' = Len(queue')
  /\ stage_cur' = stage_cur + 1 /\ pc' = "stack"
  /\ UNCHANGED <<entry, handicap, orig_perf, use_stacking, splicing, length, in_size>>

EndHavoc ==
  /\ pc = "stack" /\ stage_cur >= stage_max
  /\ pc' = "splice"
  /\ UNCHANGED <<queue, entry, score, progress, use_stacking, splicing, length, in_size, temp_len,
                 out_size, wild>>

\* A skip request, a stop or too many timeouts end it after any execution.
GiveUp ==
  /\ pc = "tweak" /\ use_stacking = 0
  /\ pc' = "done" /\ splicing_with' = 0
  /\ UNCHANGED <<queue, entry, score, progress, use_stacking, splice_cycle, split, length, in_size,
                 temp_len, out_size, wild>>

---------------------------------------------------------------------------
(* Splicing. *)

\* The main loop sets use_splicing after a cycle without finds, or an option does.
MaySplice ==
  /\ use_splicing /\ splice_cycle < SPLICE_CYCLES
  /\ queued_paths > 1 /\ queue[current_entry] > 1

Usable(i) == queue[i] >= 2 /\ i # current_entry

\* The entry to splice with: one drawn at random, or the next that is long enough.
Partners(tid) == {i \in tid .. queued_paths : Usable(i) /\ \A j \in tid .. i - 1 : ~Usable(j)}

\* A version that takes any two inputs that differ.
FarApartAny(first, last) == TRUE

FarApart(first, last) == last >= 2 /\ first # last

\* A version that only counts the tries that found a partner.
TriesFound(tid) == IF Partners(tid) = {} THEN splice_cycle ELSE splice_cycle + 1

Tries(tid) == splice_cycle + 1

\* The input, as it was before an earlier splice, and its partner are cut somewhere
\* between their first and their last difference.  There is none, or not two far enough
\* apart, and the next try begins; otherwise back to havoc with what they make together.
TrySplice ==
  /\ pc = "splice" /\ MaySplice
  /\ \E tid \in DOMAIN queue \ {current_entry} :
       /\ splice_cycle' = Tries(tid)
       /\ \/ /\ splicing_with' = (IF Partners(tid) = {} THEN queued_paths + 1
                                  ELSE CHOOSE i \in Partners(tid) : TRUE)
             /\ length' = queue[current_entry] /\ in_size' = length'
             /\ UNCHANGED <<pc, split, temp_len, out_size, wild>>
          \/ \E i \in Partners(tid) :
             LET common == Least(queue[current_entry], queue[i])
             IN \E first, last \in 0 .. common - 1 :
                  /\ first <= last /\ FarApart(first, last)
                  /\ \E x \in UR(last - first) :
                       /\ split' = <<first, first + x, last>>
                       /\ Within(first + x, common)
                  /\ splicing_with' = i
                  /\ length' = queue[i] /\ in_size' = length' /\ out_size' = length'
                  /\ pc' = "havoc" /\ UNCHANGED temp_len
  /\ UNCHANGED <<queue, entry, score, progress, use_stacking>>

EndSplice ==
  /\ pc = "splice" /\ ~MaySplice
  /\ pc' = "done" /\ splicing_with' = 0
  /\ UNCHANGED <<queue, entry, score, progress, use_stacking, splice_cycle, split, length, in_size,
                 temp_len, out_size, wild>>

HavocNext ==
  \/ Score \/ EnterHavoc \/ Stack
  \/ TweakValue \/ DeleteBytes \/ CloneBytes \/ OverwriteBytes \/ OverwriteExtra \/ InsertExtra
  \/ Execute \/ EndHavoc \/ GiveUp
  \/ TrySplice \/ EndSplice

HavocSpec == HavocInit /\ [][HavocNext]_havocVars
FairSpec == HavocSpec /\ WF_havocVars(HavocNext)
---------------------------------------------------------------------------
\* An input never grows beyond MAX_FILE, while it is tweaked or as an entry.
TypeOK ==
  /\ queue \in Seq(Lengths) /\ current_entry \in DOMAIN queue
  /\ pc \in {"score", "havoc", "stack", "tweak", "splice", "done"}
  /\ queue_cycle \in Nat \ {0}
  /\ length \in Lengths /\ temp_len \in Lengths /\ in_size \in Nat /\ out_size \in Nat
  /\ splice_cycle \in Nat /\ splicing_with \in 0 .. queued_paths + 1

\* However long the stack of tweaks and whatever the dice show, every access stays in
\* the buffer, which is exchanged for another one by some tweaks and is not cut by others;
\* and no die without sides is thrown (5 cases compute the sides as a difference).
NothingWild == ~wild

\* What havoc works on after a splice has the length of another entry, and in it a
\* difference to the input that was spliced.
SplicedWithAnother ==
  splicing_with > 0 /\ pc \in {"havoc", "stack", "tweak"} =>
    /\ splicing_with \in DOMAIN queue /\ splicing_with # current_entry
    /\ length = queue[splicing_with]
    /\ split[1] <= split[2] /\ split[2] <= split[3] - 1 /\ split[3] < length

\* The entry is done with at last, although what is found prolongs the stage and a
\* splice that comes to nothing is tried again.
EntryEnds == <>(pc = "done")
============================================================================
