-------------------------------- MODULE Tmin --------------------------------
(***************************************************************************)
(* afl-tmin: an input is made smaller, and then plainer, as long as the    *)
(* target does with it what it did with the original.  Every candidate is   *)
(* executed; what the target does is drawn from a set, with more than one   *)
(* element if the target is flaky or slow.                                 *)
(***************************************************************************)
EXTENDS Integers, Sequences, FiniteSetsExt

CONSTANTS
  Zero,               \* the character '0'
  Symbols,            \* the characters of inputs, numbers
  Inputs,             \* originals
  Targets,
  Result(_, _),       \* what a target may do with an input: [fault, path]
  Stable,             \* targets that always do the same
  NoTrace,            \* the path of a run that leaves an empty trace
  TMIN_SET_STEPS, TMIN_SET_MIN_SIZE, TRIM_START_STEPS

ASSUME TminAssumption ==
  /\ Zero \in Symbols /\ Symbols \subseteq Nat /\ Inputs \subseteq Seq(Symbols) \ {<< >>}
  /\ \A t \in Targets, i \in Inputs : Result(t, i) # {}
  /\ {TMIN_SET_STEPS, TMIN_SET_MIN_SIZE, TRIM_START_STEPS} \subseteq Nat \ {0}

VARIABLES
  target, exact_mode,
  stop_soon,
  crash_mode, orig_cksum,   \* what the original did
  pc,           \* "dry", "blocks", "delete", "symbols", "chars", "done", "aborted" or "fatal"
  in_data,      \* the best input so far
  pos,          \* set_pos, del_pos or i
  del_len, prev_del,
  symbols,      \* those still to be tried
  tmp_buf,      \* of the last stage
  changed_any, cur_pass,
  out_file,     \* what was written
  last_ok       \* history: the last input that was executed and not refused, or the original

mode == <<target, exact_mode, crash_mode, orig_cksum>>
cursor == <<pos, del_len, prev_del, symbols, tmp_buf>>
vars == <<mode, stop_soon, pc, in_data, cursor, changed_any, cur_pass, out_file, last_ok>>

in_len == Len(in_data)
Least(a, b) == IF a < b THEN a ELSE b

\* 1 is doubled as long as it is less than v.
next_p2(v) == IF v <= 1 THEN 1 ELSE 2 * Max({2 ^ k : k \in 0 .. v} \cap 0 .. v - 1)

Init ==
  /\ target \in Targets /\ exact_mode \in BOOLEAN /\ in_data \in Inputs
  /\ stop_soon = FALSE
  /\ crash_mode = FALSE /\ orig_cksum = 0
  /\ pc = "dry" /\ pos = 0 /\ del_len = 0 /\ prev_del = TRUE /\ symbols = {} /\ tmp_buf = << >>
  /\ changed_any = FALSE /\ cur_pass = 0
  /\ out_file = << >> /\ last_ok = in_data

---------------------------------------------------------------------------
(* run_target() *)

Accepts(r) ==
  /\ r.fault # "hang"
  /\ (r.fault = "crash") = crash_mode
  /\ (crash_mode => exact_mode) => r.path = orig_cksum

\* A stop is noticed after the run: the best input is written, whatever the run showed.
Abort ==
  /\ stop_soon
  /\ out_file' = in_data /\ pc' = "aborted"
  /\ UNCHANGED <<mode, stop_soon, in_data, cursor, changed_any, cur_pass, last_ok>>

\* A candidate is executed, and may be kept or not.
Try(buf, kept) ==
  /\ ~stop_soon
  /\ \E r \in Result(target, buf) : kept = Accepts(r)
  /\ last_ok' = (IF kept THEN buf ELSE last_ok)
  /\ UNCHANGED <<mode, stop_soon, out_file>>

DryRun ==
  /\ pc = "dry" /\ ~stop_soon
  /\ \E r \in Result(target, in_data) :
       IF r.fault = "hang" \/ (r.fault # "crash" /\ r.path = NoTrace)
       THEN pc' = "fatal" /\ UNCHANGED <<crash_mode, orig_cksum>>
       ELSE pc' = "blocks" /\ crash_mode' = (r.fault = "crash") /\ orig_cksum' = r.path
  /\ UNCHANGED <<target, exact_mode, stop_soon, in_data, cursor, changed_any, cur_pass, out_file,
                 last_ok>>

---------------------------------------------------------------------------
(* Stage 0: large blocks are overwritten. *)

set_len == Max({next_p2(in_len \div TMIN_SET_STEPS), TMIN_SET_MIN_SIZE})

\* `upto` bytes from `at` on become '0'.
Zeroed(buf, at, upto) == [k \in DOMAIN buf |-> IF k - at \in 1 .. upto THEN Zero ELSE buf[k]]

NormalizeBlock ==
  /\ pc = "blocks" /\ pos < in_len
  /\ LET candidate == Zeroed(in_data, pos, set_len)
     IN IF candidate = in_data THEN UNCHANGED <<mode, stop_soon, out_file, in_data, last_ok>>
        ELSE \E kept \in BOOLEAN : /\ Try(candidate, kept)
                                   /\ in_data' = IF kept THEN candidate ELSE in_data
  /\ pos' = pos + set_len
  /\ UNCHANGED <<pc, del_len, prev_del, symbols, tmp_buf, changed_any, cur_pass>>

\* next_pass: and the first block size.
BeginPass ==
  /\ \/ pc = "blocks" /\ pos >= in_len
     \/ pc = "chars" /\ pos >= in_len /\ changed_any
  /\ pc' = "delete" /\ cur_pass' = cur_pass + 1 /\ changed_any' = FALSE
  /\ del_len' = next_p2(in_len \div TRIM_START_STEPS)
  /\ pos' = 0 /\ prev_del' = TRUE /\ tmp_buf' = << >>
  /\ UNCHANGED <<mode, stop_soon, in_data, symbols, out_file, last_ok>>

---------------------------------------------------------------------------
(* Stage 1: blocks are deleted. *)

Block(at) == SubSeq(in_data, at + 1, at + del_len)

\* The block before was tried and is the same: without this one the input looks as it does
\* without the other.
Skippable == ~prev_del /\ pos + del_len < in_len /\ Block(pos - del_len) = Block(pos)

SkipBlock ==
  /\ pc = "delete" /\ pos < in_len /\ Skippable
  /\ pos' = pos + del_len
  /\ UNCHANGED <<mode, stop_soon, pc, in_data, del_len, prev_del, symbols, tmp_buf, changed_any,
                 cur_pass, out_file, last_ok>>

DeleteBlock ==
  /\ pc = "delete" /\ pos < in_len /\ ~Skippable
  /\ LET candidate == SubSeq(in_data, 1, pos) \o SubSeq(in_data, pos + del_len + 1, in_len)
     IN \E kept \in BOOLEAN :
          /\ Try(candidate, kept)
          /\ prev_del' = kept
          /\ IF kept THEN in_data' = candidate /\ changed_any' = TRUE /\ UNCHANGED pos
             ELSE pos' = pos + del_len /\ UNCHANGED <<in_data, changed_any>>
  /\ UNCHANGED <<pc, del_len, symbols, tmp_buf, cur_pass>>

\* Versions with one round more, and one less.
FinerAlways == del_len >= 1 /\ in_len >= 1
FinerShort == del_len > 2 /\ in_len >= 1

\* Is there a round with smaller blocks?
Finer == del_len > 1 /\ in_len >= 1

HalveBlocks ==
  /\ pc = "delete" /\ pos >= in_len /\ Finer
  /\ del_len' = Max({1, del_len \div 2}) /\ pos' = 0 /\ prev_del' = TRUE
  /\ UNCHANGED <<mode, stop_soon, pc, in_data, symbols, tmp_buf, changed_any, cur_pass, out_file,
                 last_ok>>

DeletionDone == pc = "delete" /\ pos >= in_len /\ ~Finer

Fruitless == cur_pass > 1 /\ ~changed_any

---------------------------------------------------------------------------
(* Stages 2 and 3: symbols, and then single characters, become '0'. *)

ToReplace == {in_data[k] : k \in DOMAIN in_data} \ {Zero}

BeginSymbols ==
  /\ DeletionDone /\ ~Fruitless
  /\ pc' = "symbols" /\ symbols' = ToReplace /\ pos' = 0
  /\ UNCHANGED <<mode, stop_soon, in_data, del_len, prev_del, tmp_buf, changed_any, cur_pass,
                 out_file, last_ok>>

ReplaceSymbol ==
  /\ pc = "symbols" /\ symbols # {}
  /\ LET s == Min(symbols)
         candidate == [k \in DOMAIN in_data |-> IF in_data[k] = s THEN Zero ELSE in_data[k]]
     IN /\ symbols' = symbols \ {s}
        /\ \E kept \in BOOLEAN :
             /\ Try(candidate, kept)
             /\ IF kept THEN in_data' = candidate /\ changed_any' = TRUE
                ELSE UNCHANGED <<in_data, changed_any>>
  /\ UNCHANGED <<pc, pos, del_len, prev_del, tmp_buf, cur_pass>>

BeginChars ==
  /\ pc = "symbols" /\ symbols = {}
  /\ pc' = "chars" /\ pos' = 0 /\ tmp_buf' = in_data
  /\ UNCHANGED <<mode, stop_soon, in_data, del_len, prev_del, symbols, changed_any, cur_pass,
                 out_file, last_ok>>

\* A version that leaves in the buffer what was refused.
PutBackNot(buf, candidate) == candidate

PutBack(buf, candidate) == buf

ReplaceChar ==
  /\ pc = "chars" /\ pos < in_len
  /\ LET candidate == [tmp_buf EXCEPT ![pos + 1] = Zero]
     IN IF tmp_buf[pos + 1] = Zero
        THEN UNCHANGED <<mode, stop_soon, out_file, in_data, tmp_buf, changed_any, last_ok>>
        ELSE \E kept \in BOOLEAN :
               /\ Try(candidate, kept)
               /\ IF kept
                  THEN /\ in_data' = [in_data EXCEPT ![pos + 1] = Zero]
                       /\ tmp_buf' = candidate /\ changed_any' = TRUE
                  ELSE /\ tmp_buf' = PutBack(tmp_buf, candidate)
                       /\ UNCHANGED <<in_data, changed_any>>
  /\ pos' = pos + 1
  /\ UNCHANGED <<pc, del_len, prev_del, symbols, cur_pass>>

\* finalize_all, and the result is written.
Finalize ==
  /\ \/ DeletionDone /\ Fruitless
     \/ pc = "chars" /\ pos >= in_len /\ ~changed_any
  /\ out_file' = in_data /\ pc' = "done"
  /\ UNCHANGED <<mode, stop_soon, in_data, cursor, changed_any, cur_pass, last_ok>>

\* Ctrl-C
Stop ==
  /\ ~stop_soon /\ stop_soon' = TRUE
  /\ UNCHANGED <<mode, pc, in_data, cursor, changed_any, cur_pass, out_file, last_ok>>

\* A run is due.
Runs ==
  \/ pc = "dry"
  \/ pc = "blocks" /\ pos < in_len /\ Zeroed(in_data, pos, set_len) # in_data
  \/ pc = "delete" /\ pos < in_len /\ ~Skippable
  \/ pc = "symbols" /\ symbols # {}
  \/ pc = "chars" /\ pos < in_len /\ tmp_buf[pos + 1] # Zero

Step ==
  \/ DryRun \/ NormalizeBlock \/ BeginPass
  \/ SkipBlock \/ DeleteBlock \/ HalveBlocks
  \/ BeginSymbols \/ ReplaceSymbol \/ BeginChars \/ ReplaceChar \/ Finalize
  \/ Runs /\ Abort

Next == Step \/ Stop

\* Every run ends, by the timeout if not by itself.
Spec == Init /\ [][Next]_vars /\ WF_vars(Step)
---------------------------------------------------------------------------
Ended == pc \in {"done", "aborted", "fatal"}

\* What is kept, and what is written whenever the tool stops, is an input that was executed
\* just so and did what the original does, with any target: candidates are put together
\* from three buffers that are changed one after the other.
OutputWorks ==
  /\ in_data = last_ok
  /\ pc \in {"done", "aborted"} => out_file = in_data

\* For a target that always does the same the output cannot do without any of its bytes,
\* although blocks that look like the one before are not tried.
OneMinimal ==
  pc = "done" /\ target \in Stable =>
    \A k \in DOMAIN out_file : \A r \in Result(target, SubSeq(out_file, 1, k - 1)
                                                   \o SubSeq(out_file, k + 1, Len(out_file))) :
      ~Accepts(r)

\* The passes come to an end, also with a target that is flaky.
MinimizeEnds == <>Ended
=============================================================================
