------------------------------ MODULE Findings ------------------------------
(***************************************************************************)
(* What an instance keeps of the inputs it executes: entries of its queue, *)
(* hangs and crashes.  An input that timed out is executed once more with a *)
(* longer limit before it counts as a hang.  Calibration of new entries is  *)
(* the subject of Corpus, dumb mode is left out, and so are the counters    *)
(* that are only displayed.                                                *)
(***************************************************************************)
EXTENDS Naturals, Sequences, FiniteSets

CONSTANTS
  Cases,          \* inputs
  MAP,            \* bytes of the trace
  Trace(_),       \* those an input hits within exec_tmout
  LongTrace(_),   \* and within hang_tmout
  Fault(_),       \* how a run with exec_tmout ends: "none", "tmout" or "crash"
  LongFault(_),   \* the same with hang_tmout
  Modes,          \* settings a session may have: crash_mode and generous
  KEEP_UNIQUE_HANG, KEEP_UNIQUE_CRASH

ASSUME FindingsAssumption ==
  /\ "none" \notin Cases
  /\ \A c \in Cases : Trace(c) \subseteq LongTrace(c) /\ LongTrace(c) \subseteq MAP
  /\ \A c \in Cases : {Fault(c), LongFault(c)} \subseteq {"none", "tmout", "crash"}
  /\ \A c \in Cases : Fault(c) # "tmout" => LongFault(c) = Fault(c) /\ LongTrace(c) = Trace(c)
  /\ Modes \subseteq {"none", "crash"} \X BOOLEAN
  /\ KEEP_UNIQUE_HANG \in Nat /\ KEEP_UNIQUE_CRASH \in Nat

VARIABLES
  crash_mode,     \* "crash" with -C, else "none"
  generous,       \* exec_tmout >= hang_tmout
  stop_soon,
  stage, mem,     \* "idle", or what is done with which input: "run", "judge", "rerun", "hang"
                  \* or "crash"
  queue,          \* the set of entries
  hangs, crashes, \* files kept in this session, in order
  virgin_bits, virgin_tmout, virgin_crash,  \* what has been seen: their cleared bits
  crashed         \* history: traces of crashes that came to be judged with room for one more

settings == <<crash_mode, generous>>
kept == <<queue, hangs, crashes, virgin_bits, virgin_tmout, virgin_crash, crashed>>
findings == <<settings, stop_soon, stage, mem, kept>>

\* A version that only keeps the bytes that are hit.
simplify_trace_hits(t) == {<<b, TRUE>> : b \in t}

\* Of each byte remains whether it is hit or not, and both are something to have seen.
simplify_trace(t) == {<<b, b \in t>> : b \in MAP}

FindingsInit ==
  /\ \E m \in Modes : crash_mode = m[1] /\ generous = m[2]
  /\ stop_soon = FALSE
  /\ stage = "idle" /\ mem = "none"
  /\ queue = {} /\ hangs = << >> /\ crashes = << >>
  /\ virgin_bits = {} /\ virgin_tmout = {} /\ virgin_crash = {} /\ crashed = {}

Finish == stage' = "idle" /\ mem' = "none"
Turn(to) == stage' = to /\ mem' = mem

\* write_to_testcase() and run_target(), from common_fuzz_stuff() or sync_fuzzers().
BeginRun(c) ==
  /\ stage = "idle"
  /\ stage' = "run" /\ mem' = c
  /\ UNCHANGED <<settings, stop_soon, kept>>

\* A stop kills the target, and then its result is not looked at.
EndRun ==
  /\ stage = "run"
  /\ IF stop_soon THEN Finish ELSE Turn("judge")
  /\ UNCHANGED <<settings, stop_soon, kept>>

\* The switch of save_if_interesting().
Switch == IF Fault(mem) = "none" THEN Finish
          ELSE Turn(IF Fault(mem) = "tmout" THEN "hang" ELSE "crash")

SaveIfInteresting ==
  /\ stage = "judge"
  /\ IF Fault(mem) = crash_mode
     THEN IF Trace(mem) \subseteq virgin_bits
          THEN Finish /\ UNCHANGED <<queue, virgin_bits>>
          ELSE /\ queue' = queue \cup {mem} /\ virgin_bits' = virgin_bits \cup Trace(mem)
               /\ Switch
     ELSE Switch /\ UNCHANGED <<queue, virgin_bits>>
  /\ UNCHANGED <<settings, stop_soon, hangs, crashes, virgin_tmout, virgin_crash, crashed>>

KeepHang == hangs' = Append(hangs, mem) /\ Finish

\* case FAULT_TMOUT
JudgeHang ==
  /\ stage = "hang"
  /\ LET seen == simplify_trace(Trace(mem))
     IN IF Len(hangs) >= KEEP_UNIQUE_HANG \/ seen \subseteq virgin_tmout
        THEN Finish /\ UNCHANGED <<hangs, virgin_tmout>>
        ELSE /\ virgin_tmout' = virgin_tmout \cup seen
             /\ IF generous THEN KeepHang ELSE Turn("rerun") /\ UNCHANGED hangs
  /\ UNCHANGED <<settings, stop_soon, queue, crashes, virgin_bits, virgin_crash, crashed>>

\* A version that does not ask how the second run ended.
ConfirmedAlways == ~stop_soon

Confirmed == ~stop_soon /\ LongFault(mem) = "tmout"

EndRerun ==
  /\ stage = "rerun"
  /\ IF ~stop_soon /\ LongFault(mem) = "crash" THEN Turn("crash") /\ UNCHANGED hangs
     ELSE IF Confirmed THEN KeepHang
     ELSE Finish /\ UNCHANGED hangs
  /\ UNCHANGED <<settings, stop_soon, queue, crashes, virgin_bits, virgin_tmout, virgin_crash,
                 crashed>>

\* case FAULT_CRASH and keep_as_crash: the trace is that of the last run.
JudgeCrash ==
  /\ stage = "crash"
  /\ Finish
  /\ LET seen == simplify_trace(LongTrace(mem))
     IN IF Len(crashes) >= KEEP_UNIQUE_CRASH \/ seen \subseteq virgin_crash
        THEN UNCHANGED <<crashes, virgin_crash>>
        ELSE virgin_crash' = virgin_crash \cup seen /\ crashes' = Append(crashes, mem)
  /\ crashed' = crashed \cup (IF Len(crashes) >= KEEP_UNIQUE_CRASH THEN {} ELSE {LongTrace(mem)})
  /\ UNCHANGED <<settings, stop_soon, queue, hangs, virgin_bits, virgin_tmout>>

\* SIGINT and the like.
Stop ==
  /\ ~stop_soon /\ stop_soon' = TRUE
  /\ UNCHANGED <<settings, stage, mem, kept>>

\* A resumed session starts with the queue and with empty directories for the rest.
Resume ==
  /\ stop_soon /\ stage = "idle"
  /\ stop_soon' = FALSE
  /\ hangs' = << >> /\ crashes' = << >> /\ crashed' = {}
  /\ virgin_bits' = UNION {Trace(c) : c \in queue} /\ virgin_tmout' = {} /\ virgin_crash' = {}
  /\ UNCHANGED <<settings, stage, mem, queue>>

Execution == EndRun \/ SaveIfInteresting \/ JudgeHang \/ EndRerun \/ JudgeCrash
---------------------------------------------------------------------------
\* Of a crash that came to be judged while there was room for one more: whatever it tells
\* about a byte of the trace, that it is hit or that it is not, a crash that was kept tells
\* as well, whichever way the crash was met, by itself or behind a time limit.  Crashes that
\* -C drops before that (3129-3131), and those over the limit, are not spoken of.
CrashesCovered ==
  \A t \in crashed, b \in MAP :
    \E k \in DOMAIN crashes : b \in t <=> b \in LongTrace(crashes[k])

\* A hang that was kept is one under the longer limit too, and no crash; and no two of
\* the hangs and crashes kept were the same to the instance.
FindingsGenuine ==
  /\ \A k \in DOMAIN hangs : generous \/ LongFault(hangs[k]) = "tmout"
  /\ \A k \in DOMAIN crashes : LongFault(crashes[k]) = "crash"
  /\ \A j, k \in DOMAIN hangs : j # k => Trace(hangs[j]) # Trace(hangs[k])
  /\ \A j, k \in DOMAIN crashes : j # k => LongTrace(crashes[j]) # LongTrace(crashes[k])
============================================================================
