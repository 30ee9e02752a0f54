---------------------------- MODULE TargetRunner ----------------------------
(***************************************************************************)
(* What run_target() of afl-fuzz promises to its callers, with no process, *)
(* pipe, timer or signal in it: a run begins, the target's execution of    *)
(* that one input settles on an outcome, and the run answers with a fault  *)
(* code that the outcome justifies.  ForkServer.tla implements it.         *)
(***************************************************************************)

VARIABLES
  phase,     \* "idle": between runs; "running": inside a run; "exited"
  outcome,   \* what the target did with the input of the current run
  expired,   \* the time limit of the current run was reached
  stopping,  \* the user or the program asked for the end of the session
  fault      \* the last answer of run_target()

vars == <<phase, outcome, expired, stopping, fault>>

Outcomes == {"done", "paused", "sanitizer", "execfail", "crash", "oomkill", "cut"}
Faults   == {"FAULT_NONE", "FAULT_TMOUT", "FAULT_CRASH", "FAULT_ERROR"}

(* The answers an outcome justifies.  "cut" is an execution the fuzzer     *)
(* itself killed because its time was up: it is never a crash.  "paused"   *)
(* is a persistent process that finished the input and stopped: when its   *)
(* time is up before anyone noticed, a timeout is as good an answer.  A    *)
(* SIGKILL from outside ("oomkill") is a crash unless the time was up, and *)
(* a sanitizer's exit code is one in programs known to use it.             *)
Justified(o) ==
  CASE o = "done"      -> {"FAULT_NONE"}
    [] o = "paused"    -> {"FAULT_NONE"} \cup (IF expired THEN {"FAULT_TMOUT"} ELSE {})
    [] o = "sanitizer" -> {"FAULT_NONE", "FAULT_CRASH"}
    [] o = "execfail"  -> {"FAULT_ERROR"}
    [] o = "crash"     -> {"FAULT_CRASH"}
    [] o = "oomkill"   -> IF expired THEN {"FAULT_TMOUT"} ELSE {"FAULT_CRASH"}
    [] o = "cut"       -> {"FAULT_TMOUT"}
    [] OTHER           -> {}

TypeOK ==
  /\ phase \in {"idle", "running", "exited"}
  /\ outcome \in Outcomes \cup {"none"}
  /\ expired \in BOOLEAN /\ stopping \in BOOLEAN
  /\ fault \in Faults

Init ==
  /\ phase = "idle" /\ outcome = "none"
  /\ expired = FALSE /\ stopping = FALSE /\ fault = "FAULT_NONE"

Begin ==
  /\ phase = "idle"
  /\ phase' = "running" /\ outcome' = "none" /\ expired' = FALSE
  /\ UNCHANGED <<stopping, fault>>

Settle(o) ==
  /\ phase = "running" /\ outcome = "none"
  /\ outcome' = o
  /\ UNCHANGED <<phase, expired, stopping, fault>>

(* The time limit is reached: an execution still in progress is cut short, *)
(* one that settled is not.                                                *)
Expire ==
  /\ phase # "exited"
  /\ expired' = TRUE
  /\ outcome' \in {outcome} \cup
       (IF phase = "running" /\ outcome = "none" THEN {"cut"} ELSE {})
  /\ UNCHANGED <<phase, stopping, fault>>

(* A run answers only after its target settled, with a justified fault; a  *)
(* session that is being stopped may also answer FAULT_NONE at any time.   *)
Answer ==
  /\ phase = "running"
  /\ fault' \in Justified(outcome) \cup (IF stopping THEN {"FAULT_NONE"} ELSE {})
  /\ phase' = "idle"
  /\ UNCHANGED <<outcome, expired, stopping>>

(* Stopping may cut short the execution in progress. *)
Stop ==
  /\ phase # "exited"
  /\ stopping' = TRUE
  /\ outcome' \in {outcome} \cup
       (IF phase = "running" /\ outcome = "none" THEN {"cut"} ELSE {})
  /\ UNCHANGED <<phase, expired, fault>>

(* exit() after a stop, or a fatal error of the runner itself. *)
GiveUp ==
  /\ phase # "exited"
  /\ phase' = "exited"
  /\ UNCHANGED <<outcome, expired, stopping, fault>>

Next ==
  \/ Begin
  \/ \E o \in Outcomes : Settle(o)
  \/ Expire
  \/ Answer
  \/ Stop
  \/ GiveUp

Spec == Init /\ [][Next]_vars
=============================================================================
