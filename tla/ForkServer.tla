----------------------------- MODULE ForkServer -----------------------------
(***************************************************************************)
(* run_target() of afl-fuzz.c, its SIGALRM and stop-signal handlers, the   *)
(* fork server and the persistent loop that llvm_mode/afl-llvm-rt.o.c      *)
(* compiles into the target, and the target's process.                     *)
(*                                                                         *)
(* Three actors run concurrently: the fuzzer (program counter fz), the     *)
(* fork server (srv) and at most one target process per fork (proc).       *)
(* They share two pipes of untagged four-byte words, ctl and st, and       *)
(* signals.  A signal handler may run between any two steps of the fuzzer. *)
(* A SIGKILL takes effect some time after kill() returned: the process     *)
(* executes nothing more, but is "dying" (the server: srv_killed), its     *)
(* pipes open and its status not available, until the kernel acts on it.   *)
(***************************************************************************)
EXTENDS Sequences

CONSTANTS
  Modes,     \* how targets run: see below
  Pids,      \* process ids the kernel can hand out; it reuses them
  NoChild,   \* the value 0 of child_pid
  Unset      \* the value -1 of child_pid, before the first run

(* "oneshot": a fork per input; "persistent": __AFL_LOOP, one process for  *)
(* many inputs; "dumb": dumb_mode == 1 or no_forkserver.                   *)
AllModes == {"oneshot", "persistent", "dumb"}

(* The words the server writes to st other than a pid: its hello and the   *)
(* wait statuses of a target, which are also the states of a dead process  *)
(* that nobody waited for yet.                                             *)
DeadStatus == {"exited", "msan", "execfail", "crashed", "sigkilled"}
Status     == DeadStatus \cup {"stopped"}
Hello      == "hello"

ASSUME ModesAssumption == Modes \subseteq AllModes /\ Modes # {}
ASSUME PidsAssumption ==
  /\ Pids # {}
  /\ Pids \cap (Status \cup {Hello}) = {}
  /\ NoChild \notin Pids \cup Status \cup {Hello, Unset}
  /\ Unset \notin Pids \cup Status \cup {Hello}

VARIABLES
  \* configuration, fixed for the session
  mode, uses_asan,
  \* afl-fuzz: program counter and globals
  fz, child_pid, child_timed_out, prev_timed_out, stop_soon, timer, status, fault,
  \* fork server: program counter and locals (srv_child is its child_pid)
  srv, srv_child, child_stopped, was_killed, srv_status, srv_killed,
  \* kernel: pipes and the process table
  ctl, st, proc,
  \* history: what the target did with the input of the current run
  fate

config   == <<mode, uses_asan>>
fuzzer   == <<fz, child_pid, child_timed_out, prev_timed_out, stop_soon, timer, status, fault>>
server   == <<srv, srv_child, child_stopped, was_killed, srv_status, srv_killed>>
pipes    == <<ctl, st>>
timeouts  == <<child_timed_out, prev_timed_out>>
results   == <<timeouts, status, fault>>
world     == <<config, server, pipes>>
srvLocals == <<srv_child, child_stopped, was_killed, srv_status>>
env       == <<config, server, pipes, proc, fate>>   \* all but the fuzzer's own
vars     == <<config, fuzzer, server, pipes, proc, fate>>

FzStates  == {"hello", "helloDisarm", "idle", "fork", "store", "request", "readPid",
              "arm", "readStatus", "clear", "disarm", "answer", "exited"}
SrvStates == {"none", "start", "wait", "reap", "fork", "cont", "sendPid", "waitpid",
              "sendStatus", "dead"}
ProcStates == {"free", "running", "stopped", "dying"} \cup DeadStatus

Live(p)   == proc[p] \in {"running", "stopped", "dying"}
InRun     == fz \in {"fork", "store", "request", "readPid", "arm", "readStatus", "clear",
                     "disarm", "answer"}
SrvAlive  == srv \notin {"none", "dead"}

TypeOK ==
  /\ mode \in Modes /\ uses_asan \in BOOLEAN
  /\ fz \in FzStates
  /\ child_pid \in Pids \cup {NoChild, Unset}
  /\ child_timed_out \in BOOLEAN /\ prev_timed_out \in BOOLEAN
  /\ stop_soon \in {0, 1, 2} /\ timer \in BOOLEAN
  /\ status \in Status
  /\ fault \in {"FAULT_NONE", "FAULT_TMOUT", "FAULT_CRASH", "FAULT_ERROR"}
  /\ srv \in SrvStates
  /\ srv_child \in Pids \cup {NoChild}
  /\ child_stopped \in BOOLEAN /\ was_killed \in BOOLEAN
  /\ srv_status \in Status
  /\ srv_killed \in BOOLEAN
  /\ ctl \in Seq(BOOLEAN)
  /\ st \in Seq(Pids \cup Status \cup {Hello})
  /\ proc \in [Pids -> ProcStates]
  /\ fate \in {"none", "done", "paused", "sanitizer", "execfail", "crash", "oomkill", "cut"}

(* init_forkserver() has forked the server and armed its timer; in dumb    *)
(* mode there is no server.                                                *)
Init ==
  /\ mode \in Modes /\ uses_asan \in BOOLEAN
  /\ fz = (IF mode = "dumb" THEN "idle" ELSE "hello")
  /\ timer = (mode # "dumb")
  /\ child_pid = Unset
  /\ child_timed_out = FALSE /\ prev_timed_out = FALSE
  /\ stop_soon = 0 /\ status = "exited" /\ fault = "FAULT_NONE"
  /\ srv = (IF mode = "dumb" THEN "none" ELSE "start")
  /\ srv_child = NoChild
  /\ child_stopped = FALSE /\ was_killed = FALSE
  /\ srv_status = "exited" /\ srv_killed = FALSE
  /\ ctl = <<>> /\ st = <<>>
  /\ proc = [p \in Pids |-> "free"]
  /\ fate = "none"
-----------------------------------------------------------------------------
(* Signals sent with kill(pid, SIGKILL): no effect on a process that is    *)
(* dead already or whose pid was given back.                               *)
Killed(pid) ==
  IF pid \in Pids /\ proc[pid] \in {"running", "stopped"}
  THEN [proc EXCEPT ![pid] = "dying"] ELSE proc

(* A kill that reaches the target while it still works on its input cuts   *)
(* that execution short.                                                   *)
CutBy(pid) ==
  IF pid \in Pids /\ proc[pid] = "running" /\ InRun /\ fate = "none"
  THEN "cut" ELSE fate

(* handle_timeout(): SIGALRM of the one-shot interval timer. *)
HandleTimeout ==
  /\ timer /\ fz # "exited"
  /\ timer' = FALSE
  /\ child_timed_out' =
       (child_timed_out \/ child_pid \in Pids \/ (child_pid = Unset /\ srv # "none"))
  /\ proc' = Killed(child_pid)
  /\ fate' = CutBy(child_pid)
  /\ srv_killed' = (srv_killed \/ (child_pid = Unset /\ SrvAlive))
  /\ UNCHANGED <<config, pipes, srv, srvLocals, fz, child_pid, prev_timed_out, stop_soon,
                 status, fault>>

(* handle_stop_sig(): SIGINT, SIGTERM or SIGHUP, possibly more than once.  *)
HandleStopSig ==
  /\ fz # "exited"
  /\ stop_soon' = 1
  /\ proc' = Killed(child_pid)
  /\ fate' = CutBy(child_pid)
  /\ srv_killed' = (srv_killed \/ SrvAlive)
  /\ UNCHANGED <<results, srvLocals, pipes, config, fz, child_pid, timer, srv>>

(* show_stats() ends the session by itself: AFL_EXIT_WHEN_DONE and         *)
(* AFL_BENCH_UNTIL_CRASH set stop_soon to 2 between two runs.              *)
StopProgrammatically ==
  /\ fz = "idle" /\ stop_soon = 0
  /\ stop_soon' = 2
  /\ UNCHANGED <<env, results, fz, child_pid, timer>>
-----------------------------------------------------------------------------
(* Failure of a read or write on the pipes: run_target() returns 0 when    *)
(* the session is being stopped and is fatal otherwise.  The timer is left *)
(* as it is.                                                               *)
StEOF == st = <<>> /\ ~SrvAlive

PipeFails ==
  /\ IF stop_soon # 0 THEN fz' = "idle" /\ fault' = "FAULT_NONE"
                      ELSE fz' = "exited" /\ UNCHANGED fault
  /\ UNCHANGED <<env, child_pid, timeouts, stop_soon, timer, status>>

(* init_forkserver(): wait for the hello, or fail for good. *)
AwaitHello ==
  /\ fz = "hello"
  /\ st # <<>> \/ StEOF
  /\ IF st # <<>> THEN st' = Tail(st) /\ fz' = "helloDisarm" /\ UNCHANGED timer
                  ELSE timer' = FALSE /\ fz' = "exited" /\ UNCHANGED st
  /\ UNCHANGED <<server, results, config, child_pid, stop_soon, ctl, proc, fate>>

HelloDisarm ==
  /\ fz = "helloDisarm"
  /\ timer' = FALSE /\ fz' = "idle"
  /\ UNCHANGED <<env, results, child_pid, stop_soon>>

(* Entry of run_target(): also possible when a stop is already pending,    *)
(* because the callers look at stop_soon after a run.                      *)
BeginRun ==
  /\ fz = "idle"
  /\ child_timed_out' = FALSE
  /\ fate' = "none"
  /\ fz' = IF mode = "dumb" THEN "fork" ELSE "request"
  /\ UNCHANGED <<world, child_pid, prev_timed_out, stop_soon, timer, status, fault, proc>>

(* dumb mode: fork(), in the parent; or PFATAL when it fails. *)
DumbFork ==
  /\ fz = "fork"
  /\ \/ \E p \in Pids : /\ proc[p] = "free"
                        /\ proc' = [proc EXCEPT ![p] = "running"]
                        /\ fz' = "store"
     \/ fz' = "exited" /\ UNCHANGED proc
  /\ UNCHANGED <<world, results, child_pid, stop_soon, timer, fate>>

(* The assignment of fork()'s result: a handler may run before it. *)
StorePid ==
  /\ fz = "store"
  /\ \E p \in Pids : proc[p] # "free" /\ child_pid' = p
  /\ fz' = "arm"
  /\ UNCHANGED <<env, results, stop_soon, timer>>

Request ==
  /\ fz = "request"
  /\ \/ /\ SrvAlive
        /\ ctl' = Append(ctl, prev_timed_out)
        /\ fz' = "readPid"
        /\ UNCHANGED <<server, results, config, child_pid, stop_soon, timer, st, proc, fate>>
     \/ ~SrvAlive /\ PipeFails

(* Mutant: the pid is only taken when none is known. *)
ReadPidOnce ==
  /\ fz = "readPid"
  /\ \/ /\ st # <<>>
        /\ child_pid' = (IF child_pid \in Pids THEN child_pid ELSE Head(st)) /\ st' = Tail(st)
        /\ fz' = "arm"
        /\ UNCHANGED <<server, results, config, stop_soon, timer, ctl, proc, fate>>
     \/ StEOF /\ PipeFails

ReadPid ==
  /\ fz = "readPid"
  /\ \/ /\ st # <<>>
        /\ child_pid' = Head(st) /\ st' = Tail(st)
        /\ fz' = "arm"
        /\ UNCHANGED <<server, results, config, stop_soon, timer, ctl, proc, fate>>
     \/ StEOF /\ PipeFails

Arm ==
  /\ fz = "arm"
  /\ timer' = TRUE
  /\ fz' = "readStatus"
  /\ UNCHANGED <<env, results, child_pid, stop_soon>>

(* Mutant: the stop flag is looked at before the status is waited for. *)
ReadStatusStopFirst ==
  /\ fz = "readStatus" /\ mode # "dumb"
  /\ \/ /\ st # <<>>
        /\ status' = Head(st) /\ st' = Tail(st)
        /\ fz' = "clear"
        /\ UNCHANGED <<server, config, child_pid, timeouts, stop_soon, timer, fault, ctl, proc,
                       fate>>
     \/ (StEOF \/ stop_soon # 0) /\ PipeFails

(* The blocking read of the status, or waitpid() in dumb mode. *)
ReadStatus ==
  /\ fz = "readStatus" /\ mode # "dumb"
  /\ \/ /\ st # <<>>
        /\ status' = Head(st) /\ st' = Tail(st)
        /\ fz' = "clear"
        /\ UNCHANGED <<server, config, child_pid, timeouts, stop_soon, timer, fault, ctl, proc,
                       fate>>
     \/ StEOF /\ PipeFails

(* Mutant: waitpid() with WNOHANG. *)
DumbWaitNoHang ==
  /\ fz = "readStatus" /\ mode = "dumb"
  /\ status' = IF proc[child_pid] \in DeadStatus THEN proc[child_pid] ELSE "exited"
  /\ proc' = IF proc[child_pid] \in DeadStatus THEN [proc EXCEPT ![child_pid] = "free"] ELSE proc
  /\ fz' = "clear"
  /\ UNCHANGED <<world, child_pid, timeouts, stop_soon, timer, fault, fate>>

DumbWait ==
  /\ fz = "readStatus" /\ mode = "dumb"
  /\ proc[child_pid] \in DeadStatus
  /\ status' = proc[child_pid]
  /\ proc' = [proc EXCEPT ![child_pid] = "free"]
  /\ fz' = "clear"
  /\ UNCHANGED <<world, child_pid, timeouts, stop_soon, timer, fault, fate>>

(* if (!WIFSTOPPED(status)) child_pid = 0 *)
ClearPid ==
  /\ fz = "clear"
  /\ child_pid' = IF status = "stopped" THEN child_pid ELSE NoChild
  /\ fz' = "disarm"
  /\ UNCHANGED <<env, results, stop_soon, timer>>

Disarm ==
  /\ fz = "disarm"
  /\ timer' = FALSE
  /\ fz' = "answer"
  /\ UNCHANGED <<env, results, child_pid, stop_soon>>

(* The verdict on a wait status. *)
FaultOf(s) ==
  CASE s \in {"crashed", "sigkilled"} /\ stop_soon = 0 ->
         IF child_timed_out /\ s = "sigkilled" THEN "FAULT_TMOUT" ELSE "FAULT_CRASH"
    [] s = "msan" /\ uses_asan -> "FAULT_CRASH"
    [] s = "execfail" /\ mode = "dumb" -> "FAULT_ERROR"
    [] OTHER -> "FAULT_NONE"

(* Mutant: prev_timed_out keeps its first value. *)
AnswerRunForgets ==
  /\ fz = "answer"
  /\ fault' = FaultOf(status)
  /\ fz' = "idle"
  /\ UNCHANGED <<env, child_pid, timeouts, stop_soon, timer, status>>

AnswerRun ==
  /\ fz = "answer"
  /\ prev_timed_out' = child_timed_out
  /\ fault' = FaultOf(status)
  /\ fz' = "idle"
  /\ UNCHANGED <<env, child_pid, child_timed_out, stop_soon, timer, status>>

(* The main loop sees stop_soon and calls exit(). *)
ExitFuzzer ==
  /\ fz = "idle" /\ stop_soon # 0
  /\ fz' = "exited"
  /\ UNCHANGED <<env, results, child_pid, stop_soon, timer>>
-----------------------------------------------------------------------------
(* __afl_start_forkserver(). A failed read, write, fork or wait ends the   *)
(* server with _exit(1).                                                   *)
SrvGoes(s) == ~srv_killed /\ srv' = s /\ UNCHANGED srv_killed

(* A write can only fail when afl-fuzz is gone; afl-fuzz leaves between    *)
(* two runs, or when the server is dead, so no write here finds it gone.   *)
SrvWrite(word, next) == SrvGoes(next) /\ st' = Append(st, word)

(* The target reaches the constructor and says hello, or dies before it. *)
SrvHello ==
  /\ srv = "start"
  /\ SrvWrite(Hello, "wait") \/ (SrvGoes("dead") /\ UNCHANGED st)
  /\ UNCHANGED <<fuzzer, srvLocals, config, ctl, proc, fate>>

(* Mutants: the killed child is not waited for; a live one is; the end of  *)
(* the pipe goes unnoticed.                                                *)
SrvReadCtlTo(next, eof) ==
  /\ srv = "wait"
  /\ \/ /\ ctl # <<>>
        /\ was_killed' = Head(ctl) /\ ctl' = Tail(ctl)
        /\ SrvGoes(next)
     \/ /\ ctl = <<>> /\ fz = "exited" /\ eof
        /\ SrvGoes("dead") /\ UNCHANGED <<was_killed, ctl>>
  /\ UNCHANGED <<fuzzer, config, srv_child, child_stopped, srv_status, st, proc, fate>>

SrvReadCtlNoReap ==
  SrvReadCtlTo(IF child_stopped /\ ~Head(ctl) THEN "cont" ELSE "fork", TRUE)
SrvReadCtlAlwaysReap == SrvReadCtlTo(IF child_stopped THEN "reap" ELSE "fork", TRUE)
SrvReadCtlNoEOF ==
  SrvReadCtlTo(IF ~child_stopped THEN "fork" ELSE IF Head(ctl) THEN "reap" ELSE "cont", FALSE)

SrvReadCtl ==
  /\ srv = "wait"
  /\ \/ /\ ctl # <<>>
        /\ was_killed' = Head(ctl) /\ ctl' = Tail(ctl)
        /\ SrvGoes(IF ~child_stopped THEN "fork" ELSE IF Head(ctl) THEN "reap" ELSE "cont")
     \/ /\ ctl = <<>> /\ fz = "exited"
        /\ SrvGoes("dead") /\ UNCHANGED <<was_killed, ctl>>
  /\ UNCHANGED <<fuzzer, config, srv_child, child_stopped, srv_status, st, proc, fate>>

(* A stopped child that a late SIGALRM killed is written off. *)
SrvReap ==
  /\ srv = "reap"
  /\ proc[srv_child] \in DeadStatus
  /\ proc' = [proc EXCEPT ![srv_child] = "free"]
  /\ child_stopped' = FALSE
  /\ SrvGoes("fork")
  /\ UNCHANGED <<fuzzer, pipes, config, srv_child, was_killed, srv_status, fate>>

SrvFork ==
  /\ srv = "fork"
  /\ \/ \E p \in Pids : /\ proc[p] = "free"
                        /\ proc' = [proc EXCEPT ![p] = "running"]
                        /\ srv_child' = p
                        /\ SrvGoes("sendPid")
     \/ SrvGoes("dead") /\ UNCHANGED <<proc, srv_child>>
  /\ UNCHANGED <<fuzzer, pipes, config, child_stopped, was_killed, srv_status, fate>>

(* Mutant: the pid of a resumed child is not reported. *)
SrvContSilent ==
  /\ srv = "cont"
  /\ proc' = IF proc[srv_child] = "stopped" THEN [proc EXCEPT ![srv_child] = "running"] ELSE proc
  /\ child_stopped' = FALSE
  /\ SrvGoes("waitpid")
  /\ UNCHANGED <<fuzzer, pipes, config, srv_child, was_killed, srv_status, fate>>

(* kill(child_pid, SIGCONT) *)
SrvCont ==
  /\ srv = "cont"
  /\ proc' = IF proc[srv_child] = "stopped" THEN [proc EXCEPT ![srv_child] = "running"] ELSE proc
  /\ child_stopped' = FALSE
  /\ SrvGoes("sendPid")
  /\ UNCHANGED <<fuzzer, pipes, config, srv_child, was_killed, srv_status, fate>>

SrvSendPid ==
  /\ srv = "sendPid"
  /\ SrvWrite(srv_child, "waitpid")
  /\ UNCHANGED <<fuzzer, srvLocals, config, ctl, proc, fate>>

(* waitpid(child_pid, &status, is_persistent ? WUNTRACED : 0) *)
SrvWaitpid ==
  /\ srv = "waitpid"
  /\ \/ /\ proc[srv_child] \in DeadStatus
        /\ proc' = [proc EXCEPT ![srv_child] = "free"]
        /\ UNCHANGED child_stopped
     \/ /\ mode = "persistent" /\ proc[srv_child] = "stopped"
        /\ child_stopped' = TRUE
        /\ UNCHANGED proc
  /\ srv_status' = proc[srv_child]
  /\ SrvGoes("sendStatus")
  /\ UNCHANGED <<fuzzer, pipes, config, srv_child, was_killed, fate>>

SrvSendStatus ==
  /\ srv = "sendStatus"
  /\ SrvWrite(srv_status, "wait")
  /\ UNCHANGED <<fuzzer, srvLocals, config, ctl, proc, fate>>

(* The kernel delivers the SIGKILL. *)
SrvDies ==
  /\ srv_killed /\ SrvAlive
  /\ srv' = "dead" /\ srv_killed' = FALSE
  /\ UNCHANGED <<fuzzer, srvLocals, pipes, config, proc, fate>>
-----------------------------------------------------------------------------
(* The target's process. *)
Settles(f) == fate' = IF InRun /\ fate = "none" THEN f ELSE fate

(* The end of a process by itself: normally, with the exit code of a       *)
(* sanitizer, because execv() failed, by a signal of its own, or by a      *)
(* SIGKILL of someone else such as the OOM killer.                         *)
ChildEnds(p) ==
  /\ proc[p] = "running"
  /\ \E end \in DeadStatus :
       /\ end = "execfail" => mode = "dumb"
       /\ proc' = [proc EXCEPT ![p] = end]
       /\ Settles(CASE end = "exited"    -> "done"
                    [] end = "msan"      -> "sanitizer"
                    [] end = "execfail"  -> "execfail"
                    [] end = "crashed"   -> "crash"
                    [] end = "sigkilled" -> "oomkill")
  /\ UNCHANGED <<world, fuzzer>>

(* __afl_persistent_loop(): raise(SIGSTOP) at the end of an iteration; in  *)
(* the last one cycle_cnt is 0 and the process leaves through ChildEnds.   *)
ChildStops(p) ==
  /\ mode = "persistent" /\ proc[p] = "running"
  /\ proc' = [proc EXCEPT ![p] = "stopped"]
  /\ Settles("paused")
  /\ UNCHANGED <<world, fuzzer>>

(* The kernel delivers a SIGKILL of the fuzzer. *)
ChildDies(p) ==
  /\ proc[p] = "dying"
  /\ proc' = [proc EXCEPT ![p] = "sigkilled"]
  /\ UNCHANGED <<world, fuzzer, fate>>

(* init waits for a dead child once its parent is gone. *)
InitReaps(p) ==
  /\ proc[p] \in DeadStatus
  /\ IF mode = "dumb" THEN fz = "exited" ELSE srv = "dead"
  /\ proc' = [proc EXCEPT ![p] = "free"]
  /\ UNCHANGED <<world, fuzzer, fate>>
-----------------------------------------------------------------------------
FuzzerStep == \/ AwaitHello \/ HelloDisarm \/ DumbFork \/ StorePid \/ Request \/ ReadPid
              \/ Arm \/ ReadStatus \/ DumbWait \/ ClearPid \/ Disarm \/ AnswerRun
ServerStep == \/ SrvHello \/ SrvReadCtl \/ SrvReap \/ SrvFork \/ SrvCont \/ SrvSendPid
              \/ SrvWaitpid \/ SrvSendStatus
Signal     == HandleTimeout \/ HandleStopSig \/ StopProgrammatically
ChildStep(p) == ChildEnds(p) \/ ChildStops(p) \/ ChildDies(p) \/ InitReaps(p)

Next ==
  \/ BeginRun \/ ExitFuzzer \/ FuzzerStep
  \/ ServerStep \/ SrvDies
  \/ Signal
  \/ \E p \in Pids : ChildStep(p)

Spec == Init /\ [][Next]_vars

(* Weak fairness: the scheduler runs afl-fuzz, the server and the kernel.  *)
(* Nothing is assumed of the target (it may hang for ever), of the user,   *)
(* or of the caller (BeginRun, ExitFuzzer).                                *)
Fairness ==
  /\ WF_vars(FuzzerStep) /\ WF_vars(ServerStep) /\ WF_vars(SrvDies)
  /\ WF_vars(HandleTimeout)
  /\ \A p \in Pids : WF_vars(ChildDies(p))

FairSpec == Spec /\ Fairness
-----------------------------------------------------------------------------
(* run_target() keeps the promise of TargetRunner in every interleaving of *)
(* handlers, server and target: above all, an execution that the fuzzer's  *)
(* own timer cut short is never reported as a crash, neither in the run it *)
(* belongs to nor, through a stopped persistent child, in a later one.     *)
Phase == IF fz = "exited" THEN "exited" ELSE IF InRun THEN "running" ELSE "idle"

Runner == INSTANCE TargetRunner WITH
  phase <- Phase, outcome <- fate, expired <- child_timed_out,
  stopping <- (stop_soon # 0), fault <- fault

KeepsPromise == Runner!Spec

(* At any time at most one process forked for the target is in the process *)
(* table: none is forgotten unreaped when the next one is forked.          *)
OneChild ==
  \A p, q \in Pids : proc[p] # "free" /\ proc[q] # "free" => p = q

(* From the moment the status is read until the next request, no target    *)
(* runs: trace_bits[] is the fuzzer's to classify and compare.  A session  *)
(* that a signal is stopping may have left a target running.               *)
TraceQuiescent ==
  fz \in {"clear", "disarm", "answer", "idle"} /\ stop_soon # 1
    => \A p \in Pids : proc[p] # "running"

(* The pipe carries untagged words; the two sides never get out of step:   *)
(* the first word waiting is of the kind the fuzzer reads next, and none   *)
(* is left over between runs.                                              *)
Framing ==
  st # <<>> => \/ fz = "hello" /\ st[1] = Hello
               \/ fz = "readPid" /\ st[1] \in Pids
               \/ fz \in {"arm", "readStatus"} /\ st[1] \in Status

(* The two copies of the child's pid agree: while a run waits for its      *)
(* status the timer is aimed at the process the server is waiting for.     *)
TimerAimed ==
  fz \in {"arm", "readStatus"} /\ srv \in {"waitpid", "sendStatus"} => child_pid = srv_child

(* Unless a signal stopped the session, afl-fuzz does not end with a       *)
(* target still running.                                                   *)
NoRunaway == fz = "exited" /\ stop_soon # 1 => \A p \in Pids : proc[p] # "running"

(* Every run comes to an end, whatever the target does: a hung target is   *)
(* killed by the timer and its status travels back through the server.     *)
RunEnds == fz \in {"request", "fork"} ~> fz \in {"idle", "exited"}

(* The fork server does not outlive the fuzzer. *)
ServerGone == fz = "exited" ~> ~SrvAlive

-----------------------------------------------------------------------------
(* The inductive invariant behind the safety properties.                   *)
NoneLeft == \A p \in Pids : proc[p] = "free"

(* Where the server and the pipes can be at each point of the fuzzer.      *)
Between == {"helloDisarm", "idle", "request", "clear", "disarm", "answer", "exited"}

LockstepHello ==
  fz = "hello" =>
    /\ ctl = <<>>
    /\ \/ srv = "start" /\ st = <<>>
       \/ srv = "wait" /\ st = <<Hello>>
       \/ srv = "dead" /\ st \in {<<>>, <<Hello>>}

LockstepBetween ==
  fz \in Between => st = <<>> /\ (srv = "dead" \/ (srv = "wait" /\ ctl = <<>>))

LockstepReadPid ==
  fz = "readPid" =>
    \/ srv = "wait" /\ st = <<>> /\ ctl = <<prev_timed_out>>
    \/ srv \in {"reap", "fork", "cont", "sendPid"} /\ st = <<>> /\ ctl = <<>>
    \/ srv \in {"waitpid", "sendStatus"} /\ st = <<srv_child>> /\ ctl = <<>> /\ srv_child \in Pids
    \/ srv = "wait" /\ st = <<srv_child, srv_status>> /\ ctl = <<>> /\ srv_child \in Pids
    \/ srv = "dead" /\ st = <<>>
    \/ /\ srv = "dead" /\ srv_child \in Pids
       /\ st = <<srv_child>> \/ st = <<srv_child, srv_status>>

LockstepStatus ==
  fz \in {"arm", "readStatus"} =>
    /\ child_pid = srv_child
    /\ \/ srv \in {"waitpid", "sendStatus"} /\ st = <<>> /\ ctl = <<>>
       \/ srv = "wait" /\ st = <<srv_status>> /\ ctl = <<>>
       \/ srv = "dead" /\ (st = <<>> \/ st = <<srv_status>>)

Lockstep ==
  IF mode = "dumb"
  THEN /\ srv = "none" /\ st = <<>> /\ ctl = <<>> /\ ~srv_killed
       /\ fz \notin {"hello", "helloDisarm", "request", "readPid"}
  ELSE /\ srv # "none" /\ fz \notin {"fork", "store"}
       /\ LockstepHello /\ LockstepBetween /\ LockstepReadPid /\ LockstepStatus

(* The process table as the server, or in dumb mode the fuzzer, knows it.  *)
TableDumb ==
  /\ \A p, q \in Pids : proc[p] # "free" /\ proc[q] # "free" => p = q
  /\ fz \notin {"store", "arm", "readStatus"} => NoneLeft
  /\ fz \in {"arm", "readStatus"} => child_pid \in Pids /\ proc[child_pid] # "free"

TableServer ==
  /\ \A p \in Pids : proc[p] # "free" => p = srv_child
  /\ srv \in {"start", "fork"} => NoneLeft
  /\ srv \in {"wait", "sendStatus"} /\ ~child_stopped => NoneLeft
  /\ srv \in {"reap", "cont"} => child_stopped
  /\ SrvAlive /\ child_stopped =>
       /\ srv \in {"wait", "reap", "cont", "sendStatus"}
       /\ srv_child \in Pids /\ proc[srv_child] \in {"stopped", "dying", "sigkilled"}
  /\ srv \in {"sendPid", "waitpid"} => srv_child \in Pids /\ proc[srv_child] # "free"
  /\ srv = "sendStatus" => srv_child \in Pids

Table == IF mode = "dumb" THEN TableDumb ELSE TableServer

(* Unless a signal stops the session, the server is only killed before its *)
(* first child, the timer only runs while a run waits for a status, and    *)
(* nothing is left of a dead server but what it said.                      *)
Orderly ==
  stop_soon # 1 =>
    /\ fz \in {"hello", "helloDisarm"} => child_pid = Unset /\ ~child_stopped
    /\ timer => \/ fz \in {"hello", "helloDisarm"}
                \/ fz \in {"readStatus", "clear", "disarm"} /\ child_pid # Unset
    /\ srv_killed =>
         /\ srv \in {"start", "wait"} /\ NoneLeft /\ ~child_stopped
         /\ \/ fz \in {"hello", "helloDisarm", "idle", "request", "exited"}
            \/ fz = "readPid" /\ st = <<>>
    /\ srv = "dead" =>
         /\ \A p \in Pids : proc[p] # "running"
         /\ fz # "exited" => NoneLeft
         /\ fz \in {"hello", "exited"} \/ st = <<>>
         /\ fz \notin {"arm", "readStatus"}

(* A process state or wait status that agrees with what the target did.    *)
KilledByUs == fate \in {"cut", "paused"} /\ (child_timed_out \/ stop_soon = 1)

Fits(s) ==
  CASE s = "running"   -> fate = "none"
    [] s = "stopped"   -> fate = "paused"
    [] s = "dying"     -> KilledByUs
    [] s = "exited"    -> fate = "done"
    [] s = "msan"      -> fate = "sanitizer"
    [] s = "execfail"  -> fate = "execfail" /\ mode = "dumb"
    [] s = "crashed"   -> fate = "crash"
    [] s = "sigkilled" -> fate = "oomkill" \/ KilledByUs
    [] OTHER           -> FALSE

(* A stopped child that the timer killed since is known to be killed; the  *)
(* server of a session that a signal stops does nothing more.              *)
KillKnown ==
  stop_soon # 1 /\ child_stopped /\ SrvAlive /\ proc[srv_child] # "stopped" =>
    CASE fz \in {"idle", "request", "exited"}        -> prev_timed_out
      [] fz = "readPid" /\ st = <<>> /\ srv = "wait" -> prev_timed_out
      [] fz = "readPid" /\ srv = "reap"              -> TRUE
      [] OTHER                                       -> fz # "readPid" /\ child_timed_out

(* Nothing happened to the input before there is a process to work on it;  *)
(* after that, process state and status tell what happened, wherever the   *)
(* status travels.                                                         *)
Fresh ==
  /\ fz \in {"request", "fork"} /\ (mode = "dumb" \/ SrvAlive) => fate = "none"
  /\ fz = "readPid" /\ srv \in {"wait", "reap", "fork", "cont"} /\ st = <<>> => fate = "none"

Told ==
  /\ fz \in {"store", "arm", "readStatus"} /\ mode = "dumb" =>
       \A p \in Pids : proc[p] # "free" => Fits(proc[p])
  /\ srv \in {"sendPid", "waitpid"} => Fits(proc[srv_child])
  /\ srv = "sendStatus" => Fits(srv_status)
  /\ fz = "readPid" /\ srv \in {"wait", "dead"} /\ st \notin {<<>>, <<srv_child>>} =>
       Fits(srv_status)
  /\ fz \in {"arm", "readStatus"} /\ st # <<>> => Fits(srv_status)
  /\ fz \in {"clear", "disarm", "answer"} => Fits(status)

Doomed == stop_soon = 1 /\ SrvAlive => srv_killed

Honest == Fresh /\ Told /\ KillKnown /\ Doomed

IInv == TypeOK /\ Lockstep /\ Table /\ Orderly /\ Honest

=============================================================================
