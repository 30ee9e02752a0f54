------------------------- MODULE ForkServerProofs -------------------------
(***************************************************************************)
(* ForkServer for any set of process ids and any choice of modes: IInv is  *)
(* inductive, the safety properties follow from it, and run_target()       *)
(* implements TargetRunner.                                                *)
(***************************************************************************)
EXTENDS ForkServer, SequenceTheorems, TLAPS


(* Sequences of one and two words, as pipes hold them. *)
LEMMA Words ==
  ASSUME NEW S, NEW a \in S, NEW b \in S 
  PROVE /\ Append(<<>>, a) = <<a>> /\ Append(<<a>>, b) = <<a, b>>
        /\ Head(<<a>>) = a /\ Tail(<<a>>) = <<>>
        /\ Head(<<a, b>>) = a /\ Tail(<<a, b>>) = <<b>>
        /\ <<a>> # <<>> /\ <<a, b>> # <<>>
        /\ <<>> \in Seq(S) /\ <<a>> \in Seq(S) /\ <<a, b>> \in Seq(S)
<1>1. <<a>> \in Seq(S) /\ Len(<<a>>) = 1 /\ <<a>>[1] = a
  OBVIOUS
<1>2. <<a, b>> \in Seq(S) /\ Len(<<a, b>>) = 2 /\ <<a, b>>[1] = a /\ <<a, b>>[2] = b
  OBVIOUS
<1>3. /\ Append(<<a>>, b) \in Seq(S) /\ Len(Append(<<a>>, b)) = 2
      /\ Append(<<a>>, b)[1] = a /\ Append(<<a>>, b)[2] = b
  BY <1>1, AppendProperties
<1>4. Append(<<a>>, b) = <<a, b>>
  <2> DEFINE t == Append(<<a>>, b)
             w == <<a, b>>
  <2>1. /\ t \in Seq(S) /\ w \in Seq(S) /\ Len(t) = 2 /\ Len(w) = 2
        /\ t[1] = w[1] /\ t[2] = w[2]
    BY <1>2, <1>3
  <2> HIDE DEF t, w
  <2>2. Len(t) = Len(w) /\ \A i \in 1 .. Len(t) : t[i] = w[i]
    BY <2>1
  <2>3. t = w
    BY <2>1, <2>2, SeqEqual
  <2> QED
    BY <2>3 DEF t, w
<1>5. /\ Append(<<>>, a) = <<a>> /\ Head(<<a>>) = a /\ Tail(<<a>>) = <<>>
      /\ Head(<<a, b>>) = a /\ Tail(<<a, b>>) = <<b>>
      /\ <<a>> # <<>> /\ <<a, b>> # <<>> /\ <<>> \in Seq(S)
  OBVIOUS
<1> QED
  BY <1>1, <1>2, <1>4, <1>5

(* The same for the words of the two pipes. *)
LEMMA WordFacts ==
  /\ \A a, b \in Pids \cup Status \cup {Hello} :
       /\ Append(<<>>, a) = <<a>> /\ Append(<<a>>, b) = <<a, b>>
       /\ Head(<<a>>) = a /\ Tail(<<a>>) = <<>>
       /\ Head(<<a, b>>) = a /\ Tail(<<a, b>>) = <<b>>
       /\ <<a>> # <<>> /\ <<a, b>> # <<>>
  /\ \A a \in BOOLEAN :
       /\ Append(<<>>, a) = <<a>> /\ Head(<<a>>) = a /\ Tail(<<a>>) = <<>> /\ <<a>> # <<>>
<1> DEFINE W == Pids \cup Status \cup {Hello}
<1> HIDE DEF W
<1>1. ASSUME NEW a \in W, NEW b \in W
      PROVE /\ Append(<<>>, a) = <<a>> /\ Append(<<a>>, b) = <<a, b>>
            /\ Head(<<a>>) = a /\ Tail(<<a>>) = <<>>
            /\ Head(<<a, b>>) = a /\ Tail(<<a, b>>) = <<b>>
            /\ <<a>> # <<>> /\ <<a, b>> # <<>>
  BY Words
<1>2. ASSUME NEW a \in BOOLEAN
      PROVE Append(<<>>, a) = <<a>> /\ Head(<<a>>) = a /\ Tail(<<a>>) = <<>> /\ <<a>> # <<>>
  BY Words
<1> QED
  BY <1>1, <1>2 DEF W

(* A pid and a status on their way to the fuzzer. *)
LEMMA PidThenStatus ==
  \A a \in Pids, b \in Status :
    /\ Append(<<a>>, b) = <<a, b>>
    /\ Head(<<a>>) = a /\ Tail(<<a>>) = <<>>
    /\ Head(<<a, b>>) = a /\ Tail(<<a, b>>) = <<b>>
<1>1. ASSUME NEW a \in Pids, NEW b \in Status
      PROVE  /\ Append(<<a>>, b) = <<a, b>>
             /\ Head(<<a>>) = a /\ Tail(<<a>>) = <<>>
             /\ Head(<<a, b>>) = a /\ Tail(<<a, b>>) = <<b>>
  <2> DEFINE W == Pids \cup Status
  <2>1. a \in W /\ b \in W
    OBVIOUS
  <2> HIDE DEF W
  <2> QED
    BY <2>1, Words
<1> QED
  BY <1>1

(* Writing to a pipe and reading from it keep the type of its words. *)
LEMMA SeqStep ==
  ASSUME NEW S
  PROVE  /\ \A s \in Seq(S), e \in S : Append(s, e) \in Seq(S)
         /\ \A s \in Seq(S) : s # <<>> => Head(s) \in S /\ Tail(s) \in Seq(S)
  OBVIOUS

(* A target the waiting side knows to be running has not settled yet: its run
   is under way, and in the server modes it is the server's child. *)
LEMMA RunningFresh ==
  ASSUME IInv, mode = "dumb" \/ SrvAlive, NEW p \in Pids, proc[p] = "running"
  PROVE  fate = "none" /\ InRun /\ (mode # "dumb" => srv_child = p)
<1> USE DEF IInv, TypeOK, Table, NoneLeft
<1>1. CASE mode = "dumb"
  <2>1. fz \in {"store", "arm", "readStatus"}
    BY <1>1 DEF TableDumb
  <2> QED
    BY <1>1, <2>1 DEF InRun, Fits, Honest, Told
<1>2. CASE mode # "dumb" /\ SrvAlive
  <2>1. srv_child = p
    BY <1>2 DEF TableServer
  <2>2. srv \in {"sendPid", "waitpid"}
    BY <1>2, <2>1 DEF TableServer, SrvStates, SrvAlive
  <2>3. fate = "none"
    BY <2>1, <2>2 DEF Fits, Honest, Told
  <2>4. fz \in {"readPid", "arm", "readStatus"}
    BY <1>2, <2>2 DEF FzStates, Lockstep, LockstepHello, LockstepBetween, Between
  <2> QED
    BY <2>1, <2>3, <2>4 DEF InRun
<1> QED
  BY <1>1, <1>2

(* What a settled status tells stays true until the next run begins. *)
LEMMA FitsKept ==
  ASSUME NEW s, s # "running", Fits(s), mode' = mode, fate # "none" => fate' = fate,
         child_timed_out => child_timed_out', stop_soon = 1 => stop_soon' = 1
  PROVE  Fits(s)'
BY DEF Fits, KilledByUs

-----------------------------------------------------------------------------
(* Every step keeps each variable within its type. *)
LEMMA TypeStep == IInv /\ [Next]_vars => TypeOK'
<1> SUFFICES ASSUME IInv, [Next]_vars PROVE TypeOK'
  OBVIOUS
<1> USE DEF IInv, TypeOK, FzStates, SrvStates, config, fuzzer, server, pipes, timeouts, results,
      world, srvLocals, env
<1>1. CASE BeginRun
  <2>1. child_timed_out' \in BOOLEAN
    BY <1>1, Zenon DEF BeginRun
  <2> QED
    BY <1>1, <2>1 DEF BeginRun
<1>2. CASE ExitFuzzer
  BY <1>2 DEF ExitFuzzer
<1>3. CASE AwaitHello
  <2>1. timer' \in BOOLEAN
    BY <1>3, Zenon DEF AwaitHello
  <2>2. st' \in Seq(Pids \cup Status \cup {Hello})
    BY <1>3, SeqStep DEF AwaitHello, StEOF
  <2>3. fz' \in FzStates
    BY <1>3 DEF AwaitHello
  <2> QED
    BY <1>3, <2>1, <2>2, <2>3 DEF AwaitHello
<1>4. CASE HelloDisarm
  <2>1. timer' \in BOOLEAN
    BY <1>4, Zenon DEF HelloDisarm
  <2> QED
    BY <1>4, <2>1 DEF HelloDisarm
<1>5. CASE DumbFork
  BY <1>5 DEF DumbFork, ProcStates
<1>6. CASE StorePid
  BY <1>6 DEF StorePid
<1>7. CASE Request
  <2>1. ctl' \in Seq(BOOLEAN)
    BY <1>7, SeqStep DEF Request, PipeFails
  <2>2. fz' \in FzStates /\ fault' \in {"FAULT_NONE", "FAULT_TMOUT", "FAULT_CRASH", "FAULT_ERROR"}
    BY <1>7 DEF Request, PipeFails
  <2> QED
    BY <1>7, <2>1, <2>2 DEF Request, PipeFails
<1>8. CASE ReadPid
  BY <1>8, SeqStep, PidsAssumption, WordFacts DEF ReadPid, PipeFails, StEOF, Lockstep,
        LockstepReadPid, Status, Hello
<1>9. CASE Arm
  BY <1>9 DEF Arm
<1>10. CASE ReadStatus
  BY <1>10, SeqStep, WordFacts DEF ReadStatus, PipeFails, StEOF, Lockstep, LockstepStatus
<1>11. CASE DumbWait
  <2>1. proc' \in [Pids -> ProcStates]
    BY <1>11 DEF DumbWait, ProcStates
  <2>2. status' \in Status
    BY <1>11 DEF DumbWait, Status
  <2> QED
    BY <1>11, <2>1, <2>2 DEF DumbWait
<1>12. CASE ClearPid
  BY <1>12 DEF ClearPid
<1>13. CASE Disarm
  <2>1. timer' \in BOOLEAN
    BY <1>13, Zenon DEF Disarm
  <2> QED
    BY <1>13, <2>1 DEF Disarm
<1>14. CASE AnswerRun
  BY <1>14 DEF AnswerRun, FaultOf
<1>15. CASE SrvHello
  <2>1. st' \in Seq(Pids \cup Status \cup {Hello})
    BY <1>15, SeqStep DEF SrvHello, SrvWrite
  <2>2. srv' \in SrvStates /\ srv_killed' = srv_killed
    BY <1>15 DEF SrvHello, SrvWrite, SrvGoes
  <2> QED
    BY <1>15, <2>1, <2>2 DEF SrvHello
<1>16. CASE SrvReadCtl
  <2>1. was_killed' \in BOOLEAN /\ ctl' \in Seq(BOOLEAN)
    BY <1>16, SeqStep DEF SrvReadCtl
  <2>2. srv' \in SrvStates /\ srv_killed' = srv_killed
    BY <1>16 DEF SrvReadCtl, SrvGoes
  <2>3. UNCHANGED <<fuzzer, config, srv_child, child_stopped, srv_status, st, proc, fate>>
    BY <1>16 DEF SrvReadCtl
  <2> QED
    BY <2>1, <2>2, <2>3
<1>17. CASE SrvReap
  <2>1. child_stopped' \in BOOLEAN
    BY <1>17, Zenon DEF SrvReap
  <2>2. proc' \in [Pids -> ProcStates]
    BY <1>17 DEF SrvReap, ProcStates
  <2>3. srv' \in SrvStates /\ srv_killed' = srv_killed
    BY <1>17 DEF SrvReap, SrvGoes
  <2> QED
    BY <1>17, <2>1, <2>2, <2>3 DEF SrvReap
<1>18. CASE SrvFork
  BY <1>18 DEF SrvFork, SrvGoes, ProcStates
<1>19. CASE SrvCont
  <2>1. child_stopped' \in BOOLEAN
    BY <1>19, Zenon DEF SrvCont
  <2>2. proc' \in [Pids -> ProcStates]
    BY <1>19 DEF SrvCont, ProcStates
  <2>3. srv' \in SrvStates /\ srv_killed' = srv_killed
    BY <1>19 DEF SrvCont, SrvGoes
  <2> QED
    BY <1>19, <2>1, <2>2, <2>3 DEF SrvCont
<1>20. CASE SrvSendPid
  BY <1>20, SeqStep DEF SrvSendPid, SrvWrite, SrvGoes, Table, TableServer, Lockstep
<1>21. CASE SrvWaitpid
  <2>1. child_stopped' \in BOOLEAN
    BY <1>21, Zenon DEF SrvWaitpid
  <2>2. proc' \in [Pids -> ProcStates]
    BY <1>21 DEF SrvWaitpid, ProcStates
  <2>3. srv_status' \in Status
    BY <1>21 DEF SrvWaitpid, Status
  <2>4. srv' \in SrvStates /\ srv_killed' = srv_killed
    BY <1>21 DEF SrvWaitpid, SrvGoes
  <2> QED
    BY <1>21, <2>1, <2>2, <2>3, <2>4 DEF SrvWaitpid
<1>22. CASE SrvSendStatus
  BY <1>22, SeqStep DEF SrvSendStatus, SrvWrite, SrvGoes
<1>23. CASE SrvDies
  <2>1. srv_killed' \in BOOLEAN
    BY <1>23, Zenon DEF SrvDies, SrvGoes
  <2> QED
    BY <1>23, <2>1 DEF SrvDies
<1>24. CASE HandleTimeout
  <2>1. timer' \in BOOLEAN
    BY <1>24, Zenon DEF HandleTimeout
  <2> QED
    BY <1>24, <2>1 DEF HandleTimeout, Killed, CutBy, ProcStates
<1>25. CASE HandleStopSig
  BY <1>25 DEF HandleStopSig, Killed, CutBy, ProcStates
<1>26. CASE StopProgrammatically
  BY <1>26 DEF StopProgrammatically
<1>27. ASSUME NEW p \in Pids, ChildStep(p) PROVE TypeOK'
  <2>1. CASE ChildEnds(p)
    BY <2>1 DEF ChildEnds, Settles, ProcStates, DeadStatus
  <2>2. CASE ChildStops(p)
    BY <2>2 DEF ChildStops, Settles, ProcStates
  <2>3. CASE ChildDies(p)
    BY <2>3 DEF ChildDies, ProcStates, DeadStatus
  <2>4. CASE InitReaps(p)
    BY <2>4 DEF InitReaps, ProcStates
  <2>5. QED
    BY <1>27, <2>1, <2>2, <2>3, <2>4 DEF ChildStep
<1>28. CASE UNCHANGED vars
  BY <1>28 DEF vars
<1>29. QED
  BY <1>1, <1>2, <1>3, <1>4, <1>5, <1>6, <1>7, <1>8, <1>9, <1>10, <1>11, <1>12, <1>13, <1>14,
        <1>15, <1>16, <1>17, <1>18, <1>19, <1>20, <1>21, <1>22, <1>23, <1>24, <1>25, <1>26,
        <1>27, <1>28
  DEF Next, FuzzerStep, ServerStep, Signal

(* Fuzzer and server stay in lockstep: what the pipes hold follows from the
   two program counters. *)
LEMMA LockstepStep == IInv /\ [Next]_vars => Lockstep'
<1> SUFFICES ASSUME IInv, [Next]_vars PROVE Lockstep'
  OBVIOUS
<1> USE DEF IInv, TypeOK, Lockstep, LockstepHello, LockstepBetween, LockstepReadPid,
      LockstepStatus, Between, Table, TableServer, SrvAlive, config, fuzzer, server, pipes,
      timeouts, results, world, srvLocals, env
<1>1. CASE BeginRun
  BY <1>1 DEF BeginRun
<1>2. CASE ExitFuzzer
  BY <1>2 DEF ExitFuzzer
<1>3. CASE AwaitHello
  BY <1>3, WordFacts DEF AwaitHello, StEOF
<1>4. CASE HelloDisarm
  BY <1>4 DEF HelloDisarm
<1>5. CASE DumbFork
  BY <1>5 DEF DumbFork
<1>6. CASE StorePid
  BY <1>6 DEF StorePid
<1>7. CASE Request
  <2>1. CASE SrvAlive
    <3>1. ctl' = <<prev_timed_out>>
      BY <1>7, <2>1, WordFacts DEF Request, PipeFails
    <3> QED
      BY <1>7, <2>1, <3>1 DEF Request
  <2>2. CASE ~SrvAlive
    BY <1>7, <2>2 DEF Request, PipeFails
  <2> QED
    BY <2>1, <2>2
<1>8. CASE ReadPid
  <2>1. CASE st # <<>>
    <3>1. /\ srv_child \in Pids
          /\ \/ st = <<srv_child>> /\ ctl = <<>> /\ srv \in {"waitpid", "sendStatus"}
             \/ st = <<srv_child, srv_status>> /\ ctl = <<>> /\ srv = "wait"
             \/ srv = "dead" /\ (st = <<srv_child>> \/ st = <<srv_child, srv_status>>)
      BY <1>8, <2>1 DEF ReadPid
    <3>2. /\ child_pid' = Head(st) /\ st' = Tail(st) /\ fz' = "arm"
          /\ UNCHANGED <<mode, srv, srv_killed, srv_child, srv_status, ctl>> /\ mode # "dumb"
      BY <1>8, <2>1 DEF ReadPid, StEOF
    <3>3. /\ child_pid' = srv_child
          /\ st = <<srv_child>> => st' = <<>>
          /\ st = <<srv_child, srv_status>> => st' = <<srv_status>>
      BY <3>1, <3>2, PidThenStatus
    <3> QED
      BY <3>1, <3>2, <3>3
  <2>2. CASE st = <<>>
    BY <1>8, <2>2 DEF ReadPid, PipeFails, StEOF
  <2> QED
    BY <2>1, <2>2
<1>9. CASE Arm
  BY <1>9 DEF Arm
<1>10. CASE ReadStatus
  BY <1>10, WordFacts DEF ReadStatus, PipeFails, StEOF
<1>11. CASE DumbWait
  BY <1>11 DEF DumbWait
<1>12. CASE ClearPid
  BY <1>12 DEF ClearPid
<1>13. CASE Disarm
  BY <1>13 DEF Disarm
<1>14. CASE AnswerRun
  BY <1>14 DEF AnswerRun, FaultOf
<1>15. CASE SrvHello
  BY <1>15, WordFacts DEF SrvHello, SrvWrite, SrvGoes
<1>16. CASE SrvReadCtl
  BY <1>16, WordFacts DEF SrvReadCtl, SrvGoes
<1>17. CASE SrvReap
  BY <1>17 DEF SrvReap, SrvGoes
<1>18. CASE SrvFork
  BY <1>18 DEF SrvFork, SrvGoes
<1>19. CASE SrvCont
  BY <1>19 DEF SrvCont, SrvGoes
<1>20. CASE SrvSendPid
  BY <1>20, WordFacts DEF SrvSendPid, SrvWrite, SrvGoes
<1>21. CASE SrvWaitpid
  BY <1>21 DEF SrvWaitpid, SrvGoes
<1>22. CASE SrvSendStatus
  <2>1. /\ srv = "sendStatus" /\ srv' = "wait" /\ st' = Append(st, srv_status)
        /\ UNCHANGED <<srv_status, srv_child, ctl, fz, mode, child_pid>> /\ mode # "dumb"
    BY <1>22 DEF SrvSendStatus, SrvWrite, SrvGoes
  <2>2. fz \in {"readPid", "arm", "readStatus"}
    BY <2>1 DEF FzStates
  <2>3. CASE fz = "readPid"
    <3>1. srv_child \in Pids /\ st = <<srv_child>> /\ ctl = <<>>
      BY <2>1, <2>3
    <3>2. st' = <<srv_child, srv_status>>
      BY <2>1, <3>1, PidThenStatus
    <3> QED
      BY <2>1, <2>3, <3>1, <3>2
  <2>4. CASE fz \in {"arm", "readStatus"}
    <3>1. st = <<>> /\ ctl = <<>> /\ child_pid = srv_child
      BY <2>1, <2>4
    <3>2. st' = <<srv_status>>
      BY <2>1, <3>1, WordFacts
    <3> QED
      BY <2>1, <2>4, <3>1, <3>2
  <2> QED
    BY <2>2, <2>3, <2>4
<1>23. CASE SrvDies
  BY <1>23 DEF SrvDies
<1>24. CASE HandleTimeout
  BY <1>24 DEF HandleTimeout, Killed, CutBy
<1>25. CASE HandleStopSig
  BY <1>25 DEF HandleStopSig, Killed, CutBy
<1>26. CASE StopProgrammatically
  BY <1>26 DEF StopProgrammatically
<1>27. ASSUME NEW p \in Pids, ChildStep(p) PROVE Lockstep'
  <2>1. CASE ChildEnds(p)
    BY <2>1 DEF ChildEnds, Settles
  <2>2. CASE ChildStops(p)
    BY <2>2 DEF ChildStops, Settles
  <2>3. CASE ChildDies(p)
    BY <2>3 DEF ChildDies
  <2>4. CASE InitReaps(p)
    BY <2>4 DEF InitReaps
  <2>5. QED
    BY <1>27, <2>1, <2>2, <2>3, <2>4 DEF ChildStep
<1>28. CASE UNCHANGED vars
  BY <1>28 DEF vars
<1>29. QED
  BY <1>1, <1>2, <1>3, <1>4, <1>5, <1>6, <1>7, <1>8, <1>9, <1>10, <1>11, <1>12, <1>13, <1>14,
        <1>15, <1>16, <1>17, <1>18, <1>19, <1>20, <1>21, <1>22, <1>23, <1>24, <1>25, <1>26,
        <1>27, <1>28
  DEF Next, FuzzerStep, ServerStep, Signal

(* The process table stays the one that the waiting side knows. *)
LEMMA TableStep == IInv /\ [Next]_vars => Table'
<1> SUFFICES ASSUME IInv, [Next]_vars PROVE Table'
  OBVIOUS
<1> USE DEF IInv, TypeOK, DeadStatus, Status, Lockstep, LockstepHello, LockstepBetween,
      LockstepReadPid, LockstepStatus, Between, Table, TableServer, TableDumb, NoneLeft,
      SrvAlive, config, fuzzer, server, pipes, timeouts, results, world, srvLocals, env
<1>1. CASE BeginRun
  BY <1>1 DEF BeginRun
<1>2. CASE ExitFuzzer
  BY <1>2 DEF ExitFuzzer
<1>3. CASE AwaitHello
  BY <1>3 DEF AwaitHello, StEOF
<1>4. CASE HelloDisarm
  BY <1>4 DEF HelloDisarm
<1>5. CASE DumbFork
  BY <1>5 DEF DumbFork
<1>6. CASE StorePid
  BY <1>6 DEF StorePid
<1>7. CASE Request
  BY <1>7 DEF Request, PipeFails
<1>8. CASE ReadPid
  BY <1>8 DEF ReadPid, PipeFails, StEOF
<1>9. CASE Arm
  BY <1>9 DEF Arm
<1>10. CASE ReadStatus
  BY <1>10 DEF ReadStatus, PipeFails, StEOF
<1>11. CASE DumbWait
  BY <1>11 DEF DumbWait
<1>12. CASE ClearPid
  BY <1>12 DEF ClearPid
<1>13. CASE Disarm
  BY <1>13 DEF Disarm
<1>14. CASE AnswerRun
  BY <1>14 DEF AnswerRun, FaultOf
<1>15. CASE SrvHello
  BY <1>15 DEF SrvHello, SrvWrite, SrvGoes
<1>16. CASE SrvReadCtl
  BY <1>16 DEF SrvReadCtl, SrvGoes
<1>17. CASE SrvReap
  BY <1>17 DEF SrvReap, SrvGoes
<1>18. CASE SrvFork
  BY <1>18 DEF SrvFork, SrvGoes
<1>19. CASE SrvCont
  BY <1>19 DEF SrvCont, SrvGoes
<1>20. CASE SrvSendPid
  BY <1>20 DEF SrvSendPid, SrvWrite, SrvGoes
<1>21. CASE SrvWaitpid
  BY <1>21 DEF SrvWaitpid, SrvGoes
<1>22. CASE SrvSendStatus
  BY <1>22 DEF SrvSendStatus, SrvWrite, SrvGoes
<1>23. CASE SrvDies
  BY <1>23 DEF SrvDies
<1>24. CASE HandleTimeout
  BY <1>24 DEF HandleTimeout, Killed, CutBy
<1>25. CASE HandleStopSig
  BY <1>25 DEF HandleStopSig, Killed, CutBy
<1>26. CASE StopProgrammatically
  BY <1>26 DEF StopProgrammatically
<1>27. ASSUME NEW p \in Pids, ChildStep(p) PROVE Table'
  <2>1. CASE ChildEnds(p)
    BY <2>1 DEF ChildEnds, Settles
  <2>2. CASE ChildStops(p)
    BY <2>2 DEF ChildStops, Settles
  <2>3. CASE ChildDies(p)
    BY <2>3 DEF ChildDies
  <2>4. CASE InitReaps(p)
    BY <2>4 DEF InitReaps
  <2>5. QED
    BY <1>27, <2>1, <2>2, <2>3, <2>4 DEF ChildStep
<1>28. CASE UNCHANGED vars
  BY <1>28 DEF vars
<1>29. QED
  BY <1>1, <1>2, <1>3, <1>4, <1>5, <1>6, <1>7, <1>8, <1>9, <1>10, <1>11, <1>12, <1>13, <1>14,
        <1>15, <1>16, <1>17, <1>18, <1>19, <1>20, <1>21, <1>22, <1>23, <1>24, <1>25, <1>26,
        <1>27, <1>28
  DEF Next, FuzzerStep, ServerStep, Signal

(* Without a stop signal the timer and the death of the server stay in
   their places. *)
LEMMA OrderlyStep == IInv /\ [Next]_vars => Orderly'
<1> SUFFICES ASSUME IInv, [Next]_vars PROVE Orderly'
  OBVIOUS
<1> USE DEF IInv, TypeOK, Lockstep, LockstepHello, LockstepBetween, LockstepReadPid,
      LockstepStatus, Between, Table, TableServer, NoneLeft, SrvAlive, Orderly, config, fuzzer,
      server, pipes, timeouts, results, world, srvLocals, env
<1>1. CASE BeginRun
  BY <1>1 DEF BeginRun
<1>2. CASE ExitFuzzer
  BY <1>2 DEF ExitFuzzer
<1>3. CASE AwaitHello
  BY <1>3, WordFacts DEF AwaitHello, StEOF
<1>4. CASE HelloDisarm
  BY <1>4 DEF HelloDisarm
<1>5. CASE DumbFork
  BY <1>5 DEF DumbFork
<1>6. CASE StorePid
  BY <1>6 DEF StorePid
<1>7. CASE Request
  BY <1>7, WordFacts DEF Request, PipeFails
<1>8. CASE ReadPid
  BY <1>8, WordFacts DEF ReadPid, PipeFails, StEOF
<1>9. CASE Arm
  BY <1>9, PidsAssumption DEF Arm, TableDumb
<1>10. CASE ReadStatus
  BY <1>10, WordFacts DEF ReadStatus, PipeFails, StEOF
<1>11. CASE DumbWait
  BY <1>11 DEF DumbWait, DeadStatus
<1>12. CASE ClearPid
  BY <1>12, PidsAssumption DEF ClearPid
<1>13. CASE Disarm
  BY <1>13 DEF Disarm
<1>14. CASE AnswerRun
  BY <1>14 DEF AnswerRun, FaultOf
<1>15. CASE SrvHello
  <2>1. /\ srv = "start" /\ srv' \in {"wait", "dead"} /\ ~srv_killed /\ ~srv_killed'
        /\ UNCHANGED <<mode, fz, timer, stop_soon, proc, child_stopped, child_pid>>
        /\ mode # "dumb"
    BY <1>15 DEF SrvHello, SrvWrite, SrvGoes
  <2>2. fz = "hello" /\ NoneLeft /\ NoneLeft'
    BY <2>1 DEF FzStates
  <2> QED
    BY <2>1, <2>2
<1>16. CASE SrvReadCtl
  BY <1>16, WordFacts DEF SrvReadCtl, SrvGoes
<1>17. CASE SrvReap
  BY <1>17 DEF SrvReap, SrvGoes, DeadStatus
<1>18. CASE SrvFork
  <2>1. /\ srv = "fork" /\ srv' \in {"sendPid", "dead"} /\ ~srv_killed /\ ~srv_killed'
        /\ UNCHANGED <<mode, fz, timer, stop_soon, st, child_pid>> /\ mode # "dumb"
    BY <1>18 DEF SrvFork, SrvGoes
  <2>2. fz \in {"readPid"} \cup Between /\ NoneLeft
    BY <2>1 DEF FzStates
  <2>3. fz = "readPid" /\ st = <<>>
    BY <2>1, <2>2
  <2>4. srv' = "dead" => NoneLeft'
    BY <1>18, <2>2 DEF SrvFork, SrvGoes
  <2> QED
    BY <2>1, <2>3, <2>4
<1>19. CASE SrvCont
  BY <1>19 DEF SrvCont, SrvGoes
<1>20. CASE SrvSendPid
  BY <1>20, WordFacts DEF SrvSendPid, SrvWrite, SrvGoes
<1>21. CASE SrvWaitpid
  BY <1>21 DEF SrvWaitpid, SrvGoes, DeadStatus
<1>22. CASE SrvSendStatus
  BY <1>22, WordFacts DEF SrvSendStatus, SrvWrite, SrvGoes
<1>23. CASE SrvDies
  BY <1>23 DEF SrvDies
<1>24. CASE HandleTimeout
  BY <1>24 DEF HandleTimeout, Killed, CutBy
<1>25. CASE HandleStopSig
  BY <1>25 DEF HandleStopSig, Killed, CutBy
<1>26. CASE StopProgrammatically
  BY <1>26 DEF StopProgrammatically
<1>27. ASSUME NEW p \in Pids, ChildStep(p) PROVE Orderly'
  <2>1. CASE ChildEnds(p)
    BY <2>1 DEF ChildEnds, Settles, DeadStatus
  <2>2. CASE ChildStops(p)
    BY <2>2 DEF ChildStops, Settles
  <2>3. CASE ChildDies(p)
    BY <2>3 DEF ChildDies
  <2>4. CASE InitReaps(p)
    BY <2>4 DEF InitReaps, DeadStatus
  <2>5. QED
    BY <1>27, <2>1, <2>2, <2>3, <2>4 DEF ChildStep
<1>28. CASE UNCHANGED vars
  BY <1>28 DEF vars
<1>29. QED
  BY <1>1, <1>2, <1>3, <1>4, <1>5, <1>6, <1>7, <1>8, <1>9, <1>10, <1>11, <1>12, <1>13, <1>14,
        <1>15, <1>16, <1>17, <1>18, <1>19, <1>20, <1>21, <1>22, <1>23, <1>24, <1>25, <1>26,
        <1>27, <1>28
  DEF Next, FuzzerStep, ServerStep, Signal

(* An input nobody works on yet has no outcome. *)
LEMMA FreshStep == IInv /\ [Next]_vars => Fresh'
<1> SUFFICES ASSUME IInv, [Next]_vars PROVE Fresh'
  OBVIOUS
<1> USE DEF IInv, TypeOK, DeadStatus, Lockstep, LockstepHello, LockstepBetween, LockstepReadPid,
      LockstepStatus, Between, Table, TableServer, TableDumb, NoneLeft, SrvAlive, Honest, Doomed,
      Fresh, Told, Fits, InRun, KilledByUs, config, fuzzer, server, pipes, timeouts, results,
      world, srvLocals, env
<1>1. CASE BeginRun
  BY <1>1 DEF BeginRun
<1>2. CASE ExitFuzzer
  BY <1>2 DEF ExitFuzzer
<1>3. CASE AwaitHello
  BY <1>3, WordFacts DEF AwaitHello, StEOF
<1>4. CASE HelloDisarm
  BY <1>4 DEF HelloDisarm
<1>5. CASE DumbFork
  BY <1>5 DEF DumbFork
<1>6. CASE StorePid
  BY <1>6 DEF StorePid
<1>7. CASE Request
  BY <1>7, WordFacts DEF Request, PipeFails
<1>8. CASE ReadPid
  BY <1>8, WordFacts DEF ReadPid, PipeFails, StEOF
<1>9. CASE Arm
  BY <1>9 DEF Arm
<1>10. CASE ReadStatus
  BY <1>10, WordFacts DEF ReadStatus, PipeFails, StEOF
<1>11. CASE DumbWait
  BY <1>11 DEF DumbWait
<1>12. CASE ClearPid
  BY <1>12 DEF ClearPid
<1>13. CASE Disarm
  BY <1>13 DEF Disarm
<1>14. CASE AnswerRun
  BY <1>14 DEF AnswerRun, FaultOf
<1>15. CASE SrvHello
  BY <1>15, WordFacts DEF SrvHello, SrvWrite, SrvGoes
<1>16. CASE SrvReadCtl
  BY <1>16, WordFacts DEF SrvReadCtl, SrvGoes
<1>17. CASE SrvReap
  BY <1>17 DEF SrvReap, SrvGoes
<1>18. CASE SrvFork
  BY <1>18 DEF SrvFork, SrvGoes
<1>19. CASE SrvCont
  BY <1>19 DEF SrvCont, SrvGoes
<1>20. CASE SrvSendPid
  BY <1>20, WordFacts DEF SrvSendPid, SrvWrite, SrvGoes
<1>21. CASE SrvWaitpid
  BY <1>21 DEF SrvWaitpid, SrvGoes
<1>22. CASE SrvSendStatus
  BY <1>22, WordFacts DEF SrvSendStatus, SrvWrite, SrvGoes
<1>23. CASE SrvDies
  BY <1>23 DEF SrvDies
<1>24. CASE HandleTimeout
  BY <1>24 DEF HandleTimeout, Killed, CutBy
<1>25. CASE HandleStopSig
  BY <1>25 DEF HandleStopSig, Killed, CutBy
<1>26. CASE StopProgrammatically
  BY <1>26 DEF StopProgrammatically
<1>27. ASSUME NEW p \in Pids, ChildStep(p) PROVE Fresh'
  <2>1. CASE ChildEnds(p)
    BY <2>1 DEF ChildEnds, Settles
  <2>2. CASE ChildStops(p)
    BY <2>2 DEF ChildStops, Settles
  <2>3. CASE ChildDies(p)
    BY <2>3 DEF ChildDies
  <2>4. CASE InitReaps(p)
    BY <2>4 DEF InitReaps
  <2>5. QED
    BY <1>27, <2>1, <2>2, <2>3, <2>4 DEF ChildStep
<1>28. CASE UNCHANGED vars
  BY <1>28 DEF vars
<1>29. QED
  BY <1>1, <1>2, <1>3, <1>4, <1>5, <1>6, <1>7, <1>8, <1>9, <1>10, <1>11, <1>12, <1>13, <1>14,
        <1>15, <1>16, <1>17, <1>18, <1>19, <1>20, <1>21, <1>22, <1>23, <1>24, <1>25, <1>26,
        <1>27, <1>28
  DEF Next, FuzzerStep, ServerStep, Signal

(* What the process states and statuses say of the target stays what the
   target did. *)
LEMMA ToldStep == IInv /\ [Next]_vars => Told'
<1> SUFFICES ASSUME IInv, [Next]_vars PROVE Told'
  OBVIOUS
<1> USE DEF IInv, TypeOK, DeadStatus, Lockstep, LockstepHello, LockstepBetween, LockstepReadPid,
      LockstepStatus, Between, Table, TableServer, TableDumb, NoneLeft, SrvAlive, Honest, Doomed,
      Told, Fresh, KillKnown, Fits, InRun, KilledByUs, config, fuzzer, server, pipes, timeouts,
      results, world, srvLocals, env
<1>1. CASE BeginRun
  BY <1>1 DEF BeginRun
<1>2. CASE ExitFuzzer
  BY <1>2 DEF ExitFuzzer
<1>3. CASE AwaitHello
  BY <1>3, WordFacts DEF AwaitHello, StEOF
<1>4. CASE HelloDisarm
  BY <1>4 DEF HelloDisarm
<1>5. CASE DumbFork
  BY <1>5 DEF DumbFork
<1>6. CASE StorePid
  BY <1>6 DEF StorePid
<1>7. CASE Request
  BY <1>7, WordFacts DEF Request, PipeFails
<1>8. CASE ReadPid
  BY <1>8, WordFacts DEF ReadPid, PipeFails, StEOF
<1>9. CASE Arm
  BY <1>9 DEF Arm
<1>10. CASE ReadStatus
  BY <1>10, WordFacts DEF ReadStatus, PipeFails, StEOF
<1>11. CASE DumbWait
  BY <1>11 DEF DumbWait
<1>12. CASE ClearPid
  BY <1>12 DEF ClearPid
<1>13. CASE Disarm
  BY <1>13 DEF Disarm
<1>14. CASE AnswerRun
  BY <1>14 DEF AnswerRun, FaultOf
<1>15. CASE SrvHello
  BY <1>15, WordFacts DEF SrvHello, SrvWrite, SrvGoes
<1>16. CASE SrvReadCtl
  BY <1>16, WordFacts DEF SrvReadCtl, SrvGoes
<1>17. CASE SrvReap
  BY <1>17 DEF SrvReap, SrvGoes
<1>18. CASE SrvFork
  <2>1. /\ srv = "fork" /\ srv' \in {"sendPid", "dead"}
        /\ UNCHANGED <<mode, fz, st, status, fate, srv_status, child_timed_out, stop_soon>>
        /\ mode # "dumb"
    BY <1>18 DEF SrvFork, SrvGoes
  <2>2. (fz = "readPid" /\ st = <<>>) \/ fz \in Between
    BY <2>1 DEF FzStates
  <2>3. fz = "readPid" /\ st = <<>>
    BY <2>1, <2>2
  <2>4. srv' = "sendPid" => proc'[srv_child'] = "running"
    BY <1>18 DEF SrvFork, SrvGoes
  <2> QED
    BY <2>1, <2>3, <2>4
<1>19. CASE SrvCont
  <2>1. /\ srv = "cont" /\ srv' = "sendPid" /\ ~srv_killed
        /\ UNCHANGED <<mode, fz, st, status, fate, srv_child, srv_status, child_timed_out,
                       stop_soon>>
        /\ mode # "dumb" /\ child_stopped
    BY <1>19 DEF SrvCont, SrvGoes
  <2>2. fz = "readPid" /\ st = <<>>
    BY <2>1 DEF FzStates
  <2>3. proc[srv_child] = "stopped" /\ fate = "none"
    BY <2>1, <2>2
  <2>4. proc'[srv_child] = "running"
    BY <1>19, <2>1, <2>3 DEF SrvCont
  <2> QED
    BY <2>1, <2>2, <2>3, <2>4
<1>20. CASE SrvSendPid
  BY <1>20, WordFacts DEF SrvSendPid, SrvWrite, SrvGoes
<1>21. CASE SrvWaitpid
  BY <1>21 DEF SrvWaitpid, SrvGoes
<1>22. CASE SrvSendStatus
  BY <1>22, WordFacts DEF SrvSendStatus, SrvWrite, SrvGoes
<1>23. CASE SrvDies
  BY <1>23 DEF SrvDies
<1>24. CASE HandleTimeout
  <2>1. UNCHANGED <<mode, fz, srv, srv_child, srv_status, st, status>>
    BY <1>24 DEF HandleTimeout
  <2>2. (child_timed_out => child_timed_out') /\ (stop_soon = 1 => stop_soon' = 1)
    BY <1>24, Zenon DEF HandleTimeout
  <2>3. fate # "none" => fate' = fate
    BY <1>24 DEF HandleTimeout, CutBy
  <2>4. ASSUME NEW p \in Pids, Fits(proc[p]), mode = "dumb" \/ SrvAlive PROVE Fits(proc[p])'
    <3>1. CASE child_pid = p /\ proc[p] = "running"
      <4>1. fate = "none" /\ InRun
        BY <2>4, <3>1, RunningFresh
      <4>2. fate' = "cut" /\ proc'[p] = "dying"
        BY <1>24, <3>1, <4>1 DEF HandleTimeout, CutBy, Killed
      <4>3. child_timed_out' \/ stop_soon' = 1
        BY <1>24, <3>1 DEF HandleTimeout
      <4> QED
        BY <4>2, <4>3
    <3>2. CASE child_pid = p /\ proc[p] = "stopped"
      <4>1. fate' = "paused" /\ proc'[p] = "dying"
        BY <1>24, <2>3, <2>4, <3>2 DEF HandleTimeout, Killed
      <4>2. child_timed_out' \/ stop_soon' = 1
        BY <1>24, <3>2 DEF HandleTimeout
      <4> QED
        BY <4>1, <4>2
    <3>3. CASE proc[p] \notin {"running", "stopped"}
      <4>1. proc'[p] = proc[p]
        BY <1>24, <3>3 DEF HandleTimeout, Killed
      <4> QED
        BY <2>1, <2>2, <2>3, <2>4, <3>3, <4>1, FitsKept
    <3>4. CASE child_pid # p
      <4>1. proc'[p] = proc[p]
        BY <1>24, <3>4 DEF HandleTimeout, Killed
      <4>2. CASE proc[p] = "running"
        <5>1. mode # "dumb" => srv_child = p
          BY <2>4, <4>2, RunningFresh
        <5>2. fate' = fate
          BY <1>24, <3>4, <4>2, <5>1 DEF HandleTimeout, CutBy
        <5> QED
          BY <2>4, <4>1, <4>2, <5>2
      <4>3. CASE proc[p] # "running"
        BY <2>1, <2>2, <2>3, <2>4, <4>1, <4>3, FitsKept
      <4> QED
        BY <4>2, <4>3
    <3> QED
      BY <3>1, <3>2, <3>3, <3>4
  <2>5. ASSUME NEW s \in Status, Fits(s) PROVE Fits(s)'
    BY <2>1, <2>2, <2>3, <2>5, FitsKept DEF Status
  <2>6. \A p \in Pids : proc'[p] # "free" => proc[p] # "free"
    BY <1>24 DEF HandleTimeout, Killed
  <2>7. SrvAlive /\ srv_child \in Pids /\ Fits(proc[srv_child]) => Fits(proc[srv_child])'
    BY <2>1, <2>4
  <2> HIDE DEF Fits
  <2> QED
    BY <2>1, <2>4, <2>5, <2>6, <2>7
<1>25. CASE HandleStopSig
  <2>1. UNCHANGED <<mode, fz, srv, srv_child, srv_status, st, status>>
    BY <1>25 DEF HandleStopSig
  <2>2. (child_timed_out => child_timed_out') /\ (stop_soon = 1 => stop_soon' = 1)
    BY <1>25, Zenon DEF HandleStopSig
  <2>3. fate # "none" => fate' = fate
    BY <1>25 DEF HandleStopSig, CutBy
  <2>4. ASSUME NEW p \in Pids, Fits(proc[p]), mode = "dumb" \/ SrvAlive PROVE Fits(proc[p])'
    <3>1. CASE child_pid = p /\ proc[p] = "running"
      <4>1. fate = "none" /\ InRun
        BY <2>4, <3>1, RunningFresh
      <4>2. fate' = "cut" /\ proc'[p] = "dying"
        BY <1>25, <3>1, <4>1 DEF HandleStopSig, CutBy, Killed
      <4>3. child_timed_out' \/ stop_soon' = 1
        BY <1>25, <3>1 DEF HandleStopSig
      <4> QED
        BY <4>2, <4>3
    <3>2. CASE child_pid = p /\ proc[p] = "stopped"
      <4>1. fate' = "paused" /\ proc'[p] = "dying"
        BY <1>25, <2>3, <2>4, <3>2 DEF HandleStopSig, Killed
      <4>2. child_timed_out' \/ stop_soon' = 1
        BY <1>25, <3>2 DEF HandleStopSig
      <4> QED
        BY <4>1, <4>2
    <3>3. CASE proc[p] \notin {"running", "stopped"}
      <4>1. proc'[p] = proc[p]
        BY <1>25, <3>3 DEF HandleStopSig, Killed
      <4> QED
        BY <2>1, <2>2, <2>3, <2>4, <3>3, <4>1, FitsKept
    <3>4. CASE child_pid # p
      <4>1. proc'[p] = proc[p]
        BY <1>25, <3>4 DEF HandleStopSig, Killed
      <4>2. CASE proc[p] = "running"
        <5>1. mode # "dumb" => srv_child = p
          BY <2>4, <4>2, RunningFresh
        <5>2. fate' = fate
          BY <1>25, <3>4, <4>2, <5>1 DEF HandleStopSig, CutBy
        <5> QED
          BY <2>4, <4>1, <4>2, <5>2
      <4>3. CASE proc[p] # "running"
        BY <2>1, <2>2, <2>3, <2>4, <4>1, <4>3, FitsKept
      <4> QED
        BY <4>2, <4>3
    <3> QED
      BY <3>1, <3>2, <3>3, <3>4
  <2>5. ASSUME NEW s \in Status, Fits(s) PROVE Fits(s)'
    BY <2>1, <2>2, <2>3, <2>5, FitsKept DEF Status
  <2>6. \A p \in Pids : proc'[p] # "free" => proc[p] # "free"
    BY <1>25 DEF HandleStopSig, Killed
  <2>7. SrvAlive /\ srv_child \in Pids /\ Fits(proc[srv_child]) => Fits(proc[srv_child])'
    BY <2>1, <2>4
  <2> HIDE DEF Fits
  <2> QED
    BY <2>1, <2>4, <2>5, <2>6, <2>7
<1>26. CASE StopProgrammatically
  BY <1>26 DEF StopProgrammatically
<1>27. ASSUME NEW p \in Pids, ChildStep(p) PROVE Told'
  <2>1. CASE ChildEnds(p)
    <3>1. /\ UNCHANGED <<mode, fz, srv, srv_child, srv_status, st, status, child_timed_out,
                         stop_soon>>
          /\ \A q \in Pids \ {p} : proc'[q] = proc[q]
          /\ proc[p] = "running"
      BY <2>1 DEF ChildEnds
    <3>2. fate # "none" => fate' = fate
      BY <2>1 DEF ChildEnds, Settles
    <3>3. mode = "dumb" \/ SrvAlive => Fits(proc[p])'
      <4>1. mode = "dumb" \/ SrvAlive => fate = "none" /\ InRun
        BY <3>1, RunningFresh
      <4> QED
        BY <2>1, <4>1 DEF ChildEnds, Settles
    <3>4. ASSUME NEW s \in Status, Fits(s) PROVE Fits(s)'
      BY <3>1, <3>2, <3>4, FitsKept DEF Status
    <3>5. ASSUME NEW q \in Pids \ {p}, Fits(proc[q]), proc[q] # "running" PROVE Fits(proc[q])'
      BY <3>1, <3>2, <3>5, FitsKept
    <3>6. mode = "dumb" => \A q \in Pids \ {p} : proc[q] = "free"
      BY <3>1
    <3>7. srv \in {"sendPid", "waitpid"} => srv_child = p
      BY <3>1
    <3> HIDE DEF Fits
    <3> QED
      BY <3>1, <3>3, <3>4, <3>5, <3>6, <3>7
  <2>2. CASE ChildStops(p)
    <3>1. /\ UNCHANGED <<mode, fz, srv, srv_child, srv_status, st, status, child_timed_out,
                         stop_soon>>
          /\ \A q \in Pids \ {p} : proc'[q] = proc[q]
          /\ proc[p] = "running"
      BY <2>2 DEF ChildStops
    <3>2. fate # "none" => fate' = fate
      BY <2>2 DEF ChildStops, Settles
    <3>3. mode = "dumb" \/ SrvAlive => Fits(proc[p])'
      <4>1. mode = "dumb" \/ SrvAlive => fate = "none" /\ InRun
        BY <3>1, RunningFresh
      <4> QED
        BY <2>2, <4>1 DEF ChildStops, Settles
    <3>4. ASSUME NEW s \in Status, Fits(s) PROVE Fits(s)'
      BY <3>1, <3>2, <3>4, FitsKept DEF Status
    <3>5. ASSUME NEW q \in Pids \ {p}, Fits(proc[q]), proc[q] # "running" PROVE Fits(proc[q])'
      BY <3>1, <3>2, <3>5, FitsKept
    <3>6. mode = "dumb" => \A q \in Pids \ {p} : proc[q] = "free"
      BY <3>1
    <3>7. srv \in {"sendPid", "waitpid"} => srv_child = p
      BY <3>1
    <3> HIDE DEF Fits
    <3> QED
      BY <3>1, <3>3, <3>4, <3>5, <3>6, <3>7
  <2>3. CASE ChildDies(p)
    BY <2>3 DEF ChildDies
  <2>4. CASE InitReaps(p)
    BY <2>4 DEF InitReaps
  <2>5. QED
    BY <1>27, <2>1, <2>2, <2>3, <2>4 DEF ChildStep
<1>28. CASE UNCHANGED vars
  BY <1>28 DEF vars
<1>29. QED
  BY <1>1, <1>2, <1>3, <1>4, <1>5, <1>6, <1>7, <1>8, <1>9, <1>10, <1>11, <1>12, <1>13, <1>14,
        <1>15, <1>16, <1>17, <1>18, <1>19, <1>20, <1>21, <1>22, <1>23, <1>24, <1>25, <1>26,
        <1>27, <1>28
  DEF Next, FuzzerStep, ServerStep, Signal

(* The kill of a stopped child never goes unnoticed. *)
LEMMA KillKnownStep == IInv /\ [Next]_vars => KillKnown'
<1> SUFFICES ASSUME IInv, [Next]_vars PROVE KillKnown'
  OBVIOUS
<1> USE DEF IInv, TypeOK, DeadStatus, Lockstep, LockstepHello, LockstepBetween, LockstepReadPid,
      LockstepStatus, Between, Table, TableServer, TableDumb, NoneLeft, SrvAlive, Honest, Doomed,
      Orderly, KillKnown, config, fuzzer, server, pipes, timeouts, results, world, srvLocals,
      env
<1>1. CASE BeginRun
  BY <1>1 DEF BeginRun
<1>2. CASE ExitFuzzer
  BY <1>2 DEF ExitFuzzer
<1>3. CASE AwaitHello
  BY <1>3, WordFacts DEF AwaitHello, StEOF
<1>4. CASE HelloDisarm
  BY <1>4 DEF HelloDisarm
<1>5. CASE DumbFork
  BY <1>5 DEF DumbFork
<1>6. CASE StorePid
  BY <1>6 DEF StorePid
<1>7. CASE Request
  BY <1>7, WordFacts DEF Request, PipeFails
<1>8. CASE ReadPid
  BY <1>8, WordFacts DEF ReadPid, PipeFails, StEOF
<1>9. CASE Arm
  BY <1>9 DEF Arm
<1>10. CASE ReadStatus
  <2>1. CASE st # <<>>
    <3>1. /\ fz = "readStatus" /\ fz' = "clear"
          /\ UNCHANGED <<stop_soon, child_stopped, srv, proc, srv_child, child_timed_out>>
      BY <1>10, <2>1 DEF ReadStatus, StEOF
    <3> QED
      BY <3>1
  <2>2. CASE st = <<>>
    BY <1>10, <2>2 DEF ReadStatus, PipeFails, StEOF
  <2> QED
    BY <2>1, <2>2
<1>11. CASE DumbWait
  BY <1>11 DEF DumbWait
<1>12. CASE ClearPid
  BY <1>12 DEF ClearPid
<1>13. CASE Disarm
  BY <1>13 DEF Disarm
<1>14. CASE AnswerRun
  BY <1>14 DEF AnswerRun, FaultOf
<1>15. CASE SrvHello
  BY <1>15, WordFacts DEF SrvHello, SrvWrite, SrvGoes
<1>16. CASE SrvReadCtl
  BY <1>16, WordFacts DEF SrvReadCtl, SrvGoes
<1>17. CASE SrvReap
  BY <1>17 DEF SrvReap, SrvGoes
<1>18. CASE SrvFork
  BY <1>18 DEF SrvFork, SrvGoes
<1>19. CASE SrvCont
  BY <1>19 DEF SrvCont, SrvGoes
<1>20. CASE SrvSendPid
  BY <1>20, WordFacts DEF SrvSendPid, SrvWrite, SrvGoes
<1>21. CASE SrvWaitpid
  BY <1>21 DEF SrvWaitpid, SrvGoes
<1>22. CASE SrvSendStatus
  BY <1>22, WordFacts DEF SrvSendStatus, SrvWrite, SrvGoes
<1>23. CASE SrvDies
  BY <1>23 DEF SrvDies
<1>24. CASE HandleTimeout
  BY <1>24 DEF HandleTimeout, Killed, CutBy
<1>25. CASE HandleStopSig
  BY <1>25 DEF HandleStopSig, Killed, CutBy
<1>26. CASE StopProgrammatically
  BY <1>26 DEF StopProgrammatically
<1>27. ASSUME NEW p \in Pids, ChildStep(p) PROVE KillKnown'
  <2>1. CASE ChildEnds(p)
    BY <2>1 DEF ChildEnds, Settles
  <2>2. CASE ChildStops(p)
    BY <2>2 DEF ChildStops, Settles
  <2>3. CASE ChildDies(p)
    BY <2>3 DEF ChildDies
  <2>4. CASE InitReaps(p)
    BY <2>4 DEF InitReaps
  <2>5. QED
    BY <1>27, <2>1, <2>2, <2>3, <2>4 DEF ChildStep
<1>28. CASE UNCHANGED vars
  BY <1>28 DEF vars
<1>29. QED
  BY <1>1, <1>2, <1>3, <1>4, <1>5, <1>6, <1>7, <1>8, <1>9, <1>10, <1>11, <1>12, <1>13, <1>14,
        <1>15, <1>16, <1>17, <1>18, <1>19, <1>20, <1>21, <1>22, <1>23, <1>24, <1>25, <1>26,
        <1>27, <1>28
  DEF Next, FuzzerStep, ServerStep, Signal

(* The server does nothing more once a signal stops the session. *)
LEMMA DoomedStep == IInv /\ [Next]_vars => Doomed'
<1> SUFFICES ASSUME IInv, [Next]_vars PROVE Doomed'
  OBVIOUS
<1> USE DEF IInv, TypeOK, SrvAlive, Lockstep, LockstepHello, LockstepBetween, Between, Honest,
      Doomed, config, fuzzer, server, pipes, timeouts, results, world, srvLocals, env
<1>1. CASE BeginRun
  BY <1>1 DEF BeginRun
<1>2. CASE ExitFuzzer
  BY <1>2 DEF ExitFuzzer
<1>3. CASE AwaitHello
  BY <1>3, WordFacts DEF AwaitHello, StEOF
<1>4. CASE HelloDisarm
  BY <1>4 DEF HelloDisarm
<1>5. CASE DumbFork
  BY <1>5 DEF DumbFork
<1>6. CASE StorePid
  BY <1>6 DEF StorePid
<1>7. CASE Request
  BY <1>7, WordFacts DEF Request, PipeFails
<1>8. CASE ReadPid
  BY <1>8, WordFacts DEF ReadPid, PipeFails, StEOF
<1>9. CASE Arm
  BY <1>9 DEF Arm
<1>10. CASE ReadStatus
  BY <1>10, WordFacts DEF ReadStatus, PipeFails, StEOF
<1>11. CASE DumbWait
  BY <1>11 DEF DumbWait
<1>12. CASE ClearPid
  BY <1>12 DEF ClearPid
<1>13. CASE Disarm
  BY <1>13 DEF Disarm
<1>14. CASE AnswerRun
  BY <1>14 DEF AnswerRun, FaultOf
<1>15. CASE SrvHello
  BY <1>15, WordFacts DEF SrvHello, SrvWrite, SrvGoes
<1>16. CASE SrvReadCtl
  BY <1>16, WordFacts DEF SrvReadCtl, SrvGoes
<1>17. CASE SrvReap
  BY <1>17 DEF SrvReap, SrvGoes
<1>18. CASE SrvFork
  BY <1>18 DEF SrvFork, SrvGoes
<1>19. CASE SrvCont
  BY <1>19 DEF SrvCont, SrvGoes
<1>20. CASE SrvSendPid
  BY <1>20, WordFacts DEF SrvSendPid, SrvWrite, SrvGoes
<1>21. CASE SrvWaitpid
  BY <1>21 DEF SrvWaitpid, SrvGoes
<1>22. CASE SrvSendStatus
  BY <1>22, WordFacts DEF SrvSendStatus, SrvWrite, SrvGoes
<1>23. CASE SrvDies
  BY <1>23 DEF SrvDies
<1>24. CASE HandleTimeout
  BY <1>24 DEF HandleTimeout, Killed, CutBy
<1>25. CASE HandleStopSig
  BY <1>25 DEF HandleStopSig, Killed, CutBy
<1>26. CASE StopProgrammatically
  BY <1>26 DEF StopProgrammatically
<1>27. ASSUME NEW p \in Pids, ChildStep(p) PROVE Doomed'
  <2>1. CASE ChildEnds(p)
    BY <2>1 DEF ChildEnds, Settles
  <2>2. CASE ChildStops(p)
    BY <2>2 DEF ChildStops, Settles
  <2>3. CASE ChildDies(p)
    BY <2>3 DEF ChildDies
  <2>4. CASE InitReaps(p)
    BY <2>4 DEF InitReaps
  <2>5. QED
    BY <1>27, <2>1, <2>2, <2>3, <2>4 DEF ChildStep
<1>28. CASE UNCHANGED vars
  BY <1>28 DEF vars
<1>29. QED
  BY <1>1, <1>2, <1>3, <1>4, <1>5, <1>6, <1>7, <1>8, <1>9, <1>10, <1>11, <1>12, <1>13, <1>14,
        <1>15, <1>16, <1>17, <1>18, <1>19, <1>20, <1>21, <1>22, <1>23, <1>24, <1>25, <1>26,
        <1>27, <1>28
  DEF Next, FuzzerStep, ServerStep, Signal

-----------------------------------------------------------------------------
(* The initial states satisfy the inductive invariant. *)
LEMMA InitIInv == Init => IInv
<1> SUFFICES ASSUME Init PROVE IInv
  OBVIOUS
<1> USE DEF Init
<1>1. TypeOK
  <2>1. timer \in BOOLEAN
    BY Zenon
  <2>2. ctl \in Seq(BOOLEAN) /\ st \in Seq(Pids \cup Status \cup {Hello})
    OBVIOUS
  <2>3. proc \in [Pids -> ProcStates]
    BY DEF ProcStates
  <2> QED
    BY <2>1, <2>2, <2>3 DEF TypeOK, FzStates, SrvStates, Status, DeadStatus
<1>2. Lockstep
  BY DEF Lockstep, LockstepHello, LockstepBetween, LockstepReadPid, LockstepStatus, Between
<1>3. Table
  BY DEF Table, TableDumb, TableServer, NoneLeft, SrvAlive
<1>4. Orderly
  BY DEF Orderly, NoneLeft
<1>5. Honest
  BY DEF Honest, Fresh, Told, KillKnown, Doomed
<1> QED
  BY <1>1, <1>2, <1>3, <1>4, <1>5 DEF IInv

(* Every step preserves the inductive invariant. *)
LEMMA StepIInv == IInv /\ [Next]_vars => IInv'
BY TypeStep, LockstepStep, TableStep, OrderlyStep, FreshStep, ToldStep, KillKnownStep, DoomedStep
DEF IInv, Honest

(* The inductive invariant holds throughout: run_target(), the signal      *)
(* handlers, the fork server and the target stay in step.                  *)
THEOREM Invariance == Spec => []IInv
<1>1. Init => IInv
  BY InitIInv
<1>2. IInv /\ [Next]_vars => IInv'
  BY StepIInv
<1> QED
  BY <1>1, <1>2, PTL DEF Spec

(* Every variable of the fuzzer, the server, the pipes and the process     *)
(* table keeps its type.                                                   *)
THEOREM TypeCorrect == Spec => []TypeOK
<1>1. IInv => TypeOK
  BY DEF IInv
<1> QED
  BY <1>1, Invariance, PTL

(* No forked target is left unreaped when the next one is forked.          *)
THEOREM OneChildHolds == Spec => []OneChild
<1>1. IInv => OneChild
  <2> SUFFICES ASSUME IInv PROVE OneChild
    OBVIOUS
  <2>1. CASE mode = "dumb"
    BY <2>1 DEF IInv, Table, TableDumb, OneChild
  <2>2. CASE mode # "dumb"
    BY <2>2 DEF IInv, Table, TableServer, OneChild
  <2> QED
    BY <2>1, <2>2
<1> QED
  BY <1>1, Invariance, PTL

(* The fuzzer never reads a word of another kind than it expects.          *)
THEOREM FramingHolds == Spec => []Framing
<1>1. IInv => Framing
  <2> SUFFICES ASSUME IInv, st # <<>> PROVE
         \/ fz = "hello" /\ st[1] = Hello
         \/ fz = "readPid" /\ st[1] \in Pids
         \/ fz \in {"arm", "readStatus"} /\ st[1] \in Status
    BY DEF Framing
  <2> USE DEF IInv, TypeOK, Lockstep, Between
  <2>1. fz \in {"hello", "readPid", "arm", "readStatus"} /\ mode # "dumb"
    BY DEF LockstepBetween, FzStates
  <2>2. CASE fz = "hello"
    BY <2>1, <2>2 DEF LockstepHello
  <2>3. CASE fz = "readPid"
    BY <2>1, <2>3 DEF LockstepReadPid
  <2>4. CASE fz \in {"arm", "readStatus"}
    BY <2>1, <2>4 DEF LockstepStatus
  <2> QED
    BY <2>1, <2>2, <2>3, <2>4
<1> QED
  BY <1>1, Invariance, PTL

(* While a run waits for its status, SIGALRM is aimed at the process the   *)
(* server waits for.                                                       *)
THEOREM TimerAimedHolds == Spec => []TimerAimed
<1>1. IInv => TimerAimed
  BY DEF IInv, Lockstep, LockstepStatus, TimerAimed
<1> QED
  BY <1>1, Invariance, PTL

(* No target runs while the fuzzer evaluates trace_bits[].                 *)
THEOREM TraceQuiescentHolds == Spec => []TraceQuiescent
<1>1. IInv => TraceQuiescent
  <2> SUFFICES ASSUME IInv, fz \in {"clear", "disarm", "answer", "idle"}, stop_soon # 1,
                      NEW p \in Pids
               PROVE  proc[p] # "running"
    BY DEF TraceQuiescent
  <2>1. CASE mode = "dumb"
    BY <2>1 DEF IInv, Table, TableDumb, NoneLeft
  <2>2. CASE mode # "dumb" /\ srv = "dead"
    BY <2>2 DEF IInv, Orderly
  <2>3. CASE mode # "dumb" /\ srv # "dead"
    <3>1. srv = "wait"
      BY <2>3 DEF IInv, Lockstep, LockstepBetween, Between
    <3> QED
      BY <2>3, <3>1 DEF IInv, Table, TableServer, NoneLeft, SrvAlive
  <2> QED
    BY <2>1, <2>2, <2>3
<1> QED
  BY <1>1, Invariance, PTL

(* Unless a signal stops the session, afl-fuzz does not end with a target  *)
(* still running.                                                          *)
THEOREM NoRunawayHolds == Spec => []NoRunaway
<1>1. IInv => NoRunaway
  <2> SUFFICES ASSUME IInv, fz = "exited", stop_soon # 1, NEW p \in Pids
               PROVE  proc[p] # "running"
    BY DEF NoRunaway
  <2>1. CASE mode = "dumb"
    BY <2>1 DEF IInv, Table, TableDumb, NoneLeft
  <2>2. CASE mode # "dumb" /\ srv = "dead"
    BY <2>2 DEF IInv, Orderly
  <2>3. CASE mode # "dumb" /\ srv # "dead"
    <3>1. srv = "wait"
      BY <2>3 DEF IInv, Lockstep, LockstepBetween, Between
    <3> QED
      BY <2>3, <3>1 DEF IInv, Table, TableServer, NoneLeft, SrvAlive
  <2> QED
    BY <2>1, <2>2, <2>3
<1> QED
  BY <1>1, Invariance, PTL

-----------------------------------------------------------------------------
(* At the start nothing ran yet. *)
LEMMA InitMaps == Init => Runner!Init
BY DEF Init, Runner!Init, Phase, InRun

(* Every step of the fuzzer, a handler, the server or the target is a step *)
(* of TargetRunner, or invisible in it.                                    *)
LEMMA StepMaps == IInv /\ [Next]_vars => [Runner!Next]_(Runner!vars)
<1> SUFFICES ASSUME IInv, [Next]_vars PROVE [Runner!Next]_(Runner!vars)
  OBVIOUS
<1> USE DEF Phase, InRun, Runner!vars, config, fuzzer, server, pipes, timeouts, results, world,
      srvLocals, env
<1> DEFINE Hidden == UNCHANGED <<Phase, fate, child_timed_out, (stop_soon # 0), fault>>
<1>1. Hidden => [Runner!Next]_(Runner!vars)
  OBVIOUS
<1>2. Runner!GiveUp \/ Runner!Answer \/ Runner!Stop \/ Runner!Expire \/ Runner!Begin
        => [Runner!Next]_(Runner!vars)
  BY DEF Runner!Next
<1>3. ASSUME NEW o \in Runner!Outcomes, Runner!Settle(o) PROVE [Runner!Next]_(Runner!vars)
  BY <1>3 DEF Runner!Next
<1>4. PipeFails /\ fz \in {"request", "readPid", "readStatus"}
        => Runner!GiveUp \/ Runner!Answer
  BY DEF PipeFails, Runner!GiveUp, Runner!Answer
<1>5. CASE BeginRun
  <2>1. Runner!Begin
    BY <1>5 DEF BeginRun, Runner!Begin
  <2> QED
    BY <1>2, <2>1
<1>6. CASE ExitFuzzer
  <2>1. Runner!GiveUp
    BY <1>6 DEF ExitFuzzer, Runner!GiveUp
  <2> QED
    BY <1>2, <2>1
<1>7. CASE AwaitHello
  <2>1. Hidden \/ Runner!GiveUp
    BY <1>7 DEF AwaitHello, Runner!GiveUp
  <2> QED
    BY <1>1, <1>2, <2>1
<1>8. CASE DumbFork
  <2>1. Hidden \/ Runner!GiveUp
    BY <1>8 DEF DumbFork, Runner!GiveUp
  <2> QED
    BY <1>1, <1>2, <2>1
<1>9. CASE Request
  <2>1. Hidden \/ PipeFails
    BY <1>9 DEF Request
  <2> QED
    BY <1>1, <1>2, <1>4, <1>9, <2>1 DEF Request
<1>10. CASE ReadPid
  <2>1. Hidden \/ PipeFails
    BY <1>10 DEF ReadPid
  <2> QED
    BY <1>1, <1>2, <1>4, <1>10, <2>1 DEF ReadPid
<1>11. CASE ReadStatus
  <2>1. Hidden \/ PipeFails
    BY <1>11 DEF ReadStatus
  <2> QED
    BY <1>1, <1>2, <1>4, <1>11, <2>1 DEF ReadStatus
<1>12. CASE AnswerRun
  <2>1. Fits(status) /\ status \in Status
    BY <1>12 DEF AnswerRun, IInv, TypeOK, Honest, Told
  <2>2. FaultOf(status) \in Runner!Justified(fate)
          \cup (IF stop_soon # 0 THEN {"FAULT_NONE"} ELSE {})
    BY <2>1 DEF Fits, KilledByUs, FaultOf, Runner!Justified, Status, DeadStatus
  <2>3. Runner!Answer
    BY <1>12, <2>2 DEF AnswerRun, Runner!Answer
  <2> QED
    BY <1>2, <2>3
<1>13. CASE HandleTimeout
  <2>1. CASE child_pid \in Pids \/ (child_pid = Unset /\ srv # "none")
    <3>1. child_timed_out' = TRUE
      BY <1>13, <2>1, Zenon DEF HandleTimeout
    <3>2. Runner!Expire
      BY <1>13, <3>1 DEF HandleTimeout, CutBy, Runner!Expire
    <3> QED
      BY <1>2, <3>2
  <2>2. CASE ~(child_pid \in Pids \/ (child_pid = Unset /\ srv # "none"))
    <3>1. child_timed_out' = child_timed_out
      BY <1>13, <2>2, Zenon DEF HandleTimeout, IInv, TypeOK
    <3>2. Hidden
      BY <1>13, <2>2, <3>1 DEF HandleTimeout, CutBy
    <3> QED
      BY <1>1, <3>2
  <2> QED
    BY <2>1, <2>2
<1>14. CASE HandleStopSig
  <2>1. Runner!Stop
    BY <1>14 DEF HandleStopSig, CutBy, Runner!Stop
  <2> QED
    BY <1>2, <2>1
<1>15. CASE StopProgrammatically
  <2>1. Runner!Stop
    BY <1>15 DEF StopProgrammatically, Runner!Stop
  <2> QED
    BY <1>2, <2>1
<1>16. ASSUME NEW p \in Pids, ChildStep(p) PROVE [Runner!Next]_(Runner!vars)
  <2>1. ASSUME NEW f \in Runner!Outcomes, Settles(f), UNCHANGED <<world, fuzzer>>
        PROVE  [Runner!Next]_(Runner!vars)
    <3>1. Runner!Settle(f) \/ Hidden
      BY <2>1 DEF Settles, Runner!Settle
    <3> QED
      BY <1>1, <1>3, <3>1
  <2>2. CASE ChildEnds(p)
    <3>1. \E f \in Runner!Outcomes : Settles(f)
      BY <2>2 DEF ChildEnds, DeadStatus, Runner!Outcomes
    <3> QED
      BY <2>1, <2>2, <3>1 DEF ChildEnds
  <2>3. CASE ChildStops(p)
    BY <2>1, <2>3 DEF ChildStops, Runner!Outcomes
  <2>4. CASE ChildDies(p) \/ InitReaps(p)
    BY <1>1, <2>4 DEF ChildDies, InitReaps
  <2> QED
    BY <1>16, <2>2, <2>3, <2>4 DEF ChildStep
<1>17. CASE HelloDisarm
  BY <1>1, <1>17 DEF HelloDisarm
<1>18. CASE StorePid
  BY <1>1, <1>18 DEF StorePid
<1>19. CASE Arm
  BY <1>1, <1>19 DEF Arm
<1>20. CASE DumbWait
  BY <1>1, <1>20 DEF DumbWait
<1>21. CASE ClearPid
  BY <1>1, <1>21 DEF ClearPid
<1>22. CASE Disarm
  BY <1>1, <1>22 DEF Disarm
<1>23. CASE SrvHello
  BY <1>1, <1>23 DEF SrvHello, SrvWrite
<1>24. CASE SrvReadCtl
  BY <1>1, <1>24 DEF SrvReadCtl
<1>25. CASE SrvReap
  BY <1>1, <1>25 DEF SrvReap
<1>26. CASE SrvFork
  BY <1>1, <1>26 DEF SrvFork
<1>27. CASE SrvCont
  BY <1>1, <1>27 DEF SrvCont
<1>28. CASE SrvSendPid
  BY <1>1, <1>28 DEF SrvSendPid, SrvWrite
<1>29. CASE SrvWaitpid
  BY <1>1, <1>29 DEF SrvWaitpid
<1>30. CASE SrvSendStatus
  BY <1>1, <1>30 DEF SrvSendStatus, SrvWrite
<1>31. CASE SrvDies
  BY <1>1, <1>31 DEF SrvDies
<1>32. CASE UNCHANGED vars
  BY <1>1, <1>32 DEF vars
<1> QED
  BY <1>5, <1>6, <1>7, <1>8, <1>9, <1>10, <1>11, <1>12, <1>13, <1>14, <1>15, <1>16, <1>17, <1>18,
        <1>19, <1>20, <1>21, <1>22, <1>23, <1>24, <1>25, <1>26, <1>27, <1>28, <1>29, <1>30,
        <1>31, <1>32
  DEF Next, FuzzerStep, ServerStep, Signal

(* run_target() keeps its promise: in every interleaving, an execution the *)
(* fuzzer cut short is never reported as a crash, and every other answer   *)
(* is one that the target's own end justifies.                             *)
THEOREM RunnerImplemented == Spec => KeepsPromise
<1>1. Init => Runner!Init
  BY InitMaps
<1>2. IInv /\ [Next]_vars => [Runner!Next]_(Runner!vars)
  BY StepMaps
<1> QED
  BY <1>1, <1>2, Invariance, PTL DEF Spec, KeepsPromise, Runner!Spec
=============================================================================
