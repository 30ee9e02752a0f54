----------------------------- MODULE SyncProofs -----------------------------
(***************************************************************************)
(* What sync_fuzzers() may forget: the number written to .synced/ for a    *)
(* peer never passes over a case that was neither executed nor unreadable  *)
(* when its turn came, and makes a case be executed a second time only if  *)
(* its file was created again meanwhile or a stop came in between, for any *)
(* number of peers and cases; and what an importing instance keeps *)
(* of crashes and hangs is what it is taken for, and tells apart all that  *)
(* save_if_interesting() tells apart, for any inputs and any limits.       *)
(***************************************************************************)
EXTENDS Sync, FiniteSetTheorems, TLAPS

---------------------------------------------------------------------------
(* First the lemmas about single steps of Findings.                        *)

(* The maps of what has been seen hold exactly what the kept crashes show, *)
(* and at least what the kept hangs show; a suspect that is run again has  *)
(* been recorded already, but is like none of the hangs kept.              *)
FInv ==
  /\ stage \in {"idle", "run", "judge", "rerun", "hang", "crash"}
  /\ stage # "idle" => mem \in Cases
  /\ hangs \in Seq(Cases) /\ crashes \in Seq(Cases)
  /\ stage = "crash" => LongFault(mem) = "crash"
  /\ \A k \in DOMAIN hangs : simplify_trace(Trace(hangs[k])) \subseteq virgin_tmout
  /\ stage = "rerun" => /\ simplify_trace(Trace(mem)) \subseteq virgin_tmout
                        /\ \A k \in DOMAIN hangs : Trace(hangs[k]) # Trace(mem)
  /\ \A k \in DOMAIN crashes : simplify_trace(LongTrace(crashes[k])) \subseteq virgin_crash
  /\ \A x \in virgin_crash :
       \E k \in DOMAIN crashes : x \in simplify_trace(LongTrace(crashes[k]))
  /\ CrashesCovered /\ FindingsGenuine

(* A pair in a simplified trace tells of a byte whether it was hit.        *)
LEMMA Tells ==
  ASSUME NEW t, NEW u, NEW b \in MAP, <<b, b \in t>> \in simplify_trace(u)
  PROVE  b \in t <=> b \in u
  BY DEF simplify_trace

(* A kept file comes last.                                                 *)
LEMMA Appended ==
  ASSUME NEW s \in Seq(Cases), NEW c \in Cases
  PROVE  /\ Append(s, c) \in Seq(Cases)
         /\ DOMAIN s \subseteq DOMAIN Append(s, c)
         /\ Len(s) + 1 \in DOMAIN Append(s, c) /\ Append(s, c)[Len(s) + 1] = c
         /\ \A k \in DOMAIN s : Append(s, c)[k] = s[k]
         /\ \A k \in DOMAIN Append(s, c) : k \in DOMAIN s \/ k = Len(s) + 1
  OBVIOUS

(* Nothing has been kept at the start of a session.                        *)
LEMMA FindingsInitially ==
  ASSUME FindingsInit PROVE FInv
  <1>1. hangs = << >> /\ crashes = << >> /\ stage = "idle" /\ crashed = {} /\ virgin_crash = {}
    BY DEF FindingsInit
  <1> QED BY <1>1 DEF FInv, CrashesCovered, FindingsGenuine

(* A run, and a stop, judge nothing.                                       *)
LEMMA RunKeeps ==
  ASSUME FInv, (\E c \in Cases : BeginRun(c)) \/ EndRun \/ Stop
  PROVE  FInv'
  <1>1. /\ UNCHANGED <<hangs, crashes, virgin_tmout, virgin_crash, crashed, generous>>
        /\ \/ stage' \in {"idle", "run", "judge"} /\ (stage' # "idle" => mem' \in Cases)
           \/ stage' = stage /\ mem' = mem
    <2>1. CASE \E c \in Cases : BeginRun(c) BY <2>1 DEF BeginRun, kept, settings
    <2>2. CASE EndRun BY <2>2 DEF EndRun, FInv, Finish, Turn, kept, settings
    <2>3. CASE Stop   BY <2>3 DEF Stop, kept, settings
    <2> QED BY <2>1, <2>2, <2>3
  <1> QED BY <1>1 DEF FInv, CrashesCovered, FindingsGenuine

(* The switch leads to keep_as_crash only with what crashes under either   *)
(* limit.                                                                  *)
LEMMA SaveIfInterestingKeeps ==
  ASSUME FInv, SaveIfInteresting PROVE FInv'
  <1>1. mem \in Cases /\ stage = "judge"
    BY DEF SaveIfInteresting, FInv
  <1>2. /\ UNCHANGED <<hangs, crashes, virgin_tmout, virgin_crash, crashed, generous>>
        /\ Finish \/ Switch
    BY DEF SaveIfInteresting, settings
  <1>3. \/ stage' = "idle"
        \/ stage' = "hang" /\ mem' = mem
        \/ stage' = "crash" /\ mem' = mem /\ Fault(mem) = "crash"
    BY <1>1, <1>2, FindingsAssumption DEF Switch, Finish, Turn
  <1>4. Fault(mem) = "crash" => LongFault(mem) = "crash"
    BY <1>1, FindingsAssumption
  <1> QED BY <1>1, <1>2, <1>3, <1>4 DEF FInv, CrashesCovered, FindingsGenuine

(* A hang that is kept is like none of those kept before.                  *)
LEMMA KeepHangKeeps ==
  ASSUME FInv, mem \in Cases, KeepHang,
         UNCHANGED <<crashes, virgin_crash, crashed, generous>>,
         \A k \in DOMAIN hangs : Trace(hangs[k]) # Trace(mem),
         virgin_tmout \subseteq virgin_tmout',
         simplify_trace(Trace(mem)) \subseteq virgin_tmout',
         generous \/ LongFault(mem) = "tmout"
  PROVE  FInv'
  <1>1. hangs' = Append(hangs, mem) /\ stage' = "idle"
    BY DEF KeepHang, Finish
  <1>2. hangs \in Seq(Cases)
    BY DEF FInv
  <1>3. /\ hangs' \in Seq(Cases)
        /\ \A k \in DOMAIN hangs' : \/ k \in DOMAIN hangs /\ hangs'[k] = hangs[k]
                                    \/ k = Len(hangs) + 1 /\ hangs'[k] = mem
    BY <1>1, <1>2, Appended
  <1>4. \A k \in DOMAIN hangs' : simplify_trace(Trace(hangs'[k])) \subseteq virgin_tmout'
    <2>1. \A k \in DOMAIN hangs : simplify_trace(Trace(hangs[k])) \subseteq virgin_tmout'
      BY DEF FInv
    <2> QED BY <1>3, <2>1
  <1>5. FindingsGenuine'
    <2>1. \A k \in DOMAIN hangs' : generous' \/ LongFault(hangs'[k]) = "tmout"
      BY <1>3 DEF FInv, FindingsGenuine
    <2>2. \A j, k \in DOMAIN hangs' : j # k => Trace(hangs'[j]) # Trace(hangs'[k])
      BY <1>3 DEF FInv, FindingsGenuine
    <2> QED BY <2>1, <2>2 DEF FInv, FindingsGenuine
  <1> QED BY <1>1, <1>3, <1>4, <1>5 DEF FInv, CrashesCovered

(* A suspected hang is dropped, kept, or run again; in the last two cases  *)
(* it showed something that no hang kept before shows.                     *)
LEMMA JudgeHangKeeps ==
  ASSUME FInv, JudgeHang PROVE FInv'
  <1>1. mem \in Cases /\ stage = "hang"
    BY DEF JudgeHang, FInv
  <1>2. UNCHANGED <<crashes, virgin_crash, crashed, generous>>
    BY DEF JudgeHang, settings
  <1>3. CASE Finish /\ UNCHANGED <<hangs, virgin_tmout>>
    BY <1>2, <1>3 DEF FInv, CrashesCovered, FindingsGenuine, Finish
  <1>4. CASE ~(simplify_trace(Trace(mem)) \subseteq virgin_tmout)
    <2>1. \A k \in DOMAIN hangs : Trace(hangs[k]) # Trace(mem)
      BY <1>4 DEF FInv
    <2>2. CASE Finish /\ UNCHANGED <<hangs, virgin_tmout>>
      BY <1>3, <2>2
    <2>3. CASE /\ virgin_tmout' = virgin_tmout \cup simplify_trace(Trace(mem))
               /\ generous /\ KeepHang
      BY <1>1, <1>2, <2>1, <2>3, KeepHangKeeps
    <2>4. CASE /\ virgin_tmout' = virgin_tmout \cup simplify_trace(Trace(mem))
               /\ Turn("rerun") /\ UNCHANGED hangs
      BY <1>1, <1>2, <2>1, <2>4 DEF FInv, CrashesCovered, FindingsGenuine, Turn
    <2> QED BY <2>2, <2>3, <2>4 DEF JudgeHang
  <1> QED BY <1>3, <1>4 DEF JudgeHang

(* The second run decides: a hang, a crash, or neither.                    *)
LEMMA EndRerunKeeps ==
  ASSUME FInv, EndRerun PROVE FInv'
  <1>1. mem \in Cases /\ stage = "rerun"
    BY DEF EndRerun, FInv
  <1>2. UNCHANGED <<crashes, virgin_crash, crashed, generous, virgin_tmout>>
    BY DEF EndRerun, settings
  <1>3. CASE LongFault(mem) = "crash" /\ Turn("crash") /\ UNCHANGED hangs
    BY <1>1, <1>2, <1>3 DEF FInv, CrashesCovered, FindingsGenuine, Turn
  <1>4. CASE Confirmed /\ KeepHang
    <2>1. /\ \A k \in DOMAIN hangs : Trace(hangs[k]) # Trace(mem)
          /\ simplify_trace(Trace(mem)) \subseteq virgin_tmout'
      BY <1>1, <1>2 DEF FInv
    <2> QED BY <1>1, <1>2, <1>4, <2>1, KeepHangKeeps DEF Confirmed
  <1>5. CASE Finish /\ UNCHANGED hangs
    BY <1>2, <1>5 DEF FInv, CrashesCovered, FindingsGenuine, Finish
  <1> QED BY <1>3, <1>4, <1>5 DEF EndRerun

(* A crash is dropped only if for each byte of the map some crash that was *)
(* kept shows the same; one that is kept speaks for itself.                *)
LEMMA JudgeCrashKeeps ==
  ASSUME FInv, JudgeCrash PROVE FInv'
  <1> DEFINE t == LongTrace(mem)
             seen == simplify_trace(t)
  <1>1. /\ mem \in Cases /\ stage = "crash" /\ LongFault(mem) = "crash" /\ crashes \in Seq(Cases)
        /\ stage' = "idle" /\ UNCHANGED <<hangs, virgin_tmout, generous>>
    BY DEF JudgeCrash, FInv, Finish, settings
  <1>2. CASE Len(crashes) >= KEEP_UNIQUE_CRASH
    <2>1. UNCHANGED <<crashes, virgin_crash>> /\ crashed' = crashed
      BY <1>2 DEF JudgeCrash
    <2> QED BY <1>1, <2>1 DEF FInv, CrashesCovered, FindingsGenuine
  <1>3. CASE ~(Len(crashes) >= KEEP_UNIQUE_CRASH) /\ seen \subseteq virgin_crash
    <2>1. UNCHANGED <<crashes, virgin_crash>> /\ crashed' = crashed \cup {t}
      BY <1>3 DEF JudgeCrash
    <2>2. ASSUME NEW b \in MAP
          PROVE  \E k \in DOMAIN crashes : b \in t <=> b \in LongTrace(crashes[k])
      <3>1. <<b, b \in t>> \in seen
        BY DEF simplify_trace
      <3>2. PICK k \in DOMAIN crashes : <<b, b \in t>> \in simplify_trace(LongTrace(crashes[k]))
        BY <1>3, <3>1 DEF FInv
      <3> QED BY <3>2, Tells
    <2>3. CrashesCovered'
      BY <2>1, <2>2 DEF FInv, CrashesCovered
    <2> QED BY <1>1, <2>1, <2>3 DEF FInv, FindingsGenuine
  <1>4. CASE ~(Len(crashes) >= KEEP_UNIQUE_CRASH) /\ ~(seen \subseteq virgin_crash)
    <2>1. /\ virgin_crash' = virgin_crash \cup seen /\ crashes' = Append(crashes, mem)
          /\ crashed' = crashed \cup {t}
      BY <1>4 DEF JudgeCrash
    <2>2. /\ crashes' \in Seq(Cases) /\ DOMAIN crashes \subseteq DOMAIN crashes'
          /\ Len(crashes) + 1 \in DOMAIN crashes' /\ crashes'[Len(crashes) + 1] = mem
          /\ \A k \in DOMAIN crashes : crashes'[k] = crashes[k]
          /\ \A k \in DOMAIN crashes' : k \in DOMAIN crashes \/ k = Len(crashes) + 1
      BY <1>1, <2>1, Appended
    <2>3. \A k \in DOMAIN crashes : LongTrace(crashes[k]) # t
      BY <1>4 DEF FInv
    <2>4. \A k \in DOMAIN crashes' : simplify_trace(LongTrace(crashes'[k])) \subseteq virgin_crash'
      BY <2>1, <2>2 DEF FInv
    <2>5. ASSUME NEW x \in virgin_crash'
          PROVE  \E k \in DOMAIN crashes' : x \in simplify_trace(LongTrace(crashes'[k]))
      <3>1. CASE x \in seen BY <2>2, <3>1
      <3>2. CASE x \in virgin_crash
        <4>1. PICK k \in DOMAIN crashes : x \in simplify_trace(LongTrace(crashes[k]))
          BY <3>2 DEF FInv
        <4> QED BY <2>2, <4>1
      <3> QED BY <2>1, <3>1, <3>2
    <2>6. CrashesCovered'
      <3> SUFFICES ASSUME NEW u \in crashed', NEW b \in MAP
                   PROVE  \E k \in DOMAIN crashes' : b \in u <=> b \in LongTrace(crashes'[k])
        BY DEF CrashesCovered
      <3>1. CASE u = t BY <2>2, <3>1
      <3>2. CASE u \in crashed
        <4>1. PICK k \in DOMAIN crashes : b \in u <=> b \in LongTrace(crashes[k])
          BY <3>2 DEF FInv, CrashesCovered
        <4> QED BY <2>2, <4>1
      <3> QED BY <2>1, <3>1, <3>2
    <2>7. FindingsGenuine'
      <3>1. \A k \in DOMAIN crashes' : LongFault(crashes'[k]) = "crash"
        BY <1>1, <2>2 DEF FInv, FindingsGenuine
      <3>2. \A j, k \in DOMAIN crashes' :
              j # k => LongTrace(crashes'[j]) # LongTrace(crashes'[k])
        BY <2>2, <2>3 DEF FInv, FindingsGenuine
      <3> QED BY <1>1, <3>1, <3>2 DEF FInv, FindingsGenuine
    <2> QED BY <1>1, <2>2, <2>4, <2>5, <2>6, <2>7 DEF FInv
  <1> QED BY <1>2, <1>3, <1>4

(* A resumed session starts without findings.                              *)
LEMMA ResumeKeeps ==
  ASSUME FInv, Resume PROVE FInv'
  <1>1. /\ hangs' = << >> /\ crashes' = << >> /\ crashed' = {} /\ virgin_crash' = {}
        /\ stage' = "idle"
    BY DEF Resume
  <1> QED BY <1>1 DEF FInv, CrashesCovered, FindingsGenuine

(* Every step of an execution keeps the invariant.                         *)
LEMMA ExecutionKeeps ==
  ASSUME FInv, Execution PROVE FInv'
  BY RunKeeps, SaveIfInterestingKeeps, JudgeHangKeeps, EndRerunKeeps, JudgeCrashKeeps DEF Execution

(* And so does whatever leaves the findings alone.                         *)
LEMMA OthersKeep ==
  ASSUME FInv, UNCHANGED findings PROVE FInv'
  BY DEF FInv, CrashesCovered, FindingsGenuine, findings, settings, kept

---------------------------------------------------------------------------
(* Then what Sync adds to it.                                              *)

(* The ids that a peer has given out, whether their file is there or not.  *)
Known(p) == {k \in Ids : file[p][k] # Absent \/ Begun(p, k)}

PeersInv ==
  /\ file \in [Peers -> [Ids -> PeerCases \cup {Absent, Empty}]]
  /\ writing \in [Peers -> {Absent} \cup (PeerCases \X Ids)]
  /\ \A p \in Peers, k \in Ids : file[p][k] = Empty => Begun(p, k)
  /\ \A p \in Peers : \E n \in 0 .. MaxId : Known(p) = 0 .. n - 1

SyncTypes ==
  /\ marker \in [Peers -> Nat] /\ pc \in {"fuzz", "sync", "cases"}
  /\ peer \in Peers /\ todo \subseteq Ids /\ next_min_accept \in Nat /\ syncing_case \in Ids
  /\ left \subseteq Peers /\ relisted \subseteq Ids
  /\ ran \subseteq Peers \X Ids

(* Ids below a marker are given out and done.                              *)
Marked ==
  \A p \in Peers, k \in Nat :
    k < marker[p] => k \in Known(p) /\ <<p, k>> \in ran \cup passed

(* While a directory is read, what is neither done nor in hand will be     *)
(* listed; and ids are given out in order, so none is skipped.             *)
Reading ==
  pc = "cases" =>
    /\ todo \cup relisted \subseteq Known(peer) /\ marker[peer] <= next_min_accept
    /\ \A k \in Nat : k < next_min_accept => k \in Known(peer)
    /\ \A k \in Known(peer) : \/ <<peer, k>> \in ran \cup passed \/ k \in todo
                              \/ stage = "run" /\ syncing_case = k

(* What was executed lies below the marker, or will once it is written.    *)
RanBelow ==
  /\ \A q \in Peers, k \in Ids : <<q, k>> \in ran => k \in Known(q)
  /\ pc = "sync" => stage = "idle"
  /\ (pc = "fuzz" /\ ~stop_soon) \/ pc = "sync" =>
       \A q \in Peers, k \in Ids : <<q, k>> \in ran => k < marker[q]
  /\ pc = "cases" =>
       \A q \in Peers, k \in Ids :
         <<q, k>> \in ran => /\ q # peer => k < marker[q]
                             /\ q = peer => /\ k < next_min_accept
                                            /\ k \notin todo \/ k < marker[peer]
  /\ pc = "cases" /\ stage = "run" =>
       /\ syncing_case \in Known(peer) /\ syncing_case < next_min_accept
       /\ syncing_case \notin todo

SyncInv == SyncTypes /\ Marked /\ Reading /\ RanBelow

IInv == FInv /\ PeersInv /\ SyncInv

---------------------------------------------------------------------------
(* Nothing changes for the peers as long as their directories do not.      *)
LEMMA PeersAlone ==
  ASSUME PeersInv, UNCHANGED <<file, writing>>
  PROVE  PeersInv' /\ \A q \in Peers : Known(q)' = Known(q)
  <1>1. \A q \in Peers : Known(q)' = Known(q)
    BY DEF Known, Begun
  <1>2. \A p \in Peers, k \in Ids : file'[p][k] = Empty => Begun(p, k)'
    BY DEF PeersInv, Begun
  <1>3. \A p \in Peers : \E n \in 0 .. MaxId : Known(p)' = 0 .. n - 1
    BY <1>1 DEF PeersInv
  <1> QED BY <1>1, <1>2, <1>3 DEF PeersInv

(* What a peer has in its hands is a case and an id.                       *)
LEMMA Writing ==
  ASSUME PeersInv, NEW p \in Peers
  PROVE  /\ \A c \in Cases, k \in Nat : <<c, k>> # Absent
         /\ writing[p] # Absent =>
              /\ writing[p] \in PeerCases \X Ids
              /\ writing[p][1] \in PeerCases /\ writing[p][2] \in Ids
         /\ \A k \in Ids : file[p][k] \in PeerCases \cup {Absent, Empty}
         /\ Absent # Empty /\ Absent \notin PeerCases /\ Empty \notin PeerCases
  BY SyncAssumption DEF PeersInv

(* A peer that trims a case or completes it gives out no id and takes none *)
(* back.                                                                   *)
LEMMA PeerTrims ==
  ASSUME PeersInv, NEW p \in Peers, PeerTrimUnlink(p) \/ PeerTrimCreate(p) \/ PeerWrite(p)
  PROVE  PeersInv' /\ \A q \in Peers : Known(q)' = Known(q)
  <1>1. /\ file' \in [Peers -> [Ids -> PeerCases \cup {Absent, Empty}]]
        /\ writing' \in [Peers -> {Absent} \cup (PeerCases \X Ids)]
        /\ \A k \in Ids : file'[p][k] = Empty => Begun(p, k)'
        /\ Known(p)' = Known(p)
        /\ \A q \in Peers \ {p} : file'[q] = file[q] /\ writing'[q] = writing[q]
    <2> USE Writing
    <2>1. CASE PeerTrimUnlink(p)
      <3>1. PICK k \in Ids : /\ file[p][k] # Absent /\ writing[p] = Absent
                             /\ writing' = [writing EXCEPT ![p] = <<file[p][k], k>>]
                             /\ file' = [file EXCEPT ![p][k] = Absent]
        BY <2>1 DEF PeerTrimUnlink, Listed, Store
      <3>2. file[p][k] \in PeerCases
        BY <3>1 DEF PeersInv, Begun
      <3>3. <<file[p][k], k>> \in PeerCases \X Ids /\ <<file[p][k], k>> # Absent
        BY <3>2, SyncAssumption DEF Ids
      <3>4. /\ \A i \in Ids : file'[p][i] = IF i = k THEN Absent ELSE file[p][i]
            /\ writing'[p] = <<file[p][k], k>>
        BY <3>1 DEF PeersInv
      <3>5. \A i \in Ids : Begun(p, i)' <=> i = k
        BY <3>3, <3>4 DEF Begun
      <3>6. Known(p)' = Known(p)
        BY <3>1, <3>4, <3>5 DEF Known, Begun
      <3>7. \A i \in Ids : file'[p][i] = Empty => Begun(p, i)'
        BY <3>1, <3>4 DEF PeersInv, Begun
      <3> QED BY <3>1, <3>3, <3>6, <3>7 DEF PeersInv
    <2>2. CASE PeerTrimCreate(p)
      <3> DEFINE k == writing[p][2]
      <3>1. /\ writing[p] # Absent /\ k \in Ids /\ file[p][k] = Absent /\ writing' = writing
            /\ file' = [file EXCEPT ![p][k] = Empty]
        BY <2>2 DEF PeerTrimCreate, Store
      <3>2. \A i \in Ids : file'[p][i] = IF i = k THEN Empty ELSE file[p][i]
        BY <3>1 DEF PeersInv
      <3>3. Known(p)' = Known(p)
        BY <3>1, <3>2 DEF Known, Begun
      <3>4. \A i \in Ids : file'[p][i] = Empty => Begun(p, i)'
        BY <3>1, <3>2 DEF PeersInv, Begun
      <3> QED BY <3>1, <3>3, <3>4 DEF PeersInv
    <2>3. CASE PeerWrite(p)
      <3> DEFINE k == writing[p][2]
      <3>1. /\ writing[p] # Absent /\ k \in Ids /\ writing[p][1] \in PeerCases
            /\ file[p][k] = Empty /\ writing' = [writing EXCEPT ![p] = Absent]
            /\ file' = [file EXCEPT ![p][k] = writing[p][1]]
        BY <2>3 DEF PeerWrite, Store
      <3>2. /\ \A i \in Ids : file'[p][i] = IF i = k THEN writing[p][1] ELSE file[p][i]
            /\ writing'[p] = Absent
        BY <3>1 DEF PeersInv
      <3>3. Known(p)' = Known(p)
        BY <3>1, <3>2 DEF Known, Begun
      <3>4. \A i \in Ids : file'[p][i] = Empty => Begun(p, i)'
        BY <3>1, <3>2 DEF PeersInv, Begun
      <3> QED BY <3>1, <3>3, <3>4 DEF PeersInv
    <2> QED BY <2>1, <2>2, <2>3
  <1>2. \A q \in Peers : Known(q)' = Known(q)
    BY <1>1 DEF Known, Begun
  <1>3. \A q \in Peers, k \in Ids : file'[q][k] = Empty => Begun(q, k)'
    BY <1>1 DEF PeersInv, Begun
  <1>4. \A q \in Peers : \E n \in 0 .. MaxId : Known(q)' = 0 .. n - 1
    BY <1>2 DEF PeersInv
  <1> QED BY <1>1, <1>2, <1>3, <1>4 DEF PeersInv

(* A new case of a peer gets the next id, which nobody had.                *)
LEMMA PeerCreates ==
  ASSUME PeersInv, NEW p \in Peers, PeerCreate(p)
  PROVE  LET n == Cardinality(Listed(p))
         IN /\ PeersInv' /\ n \in Ids /\ n \notin Known(p)
            /\ Known(p)' = Known(p) \cup {n}
            /\ \A q \in Peers \ {p} : Known(q)' = Known(q)
  <1> DEFINE n == Cardinality(Listed(p))
  <1>1. Known(p) = Listed(p)
    BY DEF PeerCreate, Known, Begun, Listed
  <1>2. PICK m \in 0 .. MaxId : Listed(p) = 0 .. m - 1
    BY <1>1 DEF PeersInv
  <1>3. n = m
    BY <1>2, FS_Interval, SyncAssumption
  <1>4. n < MaxId
    BY DEF PeerCreate
  <1>5. n \in Ids /\ n \notin Listed(p)
    BY <1>2, <1>3, <1>4, SyncAssumption DEF Ids
  <1>6. PICK c \in PeerCases : /\ writing' = [writing EXCEPT ![p] = <<c, n>>]
                               /\ file' = [file EXCEPT ![p][n] = Empty]
    BY DEF PeerCreate, Store
  <1>7. <<c, n>> \in PeerCases \X Ids /\ <<c, n>> # Absent
    BY <1>5, <1>6, SyncAssumption DEF Ids
  <1>8. /\ file' \in [Peers -> [Ids -> PeerCases \cup {Absent, Empty}]]
        /\ writing' \in [Peers -> {Absent} \cup (PeerCases \X Ids)]
        /\ \A k \in Ids : file'[p][k] = IF k = n THEN Empty ELSE file[p][k]
        /\ writing'[p] = <<c, n>>
        /\ \A q \in Peers \ {p} : file'[q] = file[q] /\ writing'[q] = writing[q]
    BY <1>5, <1>6, <1>7 DEF PeersInv
  <1>9. \A k \in Ids : Begun(p, k)' <=> k = n
    BY <1>7, <1>8 DEF Begun
  <1>10. Known(p)' = Known(p) \cup {n}
    BY <1>1, <1>5, <1>8, <1>9, Writing DEF Known, Listed
  <1>11. \A q \in Peers \ {p} : Known(q)' = Known(q)
    BY <1>8 DEF Known, Begun
  <1>12. \A q \in Peers, k \in Ids : file'[q][k] = Empty => Begun(q, k)'
    <2>1. writing[p] = Absent
      BY DEF PeerCreate
    <2>2. \A k \in Ids : file'[p][k] = Empty => Begun(p, k)'
      BY <1>8, <1>9, <2>1 DEF PeersInv, Begun
    <2>3. \A q \in Peers \ {p} : \A k \in Ids : file'[q][k] = Empty => Begun(q, k)'
      BY <1>8 DEF PeersInv, Begun
    <2> QED BY <2>2, <2>3
  <1>13. \A q \in Peers : \E i \in 0 .. MaxId : Known(q)' = 0 .. i - 1
    <2>1. Known(p)' = 0 .. (m + 1) - 1 /\ m + 1 \in 0 .. MaxId
      BY <1>1, <1>2, <1>3, <1>4, <1>10, SyncAssumption
    <2> QED BY <1>11, <2>1 DEF PeersInv
  <1> QED BY <1>1, <1>5, <1>8, <1>10, <1>11, <1>12, <1>13 DEF PeersInv

---------------------------------------------------------------------------
(* Steps of others, and those of an execution outside of the import, leave *)
(* the import as it is.                                                    *)
LEMMA SyncUntouched ==
  ASSUME SyncInv, UNCHANGED syncing, \A q \in Peers : Known(q)' = Known(q),
         pc = "sync" => stage' = "idle", pc = "cases" => stage' = stage,
         stop_soon => stop_soon'
  PROVE  SyncInv'
  <1>1. SyncTypes' BY DEF SyncInv, SyncTypes, syncing
  <1>2. Marked'    BY DEF SyncInv, SyncTypes, Marked, syncing
  <1>3. Reading'   BY DEF SyncInv, SyncTypes, Reading, syncing
  <1>4. RanBelow'  BY DEF SyncInv, SyncTypes, RanBelow, syncing
  <1> QED BY <1>1, <1>2, <1>3, <1>4 DEF SyncInv

(* A case that appears while its directory is read will be listed, or is   *)
(* noted as passed over.                                                   *)
LEMMA CreateKeeps ==
  ASSUME PeersInv, SyncInv, NEW p \in Peers, PeerCreate(p)
  PROVE  SyncInv'
  <1> DEFINE n == Cardinality(Listed(p))
  <1>1. /\ n \in Ids /\ n \notin Known(p) /\ Known(p)' = Known(p) \cup {n}
        /\ \A q \in Peers \ {p} : Known(q)' = Known(q)
    BY PeerCreates
  <1>2. /\ UNCHANGED <<marker, pc, left, peer, relisted, next_min_accept, syncing_case, ran>>
        /\ stage' = stage /\ stop_soon' = stop_soon
        /\ \/ todo' = (IF pc = "cases" /\ peer = p THEN todo \cup {n} ELSE todo)
              /\ passed' = passed
           \/ pc = "cases" /\ peer = p /\ passed' = passed \cup {<<p, n>>} /\ todo' = todo
    BY DEF PeerCreate, BeingRead, findings
  <1> HIDE DEF n
  <1>3. passed \subseteq passed' /\ todo' \subseteq todo \cup {n} /\ todo \subseteq todo'
    BY <1>2
  <1>4. \A q \in Peers : Known(q) \subseteq Known(q)'
    BY <1>1
  <1>5. SyncTypes'
    BY <1>1, <1>2, <1>3 DEF SyncInv, SyncTypes
  <1>6. Marked'
    BY <1>2, <1>3, <1>4 DEF SyncInv, Marked
  <1>7. Reading'
    <2> SUFFICES ASSUME pc = "cases" PROVE Reading'
      BY <1>2 DEF Reading
    <2>1. /\ todo' \cup relisted' \subseteq Known(peer)' /\ marker'[peer] <= next_min_accept'
          /\ \A k \in Nat : k < next_min_accept' => k \in Known(peer)'
      BY <1>1, <1>2, <1>3, <1>4 DEF SyncInv, SyncTypes, Reading
    <2>2. \A k \in Known(peer)' : \/ <<peer, k>> \in ran' \cup passed' \/ k \in todo'
                                  \/ stage' = "run" /\ syncing_case' = k
      <3>1. CASE peer # p BY <1>1, <1>2, <3>1 DEF SyncInv, SyncTypes, Reading
      <3>2. CASE peer = p BY <1>1, <1>2, <1>3, <3>2 DEF SyncInv, SyncTypes, Reading
      <3> QED BY <3>1, <3>2
    <2>3. peer' = peer
      BY <1>2
    <2> QED BY <2>1, <2>2, <2>3 DEF Reading
  <1>8. RanBelow'
    <2>1. \A q \in Peers, k \in Ids : <<q, k>> \in ran => k \in Known(q) /\ k \in Known(q)'
      BY <1>4 DEF SyncInv, RanBelow
    <2>2. pc = "cases" => /\ <<peer, n>> \in ran => peer # p
                          /\ peer # p => todo' = todo
      BY <1>1, <1>2, <2>1 DEF SyncInv, SyncTypes
    <2>3. pc = "cases" /\ stage = "run" =>
            /\ syncing_case \in Known(peer)' /\ syncing_case < next_min_accept
            /\ syncing_case \notin todo'
      BY <1>1, <1>2, <1>3, <1>4, <2>2 DEF SyncInv, SyncTypes, RanBelow
    <2>4. pc = "cases" =>
            \A q \in Peers, k \in Ids :
              <<q, k>> \in ran => /\ q # peer => k < marker[q]
                                  /\ q = peer => /\ k < next_min_accept
                                                 /\ k \notin todo' \/ k < marker[peer]
      BY <1>2, <1>3, <2>2 DEF SyncInv, RanBelow
    <2> QED BY <1>2, <2>1, <2>3, <2>4 DEF SyncInv, RanBelow
  <1> QED BY <1>5, <1>6, <1>7, <1>8 DEF SyncInv

(* A case that is trimmed while its directory is read may lose its place   *)
(* in the listing, and is noted as passed over then, or get another one.   *)
LEMMA TrimKeeps ==
  ASSUME PeersInv, SyncInv, NEW p \in Peers,
         PeerTrimUnlink(p) \/ PeerTrimCreate(p) \/ PeerWrite(p),
         \A q \in Peers : Known(q)' = Known(q)
  PROVE  SyncInv'
  <1>1. /\ UNCHANGED <<marker, pc, left, peer, next_min_accept, syncing_case, ran>>
        /\ stage' = stage /\ stop_soon' = stop_soon
    BY DEF PeerTrimUnlink, PeerTrimCreate, PeerWrite, syncing, findings
  <1>2. /\ todo' \subseteq todo /\ passed \subseteq passed'
        /\ pc = "cases" => \A k \in todo \ todo' : <<peer, k>> \in passed'
    BY DEF PeerTrimUnlink, PeerTrimCreate, PeerWrite, BeingRead, syncing
  <1>3. /\ relisted' \subseteq Ids
        /\ pc = "cases" => relisted' \subseteq Known(peer)
    <2>1. CASE relisted' = relisted
      BY <2>1 DEF SyncInv, SyncTypes, Reading
    <2>2. CASE PeerTrimCreate(p) /\ BeingRead(p) /\ relisted' = relisted \cup {writing[p][2]}
      <3>1. writing[p] # Absent /\ writing[p][2] \in Ids
        BY <2>2, Writing DEF PeerTrimCreate
      <3>2. writing[p][2] \in Known(p)
        BY <3>1 DEF Known, Begun
      <3> QED BY <2>2, <3>1, <3>2 DEF BeingRead, SyncInv, SyncTypes, Reading
    <2> QED BY <2>1, <2>2 DEF PeerTrimUnlink, PeerTrimCreate, PeerWrite, syncing
  <1>4. SyncTypes' BY <1>1, <1>2, <1>3 DEF SyncInv, SyncTypes
  <1>5. Marked'    BY <1>1, <1>2 DEF SyncInv, Marked
  <1>6. Reading'   BY <1>1, <1>2, <1>3 DEF SyncInv, SyncTypes, Reading
  <1>7. RanBelow'  BY <1>1, <1>2 DEF SyncInv, SyncTypes, RanBelow
  <1> QED BY <1>4, <1>5, <1>6, <1>7 DEF SyncInv

(* The round over the peers begins and ends with nothing executed above a  *)
(* marker.                                                                 *)
LEMMA RoundKeeps ==
  ASSUME SyncInv, SyncBegin \/ SyncEnds, \A q \in Peers : Known(q)' = Known(q)
  PROVE  SyncInv'
  <1>1. /\ pc \in {"fuzz", "sync"} /\ pc' \in {"fuzz", "sync"}
        /\ pc = "fuzz" => ~stop_soon /\ stage = "idle"
        /\ left' \subseteq Peers /\ UNCHANGED <<marker, peer, todo, next_min_accept, syncing_case>>
        /\ UNCHANGED <<relisted, ran, passed, stage, stop_soon>>
    BY DEF SyncBegin, SyncEnds, findings, SyncInv, SyncTypes
  <1>2. SyncTypes' BY <1>1 DEF SyncInv, SyncTypes
  <1>3. Marked'    BY <1>1 DEF SyncInv, Marked
  <1>4. Reading'   BY <1>1 DEF Reading
  <1>5. RanBelow'  BY <1>1 DEF SyncInv, RanBelow
  <1> QED BY <1>2, <1>3, <1>4, <1>5 DEF SyncInv

(* When a directory is opened, a case that is given out but not there is   *)
(* just being trimmed.                                                     *)
LEMMA PeerKeeps ==
  ASSUME SyncInv, NEW p \in Peers, SyncPeer(p), \A q \in Peers : Known(q)' = Known(q)
  PROVE  SyncInv'
  <1>1. /\ pc = "sync" /\ pc' = "cases" /\ left' \subseteq left /\ peer' = p
        /\ todo' = Listed(p) /\ relisted' = {} /\ next_min_accept' = marker[p]
        /\ passed' = passed \cup {<<p, k>> : k \in {k \in Ids \ Listed(p) : Begun(p, k)}}
        /\ UNCHANGED <<marker, syncing_case, ran, stage, stop_soon>>
    BY DEF SyncPeer, findings
  <1>2. SyncTypes' BY <1>1 DEF SyncInv, SyncTypes, Listed
  <1>3. Marked'    BY <1>1 DEF SyncInv, Marked
  <1>4. stage = "idle" /\ stage' = "idle"
    BY <1>1 DEF SyncInv, RanBelow
  <1>5. Reading'
    <2>1. Listed(p) \subseteq Known(p)
      BY DEF Listed, Known
    <2>2. \A k \in Known(p) : k \in todo' \/ <<p, k>> \in passed'
      BY <1>1 DEF Listed, Known
    <2>3. \A k \in Nat : k < next_min_accept' => k \in Known(p)
      BY <1>1 DEF SyncInv, SyncTypes, Marked
    <2>4. marker'[p] <= next_min_accept'
      BY <1>1 DEF SyncInv, SyncTypes
    <2> QED BY <1>1, <2>1, <2>2, <2>3, <2>4 DEF Reading
  <1>6. RanBelow'
    <2>1. \A q \in Peers, k \in Ids : <<q, k>> \in ran => k \in Known(q) /\ k < marker[q]
      BY <1>1 DEF SyncInv, RanBelow
    <2> QED BY <1>1, <1>4, <2>1 DEF RanBelow
  <1> QED BY <1>2, <1>3, <1>5, <1>6 DEF SyncInv

(* A case that is listed is old, or raises next_min_accept and is passed   *)
(* over or taken in hand.                                                  *)
LEMMA CaseKeeps ==
  ASSUME FInv, PeersInv, SyncInv, SyncCase, \A q \in Peers : Known(q)' = Known(q)
  PROVE  FInv' /\ SyncInv'
  <1>1. PICK k \in todo \cup relisted :
          /\ IF k \in todo THEN todo' = todo \ {k} /\ UNCHANGED relisted
             ELSE relisted' = relisted \ {k} /\ UNCHANGED todo
          /\ IF k < marker[peer]
             THEN UNCHANGED <<findings, next_min_accept, syncing_case, passed>>
             ELSE /\ next_min_accept' = Raised(k)
                  /\ syncing_case' = k
                  /\ IF file[peer][k] \in {Absent, Empty}
                     THEN passed' = passed \cup {<<peer, k>>} /\ UNCHANGED findings
                     ELSE BeginRun(file[peer][k]) /\ UNCHANGED passed
    BY DEF SyncCase
  <1>0. todo' = todo \ {k} /\ relisted' \subseteq relisted
    BY <1>1
  <1>2. /\ pc = "cases" /\ stage = "idle"
        /\ UNCHANGED <<file, writing, marker, pc, left, peer, ran>>
    BY DEF SyncCase
  <1>3. /\ k \in Ids /\ k \in Nat /\ k \in Known(peer) /\ peer \in Peers
        /\ marker[peer] \in Nat /\ next_min_accept \in Nat /\ todo \subseteq Ids
        /\ file[peer][k] \in PeerCases \cup {Absent, Empty}
    <2>1. /\ peer \in Peers /\ todo \subseteq Ids /\ relisted \subseteq Ids
          /\ next_min_accept \in Nat /\ marker[peer] \in Nat
      BY DEF SyncInv, SyncTypes
    <2>2. k \in Ids /\ k \in Nat /\ k \in Known(peer)
      BY <1>1, <1>2, <2>1 DEF SyncInv, Reading, Ids
    <2>3. file[peer][k] \in PeerCases \cup {Absent, Empty}
      BY <2>1, <2>2 DEF PeersInv
    <2> QED BY <2>1, <2>2, <2>3
  <1>4. CASE k < marker[peer]
    <2>1. UNCHANGED <<findings, next_min_accept, syncing_case, passed>> /\ todo' = todo \ {k}
      BY <1>0, <1>1, <1>4
    <2>2. FInv'      BY <2>1, OthersKeep
    <2>3. UNCHANGED <<stage, stop_soon>> BY <2>1 DEF findings
    <2>4. SyncTypes' BY <1>0, <1>2, <2>1 DEF SyncInv, SyncTypes
    <2>5. Marked'    BY <1>2, <2>1 DEF SyncInv, Marked
    <2>6. Reading'
      <3>1. <<peer, k>> \in ran \cup passed
        BY <1>3, <1>4 DEF SyncInv, Marked
      <3> QED BY <1>0, <1>2, <1>3, <2>1, <2>3, <3>1 DEF SyncInv, Reading
    <2>7. RanBelow'  BY <1>2, <2>1, <2>3 DEF SyncInv, RanBelow
    <2> QED BY <2>2, <2>4, <2>5, <2>6, <2>7 DEF SyncInv
  <1>5. CASE ~(k < marker[peer])
    <2>1. /\ todo' = todo \ {k} /\ next_min_accept' = Raised(k) /\ syncing_case' = k
          /\ \/ passed' = passed \cup {<<peer, k>>} /\ UNCHANGED findings
             \/ BeginRun(file[peer][k]) /\ passed' = passed /\ file[peer][k] \in Cases
      BY <1>0, <1>1, <1>3, <1>5, SyncAssumption
    <2>2. FInv'      BY <2>1, OthersKeep, RunKeeps
    <2>3. /\ stop_soon' = stop_soon /\ passed \subseteq passed'
          /\ <<peer, k>> \in passed' \/ stage' = "run"
      BY <2>1 DEF findings, BeginRun
    <2>4. /\ next_min_accept' \in Nat /\ next_min_accept <= next_min_accept'
          /\ k < next_min_accept'
          /\ \A i \in Nat : i < next_min_accept' => i < next_min_accept \/ i = k \/ i < k
      BY <1>3, <2>1 DEF Raised
    <2>5. \A i \in Nat : i < k => i \in Known(peer)
      <3>1. PICK n \in 0 .. MaxId : Known(peer) = 0 .. n - 1
        BY <1>3 DEF PeersInv
      <3> QED BY <1>3, <3>1, SyncAssumption
    <2>6. SyncTypes' BY <1>0, <1>2, <1>3, <2>1, <2>4 DEF SyncInv, SyncTypes
    <2>7. Marked'    BY <1>2, <2>3 DEF SyncInv, Marked
    <2>8. Reading'
      <3>1. todo' \cup relisted' \subseteq Known(peer)
        BY <1>0, <1>2, <2>1 DEF SyncInv, Reading
      <3>2. marker[peer] <= next_min_accept'
        BY <1>2, <1>3, <2>4 DEF SyncInv, Reading
      <3>3. \A i \in Nat : i < next_min_accept' => i \in Known(peer)
        BY <1>2, <1>3, <2>4, <2>5 DEF SyncInv, Reading
      <3>4. \A i \in Known(peer) : \/ <<peer, i>> \in ran \cup passed' \/ i \in todo'
                                   \/ stage' = "run" /\ syncing_case' = i
        BY <1>2, <2>1, <2>3 DEF SyncInv, Reading
      <3> QED BY <1>2, <1>3, <3>1, <3>2, <3>3, <3>4 DEF Reading
    <2>9. RanBelow'
      <3>1. \A q \in Peers, i \in Ids :
              <<q, i>> \in ran => /\ i \in Known(q)
                                  /\ q # peer => i < marker[q]
                                  /\ q = peer => /\ i < next_min_accept'
                                                 /\ i \notin todo' \/ i < marker[peer]
        <4>1. \A i \in Ids : i < next_min_accept => i < next_min_accept'
          BY <1>3, <2>4 DEF Ids
        <4> QED BY <1>2, <2>1, <4>1 DEF SyncInv, RanBelow
      <3> QED BY <1>2, <1>3, <2>1, <2>4, <3>1 DEF RanBelow
    <2> QED BY <2>2, <2>6, <2>7, <2>8, <2>9 DEF SyncInv
  <1> QED BY <1>4, <1>5

(* What is in hand is either noted as executed, or the stop ends the visit *)
(* without a word about it.                                                *)
LEMMA ExecuteKeeps ==
  ASSUME FInv, SyncInv, SyncExecute, \A q \in Peers : Known(q)' = Known(q)
  PROVE  SyncInv'
  <1>1. pc = "cases" /\ UNCHANGED <<peer, passed>>
    BY DEF SyncExecute
  <1>2. stop_soon' = stop_soon /\ stage' # "run"
    BY DEF SyncExecute, Execution, EndRun, SaveIfInteresting, Switch, JudgeHang, KeepHang,
           EndRerun, JudgeCrash, Finish, Turn
  <1>3. CASE stage = "run" /\ stop_soon
    <2>1. /\ pc' = "fuzz" /\ todo' = {} /\ relisted' = {} /\ left' = {}
          /\ marker' = marker /\ next_min_accept' = 0 /\ syncing_case' = 0 /\ ran' = ran
      BY <1>3 DEF SyncExecute, MarkerOnStop
    <2>2. SyncTypes' BY <1>1, <2>1, SyncAssumption DEF SyncInv, SyncTypes, Ids
    <2>3. Marked'    BY <1>1, <2>1 DEF SyncInv, Marked
    <2>4. Reading'   BY <2>1 DEF Reading
    <2>5. RanBelow'  BY <1>2, <1>3, <2>1 DEF SyncInv, RanBelow
    <2> QED BY <2>2, <2>3, <2>4, <2>5 DEF SyncInv
  <1>4. CASE ~(stage = "run" /\ stop_soon)
    <2>1. /\ UNCHANGED <<pc, todo, relisted, left, marker, next_min_accept, syncing_case>>
          /\ ran' = (IF stage = "run" THEN ran \cup {<<peer, syncing_case>>} ELSE ran)
      BY <1>4 DEF SyncExecute
    <2>2. SyncTypes' BY <1>1, <2>1 DEF SyncInv, SyncTypes
    <2>3. Marked'    BY <1>1, <2>1 DEF SyncInv, Marked
    <2>4. Reading'
      <3>1. \A k \in Known(peer) : <<peer, k>> \in ran' \cup passed \/ k \in todo
        BY <1>1, <2>1 DEF SyncInv, Reading
      <3> QED BY <1>1, <2>1, <3>1 DEF SyncInv, SyncTypes, Reading
    <2>5. RanBelow'
      <3>1. \A q \in Peers, k \in Ids :
              <<q, k>> \in ran' =>
                \/ <<q, k>> \in ran
                \/ q = peer /\ k = syncing_case /\ stage = "run"
        BY <2>1
      <3>2. stage = "run" => /\ syncing_case \in Known(peer) /\ syncing_case < next_min_accept
                             /\ syncing_case \notin todo
        BY <1>1 DEF SyncInv, RanBelow
      <3> QED BY <1>1, <1>2, <2>1, <3>1, <3>2 DEF SyncInv, RanBelow
    <2> QED BY <2>2, <2>3, <2>4, <2>5 DEF SyncInv
  <1> QED BY <1>3, <1>4

(* The marker is written when all that was listed has been dealt with.     *)
LEMMA EndKeeps ==
  ASSUME SyncInv, SyncPeerEnds, \A q \in Peers : Known(q)' = Known(q)
  PROVE  SyncInv'
  <1>1. /\ pc = "cases" /\ stage = "idle" /\ todo = {} /\ relisted = {}
        /\ marker' = [marker EXCEPT ![peer] = next_min_accept]
        /\ pc' = "sync" /\ next_min_accept' = 0 /\ syncing_case' = 0
        /\ UNCHANGED <<left, peer, todo, relisted, ran, passed, stage, stop_soon>>
    BY DEF SyncPeerEnds, findings
  <1>2. /\ marker \in [Peers -> Nat] /\ peer \in Peers /\ next_min_accept \in Nat
        /\ marker' \in [Peers -> Nat] /\ marker'[peer] = next_min_accept
        /\ \A q \in Peers \ {peer} : marker'[q] = marker[q]
    BY <1>1 DEF SyncInv, SyncTypes
  <1>3. SyncTypes' BY <1>1, <1>2, SyncAssumption DEF SyncInv, SyncTypes, Ids
  <1>4. Marked'
    <2>1. \A k \in Nat : k < next_min_accept => k \in Known(peer) /\ <<peer, k>> \in ran \cup passed
      BY <1>1 DEF SyncInv, Reading
    <2> QED BY <1>1, <1>2, <2>1 DEF SyncInv, Marked
  <1>5. Reading'   BY <1>1 DEF Reading
  <1>6. RanBelow'  BY <1>1, <1>2 DEF SyncInv, RanBelow
  <1> QED BY <1>3, <1>4, <1>5, <1>6 DEF SyncInv

(* A resumed session does not remember what it executed above the marker.  *)
LEMMA ResumedKeeps ==
  ASSUME SyncInv, Resumed, \A q \in Peers : Known(q)' = Known(q)
  PROVE  SyncInv'
  <1>1. /\ pc = "fuzz" /\ pc' = "fuzz" /\ ran' = {r \in ran : r[2] < marker[r[1]]}
        /\ UNCHANGED <<marker, left, peer, todo, relisted, next_min_accept, syncing_case, passed>>
    BY DEF Resumed
  <1>2. SyncTypes' BY <1>1 DEF SyncInv, SyncTypes
  <1>3. Marked'    BY <1>1 DEF SyncInv, Marked
  <1>4. Reading'   BY <1>1 DEF Reading
  <1>5. RanBelow'  BY <1>1 DEF SyncInv, RanBelow
  <1> QED BY <1>2, <1>3, <1>4, <1>5 DEF SyncInv

---------------------------------------------------------------------------
(* The invariant holds at the start, and every step of the instance and of *)
(* its peers keeps it.                                                     *)
LEMMA Initially == Init => IInv
  <1> SUFFICES ASSUME Init PROVE IInv
    OBVIOUS
  <1>1. FInv
    BY FindingsInitially DEF Init
  <1>2. \A p \in Peers : Known(p) = 0 .. 0 - 1
    BY DEF Init, Known, Begun
  <1>3. PeersInv
    <2>1. 0 \in 0 .. MaxId
      BY SyncAssumption
    <2>2. \A p \in Peers, k \in Ids : file[p][k] = Absent
      BY DEF Init
    <2> QED BY <1>2, <2>1, <2>2, SyncAssumption DEF Init, PeersInv
  <1>4. SyncInv
    BY SyncAssumption DEF Init, SyncInv, SyncTypes, Marked, Reading, RanBelow, Ids
  <1> QED BY <1>1, <1>3, <1>4 DEF IInv

LEMMA Kept == IInv /\ [Next]_vars => IInv'
  <1> SUFFICES ASSUME IInv, [Next]_vars PROVE IInv'
    OBVIOUS
  <1> USE DEF IInv
  <1>1. CASE PeerStep
    <2> PICK p \in Peers : PeerCreate(p) \/ PeerTrimUnlink(p) \/ PeerTrimCreate(p) \/ PeerWrite(p)
      BY <1>1 DEF PeerStep
    <2>1. UNCHANGED findings
      BY DEF PeerCreate, PeerTrimUnlink, PeerTrimCreate, PeerWrite
    <2>2. FInv' /\ stage' = stage /\ stop_soon' = stop_soon
      BY <2>1, OthersKeep DEF findings
    <2>3. CASE PeerCreate(p)
      BY <2>2, <2>3, PeerCreates, CreateKeeps
    <2>4. CASE PeerTrimUnlink(p) \/ PeerTrimCreate(p) \/ PeerWrite(p)
      <3>1. PeersInv' /\ \A q \in Peers : Known(q)' = Known(q)
        BY <2>4, PeerTrims
      <3>2. SyncInv'
        BY <2>4, <3>1, TrimKeeps
      <3> QED BY <2>2, <3>1, <3>2
    <2> QED BY <2>3, <2>4
  <1>2. CASE Fuzz \/ Execute \/ Stopped \/ UNCHANGED vars
    <2>1. UNCHANGED <<file, writing>> /\ UNCHANGED syncing
      BY <1>2 DEF Fuzz, Execute, Stopped, vars
    <2>2. FInv'
      <3>1. CASE Fuzz           BY <3>1, RunKeeps DEF Fuzz
      <3>2. CASE Execute        BY <3>2, ExecutionKeeps DEF Execute
      <3>3. CASE Stopped        BY <3>3, RunKeeps DEF Stopped
      <3>4. CASE UNCHANGED vars BY <3>4, OthersKeep DEF vars
      <3> QED BY <1>2, <3>1, <3>2, <3>3, <3>4
    <2>3. PeersInv' /\ \A q \in Peers : Known(q)' = Known(q)
      BY <2>1, PeersAlone
    <2>4. /\ pc = "sync" => stage' = "idle"
          /\ pc = "cases" => stage' = stage
          /\ stop_soon => stop_soon'
      <3>1. CASE Fuzz           BY <3>1 DEF Fuzz
      <3>2. CASE Execute
        <4>1. pc # "cases" /\ stage # "idle" /\ stop_soon' = stop_soon
          BY <3>2 DEF Execute, Execution, EndRun, SaveIfInteresting, JudgeHang, EndRerun, JudgeCrash
        <4> QED BY <4>1 DEF SyncInv, RanBelow
      <3>3. CASE Stopped        BY <3>3 DEF Stopped, Stop, SyncInv, RanBelow
      <3>4. CASE UNCHANGED vars BY <3>4 DEF vars, findings, SyncInv, RanBelow
      <3> QED BY <1>2, <3>1, <3>2, <3>3, <3>4
    <2>5. SyncInv'
      BY <2>1, <2>3, <2>4, SyncUntouched
    <2> QED BY <2>2, <2>3, <2>5
  <1>3. CASE SyncBegin \/ SyncStep \/ Resumed
    <2>1. UNCHANGED <<file, writing>>
      BY <1>3 DEF SyncBegin, SyncStep, SyncCase, SyncExecute, SyncPeerEnds, SyncEnds, SyncPeer,
                  Resumed
    <2>2. PeersInv' /\ \A q \in Peers : Known(q)' = Known(q)
      BY <2>1, PeersAlone
    <2>3. CASE SyncCase
      BY <2>2, <2>3, CaseKeeps
    <2>4. CASE SyncExecute
      BY <2>2, <2>4, ExecuteKeeps, ExecutionKeeps DEF SyncExecute
    <2>5. CASE Resumed
      BY <2>2, <2>5, ResumedKeeps, ResumeKeeps DEF Resumed
    <2>6. CASE SyncBegin \/ SyncEnds
      BY <2>2, <2>6, RoundKeeps, OthersKeep DEF SyncBegin, SyncEnds
    <2>7. CASE SyncPeerEnds
      BY <2>2, <2>7, EndKeeps, OthersKeep DEF SyncPeerEnds
    <2>8. CASE \E p \in Peers : SyncPeer(p)
      <3> PICK p \in Peers : SyncPeer(p)
        BY <2>8
      <3> QED BY <2>2, PeerKeeps, OthersKeep DEF SyncPeer
    <2> QED BY <1>3, <2>3, <2>4, <2>5, <2>6, <2>7, <2>8 DEF SyncStep
  <1> QED BY <1>1, <1>2, <1>3 DEF Next

(* The inductive invariant of importing and judging together.              *)
THEOREM Invariance == Spec => []IInv
  BY Initially, Kept, PTL DEF Spec

(* Below the number in .synced/ every case was executed or passed over,    *)
(* wherever a stop cuts in and whatever a peer trims meanwhile.            *)
THEOREM MarkerHonestHolds == Spec => []MarkerHonest
  <1>1. IInv => MarkerHonest
    BY DEF IInv, SyncInv, Marked, MarkerHonest, Ids
  <1> QED BY <1>1, Invariance, PTL

(* While there is room for one more, save_if_interesting() drops no crash  *)
(* it comes to judge (3236-3264) that says something new about some byte.  *)
THEOREM CrashesCoveredHolds == Spec => []CrashesCovered
  <1>1. IInv => CrashesCovered
    BY DEF IInv, FInv
  <1> QED BY <1>1, Invariance, PTL

(* The files of hangs/ and crashes/ are hangs and crashes, and no two of   *)
(* them are alike.                                                         *)
THEOREM FindingsGenuineHolds == Spec => []FindingsGenuine
  <1>1. IInv => FindingsGenuine
    BY DEF IInv, FInv
  <1> QED BY <1>1, Invariance, PTL

(* sync_fuzzers() takes no case in hand that it executed before, unless a  *)
(* stop kept it from writing the marker, or the peer created the case's    *)
(* file again while the directory was being read, and then once (4561,     *)
(* 6687-6695).                                                             *)
THEOREM RunOnceHolds == Spec => RunOnce
  <1> DEFINE Once == pc = "cases" /\ stage' = "run" /\ stage # "run" =>
                       <<peer, syncing_case'>> \notin ran \/ syncing_case' \in relisted
  <1>1. IInv /\ [Next]_vars => [Once]_vars
    <2> SUFFICES ASSUME IInv, Next, pc = "cases", stage' = "run", stage # "run"
                 PROVE  <<peer, syncing_case'>> \notin ran \/ syncing_case' \in relisted
      OBVIOUS
    <2>1. SyncCase
      <3>1. ~Fuzz /\ ~Execute /\ ~SyncBegin /\ ~Resumed /\ ~SyncEnds
            /\ ~\E p \in Peers : SyncPeer(p)
        BY DEF Fuzz, Execute, SyncBegin, Resumed, SyncEnds, SyncPeer
      <3>2. ~SyncExecute
        BY DEF SyncExecute, Execution, EndRun, SaveIfInteresting, Switch, JudgeHang, KeepHang,
               EndRerun, JudgeCrash, Finish, Turn
      <3>3. ~PeerStep /\ ~Stopped /\ ~SyncPeerEnds
        BY DEF PeerStep, PeerCreate, PeerTrimUnlink, PeerTrimCreate, PeerWrite, Stopped, Stop,
               SyncPeerEnds, findings
      <3> QED BY <3>1, <3>2, <3>3 DEF Next, SyncStep
    <2>2. PICK k \in todo \cup relisted : k >= marker[peer] /\ syncing_case' = k
      <3>1. PICK k \in todo \cup relisted :
              IF k < marker[peer] THEN UNCHANGED findings ELSE syncing_case' = k
        BY <2>1 DEF SyncCase
      <3>2. ~(k < marker[peer])
        BY <3>1 DEF findings
      <3>3. k \in Nat /\ marker[peer] \in Nat
        BY DEF IInv, SyncInv, SyncTypes, Ids
      <3> QED BY <3>1, <3>2, <3>3
    <2>3. k \in todo => <<peer, k>> \notin ran
      BY <2>2 DEF IInv, SyncInv, SyncTypes, RanBelow, Ids
    <2> QED BY <2>2, <2>3
  <1> QED BY <1>1, Invariance, PTL DEF Spec, RunOnce
=============================================================================
