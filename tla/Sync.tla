-------------------------------- MODULE Sync --------------------------------
(***************************************************************************)
(* One instance of afl-fuzz that imports what its peers find.  A peer adds *)
(* cases to its queue directory and trims them, step by step, while they    *)
(* are read; the instance remembers for each peer, in a file, from which    *)
(* number on cases are new.  What it keeps of an import is decided as for   *)
(* any other execution, in Findings.                                       *)
(***************************************************************************)
EXTENDS Findings

CONSTANTS
  Peers,
  PeerCases,      \* inputs the peers may find
  MaxId,          \* bound on the number of cases of a peer
  Absent, Empty   \* what a file may be instead of a case

ASSUME SyncAssumption ==
  /\ PeerCases \subseteq Cases /\ MaxId \in Nat \ {0}
  /\ Absent # Empty /\ {Absent, Empty} \cap Cases = {} /\ Absent \notin Cases \X Nat

VARIABLES
  file,       \* per peer and id: the content of the file in queue/
  writing,    \* per peer: the case it is writing or trimming, and its id; or Absent
  trimmed,    \* per peer: ids of entries it has trimmed (trim_done)
  marker,     \* .synced/<peer>
  pc,         \* "fuzz", "sync" or "cases"
  left,       \* peers still to be visited
  peer, todo, \* the peer being visited, and ids its directory will still list
  relisted,   \* ids it will list once more: their files were created again meanwhile
  next_min_accept,
  syncing_case,
  ran,        \* history: <<peer, id>> whose import was executed to the end
  passed      \* history: <<peer, id>> that was empty or not there when it was to be read, or
              \* was not listed: it was being trimmed, or appeared meanwhile

syncing == <<marker, pc, left, peer, todo, relisted, next_min_accept, syncing_case, ran, passed>>
vars == <<findings, file, writing, trimmed, syncing>>

Ids == 0 .. MaxId - 1
Listed(p) == {k \in Ids : file[p][k] # Absent}
Begun(p, k) == writing[p] # Absent /\ writing[p][2] = k

Init ==
  /\ FindingsInit
  /\ file = [p \in Peers |-> [k \in Ids |-> Absent]]
  /\ writing = [p \in Peers |-> Absent] /\ trimmed = [p \in Peers |-> {}]
  /\ marker = [p \in Peers |-> 0]
  /\ pc = "fuzz" /\ left = {} /\ peer \in Peers /\ todo = {} /\ relisted = {}
  /\ next_min_accept = 0 /\ syncing_case = 0 /\ ran = {} /\ passed = {}

---------------------------------------------------------------------------
(* A peer: the same program, seen through its queue directory. *)

Store(p, k, content) == file' = [file EXCEPT ![p][k] = content]

BeingRead(p) == pc = "cases" /\ peer = p

\* A file that appears while the directory is read may be listed or not.
PeerCreate(p) ==
  /\ writing[p] = Absent /\ Cardinality(Listed(p)) < MaxId
  /\ LET k == Cardinality(Listed(p))
     IN /\ \E c \in PeerCases : writing' = [writing EXCEPT ![p] = <<c, k>>]
        /\ Store(p, k, Empty)
        /\ \/ todo' = (IF BeingRead(p) THEN todo \cup {k} ELSE todo) /\ UNCHANGED passed
           \/ BeingRead(p) /\ passed' = passed \cup {<<p, k>>} /\ UNCHANGED todo
  /\ UNCHANGED <<findings, trimmed, marker, pc, left, peer, relisted, next_min_accept,
                 syncing_case, ran>>

\* An entry is trimmed once; its name may vanish from the listing, or be listed all the same.
PeerTrimUnlink(p) ==
  /\ writing[p] = Absent
  /\ \E k \in Listed(p) \ trimmed[p] :
        /\ writing' = [writing EXCEPT ![p] = <<file[p][k], k>>]
        /\ trimmed' = [trimmed EXCEPT ![p] = @ \cup {k}]
        /\ Store(p, k, Absent)
        /\ \/ UNCHANGED <<todo, passed>>
           \/ /\ BeingRead(p) /\ k \in todo
              /\ todo' = todo \ {k} /\ passed' = passed \cup {<<p, k>>}
  /\ UNCHANGED <<findings, marker, pc, left, peer, relisted, next_min_accept, syncing_case, ran>>

\* The file is new to the directory: a listing that goes on may come to it once more.
PeerTrimCreate(p) ==
  /\ writing[p] # Absent /\ file[p][writing[p][2]] = Absent
  /\ Store(p, writing[p][2], Empty)
  /\ \/ UNCHANGED relisted
     \/ BeingRead(p) /\ relisted' = relisted \cup {writing[p][2]}
  /\ UNCHANGED <<findings, writing, trimmed, marker, pc, left, peer, todo, next_min_accept,
                 syncing_case, ran, passed>>

PeerWrite(p) ==
  /\ writing[p] # Absent /\ file[p][writing[p][2]] = Empty
  /\ Store(p, writing[p][2], writing[p][1])
  /\ writing' = [writing EXCEPT ![p] = Absent]
  /\ UNCHANGED <<findings, trimmed, syncing>>

---------------------------------------------------------------------------
(* The instance. *)

\* common_fuzz_stuff() with an input that the peers do not have.
Fuzz ==
  /\ pc = "fuzz" /\ ~stop_soon
  /\ \E c \in Cases \ PeerCases : BeginRun(c)
  /\ UNCHANGED <<file, writing, trimmed, syncing>>

Execute == Execution /\ pc # "cases" /\ UNCHANGED <<file, writing, trimmed, syncing>>

SyncBegin ==
  /\ pc = "fuzz" /\ stage = "idle" /\ ~stop_soon
  /\ pc' = "sync" /\ left' = Peers
  /\ UNCHANGED <<findings, file, writing, trimmed, marker, peer, todo, relisted, next_min_accept,
                 syncing_case, ran, passed>>

SyncPeer(p) ==
  /\ pc = "sync" /\ p \in left
  /\ left' = left \ {p} /\ peer' = p /\ todo' = Listed(p) /\ relisted' = {}
  /\ next_min_accept' = marker[p] /\ pc' = "cases"
  /\ passed' = passed \cup {<<p, k>> : k \in {k \in Ids \ Listed(p) : Begun(p, k)}}
  /\ UNCHANGED <<findings, file, writing, trimmed, marker, syncing_case, ran>>

\* Versions that go by the last case, and one too far.
RaisedToLast(k) == k + 1
RaisedTooFar(k) == IF k >= next_min_accept THEN k + 2 ELSE next_min_accept

\* next_min_accept, once case k was listed; directories are not in order.
Raised(k) == IF k >= next_min_accept THEN k + 1 ELSE next_min_accept

\* The next file that is listed: an old one, one that cannot be read, or one to execute.
SyncCase ==
  /\ pc = "cases" /\ stage = "idle"
  /\ \E k \in todo \cup relisted :
       /\ IF k \in todo THEN todo' = todo \ {k} /\ UNCHANGED relisted
          ELSE relisted' = relisted \ {k} /\ UNCHANGED todo
       /\ IF k < marker[peer]
          THEN UNCHANGED <<findings, next_min_accept, syncing_case, passed>>
          ELSE /\ next_min_accept' = Raised(k)
               /\ syncing_case' = k
               /\ IF file[peer][k] \in {Absent, Empty}
                  THEN passed' = passed \cup {<<peer, k>>} /\ UNCHANGED findings
                  ELSE BeginRun(file[peer][k]) /\ UNCHANGED passed
  /\ UNCHANGED <<file, writing, trimmed, marker, pc, left, peer, ran>>

\* A version that writes the marker in any case.
MarkerOnStopWritten == [marker EXCEPT ![peer] = next_min_accept]

MarkerOnStop == marker

\* The end of its run: a stop makes sync_fuzzers() return on the spot.
SyncExecute ==
  /\ pc = "cases" /\ Execution
  /\ IF stage = "run" /\ stop_soon
     THEN /\ pc' = "fuzz" /\ todo' = {} /\ relisted' = {} /\ left' = {}
          /\ marker' = MarkerOnStop /\ next_min_accept' = 0 /\ syncing_case' = 0 /\ UNCHANGED ran
     ELSE /\ UNCHANGED <<pc, todo, relisted, left, marker, next_min_accept, syncing_case>>
          /\ ran' = (IF stage = "run" THEN ran \cup {<<peer, syncing_case>>} ELSE ran)
  /\ UNCHANGED <<file, writing, trimmed, peer, passed>>

SyncPeerEnds ==
  /\ pc = "cases" /\ stage = "idle" /\ todo = {} /\ relisted = {}
  /\ marker' = [marker EXCEPT ![peer] = next_min_accept]
  /\ pc' = "sync" /\ next_min_accept' = 0 /\ syncing_case' = 0
  /\ UNCHANGED <<findings, file, writing, trimmed, left, peer, todo, relisted, ran, passed>>

SyncEnds ==
  /\ pc = "sync" /\ left = {} /\ pc' = "fuzz"
  /\ UNCHANGED <<findings, file, writing, trimmed, marker, left, peer, todo, relisted,
                 next_min_accept, syncing_case, ran, passed>>

\* A signal, at any time, and a resume once the process ended.
Stopped == Stop /\ UNCHANGED <<file, writing, trimmed, syncing>>

Resumed ==
  /\ pc = "fuzz" /\ Resume
  /\ ran' = {r \in ran : r[2] < marker[r[1]]}
  /\ UNCHANGED <<file, writing, trimmed, marker, pc, left, peer, todo, relisted, next_min_accept,
                 syncing_case, passed>>

PeerStep == \E p \in Peers : PeerCreate(p) \/ PeerTrimUnlink(p) \/ PeerTrimCreate(p) \/ PeerWrite(p)
SyncStep == SyncCase \/ SyncExecute \/ SyncPeerEnds \/ SyncEnds \/ \E p \in Peers : SyncPeer(p)

Next == PeerStep \/ Fuzz \/ Execute \/ SyncBegin \/ SyncStep \/ Stopped \/ Resumed

\* The process keeps running, and fuzz_one() comes to the end of an entry again and again,
\* every SYNC_INTERVAL of which are followed by a synchronisation.
Spec == Init /\ [][Next]_vars /\ WF_vars(Execute) /\ WF_vars(SyncStep) /\ SF_vars(SyncBegin)
---------------------------------------------------------------------------
\* A case below the marker will not be looked at again: it was executed, however its
\* directory was ordered and wherever a stop cut in, or it was passed over: it was just
\* being written or trimmed, or did not appear in the listing while a later case did.
MarkerHonest == \A p \in Peers, k \in Ids : k < marker[p] => <<p, k>> \in ran \cup passed

\* No case is executed twice, unless a stop kept the marker from being written, or its file
\* was created again, by the peer's trimming, during the very visit: then once more.
RunOnce ==
  [][pc = "cases" /\ stage' = "run" /\ stage # "run" =>
       <<peer, syncing_case'>> \notin ran \/ syncing_case' \in relisted]_vars

\* A case that a peer has written and leaves alone is executed at some time, unless it was
\* passed over or the session is stopped.
CasesRun ==
  \A p \in Peers, k \in Ids :
    file[p][k] \in PeerCases ~>
      <<p, k>> \in ran \cup passed \/ stop_soon \/ file[p][k] \notin PeerCases
============================================================================
