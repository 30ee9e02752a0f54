--------------------------- MODULE SessionProofs ---------------------------
(***************************************************************************)
(* What afl-fuzz keeps over any number of starts, resumes and kills, for   *)
(* any inputs and any bound on the numbers of test cases: IInv is          *)
(* inductive, and the properties of Session follow from it.                *)
(***************************************************************************)
EXTENDS Session, FiniteSetTheorems, SequenceTheorems, TLAPS

QC == Cases("queue")
QS == State("queue")
QD == Det("queue")
QR == Red("queue")
RC == Cases("_resume")
RS == State("_resume")
RD == Det("_resume")
RR == Red("_resume")

Starting == {"clean", "setup", "read"}
Pivoting == {"pivot", "copy", "mark"}
Running ==
  {"stats", "stats2", "fuzz", "create", "write", "trim", "trim2", "readme", "crash"}
Live == {"read"} \cup Pivoting \cup {"nuke", "ready"} \cup Running
Dead == {"down"} \cup FatalReasons
Data == {queue[k].data : k \in DOMAIN queue}

(* The types.  What a directory may hold: marks hold, as a history, the     *)
(* input that was marked.                                                  *)
Contents == Inputs \cup Crashes \cup {Absent, Empty, "mark"}
Kind(d) ==
  IF d \in {QC, RC} THEN Inputs \cup {Absent, Empty}
  ELSE IF d \in {QD, RD} THEN Inputs \cup {Absent}
  ELSE IF d \in {QR, RR} THEN {Absent, "mark"}
  ELSE IF d = CrashDir THEN Crashes \cup {Absent, Empty}
  ELSE {Absent}
FileTypes ==
  /\ file \in [Dirs -> [Ids -> Contents]]
  /\ \A d \in Dirs, i \in Ids : file[d][i] \in Kind(d)
Entry == [data : Inputs, det : Inputs \cup {Empty}, redundant : BOOLEAN]
MemoryTypes ==
  /\ at \in Nat /\ inplace \in BOOLEAN /\ unique_crashes \in Nat
  /\ queue \in Seq(Entry) /\ Len(queue) <= MaxCases
  /\ pc \in {"copy", "mark"} => at < Len(queue)
  /\ pc \in {"create", "write"} => queue # << >>
  /\ pc = "readme" => unique_crashes < MaxCases
  /\ pc = "crash" => unique_crashes >= 1 /\ unique_crashes <= MaxCases
DiskTypes ==
  /\ dirs \subseteq Dirs /\ FileTypes
  /\ plain \in [{"README.txt", "fuzzer_stats", "plot_data"} ->
                 {Absent, Empty, "short", "long", "readme"}]
Pcs == Dead \cup Starting \cup Pivoting \cup {"nuke", "ready"} \cup Running
TypeInv == DiskTypes /\ pc \in Pcs /\ MemoryTypes /\ trap \in BOOLEAN

(* Reading the seeds: none is read twice, so that their number is no more  *)
(* than that of the names there are.                                       *)
ReadInv ==
  pc = "read" =>
    IF inplace THEN Len(queue) <= at /\ at <= MaxCases
    ELSE Data \subseteq Seeds /\ IsFiniteSet(Data) /\ Cardinality(Data) = Len(queue)

(* Nothing is in a directory that does not exist.                          *)
Tidy ==
  /\ \A d \in Dirs \ dirs, i \in Ids : file[d][i] = Absent
  /\ CrashDir \notin dirs => plain["README.txt"] = Absent
  /\ Out \notin dirs =>
       /\ dirs = {} /\ had = {} /\ pc \in Dead
       /\ plain["plot_data"] = Absent /\ plain["fuzzer_stats"] = Absent

(* What a process that is down, cleans up or sets up has in memory.        *)
Blank ==
  /\ pc \in Dead => inplace = FALSE
  /\ pc \in Dead \cup {"clean", "setup"} => queue = << >> /\ unique_crashes = 0

(* What a phase has deleted is gone, and what it has to make is not there. *)
CleanInv ==
  pc = "clean" =>
    /\ at >= 1 /\ at <= (IF inplace THEN 9 ELSE 10)
    /\ at > 1 /\ ~inplace => Synced \notin dirs
    /\ at > 2 => QD \notin dirs
    /\ at > 3 => QR \notin dirs
    /\ at > 4 => QS \notin dirs
    /\ at > 5 => QC \notin dirs
    /\ at > 6 => plain["README.txt"] = Absent
    /\ at > 6 /\ inplace => CrashDir \notin dirs
    /\ at > 7 => CrashDir \notin dirs
    /\ at > (IF inplace THEN 8 ELSE 9) => plain["plot_data"] = Absent
SetUpInv ==
  pc = "setup" =>
    /\ at >= 1 /\ at <= 8
    /\ at <= 1 => QC \notin dirs
    /\ at <= 2 => QS \notin dirs
    /\ at <= 3 => QD \notin dirs
    /\ at <= 4 => QR \notin dirs
    /\ at <= 5 /\ ~inplace => Synced \notin dirs
    /\ at <= 6 => CrashDir \notin dirs
    /\ at <= 7 => plain["plot_data"] = Absent
NukeInv ==
  /\ pc = "nuke" => at >= 1 /\ at <= (IF inplace THEN 5 ELSE 1)
  /\ pc = "nuke" /\ inplace =>
       /\ at > 1 => RD \notin dirs
       /\ at > 2 => RR \notin dirs
       /\ at > 3 => RS \notin dirs
       /\ at > 4 => RC \notin dirs
  /\ pc = "ready" /\ inplace => RS \notin dirs /\ RC \notin dirs

(* What a phase has made is there, and stays there while the process runs. *)
MadeInv ==
  /\ pc = "setup" =>
       /\ at > 1 => QC \in dirs
       /\ at > 2 => QS \in dirs
       /\ at > 3 => QD \in dirs
       /\ at > 4 => QR \in dirs
       /\ at > 6 => CrashDir \in dirs
  /\ pc \in Live => {QC, QS, QD, QR, CrashDir} \subseteq dirs

(* The queue directory before it is filled, while it is, and from then on: *)
(* what the process has in memory about an entry is what is on disk.       *)
Vacant(i) == file[QC][i] = Absent /\ file[QD][i] = Absent /\ file[QR][i] = Absent
MarkedAs(i) ==
  /\ file[QD][i] = (IF queue[i + 1].det = Empty THEN Absent ELSE queue[i + 1].det)
  /\ queue[i + 1].redundant <=> file[QR][i] # Absent
Linked(i) == file[QC][i] = queue[i + 1].data /\ MarkedAs(i)
Unmarked(i) ==
  file[QD][i] = Absent /\ file[QR][i] = Absent /\ ~queue[i + 1].redundant
QueueInv ==
  /\ pc \in {"setup", "read"} => \A i \in Ids : Vacant(i)
  /\ pc \in {"read"} \cup Pivoting => \A k \in DOMAIN queue : ~queue[k].redundant
  /\ pc \in Pivoting =>
       /\ at <= Len(queue)
       /\ \A i \in Ids : /\ i < at => Linked(i)
                         /\ i > at => Vacant(i)
  /\ pc = "pivot" => \A i \in Ids : i = at => Vacant(i)
  /\ pc = "copy" => file[QC][at] = Empty /\ Unmarked(at)
  /\ pc = "mark" => file[QC][at] = queue[at + 1].data /\ Unmarked(at)
  /\ pc \in {"nuke", "ready"} => \A i \in Ids : i < Len(queue) => Linked(i)
  /\ pc \in Running =>
       \A i \in Ids : i < Len(queue) =>
         file[QC][i] \in {Absent, Empty, queue[i + 1].data} /\ MarkedAs(i)
  /\ pc \in {"nuke", "ready"} \cup Running => \A i \in Ids : i >= Len(queue) => Vacant(i)
  /\ pc = "create" => file[QC][Len(queue) - 1] = Absent

(* A mark is about the input in the file of the same number, if that is    *)
(* complete, in queue/ as in _resume/.                                     *)
MarksOnDisk ==
  \A t \in Trees, i \in Ids :
    file[Det(t)][i] # Absent => file[Cases(t)][i] \in {Absent, Empty, file[Det(t)][i]}
MarksInv == MarksOnDisk /\ MarksTrue

(* Crashes get numbers that no crash has.                                  *)
CrashInv ==
  /\ pc \in {"setup"} \cup Live =>
       \A i \in Ids : i >= unique_crashes => file[CrashDir][i] = Absent
  /\ pc \in {"read"} \cup Pivoting \cup {"nuke", "ready", "readme"} => unique_crashes = 0
  /\ pc = "crash" => file[CrashDir][unique_crashes - 1] = Empty
  /\ pc = "clean" /\ ~inplace => found = {}
  /\ CrashesKept

(* Where the inputs of the session are, as long as _resume/ was not left   *)
(* in a way known to lose them.                                            *)
FreshInv == pc \in Starting \cup Pivoting \cup {"nuke", "ready"} /\ ~inplace => had = {}
InResume == had \subseteq Saved(RC)
InQueue == had \subseteq Saved(QC)
InMemory == had \subseteq Data
AreRead == \A i \in Ids : i < at => file[RC][i] \in {Absent, Empty} \cup Data
ResumeLeft == NonEmpty(RC)
HeldInv ==
  ~trap =>
    /\ pc \in Dead \/ (pc = "clean" /\ inplace /\ at = 1) =>
         InResume \/ (~ResumeLeft /\ InQueue)
    /\ (pc = "clean" /\ at > 1) \/ pc \in {"setup", "read"} \cup Pivoting => InResume
    /\ pc = "read" /\ inplace => AreRead
    /\ pc \in Pivoting => InMemory
    /\ pc \in {"nuke", "ready"} => InQueue
    /\ pc \in Running => ~ResumeLeft /\ InQueue
InputsInv == FreshInv /\ HeldInv /\ AbortsJustified

(* fuzzer_stats tells of the last long run, until a fresh start.           *)
RiskInv ==
  /\ worth = "yes" => plain["fuzzer_stats"] \in {"long", Empty}
  /\ pc = "clean" /\ ~inplace => worth = "no"

DirInv == Tidy /\ CleanInv /\ SetUpInv /\ NukeInv /\ MadeInv

IInv ==
  /\ TypeInv /\ ReadInv /\ Blank /\ DirInv
  /\ QueueInv /\ MarksInv /\ CrashInv /\ InputsInv /\ RiskInv

USE DEF QC, QS, QD, QR, RC, RS, RD, RR

---------------------------------------------------------------------------
(* The directories are eleven different ones.                              *)
LEMMA DirNames ==
  /\ Dirs = {QC, QS, QD, QR, RC, RS, RD, RR, CrashDir, Synced, Out}
  /\ QC \notin {QS, QD, QR, RC, RS, RD, RR, CrashDir, Synced, Out}
  /\ QS \notin {QD, QR, RC, RS, RD, RR, CrashDir, Synced, Out}
  /\ QD \notin {QR, RC, RS, RD, RR, CrashDir, Synced, Out}
  /\ QR \notin {RC, RS, RD, RR, CrashDir, Synced, Out}
  /\ RC \notin {RS, RD, RR, CrashDir, Synced, Out}
  /\ RS \notin {RD, RR, CrashDir, Synced, Out}
  /\ RD \notin {RR, CrashDir, Synced, Out}
  /\ RR \notin {CrashDir, Synced, Out}
  /\ CrashDir \notin {Synced, Out}
  /\ Synced # Out
BY DEF Dirs, Within, Cases, State, Det, Red, CrashDir, Synced, Out

(* What is directly inside what.                                           *)
LEMMA InsideIs ==
  /\ Inside(QC) = {QS} /\ Inside(QS) = {QD, QR} /\ Inside(QD) = {} /\ Inside(QR) = {}
  /\ Inside(RC) = {RS} /\ Inside(RS) = {RD, RR} /\ Inside(RD) = {} /\ Inside(RR) = {}
  /\ Inside(CrashDir) = {} /\ Inside(Synced) = {}
BY DEF Inside, Dirs, Trees, Within, Cases, State, Det, Red, CrashDir, Synced, Out

(* The calls of a clean-up, of a resume and of a fresh start.              *)
LEMMA CleanUpIs ==
  /\ DOMAIN CleanUp[TRUE] = 1 .. 8 /\ DOMAIN CleanUp[FALSE] = 1 .. 9
  /\ Len(CleanUp[TRUE]) = 8 /\ Len(CleanUp[FALSE]) = 9
  /\ CleanUp[TRUE][1] = Move /\ CleanUp[FALSE][1] = Delete(Synced)
  /\ \A resume \in BOOLEAN :
       /\ CleanUp[resume][2] = Delete(QD) /\ CleanUp[resume][3] = Delete(QR)
       /\ CleanUp[resume][4] = Rmdir(QS) /\ CleanUp[resume][5] = Delete(QC)
       /\ CleanUp[resume][7] = Delete(CrashDir)
  /\ CleanUp[TRUE][6] = Backup /\ CleanUp[FALSE][6] = Unlink("README.txt")
  /\ CleanUp[TRUE][8] = Unlink("plot_data")
  /\ CleanUp[FALSE][8] = Unlink("fuzzer_stats") /\ CleanUp[FALSE][9] = Unlink("plot_data")
<1>1. CleanUp[TRUE] = << Move >> \o << Delete(QD), Delete(QR), Rmdir(QS), Delete(QC) >>
                        \o << Backup, Delete(CrashDir) >> \o << Unlink("plot_data") >>
  BY DEF CleanUp, DeleteQueue, DeleteFindings, FinishingTouches
<1>2. CleanUp[FALSE] = << Delete(Synced) >> \o << Delete(QD), Delete(QR), Rmdir(QS), Delete(QC) >>
                        \o << Unlink("README.txt"), Delete(CrashDir) >>
                        \o << Unlink("fuzzer_stats"), Unlink("plot_data") >>
  BY DEF CleanUp, DeleteQueue, DeleteFindings, FinishingTouches
<1>3. /\ DOMAIN CleanUp[TRUE] = 1 .. 8 /\ Len(CleanUp[TRUE]) = 8 /\ CleanUp[TRUE][1] = Move
      /\ CleanUp[TRUE][2] = Delete(QD) /\ CleanUp[TRUE][3] = Delete(QR)
      /\ CleanUp[TRUE][4] = Rmdir(QS) /\ CleanUp[TRUE][5] = Delete(QC)
      /\ CleanUp[TRUE][6] = Backup /\ CleanUp[TRUE][7] = Delete(CrashDir)
      /\ CleanUp[TRUE][8] = Unlink("plot_data")
  BY <1>1
<1>4. /\ DOMAIN CleanUp[FALSE] = 1 .. 9 /\ Len(CleanUp[FALSE]) = 9
      /\ CleanUp[FALSE][1] = Delete(Synced)
      /\ CleanUp[FALSE][2] = Delete(QD) /\ CleanUp[FALSE][3] = Delete(QR)
      /\ CleanUp[FALSE][4] = Rmdir(QS) /\ CleanUp[FALSE][5] = Delete(QC)
      /\ CleanUp[FALSE][6] = Unlink("README.txt") /\ CleanUp[FALSE][7] = Delete(CrashDir)
      /\ CleanUp[FALSE][8] = Unlink("fuzzer_stats") /\ CleanUp[FALSE][9] = Unlink("plot_data")
  BY <1>2
<1> QED
  BY <1>3, <1>4

Row(n, do, d) == Calls[n].do = do /\ Calls[n].on = d

\* One call of the list, by its kind.
LEMMA RowIs ==
  ASSUME NEW n
  PROVE  /\ \A d : /\ Calls[n] = Delete(d) => Row(n, "delete", d)
                   /\ Calls[n] = Rmdir(d) => Row(n, "rmdir", d)
                   /\ Calls[n] = Mkdir(d) => Row(n, "mkdir", d)
                   /\ Calls[n] = MkdirAny(d) => Row(n, "mkdir_any", d)
                   /\ Calls[n] = Unlink(d) => Row(n, "unlink", d)
                   /\ Calls[n] = Create(d) => Row(n, "create", d)
         /\ Calls[n] = Move => Row(n, "move", QC)
         /\ Calls[n] = Backup => Row(n, "backup", CrashDir)
<1>1. ASSUME NEW d, Calls[n] = Delete(d)
      PROVE  Row(n, "delete", d)
  BY <1>1 DEF Row, Delete
<1>2. ASSUME NEW d, Calls[n] = Rmdir(d)
      PROVE  Row(n, "rmdir", d)
  BY <1>2 DEF Row, Rmdir
<1>3. ASSUME NEW d, Calls[n] = Mkdir(d)
      PROVE  Row(n, "mkdir", d)
  BY <1>3 DEF Row, Mkdir
<1>4. ASSUME NEW d, Calls[n] = MkdirAny(d)
      PROVE  Row(n, "mkdir_any", d)
  BY <1>4 DEF Row, MkdirAny
<1>5. ASSUME NEW d, Calls[n] = Unlink(d)
      PROVE  Row(n, "unlink", d)
  BY <1>5 DEF Row, Unlink
<1>6. ASSUME NEW d, Calls[n] = Create(d)
      PROVE  Row(n, "create", d)
  BY <1>6 DEF Row, Create
<1>7. Calls[n] = Move => Row(n, "move", QC)
  BY DEF Row, Move
<1>8. Calls[n] = Backup => Row(n, "backup", CrashDir)
  BY DEF Row, Backup
<1> QED
  BY <1>1, <1>2, <1>3, <1>4, <1>5, <1>6, <1>7, <1>8

(* What call is made where, and how many there are in each phase.          *)
LEMMA CallIs ==
  ASSUME inplace \in BOOLEAN, at \in DOMAIN Calls
  PROVE  \/ /\ pc = "clean" /\ inplace
            /\ \/ at = 1 /\ Row(at, "move", QC)
               \/ at = 6 /\ Row(at, "backup", CrashDir)
               \/ at = 8 /\ Row(at, "unlink", "plot_data")
         \/ /\ pc = "clean" /\ ~inplace
            /\ \/ at = 1 /\ Row(at, "delete", Synced)
               \/ at = 6 /\ Row(at, "unlink", "README.txt")
               \/ at = 8 /\ Row(at, "unlink", "fuzzer_stats")
               \/ at = 9 /\ Row(at, "unlink", "plot_data")
         \/ /\ pc = "clean"
            /\ \/ at = 2 /\ Row(at, "delete", QD)
               \/ at = 3 /\ Row(at, "delete", QR)
               \/ at = 4 /\ Row(at, "rmdir", QS)
               \/ at = 5 /\ Row(at, "delete", QC)
               \/ at = 7 /\ Row(at, "delete", CrashDir)
         \/ /\ pc = "setup"
            /\ \/ at = 1 /\ Row(at, "mkdir", QC)
               \/ at = 2 /\ Row(at, "mkdir", QS)
               \/ at = 3 /\ Row(at, "mkdir", QD)
               \/ at = 4 /\ Row(at, "mkdir", QR)
               \/ at = 5 /\ inplace /\ Row(at, "mkdir_any", Synced)
               \/ at = 5 /\ ~inplace /\ Row(at, "mkdir", Synced)
               \/ at = 6 /\ Row(at, "mkdir", CrashDir)
               \/ at = 7 /\ Row(at, "create", "plot_data")
         \/ /\ pc = "nuke" /\ inplace
            /\ \/ at = 1 /\ Row(at, "delete", RD)
               \/ at = 2 /\ Row(at, "delete", RR)
               \/ at = 3 /\ Row(at, "rmdir", RS)
               \/ at = 4 /\ Row(at, "delete", RC)
<1>1. CASE pc = "clean" /\ inplace = TRUE
  <2>1. Calls = CleanUp[TRUE]
    BY <1>1 DEF Calls
  <2>2. \/ at = 1 \/ at = 2 \/ at = 3 \/ at = 4
        \/ at = 5 \/ at = 6 \/ at = 7 \/ at = 8
    BY <2>1, CleanUpIs
  <2>3. /\ Calls[1] = Move /\ Calls[2] = Delete(QD) /\ Calls[3] = Delete(QR)
        /\ Calls[4] = Rmdir(QS) /\ Calls[5] = Delete(QC) /\ Calls[6] = Backup
        /\ Calls[7] = Delete(CrashDir) /\ Calls[8] = Unlink("plot_data")
    BY <2>1, CleanUpIs
  <2>4. /\ Row(1, "move", QC) /\ Row(2, "delete", QD) /\ Row(3, "delete", QR)
        /\ Row(4, "rmdir", QS) /\ Row(5, "delete", QC) /\ Row(6, "backup", CrashDir)
        /\ Row(7, "delete", CrashDir) /\ Row(8, "unlink", "plot_data")
    BY <2>3, RowIs
  <2> QED
    BY <1>1, <2>2, <2>4, Zenon
<1>2. CASE pc = "clean" /\ inplace = FALSE
  <2>1. Calls = CleanUp[FALSE]
    BY <1>2 DEF Calls
  <2>2. \/ at = 1 \/ at = 2 \/ at = 3 \/ at = 4 \/ at = 5
        \/ at = 6 \/ at = 7 \/ at = 8 \/ at = 9
    BY <2>1, CleanUpIs
  <2>3. /\ Calls[1] = Delete(Synced) /\ Calls[2] = Delete(QD) /\ Calls[3] = Delete(QR)
        /\ Calls[4] = Rmdir(QS) /\ Calls[5] = Delete(QC) /\ Calls[6] = Unlink("README.txt")
        /\ Calls[7] = Delete(CrashDir) /\ Calls[8] = Unlink("fuzzer_stats")
        /\ Calls[9] = Unlink("plot_data")
    BY <2>1, CleanUpIs
  <2>4. /\ Row(1, "delete", Synced) /\ Row(2, "delete", QD) /\ Row(3, "delete", QR)
        /\ Row(4, "rmdir", QS) /\ Row(5, "delete", QC) /\ Row(6, "unlink", "README.txt")
        /\ Row(7, "delete", CrashDir) /\ Row(8, "unlink", "fuzzer_stats")
        /\ Row(9, "unlink", "plot_data")
    BY <2>3, RowIs
  <2> QED
    BY <1>2, <2>2, <2>4, Zenon
<1>3. CASE pc = "setup"
  <2>1. Calls = SetUp[inplace]
    BY <1>3 DEF Calls
  <2>2. \/ at = 1 \/ at = 2 \/ at = 3 \/ at = 4 \/ at = 5 \/ at = 6 \/ at = 7
    BY <2>1 DEF SetUp
  <2>3. /\ Calls[1] = Mkdir(QC) /\ Calls[2] = Mkdir(QS) /\ Calls[3] = Mkdir(QD)
        /\ Calls[4] = Mkdir(QR) /\ Calls[6] = Mkdir(CrashDir)
        /\ Calls[7] = Create("plot_data")
        /\ inplace => Calls[5] = MkdirAny(Synced)
        /\ ~inplace => Calls[5] = Mkdir(Synced)
    BY <2>1 DEF SetUp
  <2>4. /\ Row(1, "mkdir", QC) /\ Row(2, "mkdir", QS) /\ Row(3, "mkdir", QD)
        /\ Row(4, "mkdir", QR) /\ Row(6, "mkdir", CrashDir)
        /\ Row(7, "create", "plot_data")
        /\ inplace => Row(5, "mkdir_any", Synced)
        /\ ~inplace => Row(5, "mkdir", Synced)
    BY <2>3, RowIs
  <2> QED
    BY <1>3, <2>2, <2>4, Zenon
<1>4. CASE pc = "nuke"
  <2>1. inplace /\ Calls = DeleteQueue("_resume")
    BY <1>4 DEF Calls, Nuke
  <2>2. at = 1 \/ at = 2 \/ at = 3 \/ at = 4
    BY <2>1 DEF DeleteQueue
  <2>3. /\ Calls[1] = Delete(RD) /\ Calls[2] = Delete(RR)
        /\ Calls[3] = Rmdir(RS) /\ Calls[4] = Delete(RC)
    BY <2>1 DEF DeleteQueue
  <2>4. /\ Row(1, "delete", RD) /\ Row(2, "delete", RR)
        /\ Row(3, "rmdir", RS) /\ Row(4, "delete", RC)
    BY <2>3, RowIs
  <2> QED
    BY <1>4, <2>1, <2>2, <2>4, Zenon
<1>5. pc \in {"clean", "setup", "nuke"}
  BY DEF Calls
<1> QED
  BY <1>1, <1>2, <1>3, <1>4, <1>5

(* How many calls there are in each phase.                                 *)
LEMMA CallsEnd ==
  ASSUME inplace \in BOOLEAN
  PROVE  /\ pc = "clean" => Len(Calls) = IF inplace THEN 8 ELSE 9
         /\ pc = "setup" => Len(Calls) = 7
         /\ pc = "nuke" => Len(Calls) = IF inplace THEN 4 ELSE 0
BY CleanUpIs DEF Calls, SetUp, Nuke, DeleteQueue

(* The same, by what is done.                                              *)
LEMMA DeleteIs ==
  ASSUME inplace \in BOOLEAN, Is("delete")
  PROVE  \/ /\ pc = "clean"
            /\ \/ at = 1 /\ ~inplace /\ On = Synced
               \/ at = 2 /\ On = QD
               \/ at = 3 /\ On = QR
               \/ at = 5 /\ On = QC
               \/ at = 7 /\ On = CrashDir
         \/ /\ pc = "nuke" /\ inplace
            /\ \/ at = 1 /\ On = RD
               \/ at = 2 /\ On = RR
               \/ at = 4 /\ On = RC
BY CallIs DEF Is, On, Row

\* rmdir() alone is for the .state directory.
LEMMA RmdirIs ==
  ASSUME inplace \in BOOLEAN, Is("rmdir")
  PROVE  \/ pc = "clean" /\ at = 4 /\ On = QS
         \/ pc = "nuke" /\ inplace /\ at = 3 /\ On = RS
BY CallIs DEF Is, On, Row

\* unlink() alone is for the files that have no number.
LEMMA UnlinkIs ==
  ASSUME inplace \in BOOLEAN, Is("unlink")
  PROVE  /\ pc = "clean"
         /\ \/ inplace /\ at = 8 /\ On = "plot_data"
            \/ ~inplace /\ at = 6 /\ On = "README.txt"
            \/ ~inplace /\ at = 8 /\ On = "fuzzer_stats"
            \/ ~inplace /\ at = 9 /\ On = "plot_data"
BY CallIs DEF Is, On, Row

\* The rename() is the first call of a resume.
LEMMA MoveIs ==
  ASSUME inplace \in BOOLEAN, Is("move")
  PROVE  pc = "clean" /\ inplace /\ at = 1
BY CallIs DEF Is, On, Row

\* The backup of crashes/ is the sixth call of a resume.
LEMMA BackupIs ==
  ASSUME inplace \in BOOLEAN, Is("backup")
  PROVE  pc = "clean" /\ inplace /\ at = 6
BY CallIs DEF Is, On, Row

\* plot_data is created last.
LEMMA CreateIs ==
  ASSUME inplace \in BOOLEAN, Is("create")
  PROVE  pc = "setup" /\ at = 7 /\ On = "plot_data"
BY CallIs DEF Is, On, Row

\* The directories are made in a fixed order.
LEMMA MkdirIs ==
  ASSUME inplace \in BOOLEAN, Is("mkdir") \/ Is("mkdir_any")
  PROVE  /\ pc = "setup"
         /\ \/ at = 1 /\ On = QC
            \/ at = 2 /\ On = QS
            \/ at = 3 /\ On = QD
            \/ at = 4 /\ On = QR
            \/ at = 5 /\ On = Synced
            \/ at = 6 /\ On = CrashDir
         /\ Is("mkdir") /\ at = 5 => ~inplace
         /\ at # 5 => Is("mkdir")
<1>1. CASE Is("mkdir")
  BY <1>1, CallIs DEF Is, On, Row
<1>2. CASE Is("mkdir_any") /\ ~Is("mkdir")
  BY <1>2, CallIs DEF Is, On, Row
<1> QED
  BY <1>1, <1>2

---------------------------------------------------------------------------
\* The numbers of test cases are the numbers below MaxCases.
LEMMA IdsAre == Ids \subseteq Nat /\ \A n \in Nat : n \in Ids <=> n < MaxCases
BY SessionAssumption DEF Ids

(* What a directory may hold, by name.                                     *)
LEMMA KindIs ==
  /\ Kind(QC) = Inputs \cup {Absent, Empty} /\ Kind(RC) = Inputs \cup {Absent, Empty}
  /\ Kind(QD) = Inputs \cup {Absent} /\ Kind(RD) = Inputs \cup {Absent}
  /\ Kind(QR) = {Absent, "mark"} /\ Kind(RR) = {Absent, "mark"}
  /\ Kind(QS) = {Absent} /\ Kind(RS) = {Absent} /\ Kind(Synced) = {Absent}
  /\ Kind(Out) = {Absent} /\ Kind(CrashDir) = Crashes \cup {Absent, Empty}
  /\ \A d : Absent \in Kind(d) /\ Kind(d) \subseteq Contents
BY DirNames DEF Kind, Contents

(* Writing or unlinking one file changes nothing else.                     *)
Wrote(d, i, c) ==
  /\ d \in Dirs /\ i \in Ids /\ c \in Kind(d)
  /\ file'[d][i] = c
  /\ \A j \in Ids \ {i} : file'[d][j] = file[d][j]
  /\ \A e \in Dirs \ {d} : file'[e] = file[e]
  /\ dirs' = dirs /\ plain' = plain /\ DiskTypes'

\* Put writes one file, of a kind that the directory may hold.
LEMMA PutIs ==
  ASSUME DiskTypes, NEW d \in Dirs, NEW i \in Ids, NEW c \in Kind(d), Put(d, i, c)
  PROVE  Wrote(d, i, c)
<1>1. c \in Contents
  BY KindIs
<1>2. file' = [file EXCEPT ![d] = [file[d] EXCEPT ![i] = c]]
  BY DEF Put
<1>3. file' \in [Dirs -> [Ids -> Contents]]
  BY <1>1, <1>2 DEF FileTypes, DiskTypes
<1>4. /\ file'[d][i] = c
      /\ \A j \in Ids \ {i} : file'[d][j] = file[d][j]
      /\ \A e \in Dirs \ {d} : file'[e] = file[e]
  BY <1>2 DEF FileTypes, DiskTypes
<1>5. dirs' = dirs /\ plain' = plain
  BY DEF Put
<1>6. DiskTypes'
  BY <1>3, <1>4, <1>5 DEF FileTypes, DiskTypes
<1> QED
  BY <1>4, <1>5, <1>6 DEF Wrote

\* PutPlain writes one of the files that have no number.
LEMMA PutPlainIs ==
  ASSUME DiskTypes, NEW f \in {"README.txt", "fuzzer_stats", "plot_data"},
         NEW c \in {Absent, Empty, "short", "long", "readme"}, PutPlain(f, c)
  PROVE  /\ DiskTypes'
         /\ \A g \in {"README.txt", "fuzzer_stats", "plot_data"} :
               plain'[g] = IF g = f THEN c ELSE plain[g]
         /\ dirs' = dirs /\ file' = file
BY DEF DiskTypes, FileTypes, PutPlain

(* rename() of a directory, of queue/ to _resume/ and of crashes/.         *)
LEMMA MovedIs ==
  ASSUME DiskTypes, MoveQueue, MayMove
  PROVE  /\ DiskTypes' /\ plain' = plain
         /\ \A i \in Ids :
              /\ file'[QC][i] = Absent /\ file'[QS][i] = Absent
              /\ file'[QD][i] = Absent /\ file'[QR][i] = Absent
              /\ file'[RC][i] = file[QC][i] /\ file'[RS][i] = file[QS][i]
              /\ file'[RD][i] = file[QD][i] /\ file'[RR][i] = file[QR][i]
         /\ \A d \in {CrashDir, Synced, Out} :
              file'[d] = file[d] /\ (d \in dirs' <=> d \in dirs)
         /\ QC \notin dirs' /\ QS \notin dirs' /\ QD \notin dirs' /\ QR \notin dirs'
         /\ RC \in dirs' <=> QC \in dirs
         /\ RS \in dirs' <=> QS \in dirs
         /\ RD \in dirs' <=> QD \in dirs
         /\ RR \in dirs' <=> QR \in dirs
<1>1. /\ dirs' = (dirs \ (Within("queue") \cup Within("_resume")))
                   \cup {d \in Within("_resume") : OldPlace(d) \in dirs}
      /\ file' = [d \in Dirs |-> IF d \in Within("queue") THEN NoFiles
                                ELSE IF d \in Within("_resume") THEN file[OldPlace(d)]
                                ELSE file[d]]
      /\ plain' = plain
  BY DEF MoveQueue
<1>2. Within("queue") = {QC, QS, QD, QR} /\ Within("_resume") = {RC, RS, RD, RR}
  BY DEF Within
<1>3. OldPlace(RC) = QC /\ OldPlace(RS) = QS /\ OldPlace(RD) = QD /\ OldPlace(RR) = QR
  BY DirNames DEF OldPlace
<1>4. \A i \in Ids :
         /\ file'[QC][i] = Absent /\ file'[QS][i] = Absent
         /\ file'[QD][i] = Absent /\ file'[QR][i] = Absent
         /\ file'[RC][i] = file[QC][i] /\ file'[RS][i] = file[QS][i]
         /\ file'[RD][i] = file[QD][i] /\ file'[RR][i] = file[QR][i]
  BY <1>1, <1>2, <1>3, DirNames DEF NoFiles
<1>5. \A d \in {CrashDir, Synced, Out} : file'[d] = file[d] /\ (d \in dirs' <=> d \in dirs)
  BY <1>1, <1>2, DirNames
<1>6. /\ QC \notin dirs' /\ QS \notin dirs' /\ QD \notin dirs' /\ QR \notin dirs'
      /\ RC \in dirs' <=> QC \in dirs
      /\ RS \in dirs' <=> QS \in dirs
      /\ RD \in dirs' <=> QD \in dirs
      /\ RR \in dirs' <=> QR \in dirs
      /\ dirs' \subseteq Dirs
  BY <1>1, <1>2, <1>3, DirNames DEF DiskTypes
<1>7. file' \in [Dirs -> [Ids -> Contents]]
  <2>1. NoFiles \in [Ids -> Contents]
    BY DEF NoFiles, Contents
  <2>2. ASSUME NEW d \in Within("_resume")
        PROVE  file[OldPlace(d)] \in [Ids -> Contents]
    BY <1>2, <1>3, DirNames DEF DiskTypes, FileTypes
  <2> QED
    BY <1>1, <2>1, <2>2 DEF DiskTypes, FileTypes
<1>8. \A d \in Dirs, i \in Ids : file'[d][i] \in Kind(d)
  BY <1>4, <1>5, KindIs, DirNames DEF DiskTypes, FileTypes
<1> QED
  BY <1>1, <1>4, <1>5, <1>6, <1>7, <1>8 DEF DiskTypes, FileTypes

\* After the backup there is no crashes/.
LEMMA BackedUpIs ==
  ASSUME DiskTypes, BackupCrashes
  PROVE  /\ DiskTypes' /\ dirs' = dirs \ {CrashDir}
         /\ \A i \in Ids : file'[CrashDir][i] = Absent
         /\ \A d \in Dirs \ {CrashDir} : file'[d] = file[d]
         /\ plain'["README.txt"] = Absent
         /\ \A f \in {"fuzzer_stats", "plot_data"} : plain'[f] = plain[f]
<1>1. /\ dirs' = dirs \ {CrashDir} /\ file' = [file EXCEPT ![CrashDir] = NoFiles]
      /\ plain' = [plain EXCEPT !["README.txt"] = Absent]
  BY DEF BackupCrashes
<1>2. CrashDir \in Dirs /\ NoFiles \in [Ids -> Contents] /\ \A i \in Ids : NoFiles[i] = Absent
  BY DirNames DEF NoFiles, Contents
<1>3. /\ file' \in [Dirs -> [Ids -> Contents]]
      /\ \A i \in Ids : file'[CrashDir][i] = Absent
      /\ \A d \in Dirs \ {CrashDir} : file'[d] = file[d]
  BY <1>1, <1>2 DEF DiskTypes, FileTypes
<1> QED
  BY <1>1, <1>2, <1>3, KindIs DEF DiskTypes, FileTypes

(* The queue with an entry marked.                                         *)
LEMMA Marked ==
  ASSUME NEW s \in Seq(Entry), NEW k \in DOMAIN s, NEW x \in Inputs \cup {Empty},
         NEW t, t = [s EXCEPT ![k].det = x]
  PROVE  /\ t \in Seq(Entry) /\ Len(t) = Len(s) /\ DOMAIN t = DOMAIN s
         /\ \A j \in DOMAIN s : /\ t[j].data = s[j].data /\ t[j].redundant = s[j].redundant
                                /\ t[j].det = IF j = k THEN x ELSE s[j].det
<1> DEFINE e == [s[k] EXCEPT !.det = x]
<1>1. s[k] \in Entry /\ k \in 1 .. Len(s)
  OBVIOUS
<1>2. e \in Entry /\ e.data = s[k].data /\ e.redundant = s[k].redundant /\ e.det = x
  BY <1>1 DEF Entry
<1>3. t = [s EXCEPT ![k] = e]
  OBVIOUS
<1> HIDE DEF e
<1>4. /\ t \in Seq(Entry) /\ Len(t) = Len(s) /\ DOMAIN t = DOMAIN s
      /\ \A j \in DOMAIN s : t[j] = IF j = k THEN e ELSE s[j]
  BY <1>2, <1>3, ExceptSeq
<1> QED
  BY <1>2, <1>4

\* The queue with the other mark of an entry turned around.
LEMMA Redundant ==
  ASSUME NEW s \in Seq(Entry), NEW k \in DOMAIN s,
         NEW t, t = [s EXCEPT ![k].redundant = ~@]
  PROVE  /\ t \in Seq(Entry) /\ Len(t) = Len(s) /\ DOMAIN t = DOMAIN s
         /\ \A j \in DOMAIN s : /\ t[j].data = s[j].data /\ t[j].det = s[j].det
                                /\ t[j].redundant = IF j = k THEN ~s[j].redundant
                                                    ELSE s[j].redundant
<1> DEFINE e == [s[k] EXCEPT !.redundant = ~@]
<1>1. s[k] \in Entry /\ k \in 1 .. Len(s)
  OBVIOUS
<1>2. e \in Entry /\ e.data = s[k].data /\ e.det = s[k].det /\ e.redundant = ~s[k].redundant
  BY <1>1 DEF Entry
<1>3. t = [s EXCEPT ![k] = e]
  OBVIOUS
<1> HIDE DEF e
<1>4. /\ t \in Seq(Entry) /\ Len(t) = Len(s) /\ DOMAIN t = DOMAIN s
      /\ \A j \in DOMAIN s : t[j] = IF j = k THEN e ELSE s[j]
  BY <1>2, <1>3, ExceptSeq
<1> QED
  BY <1>2, <1>4

---------------------------------------------------------------------------
(* The types hold, and reading does not run out of numbers.                *)
LEMMA EndsTypes ==
  ASSUME NEW why \in Dead, Ends(why), DiskTypes', trap' \in BOOLEAN
  PROVE  TypeInv' /\ Blank' /\ ReadInv'
<1>1. queue' = << >> /\ at' = 0 /\ inplace' = FALSE /\ unique_crashes' = 0 /\ pc' \in Dead
  BY DEF Ends
<1>2. pc' \in Pcs
      /\ pc' \notin Starting \cup Pivoting \cup Running \cup {"nuke", "ready"}
  BY <1>1 DEF Pcs, Dead, FatalReasons, Starting, Pivoting, Running
<1>3. queue' \in Seq(Entry) /\ Len(queue') <= MaxCases
  BY <1>1, SessionAssumption
<1>4. MemoryTypes'
  BY <1>1, <1>2, <1>3 DEF MemoryTypes, Pivoting, Running
<1>5. ReadInv' /\ Blank'
  BY <1>1, <1>2 DEF ReadInv, Blank, Starting
<1> QED
  BY <1>2, <1>4, <1>5 DEF TypeInv

\* A fatal error ends the process and changes nothing on disk.
LEMMA FatalTypes ==
  ASSUME TypeInv, NEW why \in FatalReasons, Fatal(why)
  PROVE  TypeInv' /\ Blank' /\ ReadInv'
<1>1. DiskTypes' /\ trap' \in BOOLEAN /\ Ends(why) /\ why \in Dead
  BY DEF Fatal, TypeInv, DiskTypes, FileTypes, disk, history, Dead
<1> QED
  BY <1>1, EndsTypes

\* These calls are about directories.
LEMMA OnIsDir ==
  ASSUME inplace \in BOOLEAN, Is("delete") \/ Is("rmdir") \/ Is("mkdir") \/ Is("mkdir_any")
  PROVE  On \in Dirs
BY DeleteIs, RmdirIs, MkdirIs, DirNames

\* What an entry of the queue in memory is.
LEMMA QueueIs ==
  ASSUME MemoryTypes, NEW k \in DOMAIN queue
  PROVE  /\ k \in 1 .. Len(queue) /\ k - 1 \in Ids /\ queue[k].data \in Inputs
         /\ queue[k].det \in Inputs \cup {Empty} /\ queue[k].redundant \in BOOLEAN
<1>1. queue \in Seq(Entry) /\ Len(queue) <= MaxCases /\ Len(queue) \in Nat
  BY DEF MemoryTypes
<1>2. k \in 1 .. Len(queue) /\ queue[k] \in Entry
  BY <1>1
<1>3. k - 1 \in Ids
  BY <1>1, <1>2, SessionAssumption DEF Ids
<1> QED
  BY <1>2, <1>3 DEF Entry

(* The newest entry.                                                       *)
LEMMA LastIs ==
  ASSUME MemoryTypes, queue # << >>
  PROVE  /\ Len(queue) \in DOMAIN queue /\ Len(queue) - 1 \in Ids
         /\ queue[Len(queue)].data \in Inputs
<1>1. Len(queue) \in DOMAIN queue
  BY DEF MemoryTypes
<1> QED
  BY <1>1, QueueIs

(* The sets of what is queued and of what is not yet.                      *)
LEMMA MoreData ==
  ASSUME MemoryTypes, NEW c \in Inputs, NEW m \in Inputs \cup {Empty},
         queue' = Append(queue, Case(c, m))
  PROVE  /\ Data' = Data \cup {c} /\ Len(queue') = Len(queue) + 1 /\ queue' \in Seq(Entry)
         /\ DOMAIN queue' = 1 .. Len(queue) + 1
         /\ \A k \in 1 .. Len(queue) : queue'[k] = queue[k]
         /\ queue'[Len(queue) + 1].data = c /\ queue'[Len(queue) + 1].det = m
         /\ queue'[Len(queue) + 1].redundant = FALSE
<1> DEFINE e == Case(c, m)
<1>1. queue \in Seq(Entry) /\ DOMAIN queue = 1 .. Len(queue) /\ Len(queue) \in Nat
  BY DEF MemoryTypes
<1>2. e \in Entry /\ e.data = c /\ e.det = m /\ e.redundant = FALSE
  BY DEF Case, Entry
<1>3. queue' = Append(queue, e)
  OBVIOUS
<1> HIDE DEF e
<1>4. /\ queue' \in Seq(Entry) /\ Len(queue') = Len(queue) + 1
      /\ DOMAIN queue' = 1 .. Len(queue) + 1
      /\ \A k \in 1 .. Len(queue) : queue'[k] = queue[k]
      /\ queue'[Len(queue) + 1] = e
  BY <1>1, <1>2, <1>3
<1>5. Data' = Data \cup {c}
  BY <1>1, <1>2, <1>4 DEF Data
<1> QED
  BY <1>2, <1>4, <1>5

---------------------------------------------------------------------------
(* What each action that writes one file does, and what it relies on.      *)
LEMMA DeleteFileIs ==
  ASSUME TypeInv, DeleteFile
  PROVE  /\ Is("delete") /\ pc \in {"clean", "nuke"} /\ On \in Dirs
         /\ UNCHANGED <<pc, memory, history>>
         /\ \E i \in Files(On) : Wrote(On, i, Absent)
<1>1. Is("delete") /\ UNCHANGED <<pc, memory, history>> /\ inplace \in BOOLEAN /\ DiskTypes
  BY DEF DeleteFile, TypeInv, MemoryTypes
<1>2. On \in Dirs /\ pc \in {"clean", "nuke"}
  BY <1>1, OnIsDir, DeleteIs
<1>3. PICK i \in Files(On) : Put(On, i, Absent)
  BY DEF DeleteFile
<1>4. Wrote(On, i, Absent)
  BY <1>1, <1>2, <1>3, PutIs, KindIs DEF Files
<1> QED
  BY <1>1, <1>2, <1>4

\* What each step that writes a file does, given the types: pivot_inputs() links an entry.
LEMMA PivotLinkIs ==
  ASSUME TypeInv, PivotLink
  PROVE  /\ pc = "pivot" /\ at + 1 \in DOMAIN queue /\ at \in Ids
         /\ \/ file[QC][at] # Absent /\ Fatal("exists")
            \/ /\ file[QC][at] = Absent /\ UNCHANGED <<memory, history>>
               /\ \/ Wrote(QC, at, queue[at + 1].data) /\ pc' = "mark"
                  \/ Wrote(QC, at, Empty) /\ pc' = "copy"
<1>1. DiskTypes /\ MemoryTypes /\ pc = "pivot" /\ at + 1 \in DOMAIN queue
  BY DEF PivotLink, TypeInv, MemoryTypes
<1>2. at \in Ids /\ queue[at + 1].data \in Kind(QC) /\ Empty \in Kind(QC) /\ QC \in Dirs
  BY <1>1, QueueIs, KindIs, DirNames DEF MemoryTypes
<1>3. /\ Put(QC, at, queue[at + 1].data) => Wrote(QC, at, queue[at + 1].data)
      /\ Put(QC, at, Empty) => Wrote(QC, at, Empty)
  BY <1>1, <1>2, PutIs
<1> QED
  BY <1>1, <1>2, <1>3 DEF PivotLink, Cases

\* pivot_inputs() completes a copy.
LEMMA CopyWriteIs ==
  ASSUME TypeInv, CopyWrite
  PROVE  /\ pc = "copy" /\ pc' = "mark" /\ at + 1 \in DOMAIN queue /\ at \in Ids
         /\ Wrote(QC, at, queue[at + 1].data) /\ UNCHANGED <<memory, history>>
<1>1. DiskTypes /\ MemoryTypes /\ at + 1 \in DOMAIN queue
  BY DEF CopyWrite, TypeInv, MemoryTypes
<1>2. at \in Ids /\ queue[at + 1].data \in Kind(QC) /\ QC \in Dirs
  BY <1>1, QueueIs, KindIs, DirNames DEF MemoryTypes
<1>3. Put(QC, at, queue[at + 1].data)
  BY DEF CopyWrite
<1>4. Wrote(QC, at, queue[at + 1].data)
  BY <1>1, <1>2, <1>3, PutIs
<1> QED
  BY <1>1, <1>2, <1>4 DEF CopyWrite

\* pivot_inputs() marks an entry that has passed its deterministic stages.
LEMMA PivotMarkIs ==
  ASSUME TypeInv, PivotMark
  PROVE  /\ pc = "mark" /\ at + 1 \in DOMAIN queue /\ at \in Ids
         /\ \/ /\ queue[at + 1].det = Empty
               /\ Phase("pivot", at + 1)
               /\ UNCHANGED <<disk, inplace, queue, unique_crashes, history>>
            \/ file[QD][at] # Absent /\ Fatal("exists")
            \/ /\ queue[at + 1].det # Empty /\ file[QD][at] = Absent
               /\ Wrote(QD, at, queue[at + 1].det) /\ Phase("pivot", at + 1)
               /\ UNCHANGED <<inplace, queue, unique_crashes, history>>
<1>1. DiskTypes /\ MemoryTypes /\ pc = "mark" /\ at + 1 \in DOMAIN queue
  BY DEF PivotMark, TypeInv, MemoryTypes
<1>2. at \in Ids /\ queue[at + 1].det \in Kind(QD) \cup {Empty} /\ QD \in Dirs
  BY <1>1, QueueIs, KindIs, DirNames DEF MemoryTypes
<1>3. queue[at + 1].det # Empty /\ Put(QD, at, queue[at + 1].det)
        => Wrote(QD, at, queue[at + 1].det)
  BY <1>1, <1>2, PutIs
<1> QED
  BY <1>1, <1>2, <1>3 DEF PivotMark

\* save_if_interesting() creates the file of the last entry.
LEMMA SaveCreateIs ==
  ASSUME TypeInv, SaveCreate
  PROVE  /\ pc = "create" /\ queue # << >> /\ Len(queue) - 1 \in Ids
         /\ \/ file[QC][Len(queue) - 1] # Absent /\ Fatal("exists")
            \/ /\ file[QC][Len(queue) - 1] = Absent /\ pc' = "write"
               /\ Wrote(QC, Len(queue) - 1, Empty) /\ UNCHANGED <<memory, history>>
<1>1. DiskTypes /\ MemoryTypes /\ pc = "create" /\ queue # << >>
  BY DEF SaveCreate, TypeInv, MemoryTypes
<1>2. Len(queue) - 1 \in Ids /\ Empty \in Kind(QC) /\ QC \in Dirs
  BY <1>1, LastIs, KindIs, DirNames
<1>3. Put(QC, Len(queue) - 1, Empty) => Wrote(QC, Len(queue) - 1, Empty)
  BY <1>1, <1>2, PutIs
<1> QED
  BY <1>1, <1>2, <1>3 DEF SaveCreate, Cases

\* save_if_interesting() writes the file of the last entry.
LEMMA SaveWriteIs ==
  ASSUME TypeInv, SaveWrite
  PROVE  /\ pc = "write" /\ pc' = "fuzz" /\ queue # << >> /\ Len(queue) - 1 \in Ids
         /\ Wrote(QC, Len(queue) - 1, queue[Len(queue)].data)
         /\ had' = had \cup {queue[Len(queue)].data}
         /\ UNCHANGED <<memory, found, kept, worth, trap>>
<1>1. DiskTypes /\ MemoryTypes /\ pc = "write" /\ queue # << >>
  BY DEF SaveWrite, TypeInv, MemoryTypes
<1>2. Len(queue) - 1 \in Ids /\ queue[Len(queue)].data \in Kind(QC) /\ QC \in Dirs
  BY <1>1, LastIs, KindIs, DirNames
<1>3. Wrote(QC, Len(queue) - 1, queue[Len(queue)].data)
  BY <1>1, <1>2, PutIs DEF SaveWrite
<1> QED
  BY <1>1, <1>2, <1>3 DEF SaveWrite

\* trim_case() unlinks the file of an entry.
LEMMA TrimUnlinkIs ==
  ASSUME TypeInv, TrimUnlink
  PROVE  /\ pc = "fuzz" /\ pc' = "trim" /\ UNCHANGED <<memory, found, kept, worth, trap>>
         /\ \E k \in DOMAIN queue : /\ k - 1 \in Ids /\ Wrote(QC, k - 1, Absent)
                                   /\ had' = had \ {queue[k].data}
<1>1. DiskTypes /\ MemoryTypes
  BY DEF TypeInv
<1>2. PICK k \in DOMAIN queue : Put(QC, k - 1, Absent) /\ had' = had \ {queue[k].data}
  BY DEF TrimUnlink
<1>3. k - 1 \in Ids /\ Absent \in Kind(QC) /\ QC \in Dirs
  BY <1>1, QueueIs, KindIs, DirNames
<1>4. Wrote(QC, k - 1, Absent)
  BY <1>1, <1>2, <1>3, PutIs
<1> QED
  BY <1>2, <1>3, <1>4 DEF TrimUnlink

\* trim_case() creates it again.
LEMMA TrimCreateIs ==
  ASSUME TypeInv, TrimCreate
  PROVE  /\ pc = "trim" /\ pc' = "trim2" /\ UNCHANGED <<memory, history>>
         /\ \E k \in DOMAIN queue : /\ k - 1 \in Ids /\ Wrote(QC, k - 1, Empty)
                                   /\ file[QC][k - 1] = Absent
<1>1. DiskTypes /\ MemoryTypes
  BY DEF TypeInv
<1>2. PICK k \in DOMAIN queue : file[QC][k - 1] = Absent /\ Put(QC, k - 1, Empty)
  BY DEF TrimCreate
<1>3. k - 1 \in Ids /\ Empty \in Kind(QC) /\ QC \in Dirs
  BY <1>1, QueueIs, KindIs, DirNames
<1>4. Wrote(QC, k - 1, Empty)
  BY <1>1, <1>2, <1>3, PutIs
<1> QED
  BY <1>2, <1>3, <1>4 DEF TrimCreate

\* trim_case() writes it.
LEMMA TrimWriteIs ==
  ASSUME TypeInv, TrimWrite
  PROVE  /\ pc = "trim2" /\ pc' = "fuzz" /\ UNCHANGED <<memory, found, kept, worth, trap>>
         /\ \E k \in DOMAIN queue : /\ k - 1 \in Ids /\ Wrote(QC, k - 1, queue[k].data)
                                   /\ file[QC][k - 1] = Empty
                                   /\ had' = had \cup {queue[k].data}
<1>1. DiskTypes /\ MemoryTypes
  BY DEF TypeInv
<1>2. PICK k \in DOMAIN queue :
         /\ file[QC][k - 1] = Empty
         /\ Put(QC, k - 1, queue[k].data) /\ had' = had \cup {queue[k].data}
  BY DEF TrimWrite
<1>3. k - 1 \in Ids /\ queue[k].data \in Kind(QC) /\ QC \in Dirs
  BY <1>1, QueueIs, KindIs, DirNames
<1>4. Wrote(QC, k - 1, queue[k].data)
  BY <1>1, <1>2, <1>3, PutIs
<1> QED
  BY <1>2, <1>3, <1>4 DEF TrimWrite

\* mark_as_det_done() marks an entry that had no mark.
LEMMA DetDoneIs ==
  ASSUME TypeInv, DetDone
  PROVE  /\ pc = "fuzz"
         /\ \E k \in DOMAIN queue :
              /\ k - 1 \in Ids /\ queue[k].det = Empty
              /\ \/ file[QD][k - 1] # Absent /\ Fatal("bad_mark")
                 \/ /\ file[QD][k - 1] = Absent /\ Wrote(QD, k - 1, queue[k].data)
                    /\ queue[k].data \in Inputs
                    /\ queue' = [queue EXCEPT ![k].det = queue[k].data]
                    /\ queue' \in Seq(Entry) /\ Len(queue') = Len(queue)
                    /\ UNCHANGED <<pc, at, inplace, unique_crashes, history>>
<1>1. DiskTypes /\ MemoryTypes /\ pc = "fuzz"
  BY DEF DetDone, TypeInv
<1>2. PICK k \in DOMAIN queue :
         /\ queue[k].det = Empty
         /\ IF file[QD][k - 1] # Absent THEN Fatal("bad_mark")
            ELSE /\ Put(QD, k - 1, queue[k].data)
                 /\ queue' = [queue EXCEPT ![k].det = queue[k].data]
                 /\ UNCHANGED <<pc, at, inplace, unique_crashes, history>>
  BY DEF DetDone
<1>3. /\ k - 1 \in Ids /\ queue[k].data \in Kind(QD) /\ queue[k].data \in Inputs
      /\ QD \in Dirs /\ queue \in Seq(Entry)
  BY <1>1, QueueIs, KindIs, DirNames DEF MemoryTypes
<1>4. CASE file[QD][k - 1] # Absent
  BY <1>1, <1>2, <1>3, <1>4
<1>5. CASE file[QD][k - 1] = Absent
  <2>1. Wrote(QD, k - 1, queue[k].data)
    BY <1>1, <1>2, <1>3, <1>5, PutIs
  <2>2. queue' \in Seq(Entry) /\ Len(queue') = Len(queue)
    BY <1>2, <1>3, <1>5, Marked
  <2>3. /\ queue' = [queue EXCEPT ![k].det = queue[k].data]
        /\ UNCHANGED <<pc, at, inplace, unique_crashes, history>>
    BY <1>2, <1>5
  <2>4. k - 1 \in Ids /\ queue[k].data \in Inputs /\ queue[k].det = Empty
    BY <1>2, <1>3
  <2> QED
    BY <1>1, <1>5, <2>1, <2>2, <2>3, <2>4, Zenon
<1> QED
  BY <1>4, <1>5

\* mark_as_redundant() makes or removes a mark.
LEMMA MarkRedundantIs ==
  ASSUME TypeInv, MarkRedundant
  PROVE  /\ pc = "fuzz"
         /\ \E k \in DOMAIN queue :
              /\ k - 1 \in Ids
              /\ \/ (file[QR][k - 1] # Absent) # queue[k].redundant /\ Fatal("bad_mark")
                 \/ /\ (file[QR][k - 1] # Absent) = queue[k].redundant
                    /\ Wrote(QR, k - 1, IF queue[k].redundant THEN Absent ELSE "mark")
                    /\ queue' = [queue EXCEPT ![k].redundant = ~@]
                    /\ queue' \in Seq(Entry) /\ Len(queue') = Len(queue)
                    /\ UNCHANGED <<pc, at, inplace, unique_crashes, history>>
<1>1. DiskTypes /\ MemoryTypes /\ pc = "fuzz"
  BY DEF MarkRedundant, TypeInv
<1>2. PICK k \in DOMAIN queue :
         IF (file[QR][k - 1] # Absent) # queue[k].redundant THEN Fatal("bad_mark")
         ELSE /\ Put(QR, k - 1, IF queue[k].redundant THEN Absent ELSE "mark")
              /\ queue' = [queue EXCEPT ![k].redundant = ~@]
              /\ UNCHANGED <<pc, at, inplace, unique_crashes, history>>
  BY DEF MarkRedundant
<1>3. /\ k - 1 \in Ids /\ QR \in Dirs /\ queue \in Seq(Entry)
      /\ (IF queue[k].redundant THEN Absent ELSE "mark") \in Kind(QR)
  BY <1>1, QueueIs, KindIs, DirNames DEF MemoryTypes
<1>4. CASE (file[QR][k - 1] # Absent) # queue[k].redundant
  BY <1>1, <1>2, <1>3, <1>4
<1>5. CASE (file[QR][k - 1] # Absent) = queue[k].redundant
  <2>1. Wrote(QR, k - 1, IF queue[k].redundant THEN Absent ELSE "mark")
    BY <1>1, <1>2, <1>3, <1>5, PutIs
  <2>2. queue' \in Seq(Entry) /\ Len(queue') = Len(queue)
    BY <1>2, <1>3, <1>5, Redundant
  <2> QED
    BY <1>1, <1>2, <1>3, <1>5, <2>1, <2>2
<1> QED
  BY <1>4, <1>5

\* The file of a crash gets the next number.
LEMMA CrashCreateIs ==
  ASSUME TypeInv, CrashCreate
  PROVE  /\ pc \in {"readme", "fuzz"} /\ (pc = "fuzz" => unique_crashes > 0)
         /\ unique_crashes \in Ids
         /\ \/ file[CrashDir][unique_crashes] # Absent /\ Fatal("exists")
            \/ /\ file[CrashDir][unique_crashes] = Absent
               /\ Wrote(CrashDir, unique_crashes, Empty)
               /\ pc' = "crash" /\ unique_crashes' = unique_crashes + 1
               /\ UNCHANGED <<at, inplace, queue, history>>
<1>1. DiskTypes /\ MemoryTypes
  BY DEF TypeInv
<1>2. /\ pc \in {"readme", "fuzz"} /\ (pc = "fuzz" => unique_crashes > 0)
      /\ unique_crashes < MaxCases
  BY <1>1 DEF CrashCreate, MayKeepCrash, MemoryTypes
<1>3. unique_crashes \in Ids /\ Empty \in Kind(CrashDir) /\ CrashDir \in Dirs
  BY <1>1, <1>2, SessionAssumption, KindIs, DirNames DEF Ids, MemoryTypes
<1>4. Put(CrashDir, unique_crashes, Empty) => Wrote(CrashDir, unique_crashes, Empty)
  BY <1>1, <1>3, PutIs
<1> QED
  BY <1>2, <1>3, <1>4 DEF CrashCreate

\* The file of a crash is written.
LEMMA CrashWriteIs ==
  ASSUME TypeInv, CrashWrite
  PROVE  /\ pc = "crash" /\ pc' = "fuzz" /\ unique_crashes - 1 \in Ids
         /\ UNCHANGED <<memory, had, kept, worth, trap>>
         /\ \E c \in Crashes : /\ Wrote(CrashDir, unique_crashes - 1, c)
                              /\ found' = found \cup {c}
<1>1. DiskTypes /\ MemoryTypes /\ pc = "crash"
  BY DEF TypeInv, CrashWrite
<1>2. PICK c \in Crashes : Put(CrashDir, unique_crashes - 1, c) /\ found' = found \cup {c}
  BY DEF CrashWrite
<1>3. unique_crashes - 1 \in Ids /\ c \in Kind(CrashDir) /\ CrashDir \in Dirs
  BY <1>1, SessionAssumption, KindIs, DirNames DEF Ids, MemoryTypes
<1>4. Wrote(CrashDir, unique_crashes - 1, c)
  BY <1>1, <1>2, <1>3, PutIs
<1> QED
  BY <1>1, <1>2, <1>3, <1>4 DEF CrashWrite

---------------------------------------------------------------------------
(* The types hold, and reading does not run out of numbers.                *)
LEMMA TypeStep ==
  ASSUME TypeInv, Blank, ReadInv, [Next]_vars
  PROVE  TypeInv' /\ Blank' /\ ReadInv'
<1> USE DEF TypeInv, Blank, MemoryTypes, Pcs, Dead, FatalReasons, Starting, Pivoting, Running
<1>1. CASE UNCHANGED vars
  <2>1. DiskTypes'
    BY <1>1 DEF vars, disk, DiskTypes, FileTypes
  <2>2. ReadInv'
    BY <1>1 DEF vars, memory, ReadInv, Data
  <2> QED
    BY <1>1, <2>1, <2>2 DEF vars, memory, history
<1>2. ASSUME NEW resume \in BOOLEAN, Start(resume)
      PROVE  TypeInv' /\ Blank' /\ ReadInv'
  <2>1. CASE StartNew(resume)
    <3>1. DiskTypes' /\ trap' \in BOOLEAN
      BY <2>1, DirNames DEF StartNew, DiskTypes, FileTypes, history
    <3>2. CASE resume
      BY <2>1, <3>1, <3>2, EndsTypes DEF StartNew
    <3>3. CASE ~resume
      <4>1. pc \in Dead /\ pc' = "setup" /\ at' = 1
            /\ UNCHANGED <<inplace, queue, unique_crashes>>
        BY <2>1, <3>3 DEF StartNew, Phase, Stopped
      <4> QED
        BY <3>1, <4>1 DEF ReadInv
    <3> QED
      BY <3>2, <3>3
  <2>2. CASE StartMalformed
    BY <2>2, FatalTypes DEF StartMalformed
  <2>3. CASE StartAtRisk(resume)
    BY <2>3, FatalTypes DEF StartAtRisk
  <2>4. CASE StartOver(resume)
    <3>1. trap' \in BOOLEAN
      BY <2>4 DEF StartOver
    <3>2. DiskTypes'
      BY <2>4 DEF StartOver, DiskTypes, FileTypes, disk
    <3>3. pc \in Dead /\ pc' = "clean" /\ at' = 1 /\ inplace' = resume
          /\ UNCHANGED <<queue, unique_crashes>>
      BY <2>4 DEF StartOver, Phase, Stopped
    <3> QED
      BY <1>2, <3>1, <3>2, <3>3 DEF ReadInv
  <2> QED
    BY <1>2, <2>1, <2>2, <2>3, <2>4 DEF Start
<1>3. CASE DeleteFile
  BY <1>3, DeleteFileIs DEF memory, history, ReadInv, Wrote
<1>4. CASE RemoveDir
  <2>1. CASE NonEmpty(On)
    BY <1>4, <2>1, FatalTypes DEF RemoveDir
  <2>2. CASE ~NonEmpty(On)
    <3>1. DiskTypes' /\ Done /\ trap' = trap
      BY <1>4, <2>2 DEF RemoveDir, DiskTypes, FileTypes, history
    <3>2. pc \in {"clean", "nuke"}
      BY <1>4, DeleteIs, RmdirIs DEF RemoveDir
    <3> QED
      BY <3>1, <3>2 DEF Done, ReadInv
  <2> QED
    BY <2>1, <2>2
<1>5. CASE UnlinkFile
  <2>1. DiskTypes' /\ pc = "clean"
    BY <1>5, UnlinkIs, PutPlainIs DEF UnlinkFile
  <2> QED
    BY <1>5, <2>1 DEF UnlinkFile, Done, ReadInv, history
<1>6. CASE MoveQueue
  <2>1. DiskTypes'
    BY <1>6, MovedIs DEF MoveQueue, DiskTypes, FileTypes
  <2>2. pc = "clean"
    BY <1>6, MoveIs DEF MoveQueue
  <2> QED
    BY <1>6, <2>1, <2>2 DEF MoveQueue, Done, ReadInv, history
<1>7. CASE BackupCrashes
  <2>1. DiskTypes' /\ pc = "clean"
    BY <1>7, BackedUpIs, BackupIs DEF BackupCrashes
  <2> QED
    BY <1>7, <2>1 DEF BackupCrashes, Done, ReadInv
<1>8. CASE MakeDir
  <2>1. CASE On \in dirs /\ Is("mkdir")
    BY <1>8, <2>1, FatalTypes DEF MakeDir
  <2>2. CASE ~(On \in dirs /\ Is("mkdir"))
    <3>1. DiskTypes' /\ Done /\ trap' = trap
      BY <1>8, <2>2, OnIsDir DEF MakeDir, DiskTypes, FileTypes, history
    <3>2. pc = "setup"
      BY <1>8, MkdirIs DEF MakeDir
    <3> QED
      BY <3>1, <3>2 DEF Done, ReadInv
  <2> QED
    BY <2>1, <2>2
<1>9. CASE CreateFile
  <2>1. CASE plain[On] # Absent
    BY <1>9, <2>1, FatalTypes DEF CreateFile
  <2>2. CASE plain[On] = Absent
    <3>1. DiskTypes' /\ Done /\ trap' = trap /\ pc = "setup"
      BY <1>9, <2>2, CreateIs, PutPlainIs DEF CreateFile, history
    <3> QED
      BY <3>1 DEF Done, ReadInv
  <2> QED
    BY <2>1, <2>2
<1>10. CASE Proceed
  <2>1. DiskTypes' /\ trap' = trap /\ queue' = queue /\ unique_crashes' = unique_crashes
        /\ inplace' = inplace
    BY <1>10 DEF Proceed, disk, history, DiskTypes, FileTypes
  <2>2. CASE pc = "setup" /\ Phase("read", 0)
    <3>1. queue = << >> /\ pc' = "read" /\ at' = 0
      BY <2>2 DEF Phase
    <3>2. Data' = {} /\ Len(queue') = 0
      BY <2>1, <3>1 DEF Data
    <3>3. ReadInv'
      BY <3>1, <3>2, FS_EmptySet, SessionAssumption DEF ReadInv
    <3> QED
      BY <2>1, <3>1, <3>3
  <2>3. CASE (pc = "clean" /\ Phase("setup", 1)) \/ (pc = "nuke" /\ Phase("ready", 0))
    BY <2>1, <2>3 DEF Phase, ReadInv
  <2> QED
    BY <1>10, <2>2, <2>3 DEF Proceed
<1>11. CASE ReadCase
  <2>1. DiskTypes' /\ trap' = trap /\ unique_crashes' = unique_crashes
        /\ inplace' = inplace /\ pc' = pc /\ pc = "read" /\ inplace /\ at < MaxCases /\ at' = at + 1
    BY <1>11 DEF ReadCase, disk, history, DiskTypes, FileTypes
  <2>2. CASE queue' = queue
    BY <2>1, <2>2, SessionAssumption DEF ReadInv
  <2>3. CASE queue' # queue
    <3> DEFINE c == file[RC][at]
    <3>1. /\ queue' = Append(queue, Case(c, IF Mark(at) = Absent THEN Empty ELSE Mark(at)))
          /\ c \notin {Absent, Empty}
      BY <1>11, <2>3 DEF ReadCase
    <3>2. at \in Ids
      BY <2>1, SessionAssumption DEF Ids
    <3>3. c \in Inputs /\ Mark(at) \in Inputs \cup {Absent}
      BY <3>1, <3>2, KindIs, DirNames DEF Mark, DiskTypes, FileTypes
    <3>4. Len(queue') = Len(queue) + 1 /\ queue' \in Seq(Entry)
      BY <3>1, <3>3, MoreData
    <3> QED
      BY <2>1, <3>4, SessionAssumption DEF ReadInv
  <2> QED
    BY <2>2, <2>3
<1>12. CASE ReadSeed
  <2>1. DiskTypes' /\ trap' = trap /\ unique_crashes' = unique_crashes
        /\ inplace' = inplace /\ pc' = pc /\ pc = "read" /\ ~inplace /\ at' = at
    BY <1>12 DEF ReadSeed, disk, history, DiskTypes, FileTypes
  <2>2. PICK s \in Unread : queue' = Append(queue, Case(s, Empty))
    BY <1>12 DEF ReadSeed
  <2>3. s \in Seeds /\ s \in Inputs /\ s \notin Data
    BY <2>2, SessionAssumption DEF Unread, Data
  <2>4. Data' = Data \cup {s} /\ Len(queue') = Len(queue) + 1 /\ queue' \in Seq(Entry)
    BY <2>2, <2>3, MoreData
  <2>5. IsFiniteSet(Data') /\ Cardinality(Data') = Len(queue') /\ Data' \subseteq Seeds
    BY <2>1, <2>3, <2>4, FS_AddElement DEF ReadInv
  <2>6. Len(queue') <= MaxCases
    <3>1. Cardinality(Data') <= Cardinality(Seeds)
      BY <2>5, SessionAssumption, FS_Subset
    <3>2. Cardinality(Seeds) \in Nat /\ Len(queue') \in Nat
      BY <2>4, SessionAssumption, FS_CardinalityType
    <3> QED
      BY <2>5, <3>1, <3>2, SessionAssumption
  <2> QED
    BY <2>1, <2>4, <2>5, <2>6 DEF ReadInv
<1>13. CASE ReadDone
  <2>1. CASE queue = << >>
    BY <1>13, <2>1, FatalTypes DEF ReadDone
  <2>2. CASE queue # << >>
    <3>1. DiskTypes'
      BY <1>13, <2>2 DEF ReadDone, disk, DiskTypes, FileTypes
    <3> QED
      BY <1>13, <2>2, <3>1 DEF ReadDone, Phase, history, ReadInv
  <2> QED
    BY <2>1, <2>2
<1>14. CASE PivotLink
  <2>1. CASE Fatal("exists")
    BY <2>1, FatalTypes
  <2>2. CASE ~Fatal("exists")
    BY <1>14, <2>2, PivotLinkIs DEF memory, history, ReadInv, Wrote
  <2> QED
    BY <2>1, <2>2
<1>15. CASE CopyWrite
  BY <1>15, CopyWriteIs DEF memory, history, ReadInv, Wrote
<1>16. CASE PivotMark
  <2>1. CASE Fatal("exists")
    BY <2>1, FatalTypes
  <2>2. CASE ~Fatal("exists")
    <3>1. DiskTypes'
      BY <1>16, <2>2, PivotMarkIs DEF disk, DiskTypes, FileTypes, Wrote
    <3> QED
      BY <1>16, <2>2, <3>1, PivotMarkIs DEF Phase, history, ReadInv
  <2> QED
    BY <2>1, <2>2
<1>17. CASE PivotDone \/ Ready \/ Report
  <2>1. DiskTypes' /\ trap' \in BOOLEAN
    BY <1>17 DEF PivotDone, Ready, Report, NonEmpty, disk, history, DiskTypes, FileTypes
  <2> QED
    BY <1>17, <2>1 DEF PivotDone, Ready, Report, Phase, memory, ReadInv
<1>18. CASE StatsOpen \/ StatsWrite \/ CrashReadme
  <2>1. DiskTypes'
    BY <1>18, PutPlainIs DEF StatsOpen, StatsWrite, CrashReadme
  <2> QED
    BY <1>18, <2>1 DEF StatsOpen, StatsWrite, CrashReadme, MayKeepCrash, memory, history, ReadInv
<1>19. CASE SaveQueue
  <2>1. DiskTypes' /\ UNCHANGED <<at, inplace, unique_crashes, trap>>
        /\ pc = "fuzz" /\ pc' = "create" /\ Len(queue) < MaxCases
    BY <1>19 DEF SaveQueue, disk, history, DiskTypes, FileTypes
  <2>2. PICK c \in Inputs : queue' = Append(queue, Case(c, Empty))
    BY <1>19 DEF SaveQueue
  <2>3. Len(queue') = Len(queue) + 1 /\ queue' \in Seq(Entry)
    BY <2>2, MoreData
  <2>4. queue' # << >> /\ Len(queue') <= MaxCases
    BY <2>1, <2>3, SessionAssumption
  <2> QED
    BY <2>1, <2>3, <2>4 DEF ReadInv
<1>20. CASE SaveCreate
  <2>1. CASE Fatal("exists")
    BY <2>1, FatalTypes
  <2>2. CASE ~Fatal("exists")
    BY <1>20, <2>2, SaveCreateIs DEF memory, history, ReadInv, Wrote
  <2> QED
    BY <2>1, <2>2
<1>21. CASE SaveWrite
  BY <1>21, SaveWriteIs DEF memory, ReadInv, Wrote
<1>22. CASE TrimUnlink \/ TrimCreate \/ TrimWrite
  BY <1>22, TrimUnlinkIs, TrimCreateIs, TrimWriteIs DEF memory, history, ReadInv, Wrote
<1>23. CASE DetDone
  <2>1. CASE Fatal("bad_mark")
    BY <2>1, FatalTypes
  <2>2. CASE ~Fatal("bad_mark")
    BY <1>23, <2>2, DetDoneIs DEF history, ReadInv, Wrote
  <2> QED
    BY <2>1, <2>2
<1>24. CASE MarkRedundant
  <2>1. CASE Fatal("bad_mark")
    BY <2>1, FatalTypes
  <2>2. CASE ~Fatal("bad_mark")
    BY <1>24, <2>2, MarkRedundantIs DEF history, ReadInv, Wrote
  <2> QED
    BY <2>1, <2>2
<1>25. CASE CrashCreate
  <2>1. CASE Fatal("exists")
    BY <2>1, FatalTypes
  <2>2. CASE ~Fatal("exists")
    BY <1>25, <2>2, CrashCreateIs, SessionAssumption DEF history, ReadInv, Wrote, Ids
  <2> QED
    BY <2>1, <2>2
<1>26. CASE CrashWrite
  BY <1>26, CrashWriteIs DEF memory, ReadInv, Wrote
<1>27. CASE Kill
  <2>1. DiskTypes' /\ trap' \in BOOLEAN /\ Ends("down")
    BY <1>27 DEF Kill, disk, DiskTypes, FileTypes, NonEmpty, Files, Blocked, Saved
  <2> QED
    BY <2>1, EndsTypes
<1> QED
  BY <1>1, <1>2, <1>3, <1>4, <1>5, <1>6, <1>7, <1>8, <1>9, <1>10, <1>11, <1>12, <1>13, <1>14,
     <1>15, <1>16, <1>17, <1>18, <1>19, <1>20, <1>21, <1>22, <1>23, <1>24, <1>25, <1>26, <1>27
     DEF Next
---------------------------------------------------------------------------
(* The steps that take and leave the process between reading its test      *)
(* cases and its end, apart from those of nuke_resume_dir().               *)
LiveStep ==
  \/ ReadCase \/ ReadSeed \/ ReadDone \/ PivotLink \/ CopyWrite \/ PivotMark
  \/ Ready \/ StatsOpen \/ StatsWrite \/ Report
  \/ SaveQueue \/ SaveCreate \/ SaveWrite \/ TrimUnlink \/ TrimCreate \/ TrimWrite
  \/ DetDone \/ MarkRedundant \/ CrashReadme \/ CrashCreate \/ CrashWrite

(* They make and remove no directory, and write to four of them only.      *)
LEMMA LiveStepIs ==
  ASSUME TypeInv, LiveStep
  PROVE  \/ \E why \in FatalReasons : Fatal(why)
         \/ /\ pc \in Live /\ pc' \in {"read"} \cup Pivoting \cup Running
            /\ dirs' = dirs
            /\ \A d \in Dirs \ {QC, QD, QR, CrashDir} : file'[d] = file[d]
<1> USE DEF Live, Pivoting, Running, FatalReasons
<1>1. CASE ReadCase \/ ReadSeed \/ Ready \/ Report \/ SaveQueue
  BY <1>1 DEF ReadCase, ReadSeed, Ready, Report, SaveQueue, disk
<1>2. CASE ReadDone
  BY <1>2 DEF ReadDone, disk, Phase
<1>3. CASE PivotLink \/ CopyWrite
  BY <1>3, PivotLinkIs, CopyWriteIs, DirNames DEF Wrote
<1>4. CASE PivotMark
  BY <1>4, PivotMarkIs, DirNames DEF Wrote, disk, Phase
<1>5. CASE StatsOpen \/ StatsWrite \/ CrashReadme
  BY <1>5 DEF StatsOpen, StatsWrite, CrashReadme, PutPlain
<1>6. CASE SaveCreate \/ SaveWrite
  BY <1>6, SaveCreateIs, SaveWriteIs, DirNames DEF Wrote
<1>7. CASE TrimUnlink \/ TrimCreate \/ TrimWrite
  BY <1>7, TrimUnlinkIs, TrimCreateIs, TrimWriteIs, DirNames DEF Wrote
<1>8. CASE DetDone
  BY <1>8, DetDoneIs, DirNames DEF Wrote
<1>9. CASE MarkRedundant
  BY <1>9, MarkRedundantIs, DirNames DEF Wrote
<1>10. CASE CrashCreate
  BY <1>10, CrashCreateIs, DirNames DEF Wrote
<1>11. CASE CrashWrite
  BY <1>11, CrashWriteIs, DirNames DEF Wrote
<1> QED
  BY <1>1, <1>2, <1>3, <1>4, <1>5, <1>6, <1>7, <1>8, <1>9, <1>10, <1>11
     DEF LiveStep

\* The steps, those of a running process taken together.
LEMMA NextIs ==
  ASSUME [Next]_vars
  PROVE  \/ UNCHANGED vars \/ \E resume \in BOOLEAN : Start(resume)
         \/ DeleteFile \/ RemoveDir \/ UnlinkFile \/ MoveQueue \/ BackupCrashes \/ MakeDir
         \/ CreateFile \/ Proceed \/ PivotDone \/ LiveStep \/ Kill
BY DEF Next, LiveStep

(* The directories: when the process ends, and while it lives.             *)
LEMMA DirEnds ==
  ASSUME DirInv, pc' \in Dead, dirs' = dirs, file' = file, plain' = plain, had' = had
  PROVE  DirInv'
<1>1. /\ pc' \notin {"clean", "setup", "nuke", "ready"} \cup Live
  BY DEF Dead, FatalReasons, Live, Pivoting, Running
<1>2. Tidy'
  BY DEF DirInv, Tidy
<1> QED
  BY <1>1, <1>2 DEF DirInv, CleanInv, SetUpInv, NukeInv, MadeInv

\* A fatal error changes no directory.
LEMMA DirFatal ==
  ASSUME DirInv, NEW why \in FatalReasons, Fatal(why)
  PROVE  DirInv'
<1>1. pc' \in Dead /\ dirs' = dirs /\ file' = file /\ plain' = plain /\ had' = had
  BY DEF Fatal, Ends, Dead, disk, history
<1> QED
  BY <1>1, DirEnds

\* A running process changes no directory.
LEMMA DirLive ==
  ASSUME DirInv, pc \in Live, pc' \in {"read"} \cup Pivoting \cup Running, dirs' = dirs,
         \A d \in Dirs \ {QC, QD, QR, CrashDir} : file'[d] = file[d]
  PROVE  DirInv'
<1>1. pc \notin Dead /\ pc' \notin {"clean", "setup", "nuke", "ready"} /\ pc' \in Live
  BY DEF Dead, FatalReasons, Live, Pivoting, Running
<1>2. {QC, QS, QD, QR, CrashDir} \subseteq dirs /\ Out \in dirs
  BY <1>1 DEF DirInv, MadeInv, Tidy
<1>3. Tidy'
  BY <1>2 DEF DirInv, Tidy
<1>4. MadeInv'
  BY <1>1, <1>2 DEF MadeInv
<1> QED
  BY <1>1, <1>3, <1>4 DEF DirInv, CleanInv, SetUpInv, NukeInv

\* Every step keeps what is known about the directories.
LEMMA DirStep ==
  ASSUME TypeInv, Blank, DirInv, [Next]_vars
  PROVE  DirInv'
<1>1. inplace \in BOOLEAN /\ DiskTypes /\ at \in Nat
  BY DEF TypeInv, MemoryTypes
<1>2. CASE UNCHANGED vars
  BY <1>2 DEF vars, disk, memory, history, DirInv, Tidy, CleanInv, SetUpInv, NukeInv, MadeInv
<1>3. ASSUME NEW resume \in BOOLEAN, Start(resume)
      PROVE  DirInv'
  <2>1. CASE StartNew(resume)
    <3>1. dirs = {} /\ dirs' = {Out} /\ had' = {} /\ file' = file /\ plain' = plain
          /\ plain["plot_data"] = Absent
      BY <2>1 DEF StartNew, history, DirInv, Tidy
    <3>2. Tidy'
      BY <3>1, DirNames DEF DirInv, Tidy
    <3>3. CASE resume
      BY <2>1, <3>2, <3>3 DEF StartNew, Ends, DirInv, CleanInv, SetUpInv, NukeInv, MadeInv,
         Live, Pivoting, Running
    <3>4. CASE ~resume
      <4>1. pc' = "setup" /\ at' = 1
        BY <2>1, <3>4 DEF StartNew, Phase
      <4>2. SetUpInv'
        BY <3>1, <4>1, DirNames DEF SetUpInv
      <4> QED
        BY <3>2, <4>1, <4>2 DEF DirInv, CleanInv, NukeInv, MadeInv, Live, Pivoting, Running
    <3> QED
      BY <3>3, <3>4
  <2>2. CASE StartMalformed \/ StartAtRisk(resume)
    BY <2>2, DirFatal DEF StartMalformed, StartAtRisk, FatalReasons
  <2>3. CASE StartOver(resume)
    <3>1. pc' = "clean" /\ at' = 1 /\ UNCHANGED disk /\ Out \in dirs
      BY <2>3 DEF StartOver, Phase
    <3>2. Tidy'
      BY <3>1 DEF DirInv, Tidy, disk
    <3>3. CleanInv'
      BY <3>1 DEF CleanInv
    <3> QED
      BY <3>1, <3>2, <3>3 DEF DirInv, SetUpInv, NukeInv, MadeInv, Live, Pivoting, Running
  <2> QED
    BY <1>3, <2>1, <2>2, <2>3 DEF Start
<1>4. CASE DeleteFile
  <2>1. UNCHANGED <<pc, at, inplace, had, dirs, plain>>
    BY <1>1, <1>4, DeleteFileIs DEF Wrote, memory, history
  <2>2. \A d \in Dirs, i \in Ids : file[d][i] = Absent => file'[d][i] = Absent
    BY <1>4, DeleteFileIs DEF Wrote
  <2> QED
    BY <2>1, <2>2 DEF DirInv, Tidy, CleanInv, SetUpInv, NukeInv, MadeInv
<1>5. CASE RemoveDir
  <2>1. CASE NonEmpty(On)
    BY <1>5, <2>1, DirFatal DEF RemoveDir, FatalReasons
  <2>2. CASE ~NonEmpty(On)
    <3>1. /\ dirs' = dirs \ {On} /\ at' = at + 1
          /\ UNCHANGED <<pc, inplace, file, plain, had>>
      BY <1>5, <2>2 DEF RemoveDir, Done, history
    <3>2. /\ \A i \in Ids : file[On][i] = Absent
          /\ On = CrashDir => plain["README.txt"] = Absent
      BY <2>2 DEF NonEmpty, Files, Blocked
    <3>3. \/ /\ pc = "clean"
             /\ \/ at = 1 /\ ~inplace /\ On = Synced
                \/ at = 2 /\ On = QD
                \/ at = 3 /\ On = QR
                \/ at = 4 /\ On = QS
                \/ at = 5 /\ On = QC
                \/ at = 7 /\ On = CrashDir
          \/ /\ pc = "nuke" /\ inplace
             /\ \/ at = 1 /\ On = RD
                \/ at = 2 /\ On = RR
                \/ at = 3 /\ On = RS
                \/ at = 4 /\ On = RC
      BY <1>1, <1>5, DeleteIs, RmdirIs DEF RemoveDir
    <3>4. On # Out
      BY <3>3, DirNames
    <3>5. Tidy'
      BY <3>1, <3>2, <3>4 DEF DirInv, Tidy
    <3>6. CASE pc = "clean"
      <4>1. CleanInv'
        BY <1>1, <3>1, <3>3, <3>6 DEF DirInv, CleanInv
      <4> QED
        BY <3>1, <3>5, <3>6, <4>1 DEF DirInv, SetUpInv, NukeInv, MadeInv, Live, Pivoting, Running
    <3>7. CASE pc = "nuke"
      <4>1. NukeInv'
        BY <1>1, <3>1, <3>3, <3>7 DEF DirInv, NukeInv
      <4>2. MadeInv'
        BY <3>1, <3>3, <3>7, DirNames DEF DirInv, MadeInv
      <4> QED
        BY <3>1, <3>5, <3>7, <4>1, <4>2 DEF DirInv, SetUpInv, CleanInv
    <3> QED
      BY <3>3, <3>6, <3>7
  <2> QED
    BY <2>1, <2>2
<1>6. CASE UnlinkFile
  <2>1. /\ at' = at + 1 /\ UNCHANGED <<pc, inplace, had>> /\ PutPlain(On, Absent)
        /\ pc = "clean"
        /\ \/ inplace /\ at = 8 /\ On = "plot_data"
           \/ ~inplace /\ at = 6 /\ On = "README.txt"
           \/ ~inplace /\ at = 8 /\ On = "fuzzer_stats"
           \/ ~inplace /\ at = 9 /\ On = "plot_data"
    BY <1>1, <1>6, UnlinkIs DEF UnlinkFile, Done, history
  <2>2. /\ \A g \in {"README.txt", "fuzzer_stats", "plot_data"} :
               plain'[g] = IF g = On THEN Absent ELSE plain[g]
        /\ dirs' = dirs /\ file' = file
    BY <1>1, <2>1, PutPlainIs
  <2>3. Tidy'
    BY <2>1, <2>2 DEF DirInv, Tidy, Dead, FatalReasons
  <2>4. CleanInv'
    BY <1>1, <2>1, <2>2 DEF DirInv, CleanInv
  <2> QED
    BY <2>1, <2>3, <2>4 DEF DirInv, SetUpInv, NukeInv, MadeInv, Live, Pivoting, Running
<1>7. CASE MoveQueue
  <2>1. /\ pc = "clean" /\ inplace /\ at = 1 /\ at' = 2
        /\ UNCHANGED <<pc, inplace, had, plain>>
    BY <1>1, <1>7, MoveIs DEF MoveQueue, Done, history
  <2>2. Out \in dirs
    BY <2>1 DEF DirInv, Tidy, Dead, FatalReasons
  <2>3. Tidy'
    <3>1. CASE MayMove
      <4>1. /\ \A d \in {CrashDir, Synced, Out} :
                    file'[d] = file[d] /\ (d \in dirs' <=> d \in dirs)
            /\ Out \in dirs'
        BY <1>1, <1>7, <2>2, <3>1, MovedIs
      <4>2. \A d \in Dirs \ dirs', i \in Ids : file'[d][i] = Absent
        BY <1>1, <1>7, <3>1, <4>1, MovedIs, DirNames DEF DirInv, Tidy
      <4> QED
        BY <2>1, <4>1, <4>2 DEF DirInv, Tidy
    <3>2. CASE ~MayMove
      BY <1>7, <2>1, <3>2 DEF MoveQueue, DirInv, Tidy
    <3> QED
      BY <3>1, <3>2
  <2>4. CleanInv'
    BY <2>1 DEF CleanInv
  <2> QED
    BY <2>1, <2>3, <2>4 DEF DirInv, SetUpInv, NukeInv, MadeInv, Live, Pivoting, Running
<1>8. CASE BackupCrashes
  <2>1. /\ pc = "clean" /\ inplace /\ at = 6 /\ at' = 7
        /\ UNCHANGED <<pc, inplace, had>>
    BY <1>1, <1>8, BackupIs DEF BackupCrashes, Done
  <2>2. /\ dirs' = dirs \ {CrashDir}
        /\ \A i \in Ids : file'[CrashDir][i] = Absent
        /\ \A d \in Dirs \ {CrashDir} : file'[d] = file[d]
        /\ plain'["README.txt"] = Absent
        /\ \A f \in {"fuzzer_stats", "plot_data"} : plain'[f] = plain[f]
    BY <1>1, <1>8, BackedUpIs
  <2>3. Tidy'
    BY <2>1, <2>2, DirNames DEF DirInv, Tidy
  <2>4. CleanInv'
    BY <1>1, <2>1, <2>2 DEF DirInv, CleanInv
  <2> QED
    BY <2>1, <2>3, <2>4 DEF DirInv, SetUpInv, NukeInv, MadeInv, Live, Pivoting, Running
<1>9. CASE MakeDir
  <2>1. CASE On \in dirs /\ Is("mkdir")
    BY <1>9, <2>1, DirFatal DEF MakeDir, FatalReasons
  <2>2. CASE ~(On \in dirs /\ Is("mkdir"))
    <3>1. /\ dirs' = dirs \cup {On} /\ at' = at + 1
          /\ UNCHANGED <<pc, inplace, file, plain, had>>
      BY <1>9, <2>2 DEF MakeDir, Done, history
    <3>2. /\ pc = "setup"
          /\ \/ at = 1 /\ On = QC
             \/ at = 2 /\ On = QS
             \/ at = 3 /\ On = QD
             \/ at = 4 /\ On = QR
             \/ at = 5 /\ On = Synced
             \/ at = 6 /\ On = CrashDir
      BY <1>1, <1>9, MkdirIs DEF MakeDir
    <3>3. Out \in dirs
      BY <3>2 DEF DirInv, Tidy, Dead, FatalReasons
    <3>4. Tidy'
      BY <3>1, <3>3 DEF DirInv, Tidy
    <3>5. SetUpInv'
      BY <1>1, <3>1, <3>2, DirNames DEF DirInv, SetUpInv
    <3>6. MadeInv'
      BY <1>1, <3>1, <3>2 DEF DirInv, MadeInv, Live, Pivoting, Running
    <3> QED
      BY <3>1, <3>2, <3>4, <3>5, <3>6 DEF DirInv, CleanInv, NukeInv
  <2> QED
    BY <2>1, <2>2
<1>10. CASE CreateFile
  <2>1. CASE plain[On] # Absent
    BY <1>10, <2>1, DirFatal DEF CreateFile, FatalReasons
  <2>2. CASE plain[On] = Absent
    <3>1. /\ pc = "setup" /\ at = 7 /\ at' = 8 /\ On = "plot_data"
          /\ UNCHANGED <<pc, inplace, had>> /\ PutPlain(On, Empty)
      BY <1>1, <1>10, <2>2, CreateIs DEF CreateFile, Done, history
    <3>2. /\ \A g \in {"README.txt", "fuzzer_stats", "plot_data"} :
                 plain'[g] = IF g = On THEN Empty ELSE plain[g]
          /\ dirs' = dirs /\ file' = file
      BY <1>1, <3>1, PutPlainIs
    <3>3. Out \in dirs
      BY <3>1 DEF DirInv, Tidy, Dead, FatalReasons
    <3>4. Tidy'
      BY <3>1, <3>2, <3>3 DEF DirInv, Tidy
    <3>5. SetUpInv' /\ MadeInv'
      BY <3>1, <3>2 DEF DirInv, SetUpInv, MadeInv, Live, Pivoting, Running
    <3> QED
      BY <3>1, <3>4, <3>5 DEF DirInv, CleanInv, NukeInv
  <2> QED
    BY <2>1, <2>2
<1>11. CASE Proceed
  <2>1. UNCHANGED <<dirs, file, plain, inplace, had>> /\ at > Len(Calls)
    BY <1>11 DEF Proceed, disk, history
  <2>2. CASE pc = "clean" /\ Phase("setup", 1)
    <3>1. pc' = "setup" /\ at' = 1 /\ at > (IF inplace THEN 8 ELSE 9)
      BY <1>1, <2>1, <2>2, CallsEnd DEF Phase
    <3>2. Tidy'
      BY <2>1, <2>2, <3>1 DEF DirInv, Tidy, Dead, FatalReasons
    <3>3. SetUpInv'
      BY <1>1, <2>1, <2>2, <3>1 DEF DirInv, CleanInv, SetUpInv
    <3> QED
      BY <3>1, <3>2, <3>3 DEF DirInv, CleanInv, NukeInv, MadeInv, Live, Pivoting, Running
  <2>3. CASE pc = "setup" /\ Phase("read", 0)
    <3>1. pc' = "read" /\ at > 7
      BY <1>1, <2>1, <2>3, CallsEnd DEF Phase
    <3>2. Tidy'
      BY <2>1, <2>3, <3>1 DEF DirInv, Tidy, Dead, FatalReasons
    <3>3. MadeInv'
      BY <1>1, <2>1, <2>3, <3>1 DEF DirInv, MadeInv
    <3> QED
      BY <3>1, <3>2, <3>3 DEF DirInv, CleanInv, NukeInv, SetUpInv
  <2>4. CASE pc = "nuke" /\ Phase("ready", 0)
    <3>1. pc' = "ready" /\ at > (IF inplace THEN 4 ELSE 0)
      BY <1>1, <2>1, <2>4, CallsEnd DEF Phase
    <3>2. Tidy'
      BY <2>1, <2>4, <3>1 DEF DirInv, Tidy, Dead, FatalReasons
    <3>3. MadeInv'
      BY <2>1, <2>4, <3>1 DEF DirInv, MadeInv, Live
    <3>4. NukeInv'
      BY <1>1, <2>1, <2>4, <3>1 DEF DirInv, NukeInv
    <3> QED
      BY <3>1, <3>2, <3>3, <3>4 DEF DirInv, CleanInv, SetUpInv
  <2> QED
    BY <1>11, <2>2, <2>3, <2>4 DEF Proceed
<1>12. CASE PivotDone
  <2>1. pc = "pivot" /\ pc' = "nuke" /\ at' = 1 /\ UNCHANGED <<dirs, file, plain, inplace, had>>
    BY <1>12 DEF PivotDone, Phase, disk, history
  <2>2. Tidy'
    BY <2>1 DEF DirInv, Tidy, Dead, FatalReasons
  <2>3. NukeInv' /\ MadeInv'
    BY <1>1, <2>1 DEF DirInv, NukeInv, MadeInv, Live, Pivoting
  <2> QED
    BY <2>1, <2>2, <2>3 DEF DirInv, CleanInv, SetUpInv
<1>13. CASE LiveStep
  BY <1>13, LiveStepIs, DirFatal, DirLive
<1>14. CASE Kill
  BY <1>14, DirEnds DEF Kill, Ends, disk, Dead
<1> QED
  BY <1>2, <1>3, <1>4, <1>5, <1>6, <1>7, <1>8, <1>9, <1>10, <1>11, <1>12, <1>13, <1>14, NextIs
---------------------------------------------------------------------------
(* The queue directory is what the process has in memory.                  *)
LEMMA QueueOut ==
  ASSUME pc' \in Dead \cup {"clean"}
  PROVE  QueueInv'
BY DEF QueueInv, Dead, FatalReasons, Pivoting, Running

\* After a fatal error the process does not run.
LEMMA FatalOut ==
  ASSUME NEW why \in FatalReasons, Fatal(why)
  PROVE  pc' \in Dead
BY DEF Fatal, Ends, Dead

\* The queue files stay, or change while the process runs.
LEMMA QueueSame ==
  ASSUME QueueInv, queue' = queue, at' = at,
         file'[QC] = file[QC], file'[QD] = file[QD], file'[QR] = file[QR],
         \/ pc' = pc
         \/ pc \in {"nuke", "ready"} \cup Running /\ pc' \in Running \ {"create"}
  PROVE  QueueInv'
<1>1. \A i \in Ids : (Vacant(i) <=> Vacant(i)') /\ (MarkedAs(i) <=> MarkedAs(i)')
                     /\ (Linked(i) <=> Linked(i)') /\ (Unmarked(i) <=> Unmarked(i)')
  BY DEF Vacant, MarkedAs, Linked, Unmarked
<1>2. CASE pc' = pc
  BY <1>2 DEF QueueInv, Vacant, MarkedAs, Linked, Unmarked, Pivoting, Running
<1>3. CASE pc \in {"nuke", "ready"} \cup Running /\ pc' \in Running \ {"create"}
  BY <1>1, <1>3 DEF QueueInv, Linked, Pivoting, Running
<1> QED
  BY <1>2, <1>3

\* A queue file is written or unlinked while the process runs.
LEMMA QueuePut ==
  ASSUME TypeInv, QueueInv, pc \in Running, pc' \in Running \ {"create"}, queue' = queue,
         NEW k \in DOMAIN queue, NEW c \in {Absent, Empty, queue[k].data},
         Wrote(QC, k - 1, c)
  PROVE  QueueInv'
<1>1. MemoryTypes /\ k \in 1 .. Len(queue) /\ Len(queue) \in Nat /\ k - 1 \in Ids
  BY QueueIs DEF TypeInv, MemoryTypes
<1>2. /\ file'[QD] = file[QD] /\ file'[QR] = file[QR] /\ file'[QC][k - 1] = c
      /\ \A j \in Ids \ {k - 1} : file'[QC][j] = file[QC][j]
  BY DirNames DEF Wrote
<1>3. ASSUME NEW i \in Ids, i < Len(queue)
      PROVE  file'[QC][i] \in {Absent, Empty, queue[i + 1].data} /\ MarkedAs(i)'
  <2>1. file[QC][i] \in {Absent, Empty, queue[i + 1].data} /\ MarkedAs(i)
    BY <1>3 DEF QueueInv
  <2>2. MarkedAs(i)'
    BY <1>2, <2>1 DEF MarkedAs
  <2>3. file'[QC][i] \in {Absent, Empty, queue[i + 1].data}
    BY <1>1, <1>2, <2>1 DEF Ids
  <2> QED
    BY <2>2, <2>3
<1>4. ASSUME NEW i \in Ids, i >= Len(queue)
      PROVE  Vacant(i)'
  <2>1. Vacant(i) /\ i # k - 1
    BY <1>1, <1>4, SessionAssumption DEF QueueInv, Running, Ids
  <2> QED
    BY <1>2, <2>1 DEF Vacant
<1> QED
  BY <1>3, <1>4 DEF QueueInv, Pivoting, Running

\* Every step keeps what is known about the queue directory.
LEMMA QueueStep ==
  ASSUME TypeInv, TypeInv', Blank, DirInv, QueueInv, [Next]_vars
  PROVE  QueueInv'
<1>1. /\ inplace \in BOOLEAN /\ DiskTypes /\ MemoryTypes /\ at \in Nat
      /\ queue \in Seq(Entry) /\ Len(queue) \in Nat /\ DOMAIN queue = 1 .. Len(queue)
  BY DEF TypeInv, MemoryTypes
<1>2. QC \in Dirs /\ QD \in Dirs /\ QR \in Dirs /\ Len(queue) \in Nat
  BY <1>1, DirNames
<1>3. CASE UNCHANGED vars
  BY <1>3, QueueSame DEF vars, disk, memory
<1>4. ASSUME NEW resume \in BOOLEAN, Start(resume)
      PROVE  QueueInv'
  <2>1. CASE StartNew(resume)
    <3>1. dirs = {} /\ file' = file
      BY <2>1 DEF StartNew, DirInv, Tidy
    <3>2. \A i \in Ids : Vacant(i)'
      BY <1>2, <3>1 DEF DirInv, Tidy, Vacant
    <3>3. pc' \in Dead \cup {"setup"}
      BY <2>1 DEF StartNew, Ends, Phase, Dead, FatalReasons
    <3>4. CASE pc' = "setup"
      BY <3>2, <3>4 DEF QueueInv, Pivoting, Running
    <3> QED
      BY <3>3, <3>4, QueueOut
  <2>2. CASE StartMalformed \/ StartAtRisk(resume)
    BY <2>2, FatalOut, QueueOut DEF StartMalformed, StartAtRisk, FatalReasons
  <2>3. CASE StartOver(resume)
    BY <2>3, QueueOut DEF StartOver, Phase
  <2> QED
    BY <1>4, <2>1, <2>2, <2>3 DEF Start
<1>5. CASE DeleteFile
  <2>1. CASE pc = "clean"
    BY <1>5, <2>1, QueueOut DEF DeleteFile
  <2>2. CASE pc # "clean"
    <3>1. On \in {RD, RR, RC}
      BY <1>1, <1>5, <2>2, DeleteIs DEF DeleteFile
    <3>2. file'[QC] = file[QC] /\ file'[QD] = file[QD] /\ file'[QR] = file[QR]
      BY <1>2, <1>5, <3>1, DeleteFileIs, DirNames DEF Wrote
    <3> QED
      BY <1>5, <3>2, QueueSame DEF DeleteFile, memory
  <2> QED
    BY <2>1, <2>2
<1>6. CASE RemoveDir
  <2>1. CASE NonEmpty(On)
    BY <1>6, <2>1, FatalOut, QueueOut DEF RemoveDir, FatalReasons
  <2>2. CASE ~NonEmpty(On)
    <3>1. UNCHANGED <<pc, queue, file>> /\ pc \in {"clean", "nuke"}
      BY <1>1, <1>6, <2>2, DeleteIs, RmdirIs DEF RemoveDir, Done
    <3>2. CASE pc = "clean"
      BY <3>1, <3>2, QueueOut
    <3>3. CASE pc = "nuke"
      BY <3>1, <3>3 DEF QueueInv, Vacant, Linked, MarkedAs, Pivoting, Running
    <3> QED
      BY <3>1, <3>2, <3>3
  <2> QED
    BY <2>1, <2>2
<1>7. CASE UnlinkFile \/ MoveQueue \/ BackupCrashes
  BY <1>1, <1>7, UnlinkIs, MoveIs, BackupIs, QueueOut
     DEF UnlinkFile, MoveQueue, BackupCrashes, Done
<1>8. CASE MakeDir \/ CreateFile
  <2>1. pc = "setup" /\ file' = file
    BY <1>1, <1>8, MkdirIs, CreateIs DEF MakeDir, CreateFile, PutPlain, Fatal, disk
  <2>2. pc' \in Dead \cup {"setup"}
    BY <1>8, <2>1, FatalOut DEF MakeDir, CreateFile, Done, FatalReasons
  <2>3. CASE pc' = "setup"
    BY <2>1, <2>3 DEF QueueInv, Vacant, Pivoting, Running
  <2> QED
    BY <2>2, <2>3, QueueOut
<1>9. CASE Proceed
  <2>1. UNCHANGED <<file, queue>> /\ at > Len(Calls)
    BY <1>9 DEF Proceed, disk
  <2>2. CASE pc = "clean" /\ Phase("setup", 1)
    <3>1. pc' = "setup" /\ at > (IF inplace THEN 8 ELSE 9)
      BY <1>1, <2>1, <2>2, CallsEnd DEF Phase
    <3>2. QC \notin dirs /\ QD \notin dirs /\ QR \notin dirs
      BY <1>1, <2>2, <3>1 DEF DirInv, CleanInv
    <3>3. \A i \in Ids : Vacant(i)'
      BY <1>2, <2>1, <3>2 DEF DirInv, Tidy, Vacant
    <3> QED
      BY <3>1, <3>3 DEF QueueInv, Pivoting, Running
  <2>3. CASE pc = "setup" /\ Phase("read", 0)
    <3>1. pc' = "read" /\ queue' = << >>
      BY <2>1, <2>3 DEF Phase, Blank
    <3>2. \A i \in Ids : Vacant(i)'
      BY <2>1, <2>3 DEF QueueInv, Vacant
    <3> QED
      BY <3>1, <3>2 DEF QueueInv, Pivoting, Running
  <2>4. CASE pc = "nuke" /\ Phase("ready", 0)
    BY <2>1, <2>4 DEF Phase, QueueInv, Vacant, Linked, MarkedAs, Pivoting, Running
  <2> QED
    BY <1>9, <2>2, <2>3, <2>4 DEF Proceed
<1>10. CASE PivotDone
  <2>1. pc = "pivot" /\ at = Len(queue) /\ pc' = "nuke" /\ UNCHANGED <<file, queue>>
    BY <1>10 DEF PivotDone, Phase, disk
  <2>2. ASSUME NEW i \in Ids
        PROVE  /\ i < Len(queue) => Linked(i)
               /\ i >= Len(queue) => Vacant(i)
    <3>1. /\ i < at => Linked(i)
          /\ i > at => Vacant(i)
          /\ i = at => Vacant(i)
      BY <2>1 DEF QueueInv, Pivoting
    <3>2. i \in Nat
      BY IdsAre
    <3> QED
      BY <1>2, <2>1, <3>1, <3>2
  <2> QED
    BY <2>1, <2>2 DEF QueueInv, Vacant, Linked, MarkedAs, Pivoting, Running
<1>11. CASE Kill
  BY <1>11, QueueOut DEF Kill, Ends, Dead
<1>12. CASE LiveStep
  <2>1. CASE \E why \in FatalReasons : Fatal(why)
    BY <2>1, FatalOut, QueueOut
  <2>2. CASE ReadCase \/ ReadSeed
    <3>1. pc = "read" /\ pc' = "read" /\ file' = file
      BY <2>2 DEF ReadCase, ReadSeed, disk
    <3>2. \A k \in DOMAIN queue' : ~queue'[k].redundant
      <4>1. CASE queue' = queue
        BY <3>1, <4>1 DEF QueueInv
      <4>2. CASE queue' # queue
        <5>1. PICK c, m : queue' = Append(queue, Case(c, m))
          BY <2>2, <4>2 DEF ReadCase, ReadSeed
        <5>2. Case(c, m).redundant = FALSE
          BY DEF Case
        <5>3. /\ DOMAIN queue' = 1 .. Len(queue) + 1
              /\ \A k \in 1 .. Len(queue) : queue'[k] = queue[k]
              /\ queue'[Len(queue) + 1] = Case(c, m)
          BY <1>1, <5>1
        <5> QED
          BY <1>1, <3>1, <5>2, <5>3 DEF QueueInv
      <4> QED
        BY <4>1, <4>2
    <3> QED
      BY <3>1, <3>2 DEF QueueInv, Vacant, Pivoting, Running
  <2>3. CASE ReadDone /\ ~\E why \in FatalReasons : Fatal(why)
    <3>1. pc = "read" /\ pc' = "pivot" /\ at' = 0 /\ UNCHANGED <<file, queue>>
      BY <2>3 DEF ReadDone, Phase, FatalReasons, disk
    <3>2. \A i \in Ids : Vacant(i)'
      BY <3>1 DEF QueueInv, Vacant
    <3>3. \A i \in Ids : ~(i < 0)
      BY SessionAssumption DEF Ids
    <3> QED
      BY <1>1, <3>1, <3>2, <3>3 DEF QueueInv, Pivoting, Running
  <2>4. CASE PivotLink /\ ~\E why \in FatalReasons : Fatal(why)
    <3>1. /\ pc = "pivot" /\ at \in Ids /\ at < Len(queue) /\ UNCHANGED <<at, queue>>
          /\ \/ pc' = "mark" /\ file'[QC][at] = queue[at + 1].data
             \/ pc' = "copy" /\ file'[QC][at] = Empty
          /\ file'[QD] = file[QD] /\ file'[QR] = file[QR]
          /\ \A j \in Ids \ {at} : file'[QC][j] = file[QC][j]
      BY <1>1, <2>4, PivotLinkIs, DirNames DEF Wrote, memory, FatalReasons
    <3>2. /\ ~queue[at + 1].redundant /\ Vacant(at)
          /\ \A k \in DOMAIN queue : ~queue[k].redundant
      BY <1>1, <3>1 DEF QueueInv, Pivoting
    <3>3. ASSUME NEW i \in Ids
          PROVE  (i < at => Linked(i)') /\ (i > at => Vacant(i)')
      BY <1>1, <3>1, SessionAssumption
         DEF QueueInv, Pivoting, Linked, Vacant, MarkedAs, Ids
    <3>4. Unmarked(at)'
      BY <3>1, <3>2 DEF Vacant, Unmarked
    <3> QED
      BY <1>1, <3>1, <3>2, <3>3, <3>4 DEF QueueInv, Pivoting, Running
  <2>5. CASE CopyWrite
    <3>1. /\ pc = "copy" /\ pc' = "mark" /\ at \in Ids /\ UNCHANGED <<at, queue>>
          /\ file'[QC][at] = queue[at + 1].data
          /\ file'[QD] = file[QD] /\ file'[QR] = file[QR]
          /\ \A j \in Ids \ {at} : file'[QC][j] = file[QC][j]
      BY <2>5, CopyWriteIs, DirNames DEF Wrote, memory
    <3>2. ASSUME NEW i \in Ids
          PROVE  (i < at => Linked(i)') /\ (i > at => Vacant(i)')
      BY <1>1, <3>1, SessionAssumption
         DEF QueueInv, Pivoting, Linked, Vacant, MarkedAs, Ids
    <3>3. Unmarked(at)'
      BY <3>1 DEF QueueInv, Unmarked
    <3> QED
      BY <1>1, <3>1, <3>2, <3>3 DEF QueueInv, Pivoting, Running
  <2>6. CASE PivotMark /\ ~\E why \in FatalReasons : Fatal(why)
    <3>1. /\ pc = "mark" /\ pc' = "pivot" /\ at \in Ids /\ at + 1 \in DOMAIN queue
          /\ at' = at + 1 /\ queue' = queue
          /\ file'[QD][at] = (IF queue[at + 1].det = Empty THEN file[QD][at]
                              ELSE queue[at + 1].det)
          /\ file'[QC] = file[QC] /\ file'[QR] = file[QR]
          /\ \A j \in Ids \ {at} : file'[QD][j] = file[QD][j]
      BY <2>6, PivotMarkIs, DirNames DEF Wrote, Phase, disk, FatalReasons
    <3>2. Unmarked(at) /\ file[QC][at] = queue[at + 1].data
      BY <3>1 DEF QueueInv
    <3>3. ASSUME NEW i \in Ids, i = at
          PROVE  Linked(i)'
      <4>1. CASE queue[i + 1].det = Empty
        BY <3>1, <3>2, <3>3, <4>1 DEF Unmarked, Linked, MarkedAs
      <4>2. CASE queue[i + 1].det # Empty
        BY <3>1, <3>2, <3>3, <4>2 DEF Unmarked, Linked, MarkedAs
      <4> QED
        BY <4>1, <4>2
    <3>4. ASSUME NEW i \in Ids
          PROVE  (i < at => Linked(i)') /\ (i > at => Vacant(i)')
      BY <1>1, <3>1, SessionAssumption
         DEF QueueInv, Pivoting, Linked, Vacant, MarkedAs, Ids
    <3>5. ASSUME NEW i \in Ids
          PROVE  (i < at + 1 => Linked(i)') /\ (i >= at + 1 => Vacant(i)')
      <4>1. i \in Nat
        BY IdsAre
      <4>2. /\ i < at + 1 => i < at \/ i = at
            /\ i >= at + 1 => i > at
        BY <1>1, <4>1
      <4> QED
        BY <3>3, <3>4, <4>2
    <3> QED
      BY <1>1, <3>1, <3>5, SessionAssumption DEF QueueInv, Pivoting, Running, Ids
  <2>7. CASE Ready \/ StatsOpen \/ StatsWrite \/ Report \/ CrashReadme
    BY <2>7, QueueSame
       DEF Ready, StatsOpen, StatsWrite, Report, CrashReadme, PutPlain, disk, memory, Running
  <2>8. CASE SaveQueue
    <3>1. pc = "fuzz" /\ pc' = "create" /\ file' = file /\ Len(queue) < MaxCases
      BY <2>8 DEF SaveQueue, disk
    <3>2. PICK c \in Inputs : queue' = Append(queue, Case(c, Empty))
      BY <2>8 DEF SaveQueue
    <3>3. /\ Len(queue') = Len(queue) + 1 /\ \A k \in 1 .. Len(queue) : queue'[k] = queue[k]
          /\ queue'[Len(queue) + 1].det = Empty /\ queue'[Len(queue) + 1].redundant = FALSE
      BY <1>1, <3>2, MoreData
    <3>4. Len(queue) \in Ids /\ Vacant(Len(queue))
      BY <1>1, <3>1, SessionAssumption DEF QueueInv, Running, Ids
    <3>5. ASSUME NEW i \in Ids, i < Len(queue)
          PROVE  file'[QC][i] \in {Absent, Empty, queue'[i + 1].data} /\ MarkedAs(i)'
      <4>1. file[QC][i] \in {Absent, Empty, queue[i + 1].data} /\ MarkedAs(i)
        BY <3>1, <3>5 DEF QueueInv, Running
      <4>2. queue'[i + 1] = queue[i + 1]
        BY <1>1, <3>3, <3>5, SessionAssumption DEF Ids
      <4> QED
        BY <3>1, <4>1, <4>2 DEF MarkedAs
    <3>6. \A i \in Ids : i = Len(queue) => MarkedAs(i)' /\ file'[QC][i] = Absent
      <4>1. \A i \in Ids : i = Len(queue) =>
               /\ file'[QD][i] = Absent /\ file'[QR][i] = Absent /\ file'[QC][i] = Absent
        BY <3>1, <3>4 DEF Vacant
      <4>2. \A i \in Ids : i = Len(queue) =>
               queue'[i + 1].det = Empty /\ queue'[i + 1].redundant = FALSE
        BY <3>3
      <4> QED
        BY <4>1, <4>2 DEF MarkedAs
    <3>7. ASSUME NEW i \in Ids, i < Len(queue')
          PROVE  file'[QC][i] \in {Absent, Empty, queue'[i + 1].data} /\ MarkedAs(i)'
      <4>1. i \in Nat /\ i < Len(queue) + 1
        BY <3>3, <3>7, IdsAre
      <4>2. i < Len(queue) \/ i = Len(queue)
        BY <1>2, <4>1
      <4> QED
        BY <3>5, <3>6, <4>2
    <3>8. ASSUME NEW i \in Ids, i >= Len(queue')
          PROVE  Vacant(i)'
      <4>1. i >= Len(queue)
        BY <1>1, <3>3, <3>8, SessionAssumption DEF Ids
      <4> QED
        BY <3>1, <4>1 DEF QueueInv, Running, Vacant
    <3>9. file'[QC][Len(queue') - 1] = Absent
      <4>1. Len(queue') - 1 = Len(queue)
        BY <1>2, <3>3
      <4> QED
        BY <3>4, <3>6, <4>1
    <3> QED
      BY <3>1, <3>7, <3>8, <3>9 DEF QueueInv, Pivoting, Running
  <2>9. CASE (SaveCreate \/ SaveWrite) /\ ~\E why \in FatalReasons : Fatal(why)
    <3>1. PICK c \in {Empty, queue[Len(queue)].data} :
             /\ pc \in Running /\ pc' \in Running \ {"create"} /\ queue' = queue
             /\ queue # << >> /\ Wrote(QC, Len(queue) - 1, c)
      BY <2>9, SaveCreateIs, SaveWriteIs DEF memory, FatalReasons, Running
    <3>2. Len(queue) \in DOMAIN queue
      BY <1>1, <3>1
    <3> QED
      BY <3>1, <3>2, QueuePut
  <2>10. CASE TrimUnlink \/ TrimCreate \/ TrimWrite
    <3>1. PICK k \in DOMAIN queue : \E c \in {Absent, Empty, queue[k].data} :
             /\ pc \in Running /\ pc' \in Running \ {"create"} /\ queue' = queue
             /\ Wrote(QC, k - 1, c)
      BY <2>10, TrimUnlinkIs, TrimCreateIs, TrimWriteIs DEF memory, Running
    <3> QED
      BY <3>1, QueuePut
  <2>11. CASE DetDone /\ ~\E why \in FatalReasons : Fatal(why)
    <3>1. PICK k \in DOMAIN queue :
             /\ pc = "fuzz" /\ pc' = "fuzz" /\ k - 1 \in Ids /\ queue[k].data \in Inputs
             /\ Wrote(QD, k - 1, queue[k].data)
             /\ queue' = [queue EXCEPT ![k].det = queue[k].data] /\ Len(queue') = Len(queue)
      BY <2>11, DetDoneIs DEF FatalReasons
    <3>2. \A j \in DOMAIN queue :
             /\ queue'[j].data = queue[j].data /\ queue'[j].redundant = queue[j].redundant
             /\ queue'[j].det = IF j = k THEN queue[k].data ELSE queue[j].det
      BY <1>1, <3>1, Marked
    <3>3. /\ file'[QC] = file[QC] /\ file'[QR] = file[QR]
          /\ file'[QD][k - 1] = queue[k].data
          /\ \A j \in Ids \ {k - 1} : file'[QD][j] = file[QD][j]
      BY <3>1, DirNames DEF Wrote
    <3>4. queue[k].data # Empty
      BY <3>1, SessionAssumption
    <3>5. ASSUME NEW i \in Ids, i < Len(queue)
          PROVE  file'[QC][i] \in {Absent, Empty, queue'[i + 1].data} /\ MarkedAs(i)'
      <4>1. file[QC][i] \in {Absent, Empty, queue[i + 1].data} /\ MarkedAs(i)
        BY <3>1, <3>5 DEF QueueInv, Running
      <4>2. i + 1 \in DOMAIN queue /\ (i + 1 = k <=> i = k - 1)
        BY <1>1, <3>5, SessionAssumption DEF Ids
      <4>3. CASE i = k - 1
        BY <3>2, <3>3, <3>4, <4>1, <4>2, <4>3 DEF MarkedAs
      <4>4. CASE i # k - 1
        BY <3>2, <3>3, <4>1, <4>2, <4>4 DEF MarkedAs
      <4> QED
        BY <4>3, <4>4
    <3>6. ASSUME NEW i \in Ids, i >= Len(queue)
          PROVE  Vacant(i)'
      <4>1. Vacant(i) /\ i # k - 1
        BY <1>1, <3>1, <3>6, SessionAssumption DEF QueueInv, Running, Ids
      <4> QED
        BY <3>3, <4>1 DEF Vacant
    <3> QED
      BY <3>1, <3>5, <3>6 DEF QueueInv, Pivoting, Running
  <2>12. CASE MarkRedundant /\ ~\E why \in FatalReasons : Fatal(why)
    <3>1. PICK k \in DOMAIN queue :
             /\ pc = "fuzz" /\ pc' = "fuzz" /\ k - 1 \in Ids
             /\ Wrote(QR, k - 1, IF queue[k].redundant THEN Absent ELSE "mark")
             /\ queue' = [queue EXCEPT ![k].redundant = ~@] /\ Len(queue') = Len(queue)
      BY <2>12, MarkRedundantIs DEF FatalReasons
    <3>2. \A j \in DOMAIN queue :
             /\ queue'[j].data = queue[j].data /\ queue'[j].det = queue[j].det
             /\ queue'[j].redundant = IF j = k THEN ~queue[j].redundant
                                      ELSE queue[j].redundant
      BY <1>1, <3>1, Redundant
    <3>3. /\ file'[QC] = file[QC] /\ file'[QD] = file[QD]
          /\ file'[QR][k - 1] = (IF queue[k].redundant THEN Absent ELSE "mark")
          /\ \A j \in Ids \ {k - 1} : file'[QR][j] = file[QR][j]
      BY <3>1, DirNames DEF Wrote
    <3>4. Absent # "mark"
      BY DEF Absent
    <3>5. ASSUME NEW i \in Ids, i < Len(queue)
          PROVE  file'[QC][i] \in {Absent, Empty, queue'[i + 1].data} /\ MarkedAs(i)'
      <4>1. file[QC][i] \in {Absent, Empty, queue[i + 1].data} /\ MarkedAs(i)
        BY <3>1, <3>5 DEF QueueInv, Running
      <4>2. i + 1 \in DOMAIN queue /\ (i + 1 = k <=> i = k - 1)
        BY <1>1, <3>5, SessionAssumption DEF Ids
      <4>3. CASE i = k - 1
        <5>1. file'[QR][i] = IF queue[i + 1].redundant THEN Absent ELSE "mark"
          BY <3>3, <4>2, <4>3
        <5>2. queue'[i + 1].redundant <=> ~queue[i + 1].redundant
          BY <3>2, <4>2, <4>3
        <5>3. queue'[i + 1].redundant <=> file'[QR][i] # Absent
          BY <3>4, <5>1, <5>2
        <5>4. queue'[i + 1].det = queue[i + 1].det /\ queue'[i + 1].data = queue[i + 1].data
          BY <3>2, <4>2
        <5> QED
          BY <3>3, <4>1, <5>3, <5>4 DEF MarkedAs
      <4>4. CASE i # k - 1
        BY <3>2, <3>3, <4>1, <4>2, <4>4 DEF MarkedAs
      <4> QED
        BY <4>3, <4>4
    <3>6. ASSUME NEW i \in Ids, i >= Len(queue)
          PROVE  Vacant(i)'
      <4>1. Vacant(i) /\ i # k - 1
        BY <1>1, <3>1, <3>6, SessionAssumption DEF QueueInv, Running, Ids
      <4> QED
        BY <3>3, <4>1 DEF Vacant
    <3> QED
      BY <3>1, <3>5, <3>6 DEF QueueInv, Pivoting, Running
  <2>13. CASE CrashCreate /\ ~\E why \in FatalReasons : Fatal(why)
    BY <2>13, CrashCreateIs, QueueSame, DirNames DEF Wrote, FatalReasons, Running
  <2>14. CASE CrashWrite
    BY <2>14, CrashWriteIs, QueueSame, DirNames DEF Wrote, memory, Running
  <2> QED
    BY <1>12, <2>1, <2>2, <2>3, <2>4, <2>5, <2>6, <2>7, <2>8, <2>9, <2>10, <2>11, <2>12, <2>13,
       <2>14 DEF LiveStep
<1> QED
  BY <1>3, <1>4, <1>5, <1>6, <1>7, <1>8, <1>9, <1>10, <1>11, <1>12, NextIs
---------------------------------------------------------------------------
(* Marks are about the inputs they are found with.                         *)
MarkFits(m, c) == m # Absent => c \in {Absent, Empty, m}

\* MarksOnDisk, for each of the two trees.
LEMMA MarksAre ==
  /\ MarksOnDisk <=> \A i \in Ids : /\ MarkFits(file[QD][i], file[QC][i])
                                    /\ MarkFits(file[RD][i], file[RC][i])
  /\ MarksOnDisk' <=> \A i \in Ids : /\ MarkFits(file'[QD][i], file'[QC][i])
                                     /\ MarkFits(file'[RD][i], file'[RC][i])
<1>1. Trees = {"queue", "_resume"}
  BY DEF Trees
<1>2. MarksOnDisk <=> \A i \in Ids : /\ MarkFits(file[QD][i], file[QC][i])
                                     /\ MarkFits(file[RD][i], file[RC][i])
  BY <1>1, Zenon DEF MarksOnDisk, MarkFits
<1>3. MarksOnDisk' <=> \A i \in Ids : /\ MarkFits(file'[QD][i], file'[QC][i])
                                      /\ MarkFits(file'[RD][i], file'[RC][i])
  BY <1>1, Zenon DEF MarksOnDisk, MarkFits
<1> QED
  BY <1>2, <1>3

\* Unlinking spoils no mark.
LEMMA MarksLess ==
  ASSUME MarksOnDisk,
         \A d \in {QC, QD, RC, RD}, i \in Ids : file'[d][i] \in {file[d][i], Absent}
  PROVE  MarksOnDisk'
<1>1. ASSUME NEW i \in Ids
      PROVE  MarkFits(file'[QD][i], file'[QC][i]) /\ MarkFits(file'[RD][i], file'[RC][i])
  BY MarksAre DEF MarkFits
<1> QED
  BY <1>1, MarksAre

\* One file is written in queue/.
LEMMA MarksPut ==
  ASSUME MarksOnDisk, NEW d \in {QC, QD}, NEW n, NEW c, Wrote(d, n, c),
         MarkFits(file'[QD][n], file'[QC][n])
  PROVE  MarksOnDisk'
<1>1. /\ \A j \in Ids \ {n} : file'[QC][j] = file[QC][j] /\ file'[QD][j] = file[QD][j]
      /\ file'[RC] = file[RC] /\ file'[RD] = file[RD]
  BY DirNames DEF Wrote
<1>2. ASSUME NEW i \in Ids
      PROVE  MarkFits(file'[QD][i], file'[QC][i]) /\ MarkFits(file'[RD][i], file'[RC][i])
  BY <1>1, MarksAre
<1> QED
  BY <1>2, MarksAre

\* The queue is the same or empty.
LEMMA MarksQueue ==
  ASSUME MarksTrue, queue' \in {queue, << >>}
  PROVE  MarksTrue'
BY DEF MarksTrue

\* A case is read together with its mark.
LEMMA MarksAppend ==
  ASSUME TypeInv, MarksTrue, NEW c \in Inputs, NEW m \in {Empty, c},
         queue' = Append(queue, Case(c, m))
  PROVE  MarksTrue'
<1>1. MemoryTypes /\ queue \in Seq(Entry) /\ DOMAIN queue = 1 .. Len(queue)
      /\ Len(queue) \in Nat
  BY DEF TypeInv, MemoryTypes
<1>2. /\ DOMAIN queue' = 1 .. Len(queue) + 1
      /\ \A k \in 1 .. Len(queue) : queue'[k] = queue[k]
      /\ queue'[Len(queue) + 1].data = c /\ queue'[Len(queue) + 1].det = m
  BY <1>1, MoreData
<1> QED
  BY <1>1, <1>2 DEF MarksTrue

\* Every step keeps the marks true.
LEMMA MarksStep ==
  ASSUME TypeInv, QueueInv, MarksInv, [Next]_vars
  PROVE  MarksInv'
<1>1. /\ inplace \in BOOLEAN /\ DiskTypes /\ MemoryTypes /\ at \in Nat
      /\ queue \in Seq(Entry) /\ MarksTrue /\ MarksOnDisk
  BY DEF TypeInv, MemoryTypes, MarksInv
<1>2. ASSUME NEW why \in Dead, Ends(why), file' = file
      PROVE  MarksInv'
  BY <1>1, <1>2, MarksLess, MarksQueue DEF Ends, MarksInv
<1>3. ASSUME NEW why \in FatalReasons, Fatal(why)
      PROVE  MarksInv'
  BY <1>2, <1>3 DEF Fatal, disk, Dead
<1>4. CASE file' = file /\ queue' = queue
  BY <1>1, <1>4, MarksLess, MarksQueue DEF MarksInv
<1>5. ASSUME NEW resume \in BOOLEAN, Start(resume)
      PROVE  MarksInv'
  <2>1. CASE StartNew(resume)
    BY <1>2, <1>4, <2>1 DEF StartNew, Dead, FatalReasons
  <2>2. CASE StartMalformed \/ StartAtRisk(resume)
    BY <1>3, <2>2 DEF StartMalformed, StartAtRisk, FatalReasons
  <2>3. CASE StartOver(resume)
    BY <1>4, <2>3 DEF StartOver, disk
  <2> QED
    BY <1>5, <2>1, <2>2, <2>3 DEF Start
<1>6. CASE DeleteFile
  <2>1. UNCHANGED memory /\ On \in Dirs /\ \E i \in Files(On) : Wrote(On, i, Absent)
    BY <1>6, DeleteFileIs
  <2>2. \A d \in {QC, QD, RC, RD}, i \in Ids : file'[d][i] \in {file[d][i], Absent}
    BY <2>1, DirNames DEF Wrote
  <2> QED
    BY <1>1, <2>1, <2>2, MarksLess, MarksQueue DEF MarksInv, memory
<1>7. CASE RemoveDir \/ UnlinkFile \/ MakeDir \/ CreateFile
  BY <1>3, <1>4, <1>7
     DEF RemoveDir, UnlinkFile, MakeDir, CreateFile, PutPlain, Done, FatalReasons
<1>8. CASE MoveQueue
  <2>1. CASE MayMove
    <3>1. ASSUME NEW i \in Ids
          PROVE  MarkFits(file'[QD][i], file'[QC][i]) /\ MarkFits(file'[RD][i], file'[RC][i])
      BY <1>1, <1>8, <2>1, MovedIs, MarksAre DEF MarkFits
    <3> QED
      BY <1>1, <1>8, <3>1, MarksAre, MarksQueue DEF MarksInv, MoveQueue, Done
  <2>2. CASE ~MayMove
    BY <1>4, <1>8, <2>2 DEF MoveQueue, Done
  <2> QED
    BY <2>1, <2>2
<1>9. CASE BackupCrashes
  <2>1. file'[QC] = file[QC] /\ file'[QD] = file[QD] /\ file'[RC] = file[RC]
        /\ file'[RD] = file[RD]
    BY <1>1, <1>9, BackedUpIs, DirNames
  <2> QED
    BY <1>1, <1>9, <2>1, MarksLess, MarksQueue DEF MarksInv, BackupCrashes, Done
<1>10. CASE Proceed \/ PivotDone \/ UNCHANGED vars
  BY <1>4, <1>10 DEF Proceed, PivotDone, vars, disk, memory
<1>11. CASE Kill
  BY <1>2, <1>11 DEF Kill, Dead, disk
<1>12. CASE LiveStep
  <2>1. CASE \E why \in FatalReasons : Fatal(why)
    BY <1>3, <2>1
  <2>2. CASE ReadCase /\ queue' # queue
    <3>1. at \in Ids
      BY <1>1, <2>2, IdsAre DEF ReadCase
    <3>2. /\ file[RC][at] \notin {Absent, Empty} /\ file[RC][at] \in Inputs
          /\ queue' = Append(queue, Case(file[RC][at],
                              IF file[RD][at] = Absent THEN Empty ELSE file[RD][at]))
          /\ file' = file
      BY <1>1, <2>2, <3>1, KindIs, DirNames DEF ReadCase, Mark, DiskTypes, FileTypes, disk
    <3>3. MarkFits(file[RD][at], file[RC][at])
      BY <1>1, <3>1, MarksAre
    <3>4. MarksTrue'
      BY <1>1, <3>2, <3>3, MarksAppend DEF MarkFits
    <3>5. MarksOnDisk'
      BY <1>1, <3>2, MarksLess
    <3> QED
      BY <3>4, <3>5 DEF MarksInv
  <2>3. CASE ReadSeed \/ SaveQueue
    <3>1. PICK c \in Inputs : queue' = Append(queue, Case(c, Empty))
      BY <2>3, SessionAssumption DEF ReadSeed, SaveQueue, Unread
    <3>2. MarksOnDisk'
      BY <1>1, <2>3, MarksLess DEF ReadSeed, SaveQueue, disk
    <3> QED
      BY <1>1, <3>1, <3>2, MarksAppend DEF MarksInv
  <2>4. CASE \/ ReadCase /\ queue' = queue
             \/ ReadDone /\ ~\E why \in FatalReasons : Fatal(why)
             \/ Ready \/ StatsOpen \/ StatsWrite \/ Report \/ CrashReadme
    BY <1>4, <2>4
       DEF ReadCase, ReadDone, Ready, StatsOpen, StatsWrite, Report, CrashReadme, PutPlain,
           disk, memory, FatalReasons
  <2>5. CASE (PivotLink \/ CopyWrite) /\ ~\E why \in FatalReasons : Fatal(why)
    <3>1. PICK c : Wrote(QC, at, c)
      BY <2>5, PivotLinkIs, CopyWriteIs DEF FatalReasons
    <3>2. file[QD][at] = Absent
      <4>1. CASE PivotLink
        BY <4>1, PivotLinkIs DEF QueueInv, Vacant
      <4>2. CASE CopyWrite
        BY <4>2, CopyWriteIs DEF QueueInv, Unmarked
      <4> QED
        BY <2>5, <4>1, <4>2
    <3>3. file'[QD] = file[QD] /\ queue' = queue
      BY <2>5, <3>1, PivotLinkIs, CopyWriteIs, DirNames DEF Wrote, FatalReasons, memory
    <3> QED
      BY <1>1, <3>1, <3>2, <3>3, MarksPut, MarksQueue DEF MarksInv, MarkFits
  <2>6. CASE PivotMark /\ ~\E why \in FatalReasons : Fatal(why)
    <3>1. CASE file' = file
      BY <1>4, <2>6, <3>1, PivotMarkIs DEF FatalReasons
    <3>2. CASE file' # file
      <4>1. /\ pc = "mark" /\ at + 1 \in DOMAIN queue /\ queue[at + 1].det # Empty
            /\ Wrote(QD, at, queue[at + 1].det) /\ queue' = queue
        BY <2>6, <3>2, PivotMarkIs DEF FatalReasons, disk
      <4>2. queue[at + 1].det = queue[at + 1].data /\ file[QC][at] = queue[at + 1].data
        BY <1>1, <4>1 DEF MarksTrue, QueueInv
      <4>3. file'[QC] = file[QC] /\ file'[QD][at] = queue[at + 1].det
        BY <4>1, DirNames DEF Wrote
      <4> QED
        BY <1>1, <4>1, <4>2, <4>3, MarksPut, MarksQueue DEF MarksInv, MarkFits
    <3> QED
      BY <3>1, <3>2
  <2>7. CASE (SaveCreate \/ SaveWrite \/ TrimUnlink \/ TrimCreate \/ TrimWrite)
             /\ ~\E why \in FatalReasons : Fatal(why)
    <3>1. PICK k \in DOMAIN queue : \E c \in {Absent, Empty, queue[k].data} :
             pc \in Running /\ queue' = queue /\ k - 1 \in Ids /\ Wrote(QC, k - 1, c)
      <4>1. CASE SaveCreate \/ SaveWrite
        BY <1>1, <2>7, <4>1, SaveCreateIs, SaveWriteIs, LastIs DEF memory, FatalReasons, Running
      <4>2. CASE TrimUnlink \/ TrimCreate \/ TrimWrite
        BY <4>2, TrimUnlinkIs, TrimCreateIs, TrimWriteIs DEF memory, Running
      <4> QED
        BY <2>7, <4>1, <4>2
    <3>2. PICK c \in {Absent, Empty, queue[k].data} : Wrote(QC, k - 1, c)
      BY <3>1
    <3>3. file'[QD] = file[QD] /\ file'[QC][k - 1] = c
      BY <3>2, DirNames DEF Wrote
    <3>4. MarkedAs(k - 1) /\ k - 1 + 1 = k
      BY <1>1, <3>1 DEF QueueInv, Running
    <3>5. MarkFits(file'[QD][k - 1], file'[QC][k - 1])
      BY <1>1, <3>2, <3>3, <3>4 DEF MarkedAs, MarkFits, MarksTrue
    <3> QED
      BY <1>1, <3>1, <3>2, <3>5, MarksPut, MarksQueue DEF MarksInv
  <2>8. CASE DetDone /\ ~\E why \in FatalReasons : Fatal(why)
    <3>1. PICK k \in DOMAIN queue :
             /\ pc = "fuzz" /\ k - 1 \in Ids /\ queue[k].data \in Inputs
             /\ Wrote(QD, k - 1, queue[k].data)
             /\ queue' = [queue EXCEPT ![k].det = queue[k].data]
      BY <2>8, DetDoneIs DEF FatalReasons
    <3>2. /\ DOMAIN queue' = DOMAIN queue
          /\ \A j \in DOMAIN queue :
               /\ queue'[j].data = queue[j].data
               /\ queue'[j].det = IF j = k THEN queue[k].data ELSE queue[j].det
      BY <1>1, <3>1, Marked
    <3>3. MarksTrue'
      BY <1>1, <3>2 DEF MarksTrue
    <3>4. file'[QC] = file[QC] /\ file'[QD][k - 1] = queue[k].data
      BY <3>1, DirNames DEF Wrote
    <3>5. file[QC][k - 1] \in {Absent, Empty, queue[k].data}
      <4>1. k - 1 < Len(queue) /\ k - 1 + 1 = k
        BY <1>1
      <4> QED
        BY <3>1, <4>1 DEF QueueInv, Running
    <3> QED
      BY <1>1, <3>1, <3>3, <3>4, <3>5, MarksPut DEF MarksInv, MarkFits
  <2>9. CASE MarkRedundant /\ ~\E why \in FatalReasons : Fatal(why)
    <3>1. PICK k \in DOMAIN queue :
             /\ Wrote(QR, k - 1, IF queue[k].redundant THEN Absent ELSE "mark")
             /\ queue' = [queue EXCEPT ![k].redundant = ~@]
      BY <2>9, MarkRedundantIs DEF FatalReasons
    <3>2. /\ DOMAIN queue' = DOMAIN queue
          /\ \A j \in DOMAIN queue :
               queue'[j].data = queue[j].data /\ queue'[j].det = queue[j].det
      BY <1>1, <3>1, Redundant
    <3>3. MarksTrue'
      BY <1>1, <3>2 DEF MarksTrue
    <3>4. file'[QC] = file[QC] /\ file'[QD] = file[QD] /\ file'[RC] = file[RC]
          /\ file'[RD] = file[RD]
      BY <3>1, DirNames DEF Wrote
    <3> QED
      BY <1>1, <3>3, <3>4, MarksLess DEF MarksInv
  <2>10. CASE (CrashCreate \/ CrashWrite) /\ ~\E why \in FatalReasons : Fatal(why)
    <3>1. queue' = queue /\ \E n, c : Wrote(CrashDir, n, c)
      BY <2>10, CrashCreateIs, CrashWriteIs DEF FatalReasons, memory
    <3>2. file'[QC] = file[QC] /\ file'[QD] = file[QD] /\ file'[RC] = file[RC]
          /\ file'[RD] = file[RD]
      BY <3>1, DirNames DEF Wrote
    <3> QED
      BY <1>1, <3>1, <3>2, MarksLess, MarksQueue DEF MarksInv
  <2> QED
    BY <1>12, <2>1, <2>2, <2>3, <2>4, <2>5, <2>6, <2>7, <2>8, <2>9, <2>10 DEF LiveStep
<1> QED
  BY <1>5, <1>6, <1>7, <1>8, <1>9, <1>10, <1>11, <1>12, NextIs
---------------------------------------------------------------------------
(* What is in a directory, when one of its files is written.               *)
LEMMA SavedIs ==
  ASSUME NEW d, NEW n, NEW c, Wrote(d, n, c)
  PROVE  /\ file[d][n] \in {Absent, Empty, c} => Saved(d) \subseteq Saved(d)'
         /\ Saved(d) \ {file[d][n]} \subseteq Saved(d)'
         /\ c \notin {Absent, Empty} => c \in Saved(d)'
         /\ Saved(d)' \subseteq Saved(d) \cup {c}
BY DEF Saved, Wrote

(* No crash is lost.                                                       *)
LEMMA CrashSame ==
  ASSUME CrashInv, file'[CrashDir] = file[CrashDir], found' = found, kept' = kept,
         \/ pc' \in Dead
         \/ /\ pc' = pc /\ unique_crashes' = unique_crashes
            /\ inplace' = inplace
         \/ /\ pc \in {"setup"} \cup Live /\ unique_crashes' = unique_crashes
            /\ pc' \in ({"read"} \cup Pivoting \cup {"nuke", "ready"} \cup Running) \ {"crash"}
            /\ pc' \in {"read", "readme"} \cup Pivoting \cup {"nuke", "ready"}
                 => unique_crashes = 0
  PROVE  CrashInv'
<1>1. CrashesKept'
  BY DEF CrashInv, CrashesKept, Saved
<1>2. CASE pc' \in Dead
  BY <1>1, <1>2 DEF CrashInv, Dead, FatalReasons, Live, Pivoting, Running
<1>3. CASE pc' = pc /\ unique_crashes' = unique_crashes /\ inplace' = inplace
  BY <1>1, <1>3 DEF CrashInv, Live, Pivoting, Running
<1>4. CASE /\ pc \in {"setup"} \cup Live /\ unique_crashes' = unique_crashes
           /\ pc' \in ({"read"} \cup Pivoting \cup {"nuke", "ready"} \cup Running) \ {"crash"}
           /\ pc' \in {"read", "readme"} \cup Pivoting \cup {"nuke", "ready"}
                => unique_crashes = 0
  BY <1>1, <1>4 DEF CrashInv, Live, Pivoting, Running
<1> QED
  BY <1>2, <1>3, <1>4

\* A fatal error loses no crash.
LEMMA CrashFatal ==
  ASSUME CrashInv, NEW why \in FatalReasons, Fatal(why)
  PROVE  CrashInv'
<1>1. pc' \in Dead /\ file' = file /\ found' = found /\ kept' = kept
  BY FatalOut DEF Fatal, disk, history
<1> QED
  BY <1>1, CrashSame

\* Every step keeps what is known about crashes/.
LEMMA CrashStep ==
  ASSUME TypeInv, Blank, DirInv, CrashInv, [Next]_vars
  PROVE  CrashInv'
<1>1. /\ inplace \in BOOLEAN /\ DiskTypes /\ MemoryTypes /\ at \in Nat
      /\ unique_crashes \in Nat /\ CrashDir \in Dirs
  BY DirNames DEF TypeInv, MemoryTypes
<1>2. CASE UNCHANGED vars
  BY <1>2, CrashSame DEF vars, disk, memory, history
<1>3. ASSUME NEW resume \in BOOLEAN, Start(resume)
      PROVE  CrashInv'
  <2>1. CASE StartNew(resume)
    <3>1. /\ file' = file /\ found' = found /\ kept' = kept /\ dirs = {} /\ pc \in Dead
      BY <2>1 DEF StartNew, history, DirInv, Tidy
    <3>2. CASE resume
      BY <2>1, <3>1, <3>2, CrashSame DEF StartNew, Ends, Dead, FatalReasons
    <3>3. CASE ~resume
      <4>1. pc' = "setup" /\ unique_crashes' = 0
        BY <2>1, <3>1, <3>3 DEF StartNew, Phase, Blank
      <4>2. \A i \in Ids : file'[CrashDir][i] = Absent
        BY <1>1, <3>1 DEF DirInv, Tidy
      <4>3. CrashesKept'
        BY <3>1 DEF CrashInv, CrashesKept, Saved
      <4> QED
        BY <4>1, <4>2, <4>3 DEF CrashInv, Live, Pivoting, Running
    <3> QED
      BY <3>2, <3>3
  <2>2. CASE StartMalformed \/ StartAtRisk(resume)
    BY <2>2, CrashFatal DEF StartMalformed, StartAtRisk, FatalReasons
  <2>3. CASE StartOver(resume)
    <3>1. /\ pc' = "clean" /\ file' = file /\ kept' = kept /\ inplace' = resume
          /\ found' = IF resume THEN found ELSE {}
      BY <2>3 DEF StartOver, Phase, disk
    <3>2. CrashesKept'
      BY <1>3, <3>1 DEF CrashInv, CrashesKept, Saved
    <3> QED
      BY <1>3, <3>1, <3>2 DEF CrashInv, Live, Pivoting, Running
  <2> QED
    BY <1>3, <2>1, <2>2, <2>3 DEF Start
<1>4. CASE DeleteFile
  <2>1. /\ UNCHANGED <<pc, inplace, unique_crashes, found, kept>>
        /\ On \in Dirs /\ \E i \in Files(On) : Wrote(On, i, Absent)
    BY <1>4, DeleteFileIs DEF memory, history
  <2>2. CASE On # CrashDir
    BY <1>1, <2>1, <2>2, CrashSame DEF Wrote
  <2>3. CASE On = CrashDir
    <3>1. pc = "clean" /\ at = 7
      BY <1>1, <1>4, <2>3, DeleteIs, DirNames DEF DeleteFile
    <3>2. CASE inplace
      BY <1>1, <2>1, <2>3, <3>1, <3>2 DEF DirInv, CleanInv, Tidy, Files
    <3>3. CASE ~inplace
      BY <2>1, <3>1, <3>3 DEF CrashInv, CrashesKept, Live, Pivoting, Running
    <3> QED
      BY <3>2, <3>3
  <2> QED
    BY <2>2, <2>3
<1>5. CASE RemoveDir
  BY <1>5, CrashFatal, CrashSame DEF RemoveDir, Done, history, FatalReasons
<1>6. CASE UnlinkFile
  BY <1>6, CrashSame DEF UnlinkFile, PutPlain, Done, history
<1>7. CASE MoveQueue
  <2>1. UNCHANGED <<pc, inplace, unique_crashes, found, kept>>
    BY <1>7 DEF MoveQueue, Done, history
  <2>2. file'[CrashDir] = file[CrashDir]
    BY <1>1, <1>7, MovedIs DEF MoveQueue
  <2> QED
    BY <2>1, <2>2, CrashSame
<1>8. CASE BackupCrashes
  <2>1. /\ pc = "clean" /\ inplace /\ pc' = pc /\ inplace' = inplace /\ found' = found
        /\ kept' = kept \cup Saved(CrashDir)
    BY <1>1, <1>8, BackupIs DEF BackupCrashes, Done
  <2>2. CrashesKept'
    BY <2>1 DEF CrashInv, CrashesKept
  <2> QED
    BY <2>1, <2>2 DEF CrashInv, Live, Pivoting, Running
<1>9. CASE MakeDir
  BY <1>9, CrashFatal, CrashSame DEF MakeDir, Done, history, FatalReasons
<1>10. CASE CreateFile
  BY <1>10, CrashFatal, CrashSame DEF CreateFile, PutPlain, Done, history, FatalReasons
<1>11. CASE Proceed
  <2>1. UNCHANGED <<file, inplace, unique_crashes, found, kept>> /\ at > Len(Calls)
    BY <1>11 DEF Proceed, disk, history
  <2>2. CASE pc = "clean" /\ Phase("setup", 1)
    <3>1. pc' = "setup" /\ at > (IF inplace THEN 8 ELSE 9)
      BY <1>1, <2>1, <2>2, CallsEnd DEF Phase
    <3>2. CrashDir \notin dirs
      BY <1>1, <2>2, <3>1 DEF DirInv, CleanInv
    <3>3. \A i \in Ids : file'[CrashDir][i] = Absent
      BY <1>1, <2>1, <3>2 DEF DirInv, Tidy
    <3>4. CrashesKept'
      BY <2>1 DEF CrashInv, CrashesKept, Saved
    <3> QED
      BY <3>1, <3>3, <3>4 DEF CrashInv, Live, Pivoting, Running
  <2>3. CASE pc = "setup" /\ Phase("read", 0)
    BY <2>1, <2>3, CrashSame DEF Phase, Blank
  <2>4. CASE pc = "nuke" /\ Phase("ready", 0)
    <3>1. unique_crashes = 0
      BY <2>4 DEF CrashInv
    <3> QED
      BY <2>1, <2>4, <3>1, CrashSame DEF Phase, Live
  <2> QED
    BY <1>11, <2>2, <2>3, <2>4 DEF Proceed
<1>12. CASE PivotDone
  <2>1. pc = "pivot" /\ pc' = "nuke" /\ UNCHANGED <<file, unique_crashes, found, kept>>
    BY <1>12 DEF PivotDone, Phase, disk, history
  <2>2. unique_crashes = 0
    BY <2>1 DEF CrashInv, Pivoting
  <2> QED
    BY <2>1, <2>2, CrashSame DEF Live, Pivoting
<1>13. CASE Kill
  BY <1>13, CrashSame DEF Kill, Ends, disk, Dead
<1>14. CASE LiveStep
  <2>1. CASE \E why \in FatalReasons : Fatal(why)
    BY <2>1, CrashFatal
  <2>2. CASE /\ ReadCase \/ ReadSeed \/ ReadDone \/ PivotLink \/ CopyWrite \/ PivotMark
             /\ ~\E why \in FatalReasons : Fatal(why)
    <3>1. /\ pc \in {"read"} \cup Pivoting /\ pc' \in {"read"} \cup Pivoting
          /\ UNCHANGED <<unique_crashes, found, kept>>
      BY <2>2, PivotLinkIs, CopyWriteIs, PivotMarkIs
         DEF ReadCase, ReadSeed, ReadDone, Phase, Pivoting, memory, history, FatalReasons
    <3>2. file'[CrashDir] = file[CrashDir]
      BY <1>1, <2>2, PivotLinkIs, CopyWriteIs, PivotMarkIs, DirNames
         DEF ReadCase, ReadSeed, ReadDone, disk, Wrote, FatalReasons
    <3>3. unique_crashes = 0
      BY <3>1 DEF CrashInv
    <3> QED
      BY <3>1, <3>2, <3>3, CrashSame DEF Live, Pivoting
  <2>3. CASE Ready \/ StatsOpen \/ StatsWrite \/ Report \/ SaveQueue \/ CrashReadme
    BY <2>3, CrashSame
       DEF Ready, StatsOpen, StatsWrite, Report, SaveQueue, CrashReadme, PutPlain, disk, memory,
           history, Live, Pivoting, Running
  <2>4. CASE (SaveCreate \/ SaveWrite \/ TrimUnlink \/ TrimCreate \/ TrimWrite)
             /\ ~\E why \in FatalReasons : Fatal(why)
    <3>1. /\ pc \in Running /\ pc' \in {"write", "fuzz", "trim", "trim2"}
          /\ UNCHANGED <<unique_crashes, found, kept>> /\ \E n, c : Wrote(QC, n, c)
      BY <2>4, SaveCreateIs, SaveWriteIs, TrimUnlinkIs, TrimCreateIs, TrimWriteIs
         DEF memory, history, Running, FatalReasons
    <3>2. file'[CrashDir] = file[CrashDir]
      BY <1>1, <3>1, DirNames DEF Wrote
    <3> QED
      BY <3>1, <3>2, CrashSame DEF Live, Pivoting, Running
  <2>5. CASE (DetDone \/ MarkRedundant) /\ ~\E why \in FatalReasons : Fatal(why)
    <3>1. /\ pc' = pc /\ UNCHANGED <<inplace, unique_crashes, found, kept>>
          /\ \E d \in {QD, QR} : \E n, c : Wrote(d, n, c)
      BY <2>5, DetDoneIs, MarkRedundantIs DEF history, FatalReasons
    <3>2. file'[CrashDir] = file[CrashDir]
      BY <1>1, <3>1, DirNames DEF Wrote
    <3> QED
      BY <3>1, <3>2, CrashSame
  <2>6. CASE CrashCreate /\ ~\E why \in FatalReasons : Fatal(why)
    <3>1. /\ pc \in {"readme", "fuzz"} /\ pc' = "crash" /\ unique_crashes \in Ids
          /\ file[CrashDir][unique_crashes] = Absent /\ Wrote(CrashDir, unique_crashes, Empty)
          /\ unique_crashes' = unique_crashes + 1 /\ found' = found /\ kept' = kept
      BY <2>6, CrashCreateIs DEF history, FatalReasons
    <3>2. CrashesKept'
      BY <3>1, SavedIs DEF CrashInv, CrashesKept
    <3>3. /\ file'[CrashDir][unique_crashes] = Empty
          /\ \A j \in Ids \ {unique_crashes} : file'[CrashDir][j] = file[CrashDir][j]
      BY <3>1 DEF Wrote
    <3>4. ASSUME NEW i \in Ids, i >= unique_crashes + 1
          PROVE  file'[CrashDir][i] = Absent
      <4>1. i \in Nat /\ i # unique_crashes /\ i >= unique_crashes
        BY <1>1, <3>4, IdsAre
      <4> QED
        BY <3>1, <3>3, <4>1 DEF CrashInv, Live, Running
    <3>5. unique_crashes' - 1 = unique_crashes
      BY <1>1, <3>1
    <3> QED
      BY <3>1, <3>2, <3>3, <3>4, <3>5 DEF CrashInv, Live, Pivoting, Running
  <2>7. CASE CrashWrite
    <3>1. PICK c \in Crashes :
             /\ pc = "crash" /\ pc' = "fuzz" /\ unique_crashes - 1 \in Ids
             /\ Wrote(CrashDir, unique_crashes - 1, c) /\ found' = found \cup {c}
             /\ kept' = kept /\ unique_crashes' = unique_crashes
      BY <2>7, CrashWriteIs DEF memory
    <3>2. file[CrashDir][unique_crashes - 1] = Empty /\ c \notin {Absent, Empty}
      BY <3>1, SessionAssumption DEF CrashInv
    <3>3. CrashesKept'
      BY <3>1, <3>2, SavedIs DEF CrashInv, CrashesKept
    <3>4. ASSUME NEW i \in Ids, i >= unique_crashes
          PROVE  file'[CrashDir][i] = Absent
      <4>1. i \in Nat /\ i # unique_crashes - 1
        BY <1>1, <3>1, <3>4, IdsAre
      <4> QED
        BY <3>1, <3>4, <4>1 DEF CrashInv, Live, Running, Wrote
    <3> QED
      BY <3>1, <3>3, <3>4 DEF CrashInv, Live, Pivoting, Running
  <2> QED
    BY <1>14, <2>1, <2>2, <2>3, <2>4, <2>5, <2>6, <2>7 DEF LiveStep
<1> QED
  BY <1>2, <1>3, <1>4, <1>5, <1>6, <1>7, <1>8, <1>9, <1>10, <1>11, <1>12, <1>13, <1>14, NextIs

---------------------------------------------------------------------------
(* fuzzer_stats tells of a long run.                                       *)
LEMMA RiskSame ==
  ASSUME RiskInv, plain'["fuzzer_stats"] = plain["fuzzer_stats"],
         worth' = worth \/ (worth' = "resumed" /\ pc' # "clean"),
         pc' # "clean" \/ (pc' = pc /\ inplace' = inplace)
  PROVE  RiskInv'
BY DEF RiskInv

\* A fatal error leaves fuzzer_stats alone.
LEMMA RiskFatal ==
  ASSUME RiskInv, NEW why \in FatalReasons, Fatal(why)
  PROVE  RiskInv'
<1>1. pc' # "clean" /\ plain' = plain /\ worth' = worth
  BY DEF Fatal, Ends, FatalReasons, disk, history
<1> QED
  BY <1>1, RiskSame

\* Every step keeps what fuzzer_stats tells of.
LEMMA RiskStep ==
  ASSUME TypeInv, RiskInv, [Next]_vars
  PROVE  RiskInv'
<1>1. inplace \in BOOLEAN /\ DiskTypes
  BY DEF TypeInv, MemoryTypes
<1>2. CASE UNCHANGED vars
  BY <1>2, RiskSame DEF vars, disk, memory, history
<1>3. ASSUME NEW resume \in BOOLEAN, Start(resume)
      PROVE  RiskInv'
  <2>1. CASE StartNew(resume)
    BY <2>1, RiskSame DEF StartNew, Ends, Phase, history
  <2>2. CASE StartMalformed \/ StartAtRisk(resume)
    BY <2>2, RiskFatal DEF StartMalformed, StartAtRisk, FatalReasons
  <2>3. CASE StartOver(resume)
    BY <1>3, <2>3 DEF StartOver, Phase, disk, RiskInv
  <2> QED
    BY <1>3, <2>1, <2>2, <2>3 DEF Start
<1>4. CASE DeleteFile
  BY <1>4, RiskSame DEF DeleteFile, Put, memory, history
<1>5. CASE RemoveDir
  BY <1>5, RiskFatal, RiskSame DEF RemoveDir, Done, history, FatalReasons
<1>6. CASE UnlinkFile
  <2>1. /\ UNCHANGED <<pc, inplace, worth>> /\ PutPlain(On, Absent) /\ pc = "clean"
        /\ On \in {"plot_data", "README.txt", "fuzzer_stats"}
        /\ On = "fuzzer_stats" => ~inplace
    BY <1>1, <1>6, UnlinkIs DEF UnlinkFile, Done, history
  <2>2. plain'["fuzzer_stats"] = IF On = "fuzzer_stats" THEN Absent ELSE plain["fuzzer_stats"]
    BY <1>1, <2>1, PutPlainIs
  <2> QED
    BY <2>1, <2>2 DEF RiskInv
<1>7. CASE MoveQueue
  BY <1>7, RiskSame DEF MoveQueue, Done, history
<1>8. CASE BackupCrashes
  BY <1>1, <1>8, BackedUpIs, RiskSame DEF BackupCrashes, Done
<1>9. CASE MakeDir
  BY <1>9, RiskFatal, RiskSame DEF MakeDir, Done, history, FatalReasons
<1>10. CASE CreateFile
  <2>1. CASE plain[On] # Absent
    BY <1>10, <2>1, RiskFatal DEF CreateFile, FatalReasons
  <2>2. CASE plain[On] = Absent
    <3>1. /\ UNCHANGED <<pc, inplace, worth>> /\ PutPlain(On, Empty) /\ On = "plot_data"
      BY <1>1, <1>10, <2>2, CreateIs DEF CreateFile, Done, history
    <3>2. plain'["fuzzer_stats"] = plain["fuzzer_stats"]
      BY <1>1, <3>1, PutPlainIs
    <3> QED
      BY <3>1, <3>2, RiskSame
  <2> QED
    BY <2>1, <2>2
<1>11. CASE Proceed \/ PivotDone
  BY <1>11, RiskSame DEF Proceed, PivotDone, Phase, disk, history
<1>12. CASE Kill
  BY <1>12, RiskSame DEF Kill, Ends, disk
<1>13. CASE LiveStep
  <2>1. CASE \E why \in FatalReasons : Fatal(why)
    BY <2>1, RiskFatal
  <2>2. CASE StatsOpen \/ StatsWrite
    <3>1. PICK c \in {Empty, "long", "short"} :
             /\ PutPlain("fuzzer_stats", c) /\ pc' # "clean"
             /\ worth' = "yes" => c \in {Empty, "long"}
      BY <2>2 DEF StatsOpen, StatsWrite
    <3>2. plain'["fuzzer_stats"] = c
      BY <1>1, <3>1, PutPlainIs
    <3> QED
      BY <3>1, <3>2 DEF RiskInv
  <2>3. CASE CrashReadme
    BY <1>1, <2>3, PutPlainIs, RiskSame DEF CrashReadme, history
  <2>4. CASE ReadCase \/ ReadSeed \/ Ready \/ Report \/ SaveQueue
    BY <2>4, RiskSame DEF ReadCase, ReadSeed, Ready, Report, SaveQueue, disk, history
  <2>5. CASE (ReadDone \/ PivotLink \/ CopyWrite \/ PivotMark)
             /\ ~\E why \in FatalReasons : Fatal(why)
    BY <2>5, PivotLinkIs, CopyWriteIs, PivotMarkIs, RiskSame
       DEF ReadDone, Phase, Wrote, disk, history, FatalReasons
  <2>6. CASE (SaveCreate \/ SaveWrite \/ TrimUnlink \/ TrimCreate \/ TrimWrite)
             /\ ~\E why \in FatalReasons : Fatal(why)
    BY <2>6, SaveCreateIs, SaveWriteIs, TrimUnlinkIs, TrimCreateIs, TrimWriteIs, RiskSame
       DEF Wrote, history, FatalReasons
  <2>7. CASE (DetDone \/ MarkRedundant \/ CrashCreate \/ CrashWrite)
             /\ ~\E why \in FatalReasons : Fatal(why)
    BY <2>7, DetDoneIs, MarkRedundantIs, CrashCreateIs, CrashWriteIs, RiskSame
       DEF Wrote, history, FatalReasons
  <2> QED
    BY <1>13, <2>1, <2>2, <2>3, <2>4, <2>5, <2>6, <2>7 DEF LiveStep
<1> QED
  BY <1>2, <1>3, <1>4, <1>5, <1>6, <1>7, <1>8, <1>9, <1>10, <1>11, <1>12, <1>13, NextIs
---------------------------------------------------------------------------
(* A start does not trip over what it finds.                               *)
LEMMA BlockedIs ==
  /\ ~Blocked(QD) /\ ~Blocked(QR) /\ ~Blocked(RD) /\ ~Blocked(RR) /\ ~Blocked(Synced)
  /\ Blocked(QS) <=> QD \in dirs \/ QR \in dirs
  /\ Blocked(RS) <=> RD \in dirs \/ RR \in dirs
  /\ Blocked(QC) <=> QS \in dirs
  /\ Blocked(RC) <=> RS \in dirs
  /\ Blocked(CrashDir) <=> plain["README.txt"] # Absent
BY InsideIs, DirNames DEF Blocked

\* No rmdir() fails: what is inside has been removed before, or went with a rename().
LEMMA CleansUp ==
  ASSUME TypeInv, DirInv, RemoveDir
  PROVE  ~NonEmpty(On)
<1>1. inplace \in BOOLEAN /\ DiskTypes /\ at \in Nat /\ QS \in Dirs /\ RS \in Dirs
  BY DirNames DEF TypeInv, MemoryTypes
<1>2. Files(QS) = {} /\ Files(RS) = {}
  BY <1>1, KindIs DEF DiskTypes, FileTypes, Files
<1>3. CASE Is("delete") /\ Files(On) = {}
  <2>1. \/ /\ pc = "clean"
           /\ \/ On \in {Synced, QD, QR}
              \/ at = 5 /\ On = QC
              \/ at = 7 /\ On = CrashDir
        \/ /\ pc = "nuke" /\ inplace
           /\ \/ On \in {RD, RR}
              \/ at = 4 /\ On = RC
    BY <1>1, <1>3, DeleteIs
  <2>2. ~Blocked(On)
    BY <1>1, <2>1, BlockedIs DEF DirInv, CleanInv, NukeInv
  <2> QED
    BY <1>3, <2>2 DEF NonEmpty
<1>4. CASE Is("rmdir")
  <2>1. \/ pc = "clean" /\ at = 4 /\ On = QS
        \/ pc = "nuke" /\ inplace /\ at = 3 /\ On = RS
    BY <1>1, <1>4, RmdirIs
  <2>2. ~Blocked(On)
    BY <1>1, <2>1, BlockedIs DEF DirInv, CleanInv, NukeInv
  <2> QED
    BY <1>2, <2>1, <2>2 DEF NonEmpty
<1> QED
  BY <1>3, <1>4 DEF RemoveDir

\* No mkdir() or open() finds what it is to create.
LEMMA SetsUp ==
  ASSUME TypeInv, DirInv
  PROVE  /\ MakeDir => ~(On \in dirs /\ Is("mkdir"))
         /\ CreateFile => plain[On] = Absent
<1>1. inplace \in BOOLEAN /\ at \in Nat
  BY DEF TypeInv, MemoryTypes
<1>2. ASSUME MakeDir, Is("mkdir")
      PROVE  On \notin dirs
  BY <1>1, <1>2, MkdirIs DEF DirInv, SetUpInv
<1>3. ASSUME CreateFile
      PROVE  plain[On] = Absent
  BY <1>1, <1>3, CreateIs DEF CreateFile, DirInv, SetUpInv
<1> QED
  BY <1>2, <1>3

\* What is on disk about an entry of a running process.
LEMMA NoMark ==
  ASSUME TypeInv, QueueInv, pc \in Running, NEW k \in DOMAIN queue
  PROVE  /\ k - 1 \in Ids /\ queue[k].redundant \in BOOLEAN
         /\ file[QC][k - 1] \in {Absent, Empty, queue[k].data}
         /\ queue[k].det = Empty => file[QD][k - 1] = Absent
         /\ queue[k].redundant <=> file[QR][k - 1] # Absent
<1>1. k - 1 \in Ids /\ k - 1 < Len(queue) /\ k - 1 + 1 = k /\ queue[k].redundant \in BOOLEAN
  BY QueueIs DEF TypeInv, MemoryTypes
<1>2. file[QC][k - 1] \in {Absent, Empty, queue[k - 1 + 1].data} /\ MarkedAs(k - 1)
  BY <1>1 DEF QueueInv, Running
<1> QED
  BY <1>1, <1>2 DEF MarkedAs

\* So none of the fatal errors about the directory is reached.
LEMMA Aborts ==
  ASSUME TypeInv, DirInv, QueueInv, CrashInv, [Next]_vars,
         pc \notin {"cleanup_failed", "exists", "bad_mark"}
  PROVE  pc' \notin {"cleanup_failed", "exists", "bad_mark"}
<1>1. CASE UNCHANGED vars
  BY <1>1 DEF vars
<1>2. ASSUME NEW resume \in BOOLEAN, Start(resume)
      PROVE  pc' \notin {"cleanup_failed", "exists", "bad_mark"}
  BY <1>2 DEF Start, StartNew, StartMalformed, StartAtRisk, StartOver, Fatal, Ends, Phase
<1>3. CASE DeleteFile \/ UnlinkFile \/ MoveQueue \/ BackupCrashes \/ Proceed \/ PivotDone
           \/ Kill
  BY <1>3 DEF DeleteFile, UnlinkFile, MoveQueue, BackupCrashes, Proceed, PivotDone, Kill, Done,
     Ends, Phase
<1>4. CASE RemoveDir
  BY <1>4, CleansUp DEF RemoveDir, Done
<1>5. CASE MakeDir \/ CreateFile
  BY <1>5, SetsUp DEF MakeDir, CreateFile, Done
<1>6. CASE LiveStep
  <2>1. CASE ReadCase \/ ReadSeed \/ ReadDone \/ CopyWrite \/ Ready \/ StatsOpen
             \/ StatsWrite \/ Report \/ SaveQueue \/ SaveWrite \/ TrimUnlink \/ TrimCreate
             \/ TrimWrite \/ CrashReadme \/ CrashWrite
    BY <2>1 DEF ReadCase, ReadSeed, ReadDone, CopyWrite, Ready, StatsOpen, StatsWrite, Report,
       SaveQueue, SaveWrite, TrimUnlink, TrimCreate, TrimWrite, CrashReadme, CrashWrite, Fatal,
       Ends, Phase
  <2>2. CASE PivotLink
    <3>1. file[QC][at] = Absent
      BY <2>2, PivotLinkIs DEF QueueInv, Vacant
    <3> QED
      BY <2>2, <3>1, PivotLinkIs
  <2>3. CASE PivotMark
    <3>1. file[QD][at] = Absent
      BY <2>3, PivotMarkIs DEF QueueInv, Unmarked
    <3> QED
      BY <2>3, <3>1, PivotMarkIs DEF Phase
  <2>4. CASE SaveCreate
    BY <2>4, SaveCreateIs DEF QueueInv
  <2>5. CASE DetDone
    <3>1. pc \in Running
      BY <2>5 DEF DetDone, Running
    <3> QED
      BY <2>5, <3>1, DetDoneIs, NoMark
  <2>6. CASE MarkRedundant
    <3>1. pc \in Running
      BY <2>6 DEF MarkRedundant, Running
    <3> QED
      BY <2>6, <3>1, MarkRedundantIs, NoMark
  <2>7. CASE CrashCreate
    <3>1. unique_crashes \in Nat /\ unique_crashes \in Ids /\ pc \in Live
      BY <2>7, CrashCreateIs DEF TypeInv, MemoryTypes, Live, Running
    <3>2. file[CrashDir][unique_crashes] = Absent
      BY <3>1 DEF CrashInv
    <3> QED
      BY <2>7, <3>2, CrashCreateIs
  <2> QED
    BY <1>6, <2>1, <2>2, <2>3, <2>4, <2>5, <2>6, <2>7 DEF LiveStep
<1> QED
  BY <1>1, <1>2, <1>3, <1>4, <1>5, <1>6, NextIs

(* Before a fresh start is ready, its session had no inputs.               *)
LEMMA FreshStep ==
  ASSUME TypeInv, DirInv, FreshInv, [Next]_vars
  PROVE  FreshInv'
<1>1. CASE /\ pc \in Starting \cup Pivoting \cup {"nuke", "ready"}
           /\ inplace' = inplace /\ had' = had
  BY <1>1 DEF FreshInv
<1>2. CASE pc' \notin Starting \cup Pivoting \cup {"nuke", "ready"}
  BY <1>2 DEF FreshInv
<1>3. CASE UNCHANGED vars
  BY <1>3 DEF vars, memory, history, FreshInv
<1>4. ASSUME NEW why \in FatalReasons, Fatal(why)
      PROVE  FreshInv'
  BY <1>2, <1>4, FatalOut DEF Dead, FatalReasons, Starting, Pivoting
<1>5. ASSUME NEW resume \in BOOLEAN, Start(resume)
      PROVE  FreshInv'
  <2>1. CASE StartNew(resume)
    BY <2>1 DEF StartNew, history, DirInv, Tidy, FreshInv
  <2>2. CASE StartMalformed \/ StartAtRisk(resume)
    BY <1>4, <2>2 DEF StartMalformed, StartAtRisk, FatalReasons
  <2>3. CASE StartOver(resume)
    BY <1>5, <2>3 DEF StartOver, FreshInv
  <2> QED
    BY <1>5, <2>1, <2>2, <2>3 DEF Start
<1>6. inplace \in BOOLEAN
  BY DEF TypeInv, MemoryTypes
<1>7. CASE DeleteFile
  BY <1>1, <1>7, DeleteFileIs DEF memory, history, Starting
<1>8. CASE RemoveDir
  BY <1>1, <1>4, <1>6, <1>8, DeleteIs, RmdirIs DEF RemoveDir, Done, history, FatalReasons, Starting
<1>9. CASE UnlinkFile \/ MoveQueue \/ BackupCrashes
  BY <1>1, <1>6, <1>9, UnlinkIs, MoveIs, BackupIs
     DEF UnlinkFile, MoveQueue, BackupCrashes, Done, history, Starting
<1>10. CASE MakeDir \/ CreateFile
  BY <1>1, <1>4, <1>6, <1>10, MkdirIs, CreateIs
     DEF MakeDir, CreateFile, Done, history, FatalReasons, Starting
<1>11. CASE Proceed \/ PivotDone
  BY <1>1, <1>11 DEF Proceed, PivotDone, history, Starting, Pivoting
<1>12. CASE Kill
  BY <1>2, <1>12 DEF Kill, Ends, Starting, Pivoting
<1>13. CASE LiveStep
  <2>1. CASE \E why \in FatalReasons : Fatal(why)
    BY <1>4, <2>1
  <2>2. CASE /\ ReadCase \/ ReadSeed \/ ReadDone \/ PivotLink \/ CopyWrite \/ PivotMark
             /\ ~\E why \in FatalReasons : Fatal(why)
    BY <1>1, <2>2, PivotLinkIs, CopyWriteIs, PivotMarkIs
       DEF ReadCase, ReadSeed, ReadDone, memory, history, FatalReasons, Starting, Pivoting
  <2>3. CASE Ready \/ StatsOpen \/ StatsWrite \/ Report \/ SaveQueue \/ CrashReadme
    BY <1>2, <2>3
       DEF Ready, StatsOpen, StatsWrite, Report, SaveQueue, CrashReadme, Starting, Pivoting
  <2>4. CASE (SaveCreate \/ SaveWrite \/ TrimUnlink \/ TrimCreate \/ TrimWrite)
             /\ ~\E why \in FatalReasons : Fatal(why)
    BY <1>2, <2>4, SaveCreateIs, SaveWriteIs, TrimUnlinkIs, TrimCreateIs, TrimWriteIs
       DEF FatalReasons, Starting, Pivoting
  <2>5. CASE (DetDone \/ MarkRedundant \/ CrashCreate \/ CrashWrite)
             /\ ~\E why \in FatalReasons : Fatal(why)
    BY <1>2, <2>5, DetDoneIs, MarkRedundantIs, CrashCreateIs, CrashWriteIs
       DEF FatalReasons, Starting, Pivoting
  <2> QED
    BY <1>13, <2>1, <2>2, <2>3, <2>4, <2>5 DEF LiveStep
<1> QED
  BY <1>3, <1>5, <1>7, <1>8, <1>9, <1>10, <1>11, <1>12, <1>13, NextIs

(* Where the inputs of the session are.                                    *)
LEMMA ResumeDir ==
  /\ NonEmpty(RC) <=> RS \in dirs \/ \E i \in Ids : file[RC][i] # Absent
  /\ NonEmpty(RC)' <=> RS \in dirs' \/ \E i \in Ids : file'[RC][i] # Absent
  /\ ~NonEmpty(RC) => Saved(RC) = {}
<1>1. NonEmpty(RC) <=> RS \in dirs \/ \E i \in Ids : file[RC][i] # Absent
  BY InsideIs, DirNames DEF NonEmpty, Blocked, Files
<1>2. NonEmpty(RC)' <=> RS \in dirs' \/ \E i \in Ids : file'[RC][i] # Absent
  BY InsideIs, DirNames DEF NonEmpty, Blocked, Files
<1>3. ~NonEmpty(RC) => Saved(RC) = {}
  BY <1>1 DEF Saved
<1> QED
  BY <1>1, <1>2, <1>3

\* The step does not touch what they are in.
LEMMA HeldSame ==
  ASSUME HeldInv, trap' = trap, had' = had, file'[RC] = file[RC],
         RS \in dirs' => RS \in dirs,
         \/ /\ pc' = pc /\ inplace' = inplace /\ queue' = queue /\ file'[QC] = file[QC]
            /\ at' = at \/ pc \notin {"clean", "read"}
         \/ pc \in Dead /\ pc' \in Dead /\ file'[QC] = file[QC]
         \/ pc = "clean" /\ at > 1 /\ ((pc' = "clean" /\ at' > 1) \/ pc' = "setup")
         \/ pc = "setup" /\ pc' = "read" /\ at' = 0
         \/ pc \in Pivoting /\ pc' \in Pivoting /\ queue' = queue
         \/ pc \in Running /\ pc' \in Running /\ file'[QC] = file[QC]
  PROVE  HeldInv'
<1>1. /\ InResume => InResume'
      /\ ResumeLeft' => ResumeLeft
  BY ResumeDir DEF Saved, InResume, ResumeLeft
<1>2. file'[QC] = file[QC] => (InQueue => InQueue')
  BY DEF Saved, InQueue
<1>3. queue' = queue => (InMemory => InMemory')
  BY DEF Data, InMemory
<1> USE DEF Dead, FatalReasons, Pivoting, Running
<1>4. CASE /\ pc' = pc /\ inplace' = inplace /\ queue' = queue /\ file'[QC] = file[QC]
           /\ at' = at \/ pc \notin {"clean", "read"}
  <2>1. at' = at => (AreRead => AreRead')
    BY <1>4 DEF AreRead, Data
  <2> QED
    BY <1>1, <1>2, <1>3, <1>4, <2>1 DEF HeldInv
<1>5. CASE pc \in Dead /\ pc' \in Dead /\ file'[QC] = file[QC]
  BY <1>1, <1>2, <1>5 DEF HeldInv
<1>6. CASE pc = "clean" /\ at > 1 /\ ((pc' = "clean" /\ at' > 1) \/ pc' = "setup")
  BY <1>1, <1>6 DEF HeldInv
<1>7. CASE pc = "setup" /\ pc' = "read" /\ at' = 0
  <2>1. ASSUME NEW i \in Ids
        PROVE  ~(i < 0)
    <3>1. i \in Nat
      BY IdsAre
    <3> QED
      BY <3>1
  <2>2. AreRead'
    BY <1>7, <2>1 DEF AreRead
  <2> QED
    BY <1>1, <1>7, <2>2 DEF HeldInv
<1>8. CASE pc \in Pivoting /\ pc' \in Pivoting /\ queue' = queue
  BY <1>1, <1>3, <1>8 DEF HeldInv
<1>9. CASE pc \in Running /\ pc' \in Running /\ file'[QC] = file[QC]
  BY <1>1, <1>2, <1>9 DEF HeldInv
<1> QED
  BY <1>4, <1>5, <1>6, <1>7, <1>8, <1>9

\* A process that ends leaves them where the next resume looks.
LEMMA HeldKill ==
  ASSUME TypeInv, DirInv, FreshInv, HeldInv, Kill
  PROVE  HeldInv'
<1>1. /\ pc' = "down" /\ file' = file /\ dirs' = dirs /\ had' = had
      /\ pc \in Starting \cup Pivoting \cup {"nuke", "ready"} \cup Running
      /\ inplace \in BOOLEAN /\ at \in Nat /\ RC \in Dirs
  BY DirNames DEF Kill, Ends, Stopped, disk, TypeInv, MemoryTypes, Pcs, Dead
<1>2. SUFFICES ASSUME ~trap'
               PROVE  InResume \/ (~ResumeLeft /\ InQueue)
  <2>1. (InResume <=> InResume') /\ (InQueue <=> InQueue') /\ (ResumeLeft <=> ResumeLeft')
    BY <1>1, ResumeDir DEF Saved, InResume, InQueue, ResumeLeft
  <2> QED
    BY <1>1, <2>1 DEF HeldInv, Pivoting, Running
<1>3. ~trap /\ (pc = "nuke" => ~ResumeLeft \/ InResume)
  BY <1>2 DEF Kill, ResumeLeft, InResume
<1>4. CASE pc = "clean"
  <2>1. at >= 1
    BY <1>4 DEF DirInv, CleanInv
  <2>2. CASE at = 1 /\ ~inplace
    BY <1>4, <2>2 DEF FreshInv, Starting, InResume
  <2>3. CASE at = 1 /\ inplace
    BY <1>3, <1>4, <2>3 DEF HeldInv
  <2>4. CASE at > 1
    BY <1>3, <1>4, <2>4 DEF HeldInv
  <2> QED
    BY <1>1, <2>1, <2>2, <2>3, <2>4
<1>5. CASE pc \in {"setup", "read"} \cup Pivoting \cup {"nuke"} \cup Running
  BY <1>3, <1>5 DEF HeldInv, Pivoting, Running
<1>6. CASE pc = "ready" /\ inplace
  <2>1. RS \notin dirs /\ RC \notin dirs
    BY <1>6 DEF DirInv, NukeInv
  <2>2. ~ResumeLeft
    BY <1>1, <2>1, ResumeDir DEF ResumeLeft, DirInv, Tidy
  <2> QED
    BY <1>3, <1>6, <2>2 DEF HeldInv
<1>7. CASE pc = "ready" /\ ~inplace
  BY <1>7 DEF FreshInv, InResume
<1> QED
  BY <1>1, <1>4, <1>5, <1>6, <1>7 DEF Starting

\* queue/ becomes _resume/, or _resume/ stays what it is.
LEMMA HeldMove ==
  ASSUME TypeInv, DirInv, HeldInv, MoveQueue
  PROVE  HeldInv'
<1>1. inplace \in BOOLEAN /\ DiskTypes /\ QC \in Dirs
  BY DirNames DEF TypeInv, MemoryTypes
<1>2. /\ pc = "clean" /\ inplace /\ at = 1 /\ pc' = "clean" /\ at' = 2
      /\ had' = had /\ trap' = trap
  BY <1>1, MoveIs DEF MoveQueue, Done, history
<1>3. SUFFICES ASSUME ~trap
               PROVE  InResume'
  BY <1>2 DEF HeldInv, Dead, FatalReasons, Pivoting, Running
<1>4. InResume \/ (~ResumeLeft /\ InQueue)
  BY <1>2, <1>3 DEF HeldInv
<1>5. CASE MayMove
  <2>1. ~ResumeLeft
    BY <1>5 DEF MayMove, ResumeLeft
  <2>2. InQueue
    BY <1>4, <2>1, ResumeDir DEF InResume, InQueue, ResumeLeft
  <2>3. \A i \in Ids : file'[RC][i] = file[QC][i]
    BY <1>1, <1>5, MovedIs
  <2> QED
    BY <1>2, <2>2, <2>3 DEF InResume, InQueue, Saved
<1>6. CASE ~MayMove
  <2>1. file' = file
    BY <1>6 DEF MoveQueue
  <2>2. CASE InResume
    BY <1>2, <2>1, <2>2 DEF InResume, Saved
  <2>3. CASE ~ResumeLeft /\ InQueue
    <3>1. QC \notin dirs
      BY <1>6, <2>3 DEF MayMove, ResumeLeft
    <3>2. Saved(QC) = {}
      BY <1>1, <3>1 DEF DirInv, Tidy, Saved
    <3> QED
      BY <1>2, <2>3, <3>2 DEF InResume, InQueue
  <2> QED
    BY <1>4, <2>2, <2>3
<1> QED
  BY <1>5, <1>6

\* What is read is in memory, what is pivoted is in queue/.
LEMMA HeldRead ==
  ASSUME TypeInv, ReadInv, QueueInv, FreshInv, HeldInv
  PROVE  /\ ReadDone /\ ~trap => had \subseteq Data
         /\ PivotDone /\ ~trap => InQueue
<1>1. /\ inplace \in BOOLEAN /\ queue \in Seq(Entry) /\ MemoryTypes /\ Len(queue) \in Nat
      /\ DOMAIN queue = 1 .. Len(queue)
  BY DEF TypeInv, MemoryTypes
<1>2. ASSUME ReadDone, ~trap
      PROVE  had \subseteq Data
  <2>1. CASE ~inplace
    BY <1>2, <2>1 DEF ReadDone, FreshInv, Starting
  <2>2. CASE inplace
    <3>1. at = MaxCases /\ AreRead /\ InResume
      BY <1>2, <2>2 DEF ReadDone, HeldInv
    <3>2. \A i \in Ids : i < MaxCases
      BY SessionAssumption DEF Ids
    <3>3. \A i \in Ids : file[RC][i] \in {Absent, Empty} \cup Data
      BY <3>1, <3>2 DEF AreRead
    <3> QED
      BY <3>1, <3>3 DEF InResume, Saved
  <2> QED
    BY <1>1, <2>1, <2>2
<1>3. ASSUME PivotDone, ~trap
      PROVE  InQueue
  <2>1. InMemory /\ pc = "pivot" /\ at = Len(queue)
    BY <1>3 DEF PivotDone, HeldInv, Pivoting
  <2>2. ASSUME NEW k \in DOMAIN queue
        PROVE  queue[k].data \in Saved(QC)
    <3>1. k - 1 \in Ids /\ queue[k].data \in Inputs
      BY <1>1, QueueIs
    <3>2. k - 1 < at /\ k - 1 + 1 = k
      BY <1>1, <2>1
    <3>3. file[QC][k - 1] = queue[k].data
      <4>1. Linked(k - 1)
        BY <2>1, <3>1, <3>2 DEF QueueInv, Pivoting
      <4> QED
        BY <3>2, <4>1 DEF Linked
    <3> QED
      BY <3>1, <3>3, SessionAssumption DEF Saved
  <2> QED
    BY <2>1, <2>2 DEF InMemory, InQueue, Data
<1> QED
  BY <1>2, <1>3

\* Writing to queue/ while the process runs.
LEMMA HeldPut ==
  ASSUME HeldInv, pc \in Running, pc' \in Running, trap' = trap, NEW n, NEW c, Wrote(QC, n, c),
         \/ had' = had /\ file[QC][n] \in {Absent, Empty, c}
         \/ had' = had \cup {c} /\ c \notin {Absent, Empty} /\ file[QC][n] \in {Absent, Empty, c}
         \/ \E x : had' = had \ {x} /\ file[QC][n] \in {Absent, Empty, x}
  PROVE  HeldInv'
<1>1. SUFFICES ASSUME ~trap
               PROVE  ~ResumeLeft' /\ InQueue'
  BY DEF HeldInv, Dead, FatalReasons, Pivoting, Running
<1>2. ~ResumeLeft /\ InQueue
  BY <1>1 DEF HeldInv
<1>3. file'[RC] = file[RC] /\ dirs' = dirs
  BY DirNames DEF Wrote
<1>4. ~ResumeLeft'
  BY <1>2, <1>3, ResumeDir DEF ResumeLeft
<1>5. ASSUME had' = had, file[QC][n] \in {Absent, Empty, c}
      PROVE  InQueue'
  <2>1. Saved(QC) \subseteq Saved(QC)'
    BY <1>5, SavedIs
  <2> QED
    BY <1>2, <1>5, <2>1 DEF InQueue
<1>6. ASSUME had' = had \cup {c}, c \notin {Absent, Empty},
             file[QC][n] \in {Absent, Empty, c}
      PROVE  InQueue'
  <2>1. Saved(QC) \subseteq Saved(QC)'
    BY <1>6, SavedIs
  <2>2. c \in Saved(QC)'
    BY <1>6, SavedIs
  <2> QED
    BY <1>2, <1>6, <2>1, <2>2 DEF InQueue
<1>7. ASSUME NEW x, had' = had \ {x}, file[QC][n] \in {Absent, Empty, x}
      PROVE  InQueue'
  <2>1. Saved(QC) \ {x} \subseteq Saved(QC)'
    <3>1. Saved(QC) \ {file[QC][n]} \subseteq Saved(QC)'
      BY SavedIs
    <3>2. {Absent, Empty} \cap Saved(QC) = {}
      BY DEF Saved
    <3> QED
      BY <1>7, <3>1, <3>2
  <2> QED
    BY <1>2, <1>7, <2>1 DEF InQueue
<1> QED
  BY <1>4, <1>5, <1>6, <1>7

\* Every step keeps the inputs of the session in one of the places.
LEMMA HeldStep ==
  ASSUME TypeInv, ReadInv, DirInv, QueueInv, FreshInv, HeldInv, [Next]_vars,
         pc' \notin {"cleanup_failed", "exists", "bad_mark"}
  PROVE  HeldInv'
<1>1. /\ inplace \in BOOLEAN /\ DiskTypes /\ MemoryTypes /\ at \in Nat /\ RC \in Dirs
      /\ QC \in Dirs /\ queue \in Seq(Entry) /\ DOMAIN queue = 1 .. Len(queue)
  BY DirNames DEF TypeInv, MemoryTypes
<1>2. CASE UNCHANGED vars
  BY <1>2, HeldSame DEF vars, disk, memory, history
<1>3. ASSUME NEW resume \in BOOLEAN, Start(resume)
      PROVE  HeldInv'
  <2>1. CASE StartNew(resume)
    <3>1. had' = {}
      BY <2>1 DEF StartNew, history, DirInv, Tidy
    <3>2. InResume' /\ pc' \in {"no_dir", "setup"}
      BY <2>1, <3>1 DEF InResume, StartNew, Ends, Phase
    <3> QED
      BY <3>2 DEF HeldInv, Pivoting, Running
  <2>2. CASE StartMalformed \/ StartAtRisk(resume)
    BY <2>2, HeldSame
       DEF StartMalformed, StartAtRisk, Fatal, Ends, disk, history, Stopped, Dead, FatalReasons
  <2>3. CASE StartOver(resume)
    <3>1. /\ pc \in Dead /\ pc' = "clean" /\ at' = 1 /\ inplace' = resume
          /\ file' = file /\ dirs' = dirs
          /\ resume => (had' = had /\ trap' = trap)
      BY <2>3 DEF StartOver, Phase, disk, Stopped, Dead
    <3>2. CASE resume
      <4>1. /\ InResume <=> InResume'
            /\ InQueue <=> InQueue'
            /\ ResumeLeft <=> ResumeLeft'
        BY <3>1, <3>2, ResumeDir DEF Saved, InResume, InQueue, ResumeLeft
      <4> QED
        BY <3>1, <3>2, <4>1 DEF HeldInv, Dead, FatalReasons, Pivoting, Running
    <3>3. CASE ~resume
      BY <1>3, <3>1, <3>3 DEF HeldInv, Dead, FatalReasons, Pivoting, Running
    <3> QED
      BY <3>2, <3>3
  <2> QED
    BY <1>3, <2>1, <2>2, <2>3 DEF Start
<1>4. CASE DeleteFile
  <2>1. /\ UNCHANGED <<pc, at, inplace, queue, had, trap>> /\ On \in Dirs
        /\ \E i \in Files(On) : Wrote(On, i, Absent)
    BY <1>4, DeleteFileIs DEF memory, history
  <2>2. CASE pc = "clean" /\ at = 1
    <3>1. On = Synced
      BY <1>1, <1>4, <2>2, DeleteIs DEF DeleteFile
    <3> QED
      BY <2>1, <3>1, HeldSame, DirNames DEF Wrote
  <2>3. CASE pc = "clean" /\ at # 1
    <3>1. On \in {QD, QR, QC, CrashDir} /\ at > 1
      BY <1>1, <1>4, <2>3, DeleteIs DEF DeleteFile
    <3> QED
      BY <2>1, <2>3, <3>1, HeldSame, DirNames DEF Wrote
  <2>4. CASE pc = "nuke"
    <3>1. On \in {RD, RR, RC}
      BY <1>1, <1>4, <2>4, DeleteIs DEF DeleteFile
    <3>2. file'[QC] = file[QC]
      BY <1>1, <2>1, <3>1, DirNames DEF Wrote
    <3>3. InQueue => InQueue'
      BY <2>1, <3>2 DEF InQueue, Saved
    <3> QED
      BY <2>1, <2>4, <3>3 DEF HeldInv, Dead, FatalReasons, Pivoting, Running
  <2> QED
    BY <1>4, <2>2, <2>3, <2>4, DeleteFileIs
<1>5. CASE RemoveDir
  <2>1. /\ file' = file /\ dirs' \subseteq dirs /\ pc' = pc /\ at' = at + 1
        /\ UNCHANGED <<inplace, queue, had, trap>> /\ pc \in {"clean", "nuke"}
    BY <1>1, <1>5, CleansUp, DeleteIs, RmdirIs DEF RemoveDir, Done, history
  <2>2. CASE pc = "clean" /\ at = 1
    <3>1. ~inplace
      BY <1>1, <1>5, <2>2, DeleteIs, RmdirIs DEF RemoveDir
    <3>2. InResume'
      BY <2>1, <2>2, <3>1 DEF FreshInv, Starting, InResume
    <3> QED
      BY <2>1, <2>2, <3>2 DEF HeldInv, Dead, FatalReasons, Pivoting, Running
  <2>3. CASE pc = "clean" /\ at # 1
    <3>1. at > 1 /\ at' > 1
      BY <1>1, <2>1, <2>3 DEF DirInv, CleanInv
    <3> QED
      BY <2>1, <2>3, <3>1, HeldSame
  <2>4. CASE pc = "nuke"
    BY <2>1, <2>4, HeldSame
  <2> QED
    BY <2>1, <2>2, <2>3, <2>4
<1>6. CASE UnlinkFile
  <2>1. /\ pc = "clean" /\ at > 1 /\ at' > 1 /\ UNCHANGED <<pc, file, dirs, had, trap>>
    BY <1>1, <1>6, UnlinkIs DEF UnlinkFile, PutPlain, Done, history
  <2> QED
    BY <2>1, HeldSame
<1>7. CASE MoveQueue
  BY <1>7, HeldMove
<1>8. CASE BackupCrashes
  <2>1. /\ pc = "clean" /\ at > 1 /\ at' > 1 /\ UNCHANGED <<pc, had, trap>>
    BY <1>1, <1>8, BackupIs DEF BackupCrashes, Done
  <2>2. file'[RC] = file[RC] /\ dirs' \subseteq dirs
    BY <1>1, <1>8, BackedUpIs, DirNames
  <2> QED
    BY <2>1, <2>2, HeldSame
<1>9. CASE MakeDir \/ CreateFile
  <2>1. /\ pc = "setup" /\ file' = file /\ UNCHANGED <<pc, inplace, queue, had, trap>>
        /\ RS \in dirs' => RS \in dirs
    BY <1>1, <1>9, MkdirIs, CreateIs, SetsUp, DirNames
       DEF MakeDir, CreateFile, PutPlain, Done, history
  <2> QED
    BY <2>1, HeldSame
<1>10. CASE Proceed
  <2>1. UNCHANGED <<dirs, file, inplace, queue, had, trap>> /\ at > Len(Calls)
    BY <1>10 DEF Proceed, disk, history
  <2>2. CASE pc = "clean" /\ Phase("setup", 1)
    <3>1. at > (IF inplace THEN 8 ELSE 9) /\ pc' = "setup"
      BY <1>1, <2>1, <2>2, CallsEnd DEF Phase
    <3>2. at > 1
      BY <1>1, <3>1
    <3> QED
      BY <2>1, <2>2, <3>1, <3>2, HeldSame
  <2>3. CASE pc = "setup" /\ Phase("read", 0)
    BY <2>1, <2>3, HeldSame DEF Phase
  <2>4. CASE pc = "nuke" /\ Phase("ready", 0)
    <3>1. InQueue => InQueue'
      BY <2>1 DEF InQueue, Saved
    <3> QED
      BY <2>1, <2>4, <3>1 DEF Phase, HeldInv, Dead, FatalReasons, Pivoting, Running
  <2> QED
    BY <1>10, <2>2, <2>3, <2>4 DEF Proceed
<1>11. CASE PivotDone
  <2>1. pc' = "nuke" /\ UNCHANGED <<file, had, trap>>
    BY <1>11 DEF PivotDone, Phase, disk, history
  <2>2. ~trap => InQueue'
    BY <1>11, <2>1, HeldRead DEF InQueue, Saved
  <2> QED
    BY <2>1, <2>2 DEF HeldInv, Dead, FatalReasons, Pivoting, Running
<1>12. CASE Kill
  BY <1>12, HeldKill
<1>13. CASE LiveStep
  <2>1. CASE ReadCase
    <3>1. /\ pc = "read" /\ pc' = "read" /\ inplace' = inplace /\ at' = at + 1 /\ at < MaxCases
          /\ file' = file /\ had' = had /\ trap' = trap
          /\ LET c == file[RC][at]
             IN queue' = IF c \in {Absent, Empty} THEN queue
                         ELSE Append(queue, Case(c, IF Mark(at) = Absent THEN Empty
                                                   ELSE Mark(at)))
      BY <2>1 DEF ReadCase, disk, history
    <3>2. at \in Ids
      BY <1>1, <3>1, IdsAre
    <3>3. Data \subseteq Data' /\ file[RC][at] \in {Absent, Empty} \cup Data'
      <4>1. CASE file[RC][at] \in {Absent, Empty}
        BY <3>1, <4>1 DEF Data
      <4>2. CASE file[RC][at] \notin {Absent, Empty}
        <5> DEFINE m == IF Mark(at) = Absent THEN Empty ELSE Mark(at)
        <5>1. file[RC][at] \in Inputs /\ m \in Inputs \cup {Empty}
          BY <1>1, <3>2, <4>2, KindIs, DirNames DEF Mark, DiskTypes, FileTypes
        <5>2. queue' = Append(queue, Case(file[RC][at], m))
          BY <3>1, <4>2
        <5> HIDE DEF m
        <5> QED
          BY <1>1, <5>1, <5>2, MoreData
      <4> QED
        BY <4>1, <4>2
    <3>4. AreRead => AreRead'
      <4>1. ASSUME NEW i \in Ids, i < at + 1
            PROVE  i < at \/ i = at
        BY <1>1, <4>1, IdsAre
      <4> QED
        BY <3>1, <3>3, <4>1 DEF AreRead
    <3>5. InResume => InResume'
      BY <3>1 DEF InResume, Saved
    <3> QED
      BY <3>1, <3>4, <3>5 DEF HeldInv, Dead, FatalReasons, Pivoting, Running
  <2>2. CASE ReadSeed
    <3>1. pc = "read" /\ pc' = "read" /\ ~inplace /\ ~inplace' /\ had' = had
      BY <2>2 DEF ReadSeed, history
    <3>2. InResume'
      BY <3>1 DEF FreshInv, Starting, InResume
    <3> QED
      BY <3>1, <3>2 DEF HeldInv, Dead, FatalReasons, Pivoting, Running
  <2>3. CASE ReadDone
    <3>1. /\ pc = "read" /\ file' = file /\ had' = had /\ trap' = trap
          /\ \/ pc' = "no_inputs"
             \/ pc' = "pivot" /\ queue' = queue
      BY <2>3 DEF ReadDone, Fatal, Ends, Phase, disk, history
    <3>2. ~trap => InResume /\ had \subseteq Data
      BY <2>3, <3>1, HeldRead DEF HeldInv
    <3>3. (InResume => InResume') /\ (queue' = queue => Data' = Data)
      BY <3>1 DEF InResume, Saved, Data
    <3> QED
      BY <3>1, <3>2, <3>3 DEF HeldInv, InMemory, Dead, FatalReasons, Pivoting, Running
  <2>4. CASE PivotLink \/ CopyWrite \/ PivotMark
    <3>1. /\ pc \in Pivoting /\ pc' \in Pivoting /\ queue' = queue /\ had' = had /\ trap' = trap
          /\ \/ file' = file /\ dirs' = dirs
             \/ \E d \in {QC, QD} : \E n, c : Wrote(d, n, c)
      BY <2>4, PivotLinkIs, CopyWriteIs, PivotMarkIs
         DEF Fatal, Ends, Phase, disk, memory, history, Pivoting
    <3>2. file'[RC] = file[RC] /\ dirs' = dirs
      BY <1>1, <3>1, DirNames DEF Wrote
    <3> QED
      BY <3>1, <3>2, HeldSame
  <2>5. CASE Ready
    <3>1. /\ pc = "ready" /\ pc' = "stats" /\ file' = file /\ dirs' = dirs /\ trap' = ResumeLeft
          /\ had' = (IF trap THEN {} ELSE had) \cup Saved(QC)
      BY <2>5 DEF Ready, disk, ResumeLeft
    <3>2. InQueue'
      BY <3>1 DEF HeldInv, InQueue, Saved
    <3>3. ResumeLeft' <=> ResumeLeft
      BY <3>1, ResumeDir DEF ResumeLeft
    <3> QED
      BY <3>1, <3>2, <3>3 DEF HeldInv, Dead, FatalReasons, Pivoting, Running
  <2>6. CASE StatsOpen \/ StatsWrite \/ Report \/ SaveQueue \/ CrashReadme
    BY <2>6, HeldSame
       DEF StatsOpen, StatsWrite, Report, SaveQueue, CrashReadme, PutPlain, disk, history, Running
  <2>7. CASE SaveCreate
    BY <2>7, SaveCreateIs, HeldPut DEF Fatal, Ends, history, Running
  <2>8. CASE SaveWrite
    <3>1. /\ pc \in Running /\ pc' \in Running /\ Len(queue) \in DOMAIN queue
          /\ queue[Len(queue)].data \in Inputs
      BY <1>1, <2>8, SaveWriteIs, LastIs DEF Running
    <3>2. file[QC][Len(queue) - 1] \in {Absent, Empty, queue[Len(queue)].data}
      BY <3>1, NoMark
    <3> QED
      BY <2>8, <3>1, <3>2, SaveWriteIs, HeldPut, SessionAssumption
  <2>9. CASE TrimUnlink
    <3>1. PICK k \in DOMAIN queue : Wrote(QC, k - 1, Absent) /\ had' = had \ {queue[k].data}
      BY <2>9, TrimUnlinkIs
    <3>2. pc \in Running /\ pc' \in Running /\ trap' = trap
      BY <2>9, TrimUnlinkIs DEF Running
    <3>3. file[QC][k - 1] \in {Absent, Empty, queue[k].data}
      BY <3>2, NoMark
    <3> QED
      BY <3>1, <3>2, <3>3, HeldPut
  <2>10. CASE TrimCreate
    BY <2>10, TrimCreateIs, HeldPut DEF history, Running
  <2>11. CASE TrimWrite
    <3>1. PICK k \in DOMAIN queue :
             /\ Wrote(QC, k - 1, queue[k].data) /\ had' = had \cup {queue[k].data}
             /\ file[QC][k - 1] = Empty
      BY <2>11, TrimWriteIs
    <3>2. queue[k].data \notin {Absent, Empty}
      BY <1>1, QueueIs, SessionAssumption
    <3>3. pc \in Running /\ pc' \in Running /\ trap' = trap
      BY <2>11, TrimWriteIs DEF Running
    <3> QED
      BY <3>1, <3>2, <3>3, HeldPut
  <2>12. CASE DetDone \/ MarkRedundant \/ CrashCreate \/ CrashWrite
    <3>1. /\ pc \in Running /\ pc' \in Running /\ had' = had /\ trap' = trap
          /\ \E d \in {QD, QR, CrashDir} : \E n, c : Wrote(d, n, c)
      BY <2>12, DetDoneIs, MarkRedundantIs, CrashCreateIs, CrashWriteIs
         DEF Fatal, Ends, history, Running
    <3>2. file'[RC] = file[RC] /\ file'[QC] = file[QC] /\ dirs' = dirs
      BY <1>1, <3>1, DirNames DEF Wrote
    <3> QED
      BY <3>1, <3>2, HeldSame
  <2> QED
    BY <1>13, <2>1, <2>2, <2>3, <2>4, <2>5, <2>6, <2>7, <2>8, <2>9, <2>10, <2>11, <2>12
       DEF LiveStep
<1> QED
  BY <1>2, <1>3, <1>4, <1>5, <1>6, <1>7, <1>8, <1>9, <1>10, <1>11, <1>12, <1>13, NextIs

\* A resume that finds no inputs looks in vain, for there were none.
LEMMA InputsStep ==
  ASSUME TypeInv, ReadInv, Blank, DirInv, QueueInv, CrashInv, InputsInv, [Next]_vars
  PROVE  InputsInv'
<1>1. FreshInv /\ HeldInv /\ AbortsJustified
  BY DEF InputsInv
<1>2. pc' \notin {"cleanup_failed", "exists", "bad_mark"}
  BY <1>1, Aborts DEF AbortsJustified
<1>3. FreshInv' /\ HeldInv'
  BY <1>1, <1>2, FreshStep, HeldStep
<1>4. ASSUME pc' = "no_inputs"
      PROVE  had' = {} \/ trap'
  <2>1. CASE pc = "no_inputs" /\ had' = had /\ trap' = trap
    BY <1>1, <2>1 DEF AbortsJustified
  <2>2. CASE ReadDone
    <3>1. queue = << >> /\ had' = had /\ trap' = trap
      BY <1>4, <2>2 DEF ReadDone, Phase, Fatal, history
    <3>2. Data = {}
      BY <3>1 DEF Data
    <3> QED
      BY <1>1, <2>2, <3>1, <3>2, HeldRead
  <2>3. ReadDone \/ UNCHANGED vars
    <3>1. CASE \E resume \in BOOLEAN : Start(resume)
      BY <1>4, <3>1
         DEF Start, StartNew, StartMalformed, StartAtRisk, StartOver, Fatal, Ends, Phase
    <3>2. CASE DeleteFile \/ RemoveDir \/ UnlinkFile \/ MoveQueue \/ BackupCrashes \/ MakeDir
               \/ CreateFile \/ Proceed
      BY <1>4, <3>2
         DEF DeleteFile, RemoveDir, UnlinkFile, MoveQueue, BackupCrashes, MakeDir, CreateFile,
             Proceed, Is, Calls, Done, Fatal, Ends, Phase
    <3>3. CASE PivotDone \/ Kill
      BY <1>4, <3>3 DEF PivotDone, Kill, Ends, Phase
    <3>4. CASE LiveStep /\ ~ReadDone
      BY <1>4, <3>4
         DEF LiveStep, ReadCase, ReadSeed, PivotLink, CopyWrite, PivotMark, Ready, StatsOpen,
             StatsWrite, Report, SaveQueue, SaveCreate, SaveWrite, TrimUnlink, TrimCreate,
             TrimWrite, DetDone, MarkRedundant, CrashReadme, CrashCreate, CrashWrite, Fatal, Ends,
             Phase
    <3> QED
      BY <3>1, <3>2, <3>3, <3>4, NextIs
  <2> QED
    BY <1>4, <2>1, <2>2, <2>3 DEF vars, history
<1> QED
  BY <1>2, <1>3, <1>4 DEF InputsInv, AbortsJustified

---------------------------------------------------------------------------
\* There is nothing before the first start.
LEMMA InitIs ==
  ASSUME Init
  PROVE  IInv
<1>1. /\ pc = "down" /\ dirs = {} /\ queue = << >> /\ had = {} /\ found = {} /\ kept = {}
      /\ at = 0 /\ inplace = FALSE /\ unique_crashes = 0 /\ worth = "no" /\ trap = FALSE
      /\ \A d \in Dirs, i \in Ids : file[d][i] = Absent
      /\ file \in [Dirs -> [Ids -> {Absent}]]
      /\ plain = [f \in {"README.txt", "fuzzer_stats", "plot_data"} |-> Absent]
  BY DEF Init, NoFiles
<1>2. plain["README.txt"] = Absent /\ plain["fuzzer_stats"] = Absent
      /\ plain["plot_data"] = Absent
  BY <1>1
<1>3. DiskTypes
  <2>1. file \in [Dirs -> [Ids -> Contents]]
    BY <1>1 DEF Contents
  <2>2. \A d \in Dirs, i \in Ids : file[d][i] \in Kind(d)
    BY <1>1 DEF Kind
  <2> QED
    BY <1>1, <2>1, <2>2 DEF DiskTypes, FileTypes
<1>4. MemoryTypes
  <2>1. queue \in Seq(Entry) /\ Len(queue) = 0
    BY <1>1
  <2>2. 0 <= MaxCases
    BY SessionAssumption
  <2>3. pc \notin {"copy", "mark", "create", "write", "readme", "crash"}
    BY <1>1
  <2> QED
    BY <1>1, <2>1, <2>2, <2>3 DEF MemoryTypes
<1>5. pc \in Dead /\ pc \in Pcs /\ pc \notin Starting \cup Pivoting \cup Running \cup Live
      /\ pc \notin {"nuke", "ready", "readme", "crash"}
  BY <1>1 DEF Dead, FatalReasons, Pcs, Starting, Pivoting, Running, Live
<1>6. TypeInv /\ ReadInv /\ Blank
  BY <1>1, <1>3, <1>4, <1>5 DEF TypeInv, ReadInv, Blank
<1>7. Tidy
  BY <1>1, <1>2, <1>5 DEF Tidy
<1>8. DirInv
  BY <1>1, <1>5, <1>7 DEF DirInv, CleanInv, SetUpInv, NukeInv, MadeInv
<1>9. QueueInv
  BY <1>1, <1>5 DEF QueueInv, Pivoting
<1>10. MarksInv
  <2>1. MarksOnDisk
    BY <1>1, DirNames DEF MarksOnDisk, Trees
  <2>2. MarksTrue
    BY <1>1 DEF MarksTrue
  <2> QED
    BY <2>1, <2>2 DEF MarksInv
<1>11. CrashInv
  BY <1>1, <1>5 DEF CrashInv, CrashesKept
<1>12. InputsInv
  <2>1. FreshInv
    BY <1>1 DEF FreshInv
  <2>2. HeldInv
    BY <1>1, <1>5 DEF HeldInv, InResume, Pivoting
  <2>3. AbortsJustified
    BY <1>1 DEF AbortsJustified
  <2> QED
    BY <2>1, <2>2, <2>3 DEF InputsInv
<1>13. RiskInv
  BY <1>1 DEF RiskInv
<1> QED
  BY <1>6, <1>8, <1>9, <1>10, <1>11, <1>12, <1>13 DEF IInv

\* Every step keeps all of it.
LEMMA IInvStep ==
  ASSUME IInv, [Next]_vars
  PROVE  IInv'
<1>1. /\ TypeInv /\ ReadInv /\ Blank /\ DirInv
      /\ QueueInv /\ MarksInv /\ CrashInv /\ InputsInv /\ RiskInv
  BY DEF IInv
<1>2. TypeInv' /\ Blank' /\ ReadInv'
  BY <1>1, TypeStep
<1>3. DirInv' /\ QueueInv'
  BY <1>1, <1>2, DirStep, QueueStep
<1>4. MarksInv' /\ CrashInv' /\ InputsInv' /\ RiskInv'
  BY <1>1, MarksStep, CrashStep, InputsStep, RiskStep
<1> QED
  BY <1>2, <1>3, <1>4 DEF IInv

\* Only a start that deletes or moves an old directory begins to clean up.
LEMMA ToClean ==
  ASSUME [Next]_vars, pc # "clean", pc' = "clean"
  PROVE  \E resume \in BOOLEAN : StartOver(resume)
<1>1. ~UNCHANGED vars
  BY DEF vars
<1>2. CASE \E resume \in BOOLEAN : Start(resume)
  BY <1>2 DEF Start, StartNew, StartMalformed, StartAtRisk, Fatal, Ends, Phase
<1>3. ~(DeleteFile \/ RemoveDir \/ UnlinkFile \/ MoveQueue \/ BackupCrashes \/ MakeDir
        \/ CreateFile \/ Proceed \/ PivotDone \/ Kill)
  BY DEF DeleteFile, RemoveDir, UnlinkFile, MoveQueue, BackupCrashes, MakeDir, CreateFile,
         Proceed, PivotDone, Kill, Done, Fatal, Ends, Phase
<1>4. ~LiveStep
  BY DEF LiveStep, ReadCase, ReadSeed, ReadDone, PivotLink, CopyWrite, PivotMark, Ready,
         StatsOpen, StatsWrite, Report, SaveQueue, SaveCreate, SaveWrite, TrimUnlink, TrimCreate,
         TrimWrite, DetDone, MarkRedundant, CrashReadme, CrashCreate, CrashWrite, Fatal, Ends,
         Phase
<1> QED
  BY <1>1, <1>2, <1>3, <1>4, NextIs

\* The inductive invariant: what each process has in memory, at each call on the output
\* directory, about what it and the ones before it left there.
THEOREM SessionInvariant == Spec => []IInv
<1>1. Init => IInv
  BY InitIs
<1>2. IInv /\ [Next]_vars => IInv'
  BY IInvStep
<1> QED
  BY <1>1, <1>2, PTL DEF Spec

\* The inputs of a session that was ready to fuzz survive any number of kills in any
\* number of resumes, unless _resume/ was left with cases of no use: whichever call on the
\* directory of maybe_delete_out_dir(), setup_dirs_fds() and pivot_inputs() is the last.
THEOREM InputsAreNotLost == Spec => []InputsSurviveKills
<1>1. IInv => InputsSurviveKills
  BY DEF IInv, InputsInv, HeldInv, InQueue, InputsSurviveKills, InputsSurvive
<1> QED
  BY <1>1, SessionInvariant, PTL

\* No start trips over what a killed one left behind, and a resume ends for want of
\* inputs only if there are none.
THEOREM StartsSucceed == Spec => []AbortsJustified
<1>1. IInv => AbortsJustified
  BY DEF IInv, InputsInv
<1> QED
  BY <1>1, SessionInvariant, PTL

\* passed_det is never set for an entry whose input did not go through the stages, over
\* any number of resumes that give it another number.
THEOREM MarksAreTrue == Spec => []MarksTrue
<1>1. IInv => MarksTrue
  BY DEF IInv, MarksInv
<1> QED
  BY <1>1, SessionInvariant, PTL

\* A crash that was kept is in crashes/ or in one of its backups, until a fresh start.
THEOREM CrashesAreKept == Spec => []CrashesKept
<1>1. IInv => CrashesKept
  BY DEF IInv, CrashInv
<1> QED
  BY <1>1, SessionInvariant, PTL

\* maybe_delete_out_dir() never gives up the results of a long run that was not resumed.
THEOREM LongRunsAreKept == Spec => AtRiskKept
<1>1. ASSUME IInv, [Next]_vars
      PROVE  [pc' = "clean" /\ pc # "clean" /\ ~inplace' => worth # "yes"]_vars
  <2>1. SUFFICES ASSUME pc' = "clean", pc # "clean", ~inplace'
                 PROVE  worth # "yes"
    OBVIOUS
  <2>2. PICK resume \in BOOLEAN : StartOver(resume)
    BY <1>1, <2>1, ToClean
  <2>3. plain["fuzzer_stats"] # Empty /\ plain["fuzzer_stats"] # "long"
    BY <2>1, <2>2 DEF StartOver, AtRisk
  <2> QED
    BY <1>1, <2>3 DEF IInv, RiskInv
<1> QED
  BY <1>1, SessionInvariant, PTL DEF Spec, AtRiskKept
=============================================================================
