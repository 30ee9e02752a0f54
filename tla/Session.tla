------------------------------ MODULE Session ------------------------------
(***************************************************************************)
(* The output directory of afl-fuzz over any number of starts, resumes and *)
(* kills.  One step is one system call on the directory, as far as another *)
(* start could tell the difference, and the process may be killed between   *)
(* any two.  What a start does to the directory is a list of such calls,   *)
(* worked off one by one.  A test case is known by the number in its name. *)
(***************************************************************************)
EXTENDS Naturals, Sequences, FiniteSets

CONSTANTS
  Inputs,       \* test cases, told apart by what they contain
  Seeds,        \* those in the user's input directory
  Crashes,      \* crashing inputs that may be found
  MaxCases      \* bound on the numbers of test cases and of crashes

Absent == "none"
Empty == ""

ASSUME SessionAssumption ==
  /\ Seeds \subseteq Inputs /\ Seeds # {} /\ IsFiniteSet(Seeds)
  /\ MaxCases \in Nat /\ Cardinality(Seeds) <= MaxCases
  /\ {Absent, Empty} \cap (Inputs \cup Crashes) = {}

VARIABLES
  dirs,      \* the directories that exist
  file,      \* for each directory, what its file of a number contains
  plain,     \* the files that have no number
  pc,        \* where the fuzzer is; "down" if it does not run
  at,        \* the next call of a phase, or the next number to be read or linked
  inplace,   \* in_place_resume
  queue,     \* the queue in memory: per entry, whose file has the number before its
             \* index, its content, for passed_det the input (as a history) that was
             \* marked, or Empty, and fs_redundant
  unique_crashes,
  had,       \* history: inputs a session had in its queue, completely written
  found,     \* history: crashes kept so far
  kept,      \* contents of the time-stamped backups of crashes/
  worth,     \* history: "yes" if the last run took more than OUTPUT_GRACE minutes,
             \* "resumed" if an earlier one did and was resumed since
  trap       \* history: _resume/ is left with cases of no use to the next resume

disk == <<dirs, file, plain>>
memory == <<at, inplace, queue, unique_crashes>>
history == <<had, found, kept, worth, trap>>
vars == <<disk, pc, memory, history>>

---------------------------------------------------------------------------
(* The file system. *)

Ids == 0 .. MaxCases - 1
Trees == {"queue", "_resume"}

\* redundant_edges stands for auto_extras and variable_behavior, and crashes/ for
\* hangs/ too: the code treats them alike, one after the other.
Cases(t) == t
State(t) == IF t = "queue" THEN "queue/.state" ELSE "_resume/.state"
Det(t) == IF t = "queue" THEN "queue/.state/deterministic_done"
          ELSE "_resume/.state/deterministic_done"
Red(t) == IF t = "queue" THEN "queue/.state/redundant_edges"
          ELSE "_resume/.state/redundant_edges"
Within(t) == {Cases(t), State(t), Det(t), Red(t)}
CrashDir == "crashes"
Synced == ".synced"
Out == "."
Dirs == Within("queue") \cup Within("_resume") \cup {CrashDir, Synced, Out}

NoFiles == [i \in Ids |-> Absent]

Inside(d) ==
  {e \in Dirs : \E t \in Trees : \/ d = Cases(t) /\ e = State(t)
                                 \/ d = State(t) /\ e \in {Det(t), Red(t)}}
Blocked(d) ==
  \/ Inside(d) \cap dirs # {}
  \/ d = CrashDir /\ plain["README.txt"] # Absent
Files(d) == {i \in Ids : file[d][i] # Absent}
NonEmpty(d) == Blocked(d) \/ Files(d) # {}
Saved(d) == {file[d][i] : i \in Ids} \ {Absent, Empty}

Put(d, i, c) == file' = [file EXCEPT ![d][i] = c] /\ UNCHANGED <<dirs, plain>>
PutPlain(f, c) == plain' = [plain EXCEPT ![f] = c] /\ UNCHANGED <<dirs, file>>

---------------------------------------------------------------------------
(* What a start does to the directory. *)

Delete(d) == [do |-> "delete", on |-> d]
Rmdir(d) == [do |-> "rmdir", on |-> d]
Mkdir(d) == [do |-> "mkdir", on |-> d]
Unlink(f) == [do |-> "unlink", on |-> f]
Create(f) == [do |-> "create", on |-> f]
Move == [do |-> "move", on |-> Cases("queue")]
Backup == [do |-> "backup", on |-> CrashDir]
MkdirAny(d) == [do |-> "mkdir_any", on |-> d]

\* A version that forgets .state itself.
DeleteQueueShort(t) == << Delete(Det(t)), Delete(Red(t)), Delete(Cases(t)) >>

\* The calls that take .state of a queue directory, and then the directory, apart.
DeleteQueue(t) == << Delete(Det(t)), Delete(Red(t)), Rmdir(State(t)), Delete(Cases(t)) >>

\* A version without the backup.
DeleteFindingsAlways(resume) == << Unlink("README.txt"), Delete(CrashDir) >>

\* crashes/ and hangs/ are backed up by a resume, and deleted by a fresh start.
DeleteFindings(resume) ==
  << IF resume THEN Backup ELSE Unlink("README.txt"), Delete(CrashDir) >>

FinishingTouches(resume) ==
  IF resume THEN << Unlink("plot_data") >>
  ELSE << Unlink("fuzzer_stats"), Unlink("plot_data") >>

CleanUp ==
  [resume \in BOOLEAN |->
     << IF resume THEN Move ELSE Delete(Synced) >>
       \o DeleteQueue("queue") \o DeleteFindings(resume) \o FinishingTouches(resume)]

SetUp ==
  [resume \in BOOLEAN |->
     << Mkdir(Cases("queue")), Mkdir(State("queue")), Mkdir(Det("queue")), Mkdir(Red("queue")),
        IF resume THEN MkdirAny(Synced) ELSE Mkdir(Synced), Mkdir(CrashDir),
        Create("plot_data") >>]

\* pivot_inputs() calls nuke_resume_dir() of a resume only.
Nuke == [resume \in BOOLEAN |-> IF resume THEN DeleteQueue("_resume") ELSE << >>]

Calls ==
  CASE pc = "clean" -> CleanUp[inplace]
    [] pc = "setup" -> SetUp[inplace]
    [] pc = "nuke" -> Nuke[inplace]
    [] OTHER -> << >>

---------------------------------------------------------------------------
Init ==
  /\ dirs = {} /\ file = [d \in Dirs |-> NoFiles]
  /\ plain = [f \in {"README.txt", "fuzzer_stats", "plot_data"} |-> Absent]
  /\ pc = "down" /\ at = 0 /\ inplace = FALSE /\ queue = << >> /\ unique_crashes = 0
  /\ had = {} /\ found = {} /\ kept = {} /\ worth = "no" /\ trap = FALSE

\* The end of the process: what it had in memory is gone, and nothing is undone.
Ends(why) ==
  pc' = why /\ at' = 0 /\ inplace' = FALSE /\ queue' = << >> /\ unique_crashes' = 0

Fatal(why) == Ends(why) /\ UNCHANGED <<disk, history>>

FatalReasons ==
  {"at_risk", "malformed_stats", "cleanup_failed", "exists", "bad_mark", "no_inputs", "no_dir"}
Stopped == pc \in {"down"} \cup FatalReasons

Phase(next, first) == pc' = next /\ at' = first

\* A version that does not look at fuzzer_stats.
AtRiskNever(resume) == FALSE

\* A fresh start refuses to delete the results of a long run.
AtRisk(resume) == ~resume /\ plain["fuzzer_stats"] = "long"

\* A new start: setup_dirs_fds() up to the decision what to do with an old
\* directory.  The directory is made before a resume finds that it was not there.
StartNew(resume) ==
  /\ Stopped /\ Out \notin dirs
  /\ dirs' = dirs \cup {Out}
  /\ IF resume THEN Ends("no_dir")
     ELSE Phase("setup", 1) /\ UNCHANGED <<inplace, queue, unique_crashes>>
  /\ UNCHANGED <<file, plain, history>>

StartMalformed ==
  /\ Stopped /\ Out \in dirs
  /\ plain["fuzzer_stats"] = Empty
  /\ Fatal("malformed_stats")

StartAtRisk(resume) ==
  /\ Stopped /\ Out \in dirs
  /\ AtRisk(resume)
  /\ Fatal("at_risk")

\* A fresh start that passes gives the old results up for good.
StartOver(resume) ==
  /\ Stopped /\ Out \in dirs
  /\ plain["fuzzer_stats"] # Empty /\ ~AtRisk(resume)
  /\ Phase("clean", 1) /\ inplace' = resume
  /\ UNCHANGED <<disk, queue, unique_crashes, kept>>
  /\ IF resume THEN UNCHANGED <<had, found, worth, trap>>
     ELSE /\ had' = {} /\ found' = {} /\ worth' = "no"
          /\ trap' = (trap \/ NonEmpty(Cases("_resume")))

Start(resume) == StartNew(resume) \/ StartMalformed \/ StartAtRisk(resume) \/ StartOver(resume)

---------------------------------------------------------------------------
(* The calls of a phase. *)

Is(do) == at \in DOMAIN Calls /\ Calls[at].do = do
On == Calls[at].on
Done == at' = at + 1 /\ UNCHANGED <<pc, inplace, queue, unique_crashes>>

\* delete_files() unlinks the numbered files, in any order, then the directory.
DeleteFile ==
  /\ Is("delete")
  /\ \E i \in Files(On) : Put(On, i, Absent)
  /\ UNCHANGED <<pc, memory, history>>

\* rmdir() of a directory that is not there does no harm.
RemoveDir ==
  /\ \/ Is("delete") /\ Files(On) = {}
     \/ Is("rmdir")
  /\ IF NonEmpty(On) THEN Fatal("cleanup_failed")
     ELSE dirs' = dirs \ {On} /\ Done /\ UNCHANGED <<file, plain, history>>

UnlinkFile == Is("unlink") /\ PutPlain(On, Absent) /\ Done /\ UNCHANGED history

\* What goes wrong if rename() replaced a directory that is in use.
MayMoveOver == Cases("queue") \in dirs

\* rename(queue, _resume): the tree moves, unless _resume/ is there and not empty.
MayMove == Cases("queue") \in dirs /\ ~NonEmpty(Cases("_resume"))

OldPlace(d) ==
  CASE d = Cases("_resume") -> Cases("queue") [] d = State("_resume") -> State("queue")
    [] d = Det("_resume") -> Det("queue") [] d = Red("_resume") -> Red("queue")

MoveQueue ==
  /\ Is("move")
  /\ IF MayMove
     THEN /\ dirs' = (dirs \ (Within("queue") \cup Within("_resume")))
                       \cup {d \in Within("_resume") : OldPlace(d) \in dirs}
          /\ file' = [d \in Dirs |-> IF d \in Within("queue") THEN NoFiles
                                    ELSE IF d \in Within("_resume") THEN file[OldPlace(d)]
                                    ELSE file[d]]
     ELSE UNCHANGED <<dirs, file>>
  /\ Done /\ UNCHANGED <<plain, history>>

\* An empty crashes/ is removed, another one gets the time for a name.
BackupCrashes ==
  /\ Is("backup")
  /\ kept' = kept \cup Saved(CrashDir)
  /\ dirs' = dirs \ {CrashDir} /\ file' = [file EXCEPT ![CrashDir] = NoFiles]
  /\ plain' = [plain EXCEPT !["README.txt"] = Absent]
  /\ Done /\ UNCHANGED <<had, found, worth, trap>>

MakeDir ==
  /\ \/ Is("mkdir")
     \/ Is("mkdir_any")
  /\ IF On \in dirs /\ Is("mkdir") THEN Fatal("exists")
     ELSE dirs' = dirs \cup {On} /\ Done /\ UNCHANGED <<file, plain, history>>

CreateFile ==
  /\ Is("create")
  /\ IF plain[On] # Absent THEN Fatal("exists")
     ELSE PutPlain(On, Empty) /\ Done /\ UNCHANGED history

\* From maybe_delete_out_dir() to the rest of setup_dirs_fds(), and on.
Proceed ==
  /\ at > Len(Calls)
  /\ \/ pc = "clean" /\ Phase("setup", 1)
     \/ pc = "setup" /\ Phase("read", 0)
     \/ pc = "nuke" /\ Phase("ready", 0)
  /\ UNCHANGED <<disk, inplace, queue, unique_crashes, history>>

---------------------------------------------------------------------------
(* Reading the test cases and pivoting to the new queue. *)

Case(data, det) == [data |-> data, det |-> det, redundant |-> FALSE]

\* A version that looks for the mark under the number the case will get.
MarkRenumbered(i) == file[Det("_resume")][Len(queue)]

\* An entry passed its deterministic stages if there is a mark of the same name.
Mark(i) == file[Det("_resume")][i]

\* read_testcases(): in the order of the names; empty files are left out.
ReadCase ==
  /\ pc = "read" /\ inplace /\ at < MaxCases
  /\ LET c == file[Cases("_resume")][at]
     IN queue' = IF c \in {Absent, Empty} THEN queue
                 ELSE Append(queue, Case(c, IF Mark(at) = Absent THEN Empty ELSE Mark(at)))
  /\ at' = at + 1
  /\ UNCHANGED <<disk, pc, inplace, unique_crashes, history>>

Unread == Seeds \ {queue[k].data : k \in DOMAIN queue}

ReadSeed ==
  /\ pc = "read" /\ ~inplace
  /\ \E s \in Unread : queue' = Append(queue, Case(s, Empty))
  /\ UNCHANGED <<disk, pc, at, inplace, unique_crashes, history>>

ReadDone ==
  /\ pc = "read"
  /\ IF inplace THEN at = MaxCases ELSE Unread = {}
  /\ IF queue = << >> THEN Fatal("no_inputs")
     ELSE Phase("pivot", 0) /\ UNCHANGED <<disk, inplace, queue, unique_crashes, history>>

\* pivot_inputs(): each case gets a link in queue/, under the next number, and then
\* its mark, by mark_as_det_done().  Where link() fails the case is copied, and the
\* copy is empty at first.
PivotLink ==
  /\ pc = "pivot" /\ at < Len(queue)
  /\ IF file[Cases("queue")][at] # Absent THEN Fatal("exists")
     ELSE /\ \/ Put(Cases("queue"), at, queue[at + 1].data) /\ pc' = "mark"
             \/ Put(Cases("queue"), at, Empty) /\ pc' = "copy"
          /\ UNCHANGED <<memory, history>>

CopyWrite ==
  /\ pc = "copy" /\ pc' = "mark"
  /\ Put(Cases("queue"), at, queue[at + 1].data)
  /\ UNCHANGED <<memory, history>>

PivotMark ==
  /\ pc = "mark"
  /\ IF queue[at + 1].det = Empty
     THEN Phase("pivot", at + 1) /\ UNCHANGED <<disk, inplace, queue, unique_crashes, history>>
     ELSE IF file[Det("queue")][at] # Absent THEN Fatal("exists")
     ELSE /\ Put(Det("queue"), at, queue[at + 1].det) /\ Phase("pivot", at + 1)
          /\ UNCHANGED <<inplace, queue, unique_crashes, history>>

PivotDone ==
  /\ pc = "pivot" /\ at = Len(queue)
  /\ Phase("nuke", 1)
  /\ UNCHANGED <<disk, inplace, queue, unique_crashes, history>>

---------------------------------------------------------------------------
(* Fuzzing, as far as it touches the files. *)

\* The dry run is over: what is in the queue now belongs to the session.
Ready ==
  /\ pc = "ready" /\ pc' = "stats"
  /\ had' = (IF trap THEN {} ELSE had) \cup Saved(Cases("queue"))
  /\ trap' = NonEmpty(Cases("_resume"))
  /\ worth' = (IF worth = "yes" THEN "resumed" ELSE worth)
  /\ UNCHANGED <<disk, memory, found, kept>>

\* write_stats_file(): truncated when opened, written when closed.
StatsOpen ==
  /\ pc = "stats" /\ pc' = "stats2"
  /\ PutPlain("fuzzer_stats", Empty)
  /\ UNCHANGED <<memory, history>>

StatsWrite ==
  /\ pc = "stats2" /\ pc' = "fuzz"
  /\ worth' \in {worth, "yes"}
  /\ PutPlain("fuzzer_stats", IF worth' = "yes" THEN "long" ELSE "short")
  /\ UNCHANGED <<memory, had, found, kept, trap>>

Report ==
  /\ pc = "fuzz" /\ pc' = "stats"
  /\ UNCHANGED <<disk, memory, history>>

\* save_if_interesting(): the entry is queued and calibrated, then its file is
\* created, then written.
SaveQueue ==
  /\ pc = "fuzz" /\ pc' = "create"
  /\ Len(queue) < MaxCases
  /\ \E i \in Inputs \ {queue[k].data : k \in DOMAIN queue} :
        queue' = Append(queue, Case(i, Empty))
  /\ UNCHANGED <<disk, at, inplace, unique_crashes, history>>

SaveCreate ==
  /\ pc = "create"
  /\ IF file[Cases("queue")][Len(queue) - 1] # Absent THEN Fatal("exists")
     ELSE /\ Put(Cases("queue"), Len(queue) - 1, Empty) /\ pc' = "write"
          /\ UNCHANGED <<memory, history>>

SaveWrite ==
  /\ pc = "write" /\ pc' = "fuzz"
  /\ LET c == queue[Len(queue)].data
     IN Put(Cases("queue"), Len(queue) - 1, c) /\ had' = had \cup {c}
  /\ UNCHANGED <<memory, found, kept, worth, trap>>

\* trim_case(): unlink, create and write.  The case is not safe until it is written.
TrimUnlink ==
  /\ pc = "fuzz" /\ pc' = "trim"
  /\ \E k \in DOMAIN queue :
        Put(Cases("queue"), k - 1, Absent) /\ had' = had \ {queue[k].data}
  /\ UNCHANGED <<memory, found, kept, worth, trap>>

TrimCreate ==
  /\ pc = "trim" /\ pc' = "trim2"
  /\ \E k \in DOMAIN queue :
        file[Cases("queue")][k - 1] = Absent /\ Put(Cases("queue"), k - 1, Empty)
  /\ UNCHANGED <<memory, history>>

TrimWrite ==
  /\ pc = "trim2" /\ pc' = "fuzz"
  /\ \E k \in DOMAIN queue :
        /\ file[Cases("queue")][k - 1] = Empty
        /\ Put(Cases("queue"), k - 1, queue[k].data) /\ had' = had \cup {queue[k].data}
  /\ UNCHANGED <<memory, found, kept, worth, trap>>

\* mark_as_det_done(), after the deterministic stages of an entry.
DetDone ==
  /\ pc = "fuzz"
  /\ \E k \in DOMAIN queue :
        /\ queue[k].det = Empty
        /\ IF file[Det("queue")][k - 1] # Absent THEN Fatal("bad_mark")
           ELSE /\ Put(Det("queue"), k - 1, queue[k].data)
                /\ queue' = [queue EXCEPT ![k].det = queue[k].data]
                /\ UNCHANGED <<pc, at, inplace, unique_crashes, history>>

\* mark_as_redundant(), of an entry that cull_queue() favors no more or favors now.
MarkRedundant ==
  /\ pc = "fuzz"
  /\ \E k \in DOMAIN queue :
        IF (file[Red("queue")][k - 1] # Absent) # queue[k].redundant THEN Fatal("bad_mark")
        ELSE /\ Put(Red("queue"), k - 1, IF queue[k].redundant THEN Absent ELSE "mark")
             /\ queue' = [queue EXCEPT ![k].redundant = ~@]
             /\ UNCHANGED <<pc, at, inplace, unique_crashes, history>>

\* A crash that is unlike those of this session is saved the same way, after a README
\* for the first of them.
MayKeepCrash == unique_crashes < MaxCases /\ Crashes \ Saved(CrashDir) # {}

CrashReadme ==
  /\ pc = "fuzz" /\ pc' = "readme"
  /\ MayKeepCrash /\ unique_crashes = 0
  /\ PutPlain("README.txt", "readme")
  /\ UNCHANGED <<memory, history>>

CrashCreate ==
  /\ \/ pc = "readme"
     \/ pc = "fuzz" /\ MayKeepCrash /\ unique_crashes > 0
  /\ IF file[CrashDir][unique_crashes] # Absent THEN Fatal("exists")
     ELSE /\ Put(CrashDir, unique_crashes, Empty)
          /\ pc' = "crash" /\ unique_crashes' = unique_crashes + 1
          /\ UNCHANGED <<at, inplace, queue, history>>

CrashWrite ==
  /\ pc = "crash" /\ pc' = "fuzz"
  /\ \E c \in Crashes \ Saved(CrashDir) :
        Put(CrashDir, unique_crashes - 1, c) /\ found' = found \cup {c}
  /\ UNCHANGED <<memory, had, kept, worth, trap>>

\* The process is killed, or the machine goes down with all that was written on disk.
Kill ==
  /\ ~Stopped
  /\ Ends("down")
  /\ trap' = \/ trap
             \/ /\ pc = "nuke" /\ NonEmpty(Cases("_resume"))
                /\ ~(had \subseteq Saved(Cases("_resume")))
  /\ UNCHANGED <<disk, had, found, kept, worth>>

Next ==
  \/ \E resume \in BOOLEAN : Start(resume)
  \/ DeleteFile \/ RemoveDir \/ UnlinkFile \/ MoveQueue \/ BackupCrashes \/ MakeDir
  \/ CreateFile \/ Proceed
  \/ ReadCase \/ ReadSeed \/ ReadDone
  \/ PivotLink \/ CopyWrite \/ PivotMark \/ PivotDone
  \/ Ready \/ StatsOpen \/ StatsWrite \/ Report
  \/ SaveQueue \/ SaveCreate \/ SaveWrite \/ TrimUnlink \/ TrimCreate \/ TrimWrite
  \/ DetDone \/ MarkRedundant \/ CrashReadme \/ CrashCreate \/ CrashWrite
  \/ Kill

Spec == Init /\ [][Next]_vars
---------------------------------------------------------------------------
\* A session that was ready to fuzz passes all its complete inputs on to the next one
\* that resumes it, wherever it and any number of resumes in between were killed
\* (comment at 3683).
InputsSurvive == pc = "ready" => had \subseteq Saved(Cases("queue"))

\* The same, except where the code is known to break it: _resume/ was left by a kill in
\* the middle of nuke_resume_dir(), or there was a fresh start while it existed.
InputsSurviveKills == ~trap => InputsSurvive

\* A start never trips over what an interrupted one left behind: cleaning up succeeds, no
\* directory, file or mark to be created is there, a mark to be removed is, and a resume
\* finds inputs if there are any.
AbortsJustified ==
  /\ pc \notin {"cleanup_failed", "exists", "bad_mark"}
  /\ pc = "no_inputs" => had = {} \/ trap

\* An entry skips its deterministic stages only if its input went through them, although
\* the marks are files of their own and cases get new numbers in a resume.
MarksTrue == \A k \in DOMAIN queue : queue[k].det \in {Empty, queue[k].data}

\* No crash is lost by a kill or a resume: it is in crashes/ or in a backup of it.
CrashesKept == found \subseteq kept \cup Saved(CrashDir)

\* A fresh start never deletes the results of a run of more than OUTPUT_GRACE minutes,
\* unless that run has been resumed since (3663).
AtRiskKept == [][pc' = "clean" /\ pc # "clean" /\ ~inplace' => worth # "yes"]_vars
============================================================================
