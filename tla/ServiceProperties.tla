-------------------------- MODULE ServiceProperties --------------------------
(***************************************************************************)
(* What TapeService is expected to satisfy.  Which Events a property can   *)
(* stand is said with it; the configurations set them accordingly.         *)
(***************************************************************************)
EXTENDS TapeService

Phase == {"idle", "down", "status", "stat", "erase", "select_in_progress",
          "update_in_progress", "update_on_disk", "update_the_rest", "create_xattr"}
GroupName == {"none", "only_on_tape", "on_disk", "the_rest",
              "in_progress", "need_recall", "marked"}

\* The variables have their types, and what is in memory belongs to the running
\* handler: one at work on a stage finds it in the table, status() has all the
\* files of its stage in memory and looks at those that are not final, erase()
\* has left no file when it comes to the stage, and a handler that is to write has
\* read the clock.
TypeOK ==
  /\ IsStageTable(stage) /\ IsFileTable(file)
  /\ disk \in [PhysicalPath -> FileOnDisk]
  /\ gemss \in SUBSET PhysicalPath
  /\ clock \in 1..MaxTime /\ now \in 0..MaxTime
  /\ pc \in Phase
  /\ id \in StageId \cup {NoStage}
  /\ mem \in [LogicalPath -> State \cup {"none"}]
  /\ todo \in SUBSET LogicalPath
  /\ grp \in [PhysicalPath -> GroupName]
  /\ pc \in {"status", "stat", "erase"} => id \in DOMAIN stage
  /\ todo # {} => pc \in {"status", "stat"}
  /\ \A l \in todo : <<id, l>> \in DOMAIN file /\ file[<<id, l>>].state \notin Final
  /\ pc \in {"status", "stat"} => \A l \in FilesOf(file, id) : mem[l] # "none"
  /\ pc = "erase" => FilesOf(file, id) = {}
  /\ pc \notin {"idle", "down", "erase", "select_in_progress"} => now # 0

-----------------------------------------------------------------------------
(* The tables *)

\* Every file belongs to a stage, at every point of an insertion, a deletion or
\* a crash in the middle of one: SQLite does not enforce the FOREIGN KEY of the
\* table File, only the order of the statements in insert() and erase() does.
NoOrphanFiles == \A k \in DOMAIN file : k[1] \in DOMAIN stage

\* A stage with completed_at set has all its files in a final state, as the
\* comment of find_incomplete_stages() has it.  update_timestamps() decides it
\* from the files in memory, the rows are updated by physical path and under
\* conditions: they must agree.  (A "stmt" event breaks it, see the findings.)
CompletedStageIsFinal ==
  \A k \in DOMAIN file :
    stage[k[1]].completed_at # 0 => file[k].state \in Final

\* The times of a row say its state: submitted files have none, started ones a
\* start, final ones a start and an end, whichever handlers moved it; and so do those
\* that status() has in memory, of which update_timestamps() asserts a part
\* (stage_request.cpp:29).  The comments in take_over() say otherwise of the files it
\* completes or fails, "started_at may remain at its default value"
\* (tape_service.cpp:485 and 491): the SQL update sets it where it is still 0.  If they
\* were right the assertion could fail in the next status() of a stage of two files.
HasTimesOf(r) ==
  /\ r.state = "submitted" <=> r.started_at = 0
  /\ r.state \in Final <=> r.finished_at # 0
TimesTellState ==
  /\ \A k \in DOMAIN file : HasTimesOf(file[k])
  /\ pc = "status" => \A l \in DOMAIN MemFiles : HasTimesOf(MemFiles[l])

\* While the clock is not set back no file ends before it has started, though its
\* start and its end may be written by two handlers, one of which reads the clock
\* before it looks at the files and the other after.
TimesAreOrdered ==
  \A k \in DOMAIN file : file[k].state \in Final => file[k].started_at <= file[k].finished_at

\* The start of a stage, once set, stays the earliest start of its files, though
\* more files start and end after it was computed; and neither of its times
\* precedes the request.
StageStartIsEarliest ==
  \A s \in DOMAIN stage :
    LET begun == {l \in FilesOf(file, s) : file[<<s, l>>].state # "submitted"}
    IN  /\ stage[s].started_at # 0 =>
             /\ \A l \in begun : stage[s].started_at <= file[<<s, l>>].started_at
             /\ stage[s].created_at <= stage[s].started_at
             /\ begun # {} => \E l \in begun :
                                stage[s].started_at = file[<<s, l>>].started_at
        /\ stage[s].completed_at # 0 =>
             /\ stage[s].started_at # 0
             /\ stage[s].started_at <= stage[s].completed_at

\* A file that ends after its stage was complete was cancelled then: nothing but
\* cancel() can touch the files of a complete stage.
LateEndIsCancelled ==
  \A k \in DOMAIN file :
    LET t == stage[k[1]] IN
    t.completed_at # 0 /\ file[k].finished_at > t.completed_at =>
      file[k].state = "cancelled"

\* A final state is left only for cancelled, by cancel(), which has no condition
\* on the state of the row.  The updates of status() and take_over() are computed
\* from earlier reads and reach the rows of every stage that names the path.
FinalIsForever ==
  [][\A k \in DOMAIN file \cap DOMAIN file' :
       file[k].state \in Final =>
         file'[k] = file[k] \/ file'[k].state = "cancelled"]_vars

\* A file that has been found to have ended has ended in the same way for every
\* stage and under every name, whatever each row was: what status() and take_over()
\* conclude for one stage they store by physical path, for all.  (A cancellation is
\* of one stage only; stage() may insert a file as failed.)
EndIsShared ==
  [][\A j, k \in DOMAIN file \cap DOMAIN file' :
       /\ file[j].physical_path = file[k].physical_path
       /\ file[j].state \notin Final
       /\ file[k].state \notin Final /\ file'[k].state \in {"failed", "completed"}
       => file'[j].state = file'[k].state]_vars

\* What status() has stored of a file is what it answers of it, or of another name of
\* the same file, and final if the answer is, though the rows are updated by physical
\* path, under conditions, after other paths were looked at.
AnswerIsStored ==
  [][StatusCommit =>
       \A l \in FilesOf(file, id) :
         /\ mem[l] \in Final => file'[<<id, l>>].state \in Final
         /\ \E m \in FilesOf(file, id) :
              /\ file[<<id, m>>].physical_path = file[<<id, l>>].physical_path
              /\ file'[<<id, l>>].state = mem[m]]_vars

-----------------------------------------------------------------------------
(* The service and GEMSS *)

\* A file that is started, is not on disk and carries the recall mark is one that
\* GEMSS holds: nobody waits for a recall nobody makes.  Only between calls, and
\* only if take_over() is not cut short between the marks and the response.
StartedIsHeld ==
  pc = "idle" =>
    \A k \in DOMAIN file :
      LET p == file[k].physical_path IN
      file[k].state = "started" /\ disk[p].data = "stub" /\ disk[p].recall =>
        p \in gemss

\* A precise list of the files in progress has only files that GEMSS holds, with
\* which it can compare it: recalls that end take their mark along, whatever the
\* rows still say.  Between calls, as above.
PreciseIsHeld ==
  pc = "idle" =>
    \A n \in TakeOverSizes : \A P \in InProgress(n, TRUE) : P \subseteq gemss

\* GEMSS is handed only files that it does not hold already, whatever the other
\* stages that name them: that is what the second look at the recall mark,
\* the order of the mark and the update, and the refusal of "started" rows are
\* for.  A path where there is no regular file any more is excepted.  (Not
\* in mirror mode, and not if marks get lost or are set by others.)
HandoutIsFresh ==
  \A p \in PhysicalPath :
    /\ pc = "create_xattr" /\ grp[p] \in {"need_recall", "marked"}
    /\ disk[p].regular
    => p \notin gemss

\* A file on disk is failed only when its recall is over: never while GEMSS holds
\* it, so long as the mark can be set and read.
FailedIsNotHeld ==
  [][\A k \in DOMAIN file \cap DOMAIN file' :
       file[k].state = "started" /\ file'[k].state = "failed" =>
         LET p == file[k].physical_path
         IN  disk[p].regular => p \notin gemss]_vars

\* The two handlers that look at a file on disk for a client agree on it: what
\* status() concludes to be completed archive_info() shows at that moment to be on
\* disk (or empty), and nothing else.  They read different things in different
\* orders, and GEMSS restores the data before it takes the mark off.  A file that has
\* been deleted, or replaced by a directory, is excepted: see CompletedIsOnDisk.
ConclusionIsShown ==
  [][\A l \in todo :
       /\ l \notin todo' /\ mem'[l] \in State
       /\ OnDisk(l).regular
       => (mem'[l] = "completed" <=>
             archive_info(OnDisk(l), FALSE) \subseteq {"disk", "disk_and_tape", "none"})]_vars

-----------------------------------------------------------------------------
(* Progress *)

\* Once clients make no more new stages, each stage that has files is in the end
\* complete, or deleted, if it is polled and GEMSS recalls what it is handed.
\* (While they do, a file that cannot be recalled may find itself marked again
\* for a new stage each time it is looked at for an old one, and stay started.)
NoNewStage == <>[][DOMAIN stage' \subseteq DOMAIN stage]_vars
Ended(s) ==
  s \in DOMAIN stage => stage[s].completed_at # 0 \/ FilesOf(file, s) = {}
StageCompletes == NoNewStage => \A s \in StageId : s \in DOMAIN stage ~> Ended(s)

-----------------------------------------------------------------------------
(* What the repository says of the program and the code does not do *)

\* tape_service.cpp:224, "determine the actual state of files": status() concludes
\* that a file is completed only when it is on disk.
CompletedIsOnDisk ==
  [][\A l \in LogicalPath :
       pc \in {"status", "stat"} /\ mem[l] # "completed" /\ mem'[l] = "completed" =>
         OnDisk(l).data # "absent"]_vars

\* tests/errors.t.cpp:49: a status request for a valid stage does not fail, let
\* alone take the service down.
StatusAnswers == pc # "down"

-----------------------------------------------------------------------------
(* The abstract life of a stage *)

Lifecycle == INSTANCE StageLifecycle WITH
  live  <- DOMAIN stage,
  state <- [k \in DOMAIN file |-> file[k].state],
  done  <- {s \in DOMAIN stage : stage[s].completed_at # 0}

\* The service implements the abstract life of stages.
ImplementsLifecycle == Lifecycle!LSpec
=============================================================================
