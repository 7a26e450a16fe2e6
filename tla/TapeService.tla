----------------------------- MODULE TapeService -----------------------------
(***************************************************************************)
(* The StoRM Tape service (src/src/tape_service.cpp), its database, the    *)
(* disk it looks at and GEMSS, the system that recalls files from tape.    *)
(*                                                                         *)
(* Crow runs the handlers on one worker thread (src/src/main.cpp), so they *)
(* do not interleave with each other; they do interleave, at every call on *)
(* the file system, with GEMSS, the users of the disk and the clock, and   *)
(* they can be cut short by an error of the database or a crash.  pc says  *)
(* how far the running handler is and the variables below it hold what it  *)
(* has in memory.                                                          *)
(***************************************************************************)
EXTENDS StageRequest, Storage

CONSTANTS Resolutions,    \* the physical path of each logical path, by each of
                          \* the configurations the service may be started with
          Requests,       \* the sets of logical paths clients stage or cancel
          TakeOverSizes,  \* the numbers of files GEMSS asks for
          MirrorMode,     \* mirror-mode of the configuration
          MaxTime,        \* bound: the last second of the model's clock
          Events,         \* what may happen besides the calls, see below
          NoStage         \* no stage id

\* What users and the disk manager do: write (or make a directory, say), delete,
\* migrate and purge files, and start recalls of their own.  What fails: the server crashes; a response
\* is lost; a transaction, or one statement of it, fails; a call on the file
\* system fails (io), or only the setting of an xattr does; a tape is unreadable;
\* the clock is set back.
EventNames == {"write", "delete", "migrate", "purge", "recall",
               "crash", "lost", "db", "stmt", "io", "xattr", "tape", "clock"}

ASSUME ServiceAssumption ==
  /\ Resolutions \subseteq [LogicalPath -> PhysicalPath]
  /\ Requests \subseteq SUBSET LogicalPath
  /\ TakeOverSizes \subseteq Nat \ {0}
  /\ MirrorMode \in BOOLEAN
  /\ MaxTime \in Nat \ {0}
  /\ Events \subseteq EventNames
  /\ NoStage \notin StageId

VARIABLES
  stage, file,   \* the two tables
  disk,          \* the files, by physical path
  gemss,         \* the paths GEMSS has been asked to recall and still holds
  clock,         \* std::time
  pc,            \* where the running handler is, "idle" or "down"
  id,            \* its stage
  now,           \* its time point
  mem,           \* status: the states of the stage's files in memory
  todo,          \* status: the files it has still to look at
  grp            \* take_over: the group each path has been put in

db    == <<stage, file>>
local == <<id, now, mem, todo, grp>>
vars  == <<stage, file, disk, gemss, clock, pc, id, now, mem, todo, grp>>

IO == "io" \in Events

NoFiles  == [l \in LogicalPath |-> "none"]
NoGroups == [p \in PhysicalPath |-> "none"]

\* What a handler has in memory goes when it returns or throws, in which case
\* its route answers with an error.
Forget ==
  /\ id' = NoStage /\ now' = 0
  /\ mem' = NoFiles /\ todo' = {} /\ grp' = NoGroups
Return == pc' = "idle" /\ Forget

\* The process ends.
Halt ==
  /\ pc' = "down" /\ Forget
  /\ UNCHANGED <<db, disk, gemss, clock>>

\* A statement that fails within a transaction is logged and passed over, and
\* the transaction commits without it: the choices of what is lost of X.
Losses(X) == IF "stmt" \in Events THEN SUBSET X ELSE {{}}

\* The times std::time may give after t.
Later(t) == IF "clock" \in Events THEN 1..MaxTime ELSE t..MaxTime

\* The disk and GEMSS when the service starts: only GEMSS sets recall marks, on files
\* without data.
Init ==
  /\ stage = [s \in {} |-> 0] /\ file = [k \in {} |-> 0]
  /\ disk \in [PhysicalPath -> FileOnDisk]
  /\ gemss \in SUBSET PhysicalPath
  /\ \A p \in PhysicalPath :
       /\ disk[p].recall <=> p \in gemss
       /\ disk[p].recall => disk[p].data = "stub" /\ disk[p].regular
       /\ disk[p].data = "empty" => ~disk[p].tape
  /\ clock = 1
  /\ pc = "idle" /\ id = NoStage /\ now = 0
  /\ mem = NoFiles /\ todo = {} /\ grp = NoGroups

-----------------------------------------------------------------------------
(* POST /stage *)

\* stage(): the request is made at clock and its files are checked until end.  A
\* file that is not a regular file, or cannot be looked at, is failed from the
\* time of its check.  Between two calls the service may have been stopped and
\* started with another configuration, which nothing but the resolution shows.
Stage(s, L) ==
  /\ pc = "idle" /\ s \notin DOMAIN stage
  /\ \E end \in Later(clock), bad \in SUBSET L, resolve \in Resolutions :
       /\ \A l \in L :
            /\ ~disk[resolve[l]].regular => l \in bad
            /\ l \in bad => IO \/ ~disk[resolve[l]].regular
       /\ \E at \in [bad -> {t \in Later(clock) : end \in Later(t)}] :
            file' = InsertFiles(file, s,
              [l \in L |-> [physical_path |-> resolve[l],
                            state |-> IF l \in bad THEN "failed" ELSE "submitted",
                            started_at  |-> IF l \in bad THEN at[l] ELSE 0,
                            finished_at |-> IF l \in bad THEN at[l] ELSE 0]])
       /\ stage' = InsertStage(stage, s,
            [created_at |-> clock, started_at |-> 0, completed_at |-> 0])
       /\ clock' = end
  /\ UNCHANGED <<disk, gemss, pc, local>>

-----------------------------------------------------------------------------
(* GET /stage/<id> *)

StatusBegin(s) ==
  /\ pc = "idle" /\ s \in DOMAIN stage
  /\ pc' = "status" /\ id' = s /\ now' = clock
  /\ mem' = [l \in LogicalPath |->
               IF <<s, l>> \in DOMAIN file THEN file[<<s, l>>].state ELSE "none"]
  /\ todo' = {l \in FilesOf(file, s) : file[<<s, l>>].state \notin Final}
  /\ UNCHANGED <<db, disk, gemss, clock, grp>>

Turn(l) == l \in todo /\ \A k \in todo : l <= k
OnDisk(l) == disk[file[<<id, l>>].physical_path]

\* The new state of l in memory, and on to the next file.
Conclude(l, st) ==
  /\ mem' = [mem EXCEPT ![l] = st]
  /\ todo' = todo \ {l}
  /\ pc' = "status"
  /\ UNCHANGED <<db, disk, gemss, clock, id, now, grp>>

\* First the recall mark: it makes a submitted file started and leaves a started
\* one so.  If it cannot be read a submitted file has failed.
StatusXattr(l) ==
  /\ pc = "status" /\ Turn(l)
  /\ \E r \in is_in_progress(OnDisk(l), IO) :
       \/ r = "yes" /\ Conclude(l, "started")
       \/ r = "error" /\ mem[l] = "submitted" /\ Conclude(l, "failed")
       \/ /\ \/ r = "no"
             \/ r = "error" /\ mem[l] = "started"
          /\ pc' = "stat"
          /\ UNCHANGED <<db, disk, gemss, clock, local>>

\* Then its size and blocks: a stub stays submitted, or has failed to be
\* recalled; anything else, errors included, counts as on disk.
StatusStat(l) ==
  /\ pc = "stat" /\ Turn(l)
  /\ \E r \in file_size_info(OnDisk(l), IO) :
       IF r = "stub"
         THEN Conclude(l, IF mem[l] = "started" THEN "failed" ELSE "submitted")
         ELSE Conclude(l, "completed")

\* The rows of the stage as status() has them in memory.
MemFiles ==
  [l \in FilesOf(file, id) |->
     LET row == file[<<id, l>>] IN
     IF mem[l] = row.state THEN row
     ELSE [physical_path |-> row.physical_path,
           state         |-> mem[l],
           started_at    |-> IF row.state = "submitted" THEN now ELSE row.started_at,
           finished_at   |-> IF mem[l] \in Final THEN now ELSE row.finished_at]]

\* files_to_update, by logical path.
Changed == {l \in FilesOf(file, id) : mem[l] # file[<<id, l>>].state}

\* What the updates of the files in W, made in their order, ask of path p: the
\* first final state stands, since the WHERE clauses refuse what follows it.
NetState(p, W) ==
  LET U == {l \in W : file[<<id, l>>].physical_path = p}
      F == {l \in U : mem[l] \in Final}
  IN  CASE F # {} -> mem[CHOOSE l \in F : \A k \in F : l <= k]
        [] F = {} /\ U # {} -> "started"
        [] OTHER -> "submitted"

\* update_timestamps looks at the first and the last file of a stage that may
\* have none.
ReadsNoFile ==
  /\ FilesOf(file, id) = {}
  /\ stage[id].started_at = 0 \/ stage[id].completed_at = 0

\* The stage row and all the files, in one transaction; then the response.
StatusCommit ==
  /\ pc = "status" /\ todo = {} /\ ~ReadsNoFile
  /\ \E lost \in Losses(Changed) :
       file' = UpdatePathStates(file,
                 [p \in PhysicalPath |-> NetState(p, Changed \ lost)], now)
  /\ \E start \in StartTimes(stage[id], MemFiles),
        end \in CompletionTimes(stage[id], MemFiles) :
       stage' = [stage EXCEPT ![id] = [created_at   |-> stage[id].created_at,
                                       started_at   |-> start,
                                       completed_at |-> end]]
  /\ Return
  /\ UNCHANGED <<disk, gemss, clock>>

\* files.back() or files.front() of an empty vector reads address zero, or less.
StatusOfNoFiles == pc = "status" /\ todo = {} /\ ReadsNoFile /\ Halt

-----------------------------------------------------------------------------
(* POST /stage/<id>/cancel, DELETE /stage/<id> *)

\* cancel(): nothing happens if some path is not in the stage.
Cancel(s, L) ==
  /\ pc = "idle" /\ s \in DOMAIN stage
  /\ L \subseteq FilesOf(file, s)
  /\ \E lost \in Losses(L) :
       file' = UpdateStageFiles(file, s, L \ lost, "cancelled", clock)
  /\ UNCHANGED <<stage, disk, gemss, clock, pc, local>>

\* erase(): two statements, each committed by itself.
EraseBegin(s) ==
  /\ pc = "idle" /\ s \in DOMAIN stage
  /\ file' = EraseFiles(file, s)
  /\ pc' = "erase" /\ id' = s
  /\ UNCHANGED <<stage, disk, gemss, clock, now, mem, todo, grp>>

EraseEnd ==
  /\ pc = "erase"
  /\ stage' = EraseStage(stage, id)
  /\ Return
  /\ UNCHANGED <<file, disk, gemss, clock>>
-----------------------------------------------------------------------------
(* PUT /recalltable/tasks: GEMSS asks for files to recall *)

\* get_files of the submitted files, at most n; then the locality of each, from
\* which the service splits them: only on tape (or lost), on disk, and the rest.
\* The readings of different paths, and what happens to these meanwhile, do not
\* affect each other: they are all made in one step.
TakeOver(n) ==
  /\ pc = "idle"
  /\ \E P \in GetFiles(file, "submitted", n) :
       grp' \in {g \in [PhysicalPath -> {"none", "only_on_tape", "on_disk", "the_rest"}] :
         \A p \in PhysicalPath :
           IF p \notin P THEN g[p] = "none"
           ELSE \E loc \in locality(disk[p], IO) :
                  g[p] = CASE loc \in {"tape", "lost"}          -> "only_on_tape"
                           [] loc \in {"disk", "disk_and_tape"} -> "on_disk"
                           [] OTHER                             -> "the_rest"}
  /\ pc' = "select_in_progress"
  /\ UNCHANGED <<db, disk, gemss, clock, id, now, mem, todo>>

Group(g) == {p \in PhysicalPath : grp[p] = g}

\* Of the files only on tape, those whose recall is in progress are set apart.
SelectInProgress ==
  /\ pc = "select_in_progress"
  /\ grp' \in {g \in [PhysicalPath ->
                       {"none", "on_disk", "the_rest", "in_progress", "need_recall"}] :
       \A p \in PhysicalPath :
         IF grp[p] # "only_on_tape" THEN g[p] = grp[p]
         ELSE \E yes \in recall_in_progress(disk[p], IO) :
                g[p] = IF yes THEN "in_progress" ELSE "need_recall"}
  /\ now' = clock
  /\ pc' = "update_in_progress"
  /\ UNCHANGED <<db, disk, gemss, clock, id, mem, todo>>

\* One transaction: the paths of group g take state st, and on to step next.
UpdateGroup(g, st, next) ==
  /\ \E lost \in Losses(Group(g)) :
       file' = UpdatePaths(file, Group(g) \ lost, st, now)
  /\ pc' = next
  /\ UNCHANGED <<stage, disk, gemss, clock, local>>

UpdateInProgress ==
  pc = "update_in_progress" /\ UpdateGroup("in_progress", "started", "update_on_disk")
UpdateOnDisk ==
  pc = "update_on_disk" /\ UpdateGroup("on_disk", "completed", "update_the_rest")
UpdateTheRest ==
  pc = "update_the_rest" /\ UpdateGroup("the_rest", "failed", "create_xattr")

\* The files to recall are marked one by one; a failure is only logged.
CreateXattr(p) ==
  /\ pc = "create_xattr" /\ ~MirrorMode /\ grp[p] = "need_recall"
  /\ \E d \in create_xattr(disk[p], {"xattr", "io"} \cap Events # {}) :
       disk' = [disk EXCEPT ![p] = d]
  /\ grp' = [grp EXCEPT ![p] = "marked"]
  /\ UNCHANGED <<db, gemss, clock, pc, id, now, mem, todo>>

\* The last update; the response hands the files over to GEMSS, if it arrives.
\* (ToRecallUnmarked, for comparison, has lost the paths already gone through.)
ToRecallUnmarked == Group("need_recall")
ToRecall == Group("need_recall") \cup Group("marked")
UpdateNeedRecall ==
  /\ pc = "create_xattr"
  /\ MirrorMode \/ Group("need_recall") = {}
  /\ \E lost \in Losses(ToRecall) :
       file' = UpdatePaths(file, ToRecall \ lost, "started", now)
  /\ \/ gemss' = gemss \cup ToRecall
     \/ "lost" \in Events /\ UNCHANGED gemss
  /\ Return
  /\ UNCHANGED <<stage, disk, clock>>

-----------------------------------------------------------------------------
(* GET /recalltable/cardinality/tasks/readyTakeOver, /recalltable/tasks *)

\* How many files GEMSS could take over.
ReadyTakeOver == CountFiles(file, "submitted")

\* The answers to in_progress(): n started files at most, of which a precise
\* request gets only those whose recall mark is there and can be read.
InProgress(n, precise) ==
  UNION {{A \in SUBSET P : \A p \in P :
            (p \in A) \in IF precise THEN recall_in_progress(disk[p], IO) ELSE {TRUE}} :
         P \in GetFiles(file, "started", n)}

-----------------------------------------------------------------------------
(* Failures of the service *)

\* A transaction cannot be begun or committed: it is rolled back, the handler
\* throws.  (When an insertion or a cancellation fails so, nothing happens.)
AtCommit ==
  \/ pc = "status" /\ todo = {}
  \/ pc \in {"update_in_progress", "update_on_disk", "update_the_rest", "erase"}
  \/ pc = "create_xattr" /\ (MirrorMode \/ Group("need_recall") = {})

DatabaseError ==
  /\ "db" \in Events /\ AtCommit
  /\ Return
  /\ UNCHANGED <<db, disk, gemss, clock>>

Crash == "crash" \in Events /\ pc # "down" /\ Halt

\* The database is found as it was left.
Restart ==
  /\ pc = "down" /\ pc' = "idle"
  /\ UNCHANGED <<db, disk, gemss, clock, local>>

-----------------------------------------------------------------------------
(* GEMSS, the users of the disk, and time *)

\* A recall ends when the data is back, or there is no file to put it in, or it
\* cannot be read from tape: GEMSS takes the mark off and forgets the path.
GemssRestore(p) ==
  /\ p \in gemss /\ disk[p].data = "stub" /\ disk[p].tape
  /\ disk' = [disk EXCEPT ![p] = WithData(@, "full")]
  /\ UNCHANGED <<db, gemss, clock, pc, local>>
GemssEnd(p) ==
  /\ p \in gemss
  /\ disk[p].data = "stub" => ~disk[p].tape \/ "tape" \in Events
  /\ disk' = [disk EXCEPT ![p] = WithRecall(@, FALSE)]
  /\ gemss' = gemss \ {p}
  /\ UNCHANGED <<db, clock, pc, local>>

\* In mirror mode it is not the service that sets the mark.
GemssMark(p) ==
  /\ MirrorMode /\ p \in gemss /\ disk[p].data = "stub" /\ ~disk[p].recall
  /\ disk' = [disk EXCEPT ![p] = WithRecall(@, TRUE)]
  /\ UNCHANGED <<db, gemss, clock, pc, local>>

\* A recall that was not asked for through the service: somebody reads a stub.
OtherRecall(p) ==
  /\ "recall" \in Events
  /\ disk[p].regular /\ disk[p].data = "stub" /\ ~disk[p].recall
  /\ disk' = [disk EXCEPT ![p] = WithRecall(@, TRUE)]
  /\ gemss' = gemss \cup {p}
  /\ UNCHANGED <<db, clock, pc, local>>

\* A file is written, or something is made that is not a regular file; it is deleted,
\* copied to tape, or its data removed from disk.
ChangeOnDisk(p) ==
  /\ \/ /\ "write" \in Events /\ disk[p] = Absent
        /\ \E data \in Data \ {"absent"}, regular \in BOOLEAN :
             /\ regular => data # "stub"
             /\ disk' = [disk EXCEPT ![p] = New(data, regular)]
     \/ /\ "delete" \in Events /\ disk[p] # Absent
        /\ disk' = [disk EXCEPT ![p] = Absent]
     \/ /\ "migrate" \in Events /\ disk[p].data = "full" /\ ~disk[p].tape
        /\ disk[p].regular
        /\ disk' = [disk EXCEPT ![p] = WithTape(@)]
     \/ /\ "purge" \in Events /\ disk[p].data = "full" /\ disk[p].tape
        /\ ~disk[p].recall
        /\ disk' = [disk EXCEPT ![p] = WithData(@, "stub")]
  /\ UNCHANGED <<db, gemss, clock, pc, local>>

Tick ==
  /\ clock' \in Later(clock) \ {clock}
  /\ UNCHANGED <<db, disk, gemss, pc, local>>

-----------------------------------------------------------------------------
\* The calls, by clients and by GEMSS.
Call ==
  \/ \E s \in StageId, L \in Requests : Stage(s, L) \/ Cancel(s, L)
  \/ \E s \in StageId : StatusBegin(s) \/ EraseBegin(s)
  \/ \E n \in TakeOverSizes : TakeOver(n)

\* The running handler goes on, or a new process starts.
Continue ==
  \/ \E l \in LogicalPath : StatusXattr(l) \/ StatusStat(l)
  \/ StatusCommit \/ StatusOfNoFiles
  \/ EraseEnd
  \/ SelectInProgress \/ UpdateInProgress \/ UpdateOnDisk \/ UpdateTheRest
  \/ \E p \in PhysicalPath : CreateXattr(p)
  \/ UpdateNeedRecall
  \/ Restart

Gemss(p) == GemssRestore(p) \/ GemssEnd(p) \/ GemssMark(p)

\* What goes on while handlers run.
World ==
  \/ \E p \in PhysicalPath : Gemss(p) \/ OtherRecall(p) \/ ChangeOnDisk(p)
  \/ Tick

Next == Call \/ Continue \/ DatabaseError \/ Crash \/ World

Spec == Init /\ [][Next]_vars

\* The worker thread runs on and requests are served in the order they come;
\* clients poll the stages they made, GEMSS asks for work if there is some and
\* does it.
Fairness ==
  /\ WF_vars(Continue)
  /\ \A s \in StageId : SF_vars(StatusBegin(s))
  /\ SF_vars(ReadyTakeOver > 0 /\ \E n \in TakeOverSizes : TakeOver(n))
  /\ \A p \in PhysicalPath : WF_vars(Gemss(p))

FairSpec == Spec /\ Fairness
=============================================================================
