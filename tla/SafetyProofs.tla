---------------------------- MODULE SafetyProofs ----------------------------
(***************************************************************************)
(* The tables stay consistent, and the service implements StageLifecycle,  *)
(* for every number of stages, files, seconds and events: what             *)
(* TapeServiceProofs says of each step is put together.                    *)
(***************************************************************************)
EXTENDS TapeServiceProofs

-----------------------------------------------------------------------------
(* No file without its stage *)

\* The key of a file is a stage and one of its files.
LEMMA KeyFacts ==
  ASSUME TypeOK, NEW k \in DOMAIN file
  PROVE  k[1] \in StageId /\ k[2] \in FilesOf(file, k[1]) /\ k = <<k[1], k[2]>>
<1>1. k \in StageId \X LogicalPath
  BY DEF TypeOK, IsFileTable, FileKey
<1> QED
  BY <1>1 DEF FilesOf

\* No step leaves a file without its stage: insert() adds both, erase() deletes
\* the stage when its files are gone, the other steps neither add nor delete.
LEMMA NextNoOrphanFiles ==
  ASSUME TypeOK, NoOrphanFiles, [Next]_vars
  PROVE  NoOrphanFiles'
<1>1. ASSUME NEW s \in StageId, NEW L \in Requests, Stage(s, L) PROVE NoOrphanFiles'
  <2>1. /\ DOMAIN stage' = DOMAIN stage \cup {s}
        /\ DOMAIN file' = DOMAIN file \cup {<<s, l>> : l \in L}
    BY <1>1, StageFacts
  <2> QED
    BY <2>1 DEF NoOrphanFiles
<1>2. ASSUME NEW s \in StageId, NEW L \in Requests, Cancel(s, L) PROVE NoOrphanFiles'
  BY <1>2, CancelFacts DEF NoOrphanFiles
<1>3. ASSUME NEW s \in StageId, EraseBegin(s) PROVE NoOrphanFiles'
  BY <1>3, EraseFacts DEF NoOrphanFiles
<1>4. CASE StatusCommit
  BY <1>4, StatusCommitFacts DEF NoOrphanFiles
<1>5. CASE EraseEnd
  <2>1. /\ UNCHANGED file /\ FilesOf(file, id) = {}
        /\ DOMAIN stage' = DOMAIN stage \ {id}
    BY <1>5, EraseFacts
  <2>2. \A k \in DOMAIN file : k[1] # id
    BY <2>1, KeyFacts
  <2> QED
    BY <2>1, <2>2 DEF NoOrphanFiles
<1>6. CASE Updates
  BY <1>6, UpdatesFacts DEF NoOrphanFiles
<1>7. CASE UNCHANGED db
  BY <1>7 DEF NoOrphanFiles, db
<1>8. UNCHANGED vars => UNCHANGED db
  BY DEF vars, db
<1> QED
  BY <1>1, <1>2, <1>3, <1>4, <1>5, <1>6, <1>7, <1>8, NextCases

\* Every file belongs to a stage at all times, also between the two statements
\* of erase() and after a crash or an error of the database there.
THEOREM NoOrphans == Spec => []NoOrphanFiles
<1>1. Init => NoOrphanFiles
  BY DEF Init, NoOrphanFiles
<1>2. TypeOK /\ NoOrphanFiles /\ [Next]_vars => NoOrphanFiles'
  BY NextNoOrphanFiles
<1> QED
  BY <1>1, <1>2, TypeCorrectness, PTL DEF Spec

-----------------------------------------------------------------------------
(* No stage without files *)

\* Only a stage that is being erased is without files.
StagesHaveFiles ==
  \A s \in DOMAIN stage : FilesOf(file, s) # {} \/ (pc = "erase" /\ id = s)

\* Nothing but its end comes after the first statement of erase().
LEMMA ErasingSteps ==
  ASSUME Events \cap {"crash", "db"} = {}, [Next]_vars, pc = "erase"
  PROVE  EraseEnd \/ UNCHANGED <<stage, file, pc, id>>
<1>1. ASSUME NEW s \in StageId, NEW L \in Requests PROVE ~(Stage(s, L) \/ Cancel(s, L))
  BY DEF Stage, Cancel
<1>2. ASSUME NEW s \in StageId PROVE ~(EraseBegin(s) \/ StatusBegin(s))
  BY DEF EraseBegin, StatusBegin
<1>3. ASSUME NEW l \in LogicalPath PROVE ~(StatusXattr(l) \/ StatusStat(l))
  BY DEF StatusXattr, StatusStat
<1>4. ASSUME NEW n \in TakeOverSizes PROVE ~TakeOver(n)
  BY DEF TakeOver
<1>5. ASSUME NEW p \in PhysicalPath PROVE ~CreateXattr(p)
  BY DEF CreateXattr
<1>6. ~(StatusCommit \/ Updates \/ SelectInProgress \/ StatusOfNoFiles \/ DatabaseError
          \/ Crash \/ Restart)
  BY DEF StatusCommit, Updates, UpdateInProgress, UpdateOnDisk, UpdateTheRest,
         UpdateNeedRecall, SelectInProgress, StatusOfNoFiles, DatabaseError, Crash, Restart
<1>7. ASSUME NEW p \in PhysicalPath, Gemss(p) \/ OtherRecall(p) \/ ChangeOnDisk(p)
      PROVE  UNCHANGED <<stage, file, pc, id>>
  BY <1>7 DEF Gemss, GemssRestore, GemssEnd, GemssMark, OtherRecall, ChangeOnDisk, db, local
<1>8. Tick \/ UNCHANGED vars => UNCHANGED <<stage, file, pc, id>>
  BY DEF Tick, db, local, vars
<1> QED
  BY <1>1, <1>2, <1>3, <1>4, <1>5, <1>6, <1>7, <1>8, NextCases

\* A stage gets files when it is inserted, and loses them all together, to erase(), which
\* goes on to delete it.
LEMMA NextStagesHaveFiles ==
  ASSUME {} \notin Requests, Events \cap {"crash", "db"} = {},
         TypeOK, StagesHaveFiles, [Next]_vars
  PROVE  StagesHaveFiles'
<1>1. ASSUME NEW s \in StageId, NEW L \in Requests, Stage(s, L) PROVE StagesHaveFiles'
  <2>1. /\ DOMAIN stage' = DOMAIN stage \cup {s}
        /\ DOMAIN file' = DOMAIN file \cup {<<s, l>> : l \in L}
        /\ L # {} /\ L \subseteq LogicalPath
    BY <1>1, StageFacts, RequestFacts
  <2>2. pc # "erase"
    BY <1>1 DEF Stage
  <2> QED
    BY <2>1, <2>2 DEF StagesHaveFiles, FilesOf
<1>2. CASE pc = "erase"
  <2>1. CASE EraseEnd
    <3>1. UNCHANGED file /\ DOMAIN stage' = DOMAIN stage \ {id}
      BY <2>1, EraseFacts
    <3> QED
      BY <3>1 DEF StagesHaveFiles
  <2>2. CASE UNCHANGED <<stage, file, pc, id>>
    BY <2>2 DEF StagesHaveFiles
  <2> QED
    BY <1>2, <2>1, <2>2, ErasingSteps
<1>3. ASSUME NEW s \in StageId, EraseBegin(s) PROVE StagesHaveFiles'
  <2>1. /\ UNCHANGED stage /\ pc # "erase" /\ pc' = "erase" /\ id' = s
        /\ \A k : k \in DOMAIN file' <=> k \in DOMAIN file /\ k[1] # s
    BY <1>3, EraseFacts DEF EraseBegin
  <2>2. ASSUME NEW t \in DOMAIN stage, t # s PROVE FilesOf(file', t) = FilesOf(file, t)
    BY <2>1, <2>2 DEF FilesOf
  <2> QED
    BY <2>1, <2>2 DEF StagesHaveFiles
<1>4. ASSUME pc # "erase", DOMAIN stage' = DOMAIN stage, DOMAIN file' = DOMAIN file
      PROVE  StagesHaveFiles'
  BY <1>4 DEF StagesHaveFiles, FilesOf
<1>5. ASSUME NEW s \in StageId, NEW L \in Requests, Cancel(s, L)
      PROVE  DOMAIN stage' = DOMAIN stage /\ DOMAIN file' = DOMAIN file
  BY <1>5, CancelFacts
<1>6. StatusCommit \/ Updates => DOMAIN stage' = DOMAIN stage /\ DOMAIN file' = DOMAIN file
  BY StatusCommitFacts, UpdatesFacts
<1>7. UNCHANGED db \/ UNCHANGED vars
        => DOMAIN stage' = DOMAIN stage /\ DOMAIN file' = DOMAIN file
  BY DEF db, vars
<1>8. EraseEnd => pc = "erase"
  BY DEF EraseEnd
<1> QED
  BY <1>1, <1>2, <1>3, <1>4, <1>5, <1>6, <1>7, <1>8, NextCases

\* If clients request files and erase() is not cut short, no status request takes the
\* service down, for any number of stages: a stage without files is the only way.
THEOREM StatusesAnswer ==
  ASSUME {} \notin Requests, Events \cap {"crash", "db"} = {}
  PROVE  Spec => []StatusAnswers
<1>1. Init => StagesHaveFiles /\ StatusAnswers
  BY DEF Init, StagesHaveFiles, StatusAnswers
<1>2. TypeOK /\ StagesHaveFiles /\ [Next]_vars => StagesHaveFiles'
  BY NextStagesHaveFiles
<1>3. TypeOK /\ StagesHaveFiles /\ StatusAnswers /\ [Next]_vars => StatusAnswers'
  <2> SUFFICES ASSUME TypeOK, StagesHaveFiles, StatusAnswers, [Next]_vars
               PROVE  pc' # "down"
    BY DEF StatusAnswers
  <2>1. ~StatusOfNoFiles
    BY DEF StatusOfNoFiles, ReadsNoFile, StagesHaveFiles, TypeOK
  <2>2. ~Crash
    BY DEF Crash
  <2>3. ASSUME NEW s \in StageId, NEW L \in Requests, Stage(s, L) \/ Cancel(s, L)
        PROVE  pc' # "down"
    BY <2>3 DEF Stage, Cancel
  <2>4. ASSUME NEW s \in StageId, EraseBegin(s) \/ StatusBegin(s) PROVE pc' # "down"
    BY <2>4 DEF EraseBegin, StatusBegin
  <2>5. ASSUME NEW l \in LogicalPath, StatusXattr(l) \/ StatusStat(l) PROVE pc' # "down"
    BY <2>5 DEF StatusXattr, StatusStat, Conclude
  <2>6. ASSUME NEW n \in TakeOverSizes, TakeOver(n) PROVE pc' # "down"
    BY <2>6 DEF TakeOver
  <2>7. StatusCommit \/ EraseEnd \/ Updates \/ SelectInProgress \/ DatabaseError \/ Restart
          => pc' # "down"
    BY DEF StatusCommit, EraseEnd, Updates, UpdateInProgress, UpdateOnDisk, UpdateTheRest,
           UpdateNeedRecall, UpdateGroup, SelectInProgress, DatabaseError, Restart, Return
  <2>8. ASSUME NEW p \in PhysicalPath,
               CreateXattr(p) \/ Gemss(p) \/ OtherRecall(p) \/ ChangeOnDisk(p)
        PROVE  pc' = pc
    BY <2>8 DEF CreateXattr, Gemss, GemssRestore, GemssEnd, GemssMark, OtherRecall,
                ChangeOnDisk
  <2>9. Tick \/ UNCHANGED vars => pc' = pc
    BY DEF Tick, vars
  <2> QED
    BY <2>1, <2>2, <2>3, <2>4, <2>5, <2>6, <2>7, <2>8, <2>9, NextCases DEF StatusAnswers
<1> QED
  BY <1>1, <1>2, <1>3, TypeCorrectness, PTL DEF Spec

-----------------------------------------------------------------------------
(* A complete stage has no file left to end *)

\* No step makes a stage complete before its files are final, or a file of a
\* complete stage anything but final, if the statements of status() succeed.
LEMMA NextCompletedStageIsFinal ==
  ASSUME "stmt" \notin Events,
         TypeOK, NoOrphanFiles, CompletedStageIsFinal, [Next]_vars
  PROVE  CompletedStageIsFinal'
<1> "cancelled" \in Final
  BY DEF Final
<1>1. ASSUME NEW s \in StageId, NEW L \in Requests, Stage(s, L)
      PROVE  CompletedStageIsFinal'
  <2>1. /\ s \notin DOMAIN stage
        /\ stage'[s].completed_at = 0
        /\ \A t \in DOMAIN stage : stage'[t] = stage[t]
        /\ DOMAIN file' = DOMAIN file \cup {<<s, l>> : l \in L}
        /\ \A k \in DOMAIN file : file'[k] = file[k]
    BY <1>1, StageFacts
  <2> QED
    BY <2>1 DEF NoOrphanFiles, CompletedStageIsFinal
<1>2. ASSUME NEW s \in StageId, NEW L \in Requests, Cancel(s, L)
      PROVE  CompletedStageIsFinal'
  BY <1>2, CancelFacts DEF CompletedStageIsFinal
<1>3. ASSUME NEW s \in StageId, EraseBegin(s) PROVE CompletedStageIsFinal'
  BY <1>3, EraseFacts DEF CompletedStageIsFinal
<1>4. CASE StatusCommit
  <2> SUFFICES ASSUME NEW k \in DOMAIN file, stage'[k[1]].completed_at # 0
               PROVE  file'[k].state \in Final
    BY <1>4, StatusCommitFacts DEF CompletedStageIsFinal
  <2>1. file[k].state \in Final => file'[k] = file[k]
    BY <1>4, StatusCommitFacts
  <2>2. CASE stage'[k[1]].completed_at = stage[k[1]].completed_at
    BY <2>1, <2>2 DEF CompletedStageIsFinal
  <2>3. CASE stage'[k[1]].completed_at # stage[k[1]].completed_at
    <3>1. k[1] = id
      BY <1>4, <2>3, StatusCommitFacts DEF NoOrphanFiles
    <3>2. \A l \in FilesOf(file, id) : file'[<<id, l>>].state \in Final
      BY <1>4, <2>3, <3>1, StatusCommitFacts
    <3> QED
      BY <3>1, <3>2, KeyFacts
  <2> QED
    BY <2>2, <2>3
<1>5. CASE EraseEnd
  <2>1. /\ UNCHANGED file
        /\ DOMAIN stage' = DOMAIN stage \ {id}
        /\ \A s \in DOMAIN stage' : stage'[s] = stage[s]
    BY <1>5, EraseFacts
  <2>2. \A k \in DOMAIN file : k[1] \in DOMAIN stage'
    BY <2>1, NextNoOrphanFiles DEF NoOrphanFiles
  <2> QED
    BY <2>1, <2>2 DEF CompletedStageIsFinal
<1>6. CASE Updates
  BY <1>6, UpdatesFacts DEF CompletedStageIsFinal
<1>7. CASE UNCHANGED db
  BY <1>7 DEF CompletedStageIsFinal, db
<1>8. UNCHANGED vars => UNCHANGED db
  BY DEF vars, db
<1> QED
  BY <1>1, <1>2, <1>3, <1>4, <1>5, <1>6, <1>7, <1>8, NextCases

\* A stage that status() has found complete has all its files in a final state,
\* whatever paths they share with other stages, for as long as it is there,
\* unless the database loses a statement of status() and commits the rest.
THEOREM CompletedIsFinal ==
  ASSUME "stmt" \notin Events
  PROVE  Spec => []CompletedStageIsFinal
<1>1. Init => CompletedStageIsFinal
  BY DEF Init, CompletedStageIsFinal
<1>2. TypeOK /\ NoOrphanFiles /\ CompletedStageIsFinal /\ [Next]_vars
        => CompletedStageIsFinal'
  BY NextCompletedStageIsFinal
<1> QED
  BY <1>1, <1>2, TypeCorrectness, NoOrphans, PTL DEF Spec

-----------------------------------------------------------------------------
(* Final states last *)

\* No step changes a final row, a cancellation excepted.
LEMMA NextFinalIsForever ==
  ASSUME TypeOK, [Next]_vars, NEW k \in DOMAIN file, k \in DOMAIN file',
         file[k].state \in Final
  PROVE  file'[k] = file[k] \/ file'[k].state = "cancelled"
<1>1. ASSUME NEW s \in StageId, NEW L \in Requests, Stage(s, L)
      PROVE  file'[k] = file[k]
  BY <1>1, StageFacts
<1>2. ASSUME NEW s \in StageId, NEW L \in Requests, Cancel(s, L)
      PROVE  file'[k] = file[k] \/ file'[k].state = "cancelled"
  BY <1>2, CancelFacts
<1>3. ASSUME NEW s \in StageId, EraseBegin(s) PROVE file'[k] = file[k]
  BY <1>3, EraseFacts
<1>4. StatusCommit => file'[k] = file[k]
  BY StatusCommitFacts
<1>5. EraseEnd => file'[k] = file[k]
  BY EraseFacts
<1>6. Updates => file'[k] = file[k]
  BY UpdatesFacts
<1>7. UNCHANGED db \/ UNCHANGED vars => file'[k] = file[k]
  BY DEF db, vars
<1> QED
  BY <1>1, <1>2, <1>3, <1>4, <1>5, <1>6, <1>7, NextCases

\* The updates of status() and take_over(), computed from what was read before
\* and applied to the rows of every stage, never touch a row that has ended.
THEOREM FinalLasts == Spec => FinalIsForever
<1>1. TypeOK /\ [Next]_vars =>
        [\A k \in DOMAIN file \cap DOMAIN file' :
           file[k].state \in Final =>
             file'[k] = file[k] \/ file'[k].state = "cancelled"]_vars
  BY NextFinalIsForever
<1> QED
  BY <1>1, TypeCorrectness, PTL DEF Spec, FinalIsForever

-----------------------------------------------------------------------------
(* The times of a row tell its state *)

\* What status() has concluded of a file in memory is what the file's row stood at,
\* or what a conditional update of that row may make of it.
MemIsAhead ==
  pc \in {"status", "stat"} =>
    \A l \in FilesOf(file, id) :
      /\ l \in todo => mem[l] = file[<<id, l>>].state
      /\ mem[l] = file[<<id, l>>].state \/ MayMove(file[<<id, l>>].state, mem[l])

\* Every row has the times of its state.
RowsHaveTimes == \A k \in DOMAIN file : HasTimesOf(file[k])

\* An update at a time that is set leaves a row the times of its state.
LEMMA MovedHasTimes ==
  ASSUME NEW row \in FileRow, HasTimesOf(row), NEW tp \in Nat \ {0}
  PROVE  /\ \A st \in State : HasTimesOf(UpdatedRow(row, st, tp))
         /\ HasTimesOf(Moved(row, "cancelled", tp))
BY DEF FileRow, State, Final, HasTimesOf, UpdatedRow, Moved, MayMove

\* The steps of status(), and those that leave it where it is.
LEMMA StatusSteps ==
  ASSUME [Next]_vars
  PROVE  \/ pc' \notin {"status", "stat"}
         \/ UNCHANGED <<file, pc, id, mem, todo>>
         \/ \E s \in StageId : StatusBegin(s)
         \/ \E l \in LogicalPath : StatusXattr(l) \/ StatusStat(l)
<1>1. ASSUME NEW s \in StageId, NEW L \in Requests, Stage(s, L) \/ Cancel(s, L)
      PROVE  pc' \notin {"status", "stat"}
  BY <1>1 DEF Stage, Cancel
<1>2. ASSUME NEW s \in StageId, EraseBegin(s) PROVE pc' \notin {"status", "stat"}
  BY <1>2 DEF EraseBegin
<1>3. StatusCommit \/ EraseEnd \/ Updates \/ SelectInProgress
        \/ StatusOfNoFiles \/ DatabaseError \/ Crash \/ Restart
      => pc' \notin {"status", "stat"}
  BY DEF StatusCommit, EraseEnd, Updates, UpdateInProgress, UpdateOnDisk, UpdateTheRest,
         UpdateNeedRecall, UpdateGroup, SelectInProgress, StatusOfNoFiles, DatabaseError,
         Crash, Restart, Return, Halt
<1>4. ASSUME NEW n \in TakeOverSizes, TakeOver(n) PROVE pc' \notin {"status", "stat"}
  BY <1>4 DEF TakeOver
<1>5. ASSUME NEW p \in PhysicalPath, CreateXattr(p) PROVE pc' \notin {"status", "stat"}
  BY <1>5 DEF CreateXattr
<1>6. ASSUME NEW p \in PhysicalPath, Gemss(p) \/ OtherRecall(p) \/ ChangeOnDisk(p)
      PROVE  UNCHANGED <<file, pc, id, mem, todo>>
  BY <1>6 DEF Gemss, GemssRestore, GemssEnd, GemssMark, OtherRecall, ChangeOnDisk,
              db, local
<1>7. Tick \/ UNCHANGED vars => UNCHANGED <<file, pc, id, mem, todo>>
  BY DEF Tick, vars, db, local
<1> QED
  BY <1>1, <1>2, <1>3, <1>4, <1>5, <1>6, <1>7, NextCases

\* status() takes the states of the rows into memory and moves them forward, each
\* once; nobody else writes the rows before it commits.
LEMMA NextMemIsAhead ==
  ASSUME TypeOK, MemIsAhead, [Next]_vars
  PROVE  MemIsAhead'
<1>1. CASE pc' \notin {"status", "stat"}
  BY <1>1 DEF MemIsAhead
<1>2. CASE UNCHANGED <<file, pc, id, mem, todo>>
  BY <1>2 DEF MemIsAhead, FilesOf
<1>3. ASSUME NEW s \in StageId, StatusBegin(s) PROVE MemIsAhead'
  <2>1. /\ id' = s /\ UNCHANGED file
        /\ \A l \in FilesOf(file, s) : mem'[l] = file[<<s, l>>].state
    BY <1>3 DEF StatusBegin, db, FilesOf
  <2> QED
    BY <2>1 DEF MemIsAhead, FilesOf
<1>4. ASSUME NEW l \in LogicalPath, StatusXattr(l) \/ StatusStat(l) PROVE MemIsAhead'
  <2>1. /\ pc \in {"status", "stat"} /\ l \in todo
        /\ UNCHANGED <<file, id>>
    BY <1>4 DEF StatusXattr, StatusStat, Turn, Conclude, db, local
  <2>2. /\ l \in FilesOf(file, id) /\ mem[l] = file[<<id, l>>].state
        /\ mem[l] \in {"submitted", "started"}
    BY <2>1 DEF MemIsAhead, TypeOK, FilesOf, IsFileTable, FileRow, State
  <2>3. ASSUME NEW st, Conclude(l, st), st = mem[l] \/ MayMove(mem[l], st)
        PROVE  MemIsAhead'
    BY <2>1, <2>2, <2>3 DEF Conclude, MemIsAhead, TypeOK, FilesOf
  <2>4. \/ UNCHANGED <<mem, todo>>
        \/ \E st : Conclude(l, st) /\ (st = mem[l] \/ MayMove(mem[l], st))
    <3>1. CASE StatusXattr(l)
      BY <2>2, <3>1 DEF StatusXattr, local, MayMove, Final
    <3>2. CASE StatusStat(l)
      BY <2>2, <3>2 DEF StatusStat, MayMove, Final
    <3> QED
      BY <1>4, <3>1, <3>2
  <2> QED
    BY <2>1, <2>3, <2>4 DEF MemIsAhead, FilesOf
<1> QED
  BY <1>1, <1>2, <1>3, <1>4, StatusSteps

\* Every update has a time that is set and moves a row as its state allows.
LEMMA NextRowsHaveTimes ==
  ASSUME TypeOK, RowsHaveTimes, [Next]_vars
  PROVE  RowsHaveTimes'
<1>0. \A k \in DOMAIN file : file[k] \in FileRow
  BY DEF TypeOK, IsFileTable
<1>1. ASSUME NEW s \in StageId, NEW L \in Requests, Stage(s, L) PROVE RowsHaveTimes'
  <2>1. /\ DOMAIN file' = DOMAIN file \cup {<<s, l>> : l \in L}
        /\ \A k \in DOMAIN file : file'[k] = file[k]
        /\ \A l \in L : <<s, l>> \in DOMAIN file \/ HasTimesOf(file'[<<s, l>>])
    BY <1>1, StageFacts
  <2>2. \A k \in DOMAIN file : HasTimesOf(file'[k])
    BY <2>1 DEF RowsHaveTimes
  <2> QED
    BY <2>1, <2>2 DEF RowsHaveTimes
<1>2. ASSUME NEW s \in StageId, NEW L \in Requests, Cancel(s, L) PROVE RowsHaveTimes'
  <2>1. clock \in Nat \ {0}
    BY ServiceAssumption DEF TypeOK
  <2> QED
    BY <1>0, <1>2, <2>1, CancelFacts, MovedHasTimes DEF RowsHaveTimes
<1>3. ASSUME NEW s \in StageId, EraseBegin(s) PROVE RowsHaveTimes'
  BY <1>3, EraseFacts DEF RowsHaveTimes
<1>4. ASSUME StatusCommit \/ Updates PROVE RowsHaveTimes'
  <2>1. now \in Nat \ {0}
    <3>1. pc \notin {"idle", "down", "erase", "select_in_progress"}
      BY <1>4 DEF StatusCommit, Updates, UpdateInProgress, UpdateOnDisk, UpdateTheRest,
                  UpdateNeedRecall
    <3> QED
      BY <3>1, ServiceAssumption DEF TypeOK
  <2>2. /\ DOMAIN file' = DOMAIN file
        /\ \A k \in DOMAIN file : \E st \in State :
             file'[k] = file[k] \/ file'[k] = UpdatedRow(file[k], st, now)
    BY <1>4, StatusCommitFacts, UpdatesFacts
  <2> QED
    BY <1>0, <2>1, <2>2, MovedHasTimes DEF RowsHaveTimes
<1>5. CASE EraseEnd
  BY <1>5, EraseFacts DEF RowsHaveTimes
<1>6. CASE UNCHANGED db \/ UNCHANGED vars
  BY <1>6 DEF RowsHaveTimes, db, vars
<1> QED
  BY <1>1, <1>2, <1>3, <1>4, <1>5, <1>6, NextCases

\* The rows in memory are the rows, moved to their states at the time of status().
LEMMA MemFilesHaveTimes ==
  ASSUME TypeOK, MemIsAhead, RowsHaveTimes, pc = "status"
  PROVE  \A l \in DOMAIN MemFiles : HasTimesOf(MemFiles[l])
<1> SUFFICES ASSUME NEW l \in FilesOf(file, id) PROVE HasTimesOf(MemFiles[l])
  BY DEF MemFiles
<1> DEFINE row == file[<<id, l>>]
           later == [physical_path |-> row.physical_path,
                     state         |-> mem[l],
                     started_at    |-> IF row.state = "submitted" THEN now
                                       ELSE row.started_at,
                     finished_at   |-> IF mem[l] \in Final THEN now
                                       ELSE row.finished_at]
<1>1. row \in FileRow /\ HasTimesOf(row)
  BY DEF FilesOf, TypeOK, IsFileTable, RowsHaveTimes
<1>2. now \in Nat \ {0}
  BY ServiceAssumption DEF TypeOK
<1>3. MemFiles[l] = IF mem[l] = row.state THEN row ELSE later
  BY DEF MemFiles
<1>4. mem[l] = row.state \/ MayMove(row.state, mem[l])
  BY DEF MemIsAhead
<1>5. ASSUME MayMove(row.state, mem[l]) PROVE HasTimesOf(later)
  <2> HIDE DEF row
  <2> QED
    BY <1>1, <1>2, <1>5 DEF HasTimesOf, MayMove, FileRow, Final
<1> HIDE DEF row, later
<1> QED
  BY <1>1, <1>3, <1>4, <1>5

\* Both are invariants.
LEMMA AheadAndTimes == Spec => [](MemIsAhead /\ RowsHaveTimes)
<1>1. Init => MemIsAhead /\ RowsHaveTimes
  BY DEF Init, MemIsAhead, RowsHaveTimes
<1>2. TypeOK /\ (MemIsAhead /\ RowsHaveTimes) /\ [Next]_vars
        => (MemIsAhead /\ RowsHaveTimes)'
  BY NextMemIsAhead, NextRowsHaveTimes
<1> QED
  BY <1>1, <1>2, TypeCorrectness, PTL DEF Spec

\* Whatever handlers move a row, and also if the clock is set back between them, its
\* times are set just when its state says so, in the table and in the memory of
\* status(): the assertion of update_timestamps() does not fail.
THEOREM TimesTell == Spec => []TimesTellState
<1>1. TypeOK /\ MemIsAhead /\ RowsHaveTimes => TimesTellState
  BY MemFilesHaveTimes DEF TimesTellState, RowsHaveTimes
<1> QED
  BY <1>1, AheadAndTimes, TypeCorrectness, PTL

-----------------------------------------------------------------------------
(* A path ends for all its rows at once *)

\* A conditional update that ends a row ends every other row that has not ended, in
\* the same state.
LEMMA UpdatedAlike ==
  ASSUME NEW r1 \in FileRow, NEW r2 \in FileRow, NEW st, NEW tp,
         r1.state \notin Final, r2.state \notin Final,
         UpdatedRow(r1, st, tp).state \in Final
  PROVE  UpdatedRow(r2, st, tp).state = UpdatedRow(r1, st, tp).state
BY DEF FileRow, State, Final, UpdatedRow, Moved, MayMove

\* The updates of one transaction ask the same of all rows of a path.
LEMMA UpdatesArePerPath ==
  ASSUME TypeOK, StatusCommit \/ Updates, NEW p \in PhysicalPath
  PROVE  \/ \A k \in DOMAIN file : file[k].physical_path = p => file'[k] = file[k]
         \/ \E st : \A k \in DOMAIN file :
              file[k].physical_path = p => file'[k] = UpdatedRow(file[k], st, now)
<1>1. ASSUME NEW P, NEW st, file' = UpdatePaths(file, P, st, now)
      PROVE  \/ \A k \in DOMAIN file : file[k].physical_path = p => file'[k] = file[k]
             \/ \A k \in DOMAIN file :
                  file[k].physical_path = p => file'[k] = UpdatedRow(file[k], st, now)
  BY <1>1 DEF UpdatePaths
<1>2. CASE Updates
  <2>1. \E P, st : file' = UpdatePaths(file, P, st, now)
    BY <1>2 DEF Updates, UpdateInProgress, UpdateOnDisk, UpdateTheRest, UpdateNeedRecall,
                UpdateGroup
  <2> QED
    BY <1>1, <2>1
<1>3. CASE StatusCommit
  <2>1. PICK net : /\ net \in [PhysicalPath -> {net[q] : q \in PhysicalPath}]
                   /\ file' = UpdatePathStates(file, net, now)
    BY <1>3 DEF StatusCommit
  <2>2. \A k \in DOMAIN file : file'[k] = UpdatedRow(file[k], net[file[k].physical_path], now)
    BY <2>1 DEF UpdatePathStates
  <2> QED
    BY <2>2
<1> QED
  BY <1>2, <1>3

\* No other step ends a row that was there, but a cancellation.
LEMMA NextEndIsShared ==
  ASSUME TypeOK, [Next]_vars,
         NEW j \in DOMAIN file \cap DOMAIN file', NEW k \in DOMAIN file \cap DOMAIN file',
         file[j].physical_path = file[k].physical_path,
         file[j].state \notin Final, file[k].state \notin Final,
         file'[k].state \in {"failed", "completed"}
  PROVE  file'[j].state = file'[k].state
<1>0. /\ file[j] \in FileRow /\ file[k] \in FileRow
      /\ file'[k].state \in Final /\ file'[k] # file[k]
  BY DEF TypeOK, IsFileTable, Final
<1>1. CASE StatusCommit \/ Updates
  <2>1. file[k].physical_path \in PhysicalPath
    BY <1>0 DEF FileRow
  <2>2. PICK st : \A i \in DOMAIN file :
          file[i].physical_path = file[k].physical_path =>
            file'[i] = UpdatedRow(file[i], st, now)
    BY <1>0, <1>1, <2>1, UpdatesArePerPath
  <2>3. file'[j] = UpdatedRow(file[j], st, now) /\ file'[k] = UpdatedRow(file[k], st, now)
    BY <2>2
  <2> QED
    BY <1>0, <2>3, UpdatedAlike
<1>2. ASSUME NEW s \in StageId, NEW L \in Requests, Stage(s, L) PROVE FALSE
  BY <1>0, <1>2, StageFacts
<1>3. ASSUME NEW s \in StageId, NEW L \in Requests, Cancel(s, L) PROVE FALSE
  BY <1>0, <1>3, CancelFacts
<1>4. ASSUME NEW s \in StageId, EraseBegin(s) PROVE FALSE
  BY <1>0, <1>4, EraseFacts
<1>5. EraseEnd => FALSE
  BY <1>0, EraseFacts
<1>6. UNCHANGED db \/ UNCHANGED vars => FALSE
  BY <1>0 DEF db, vars
<1> QED
  BY <1>1, <1>2, <1>3, <1>4, <1>5, <1>6, NextCases

\* Whatever fails, also single statements: when status() or take_over() ends a row, all
\* rows of its path that had not ended end alike, under every name, in every stage and
\* whatever configuration they were made with.
THEOREM EndsTogether == Spec => EndIsShared
<1>1. TypeOK /\ [Next]_vars =>
        [\A j, k \in DOMAIN file \cap DOMAIN file' :
           /\ file[j].physical_path = file[k].physical_path
           /\ file[j].state \notin Final
           /\ file[k].state \notin Final /\ file'[k].state \in {"failed", "completed"}
           => file'[j].state = file'[k].state]_vars
  BY NextEndIsShared
<1> QED
  BY <1>1, TypeCorrectness, PTL DEF Spec, EndIsShared

-----------------------------------------------------------------------------
(* What status() answers is what it stores *)

\* No two files of a stage have the same physical path.
OwnPaths ==
  \A j, k \in DOMAIN file :
    j[1] = k[1] /\ file[j].physical_path = file[k].physical_path => j = k

\* No configuration resolves two logical paths to one physical path.
OneName ==
  \A resolve \in Resolutions : \A l, m \in LogicalPath : resolve[l] = resolve[m] => l = m

\* What stage() puts in a row: the path it has resolved, and one time for its start
\* and its end, between those at which it began and ended.
LEMMA NewRowFacts ==
  ASSUME TypeOK, NEW s \in StageId, NEW L \in Requests, Stage(s, L)
  PROVE  /\ "clock" \notin Events => clock <= clock'
         /\ \E resolve \in Resolutions : \A l \in L :
              \/ <<s, l>> \in DOMAIN file
              \/ /\ file'[<<s, l>>].physical_path = resolve[l]
                 /\ file'[<<s, l>>].started_at = file'[<<s, l>>].finished_at
                 /\ "clock" \notin Events =>
                      file'[<<s, l>>].started_at \in {0} \cup clock..clock'
<1>1. PICK end \in Later(clock), bad \in SUBSET L, resolve \in Resolutions :
        \E at \in [bad -> {t \in Later(clock) : end \in Later(t)}] :
          /\ file' = InsertFiles(file, s,
               [l \in L |-> [physical_path |-> resolve[l],
                             state |-> IF l \in bad THEN "failed" ELSE "submitted",
                             started_at  |-> IF l \in bad THEN at[l] ELSE 0,
                             finished_at |-> IF l \in bad THEN at[l] ELSE 0]])
          /\ clock' = end
  BY DEF Stage
<1>2. PICK at \in [bad -> {t \in Later(clock) : end \in Later(t)}] :
        file' = InsertFiles(file, s,
          [l \in L |-> [physical_path |-> resolve[l],
                        state |-> IF l \in bad THEN "failed" ELSE "submitted",
                        started_at  |-> IF l \in bad THEN at[l] ELSE 0,
                        finished_at |-> IF l \in bad THEN at[l] ELSE 0]])
  BY <1>1
<1> DEFINE rows == [l \in L |->
                      [physical_path |-> resolve[l],
                       state |-> IF l \in bad THEN "failed" ELSE "submitted",
                       started_at  |-> IF l \in bad THEN at[l] ELSE 0,
                       finished_at |-> IF l \in bad THEN at[l] ELSE 0]]
<1>3. clock \in 1..MaxTime /\ MaxTime \in Nat
  BY ServiceAssumption DEF TypeOK
<1>4. "clock" \notin Events => clock <= end /\ end \in Nat
  BY <1>3 DEF Later
<1>5. "clock" \notin Events => \A l \in bad : at[l] \in clock..end
  <2> SUFFICES ASSUME "clock" \notin Events, NEW l \in bad PROVE at[l] \in clock..end
    OBVIOUS
  <2>1. at[l] \in clock..MaxTime /\ end \in at[l]..MaxTime
    BY <1>2 DEF Later
  <2> QED
    BY <1>3, <2>1
<1>6. \A l \in L :
        /\ rows[l].physical_path = resolve[l]
        /\ rows[l].started_at = rows[l].finished_at
        /\ "clock" \notin Events => rows[l].started_at \in {0} \cup clock..end
  BY <1>4, <1>5
<1>7. file' = InsertFiles(file, s, rows) /\ DOMAIN rows = L
  BY <1>2
<1> HIDE DEF rows
<1>8. \A l \in L : <<s, l>> \in DOMAIN file \/ file'[<<s, l>>] = rows[l]
  BY <1>7 DEF InsertFiles
<1> QED
  BY <1>1, <1>4, <1>6, <1>8

\* An update leaves a row its path.
LEMMA MovedKeepsPath ==
  ASSUME NEW row, NEW st, NEW tp
  PROVE  /\ UpdatedRow(row, st, tp) \in {row, Moved(row, st, tp)}
         /\ Moved(row, st, tp).physical_path = row.physical_path
BY DEF UpdatedRow, Moved

\* A new stage has the files of one request only, and paths do not change after.
LEMMA NextOwnPaths ==
  ASSUME OneName, TypeOK, NoOrphanFiles, OwnPaths, [Next]_vars
  PROVE  OwnPaths'
<1>1. ASSUME NEW s \in StageId, NEW L \in Requests, Stage(s, L) PROVE OwnPaths'
  <2>1. /\ DOMAIN file' = DOMAIN file \cup {<<s, l>> : l \in L}
        /\ \A k \in DOMAIN file : file'[k] = file[k] /\ k[1] # s
    BY <1>1, StageFacts DEF NoOrphanFiles
  <2>2. \A l \in L : <<s, l>> \notin DOMAIN file
    BY <2>1
  <2>3. PICK resolve \in Resolutions :
          \A l \in L : file'[<<s, l>>].physical_path = resolve[l]
    BY <1>1, <2>2, NewRowFacts
  <2>4. \A l, m \in L : resolve[l] = resolve[m] => l = m
    BY RequestFacts DEF OneName
  <2> SUFFICES ASSUME NEW j \in DOMAIN file', NEW k \in DOMAIN file', j[1] = k[1],
                      file'[j].physical_path = file'[k].physical_path
               PROVE  j = k
    BY DEF OwnPaths
  <2>5. CASE j \in DOMAIN file /\ k \in DOMAIN file
    BY <2>1, <2>5 DEF OwnPaths
  <2>6. CASE j \notin DOMAIN file \/ k \notin DOMAIN file
    <3>1. PICK l \in L, m \in L : j = <<s, l>> /\ k = <<s, m>>
      BY <2>1, <2>6
    <3> QED
      BY <2>3, <2>4, <3>1
  <2> QED
    BY <2>5, <2>6
<1>2. ASSUME /\ DOMAIN file' \subseteq DOMAIN file
             /\ \A k \in DOMAIN file' : file'[k].physical_path = file[k].physical_path
      PROVE  OwnPaths'
  BY <1>2 DEF OwnPaths
<1>3. ASSUME NEW s \in StageId, NEW L \in Requests, Cancel(s, L) PROVE OwnPaths'
  BY <1>2, <1>3, CancelFacts, MovedKeepsPath
<1>4. ASSUME NEW s \in StageId, EraseBegin(s) PROVE OwnPaths'
  BY <1>2, <1>4, EraseFacts
<1>5. CASE StatusCommit
  BY <1>2, <1>5, StatusCommitFacts, MovedKeepsPath
<1>6. CASE Updates
  BY <1>2, <1>6, UpdatesFacts, MovedKeepsPath
<1>7. CASE EraseEnd
  BY <1>2, <1>7, EraseFacts
<1>8. CASE UNCHANGED db \/ UNCHANGED vars
  BY <1>2, <1>8 DEF db, vars
<1> QED
  BY <1>1, <1>3, <1>4, <1>5, <1>6, <1>7, <1>8, NextCases

\* The names of a file of which status() has concluded something, and that it has ended.
MovedNames(p) == {m \in Changed : file[<<id, m>>].physical_path = p}
EndedNames(p) == {m \in MovedNames(p) : mem[m] \in Final}

\* What status() asks of a path is what it has concluded of one of its names that have
\* ended, if there are any.
LEMMA NetStateOfNames ==
  ASSUME NEW p
  PROVE  /\ EndedNames(p) # {} => \E m \in EndedNames(p) : NetState(p, Changed) = mem[m]
         /\ EndedNames(p) = {} /\ MovedNames(p) # {} => NetState(p, Changed) = "started"
         /\ MovedNames(p) = {} => NetState(p, Changed) = "submitted"
<1> DEFINE F == EndedNames(p)
           U == MovedNames(p)
<1>1. NetState(p, Changed) =
        CASE F # {} -> mem[CHOOSE m \in F : \A k \in F : m <= k]
          [] F = {} /\ U # {} -> "started"
          [] OTHER -> "submitted"
  BY DEF NetState, EndedNames, MovedNames
<1>2. F \subseteq U /\ F \subseteq LogicalPath
  BY DEF EndedNames, MovedNames, Changed, FilesOf
<1>3. F # {} => \E m \in F : \A k \in F : m <= k
  BY <1>2, LogicalPathAssumption
<1>4. F # {} => (CHOOSE m \in F : \A k \in F : m <= k) \in F
  BY <1>3
<1> HIDE DEF F, U
<1>5. F # {} => \E m \in F : NetState(p, Changed) = mem[m]
  BY <1>1, <1>4
<1>6. F = {} => NetState(p, Changed) = IF U # {} THEN "started" ELSE "submitted"
  BY <1>1
<1> QED
  BY <1>2, <1>5, <1>6 DEF F, U

\* If no statement is lost the row of a file gets what status() asks of its path.
LEMMA CommitUpdates ==
  ASSUME "stmt" \notin Events, TypeOK, StatusCommit, NEW l \in FilesOf(file, id)
  PROVE  file'[<<id, l>>] =
           UpdatedRow(file[<<id, l>>], NetState(file[<<id, l>>].physical_path, Changed), now)
<1>1. PICK lost \in Losses(Changed) :
        file' = UpdatePathStates(file,
                  [p \in PhysicalPath |-> NetState(p, Changed \ lost)], now)
  BY DEF StatusCommit
<1>2. Changed \ lost = Changed
  BY <1>1 DEF Losses
<1>3. file' = UpdatePathStates(file, [p \in PhysicalPath |-> NetState(p, Changed)], now)
  BY <1>1, <1>2
<1>4. <<id, l>> \in DOMAIN file /\ file[<<id, l>>].physical_path \in PhysicalPath
  BY DEF FilesOf, TypeOK, IsFileTable, FileRow
<1> QED
  BY <1>3, <1>4 DEF UpdatePathStates

\* A stage is stored as status() has it in memory, name by name or for another name of
\* the file: every change it has concluded is one that the conditions of the updates
\* allow, and so is the first end of a file for all its names that have not ended.
LEMMA CommitStoresMem ==
  ASSUME "stmt" \notin Events, TypeOK, MemIsAhead, StatusCommit, NEW l \in FilesOf(file, id)
  PROVE  /\ mem[l] \in Final => file'[<<id, l>>].state \in Final
         /\ \E m \in FilesOf(file, id) :
              /\ file[<<id, m>>].physical_path = file[<<id, l>>].physical_path
              /\ file'[<<id, l>>].state = mem[m]
<1> DEFINE row == file[<<id, l>>]
           p == row.physical_path
           net == NetState(p, Changed)
<1>1. \A m \in FilesOf(file, id) :
        /\ file[<<id, m>>].state \in State
        /\ mem[m] = file[<<id, m>>].state \/ MayMove(file[<<id, m>>].state, mem[m])
  BY DEF FilesOf, TypeOK, IsFileTable, FileRow, MemIsAhead, StatusCommit
<1>2. file'[<<id, l>>].state = IF MayMove(row.state, net) THEN net ELSE row.state
  <2>1. file'[<<id, l>>] = UpdatedRow(row, net, now)
    BY CommitUpdates
  <2> HIDE DEF row, net
  <2>2. Moved(row, net, now).state = net
    BY DEF Moved
  <2> QED
    BY <2>1, <2>2 DEF UpdatedRow
<1>3. /\ EndedNames(p) # {} => \E m \in EndedNames(p) : net = mem[m]
      /\ EndedNames(p) = {} /\ MovedNames(p) # {} => net = "started"
      /\ MovedNames(p) = {} => net = "submitted"
  BY NetStateOfNames
<1>4. \A m \in MovedNames(p) : /\ m \in FilesOf(file, id) /\ mem[m] # file[<<id, m>>].state
                               /\ file[<<id, m>>].physical_path = p
  BY DEF MovedNames, Changed
<1>5. l \in MovedNames(p) <=> mem[l] # row.state
  BY DEF MovedNames, Changed
<1> HIDE DEF row, p, net
<1>6. p = file[<<id, l>>].physical_path /\ row = file[<<id, l>>]
  BY DEF p, row
<1>7. CASE row.state \in Final
  <2>1. ~MayMove(row.state, net) /\ mem[l] = row.state
    BY <1>1, <1>6, <1>7 DEF MayMove, Final
  <2> QED
    BY <1>2, <1>6, <1>7, <2>1
<1>8. CASE row.state \notin Final /\ EndedNames(p) # {}
  <2>1. PICK m \in EndedNames(p) : net = mem[m]
    BY <1>3, <1>8
  <2>2. m \in MovedNames(p) /\ mem[m] \in Final
    BY DEF EndedNames
  <2>3. MayMove(row.state, net)
    BY <1>1, <1>6, <1>8, <2>1, <2>2 DEF MayMove, State, Final
  <2> QED
    BY <1>2, <1>4, <1>6, <2>1, <2>2, <2>3
<1>9. CASE row.state \notin Final /\ EndedNames(p) = {} /\ MovedNames(p) # {}
  <2>1. net = "started" /\ file'[<<id, l>>].state = "started"
    BY <1>1, <1>2, <1>3, <1>6, <1>9 DEF MayMove, State, Final
  <2>2. PICK m \in MovedNames(p) : TRUE
    BY <1>9
  <2>3. m \notin EndedNames(p) /\ mem[m] \notin Final
    BY <1>9, <2>2 DEF EndedNames
  <2>4. mem[m] = "started"
    BY <1>1, <1>4, <2>2, <2>3 DEF MayMove
  <2>5. mem[l] \notin Final
    BY <1>5, <1>9 DEF EndedNames
  <2> QED
    BY <1>4, <1>6, <2>1, <2>2, <2>4, <2>5
<1>10. CASE row.state \notin Final /\ MovedNames(p) = {}
  <2>1. ~MayMove(row.state, net) /\ mem[l] = row.state
    BY <1>3, <1>5, <1>10 DEF MayMove, Final, EndedNames
  <2> QED
    BY <1>2, <1>6, <1>10, <2>1
<1> QED
  BY <1>7, <1>8, <1>9, <1>10

\* Unless a statement fails, what status() answers is what it has stored, of the file by
\* that name or by another: the first of its names to end decides for all of them.
THEOREM AnswersAreStored ==
  ASSUME "stmt" \notin Events
  PROVE  Spec => AnswerIsStored
<1>1. Init => MemIsAhead
  BY DEF Init, MemIsAhead
<1>2. TypeOK /\ MemIsAhead /\ [Next]_vars => MemIsAhead'
  BY NextMemIsAhead
<1>3. TypeOK /\ MemIsAhead /\ [Next]_vars =>
        [StatusCommit =>
           \A l \in FilesOf(file, id) :
             /\ mem[l] \in Final => file'[<<id, l>>].state \in Final
             /\ \E m \in FilesOf(file, id) :
                  /\ file[<<id, m>>].physical_path = file[<<id, l>>].physical_path
                  /\ file'[<<id, l>>].state = mem[m]]_vars
  BY CommitStoresMem
<1> QED
  BY <1>1, <1>2, <1>3, TypeCorrectness, PTL DEF Spec, AnswerIsStored

\* Where no two names of a request are of one file, each answer is what is stored for it.
THEOREM EachAnswerIsStored ==
  ASSUME "stmt" \notin Events, OneName
  PROVE  Spec => [][StatusCommit =>
                      \A l \in FilesOf(file, id) : file'[<<id, l>>].state = mem[l]]_vars
<1>1. Init => MemIsAhead /\ OwnPaths
  BY DEF Init, MemIsAhead, OwnPaths
<1>2. TypeOK /\ NoOrphanFiles /\ MemIsAhead /\ OwnPaths /\ [Next]_vars
        => MemIsAhead' /\ OwnPaths'
  BY NextMemIsAhead, NextOwnPaths
<1>3. OwnPaths => \A l, m \in FilesOf(file, id) :
        file[<<id, m>>].physical_path = file[<<id, l>>].physical_path => m = l
  BY DEF OwnPaths, FilesOf
<1>4. TypeOK /\ MemIsAhead /\ OwnPaths /\ [Next]_vars =>
        [StatusCommit =>
           \A l \in FilesOf(file, id) : file'[<<id, l>>].state = mem[l]]_vars
  BY <1>3, CommitStoresMem
<1> QED
  BY <1>1, <1>2, <1>4, NoOrphans, TypeCorrectness, PTL DEF Spec

-----------------------------------------------------------------------------
(* The abstract life of a stage: what the tables show of it is what StageLifecycle   *)
(* says, and every step of the service is a step of that life or none of it.         *)

\* The variables of StageLifecycle as the service has them.
States == [k \in DOMAIN file |-> file[k].state]
Done   == {s \in DOMAIN stage : stage[s].completed_at # 0}

\* An update under conditions moves a row forward.
LEMMA ForwardFacts ==
  ASSUME NEW row \in FileRow, NEW st \in State, NEW tp \in Nat
  PROVE  /\ Lifecycle!Forward(row.state, UpdatedRow(row, st, tp).state)
         /\ Lifecycle!Forward(row.state, row.state)
BY DEF Lifecycle!Forward, Lifecycle!Ended, FileRow, State, Final, UpdatedRow, Moved,
       MayMove

\* The files and the states of the service are those of the abstract stage.
LEMMA StatesFacts ==
  /\ DOMAIN States = DOMAIN file
  /\ \A k \in DOMAIN file : States[k] = file[k].state
  /\ Final = Lifecycle!Ended
  /\ State = {"submitted", "started"} \cup Lifecycle!Ended
  /\ \A s : Lifecycle!Files(s) = {k \in DOMAIN file : k[1] = s}
BY DEF States, Lifecycle!Ended, Lifecycle!Files, State, Final

\* Steps that move rows forward, under conditions, and may find s done, are
\* advances of s.
LEMMA AdvanceFacts ==
  ASSUME TypeOK, IsFileTable(file'), NEW s \in DOMAIN stage,
         DOMAIN file' = DOMAIN file, DOMAIN stage' = DOMAIN stage,
         \A k \in DOMAIN file : Lifecycle!Forward(file[k].state, file'[k].state),
         \/ Done' = Done
         \/ /\ \A k \in DOMAIN file : k[1] = s => file'[k].state \in Final
            /\ Done' = Done \cup {s}
  PROVE  Lifecycle!Advance(s)
<1>1. /\ States' \in [DOMAIN States -> State]
      /\ \A k \in DOMAIN file : States'[k] = file'[k].state
  BY DEF States, IsFileTable, FileRow
<1>2. \A k \in DOMAIN States : Lifecycle!Forward(States[k], States'[k])
  BY <1>1, StatesFacts
<1>3. \/ Done' = Done
      \/ /\ \A k \in Lifecycle!Files(s) : States'[k] \in Lifecycle!Ended
         /\ Done' = Done \cup {s}
  BY <1>1, StatesFacts
<1> QED
  BY <1>1, <1>2, <1>3, StatesFacts DEF Lifecycle!Advance, States, Done

\* stage() accepts a stage.
LEMMA StageAccepts ==
  ASSUME TypeOK, NoOrphanFiles, NEW s \in StageId, NEW L \in Requests, Stage(s, L)
  PROVE  Lifecycle!Accept(s)
<1>1. /\ s \notin DOMAIN stage /\ DOMAIN stage' = DOMAIN stage \cup {s}
      /\ stage'[s].completed_at = 0
      /\ \A t \in DOMAIN stage : stage'[t] = stage[t]
      /\ DOMAIN file' = DOMAIN file \cup {<<s, l>> : l \in L}
      /\ \A k \in DOMAIN file : file'[k] = file[k]
      /\ \A l \in L : <<s, l>> \in DOMAIN file
                       \/ file'[<<s, l>>].state \in {"submitted", "failed"}
  BY StageFacts
<1>2. \A l \in L : <<s, l>> \notin DOMAIN file
  BY <1>1 DEF NoOrphanFiles
<1> DEFINE new == [l \in L |-> file'[<<s, l>>].state]
<1>3. new \in [L -> {"submitted", "failed"}]
  BY <1>1, <1>2
<1>4. \A k \in DOMAIN file' :
        file'[k].state = IF k \in DOMAIN file THEN file[k].state ELSE new[k[2]]
  BY <1>1
<1>5. Done' = Done
  BY <1>1 DEF Done
<1>6. L \in SUBSET LogicalPath
  BY RequestFacts
<1> HIDE DEF new
<1>7. States' = [k \in DOMAIN States \cup {<<s, l>> : l \in L} |->
                   IF k \in DOMAIN States THEN States[k] ELSE new[k[2]]]
  BY <1>1, <1>4 DEF States
<1> QED
  BY <1>1, <1>3, <1>5, <1>6, <1>7 DEF Lifecycle!Accept, States, Done

\* status() advances its stage, and with it others that share its paths.
LEMMA StatusAdvances ==
  ASSUME "stmt" \notin Events, TypeOK, StatusCommit
  PROVE  \E s \in StageId : Lifecycle!Advance(s)
<1>1. PICK s \in StageId : s = id /\ s \in DOMAIN stage
  BY StatusCommitFacts DEF TypeOK, IsStageTable
<1>2. /\ IsFileTable(file')
      /\ DOMAIN file' = DOMAIN file /\ DOMAIN stage' = DOMAIN stage
      /\ \A t \in DOMAIN stage \ {s} : stage'[t] = stage[t]
      /\ stage[s].completed_at # 0 =>
           stage'[s].completed_at = stage[s].completed_at
      /\ stage'[s].completed_at # stage[s].completed_at =>
           \A l \in FilesOf(file, s) : file'[<<s, l>>].state \in Final
  BY <1>1, StatusCommitFacts
<1>3. ASSUME NEW k \in DOMAIN file
      PROVE  Lifecycle!Forward(file[k].state, file'[k].state)
  <2>1. PICK st \in State : file'[k] = UpdatedRow(file[k], st, now)
    BY <1>3, StatusCommitFacts
  <2>2. file[k] \in FileRow /\ now \in Nat
    BY <1>3 DEF TypeOK, IsFileTable
  <2> QED
    BY <2>1, <2>2, ForwardFacts
<1>4. CASE stage'[s].completed_at = stage[s].completed_at
  <2>1. Done' = Done
    BY <1>2, <1>4 DEF Done
  <2> QED
    BY <1>1, <1>2, <1>3, <2>1, AdvanceFacts
<1>5. CASE stage'[s].completed_at # stage[s].completed_at
  <2>1. Done' = Done \cup {s}
    BY <1>1, <1>2, <1>5 DEF Done
  <2>2. \A k \in DOMAIN file : k[1] = s => file'[k].state \in Final
    BY <1>2, <1>5, KeyFacts
  <2> QED
    BY <1>1, <1>2, <1>3, <2>1, <2>2, AdvanceFacts
<1> QED
  BY <1>4, <1>5

\* The updates of take_over() advance stages; without files nothing happens.
LEMMA UpdatesAdvance ==
  ASSUME TypeOK, NoOrphanFiles, Updates
  PROVE  \/ \E s \in StageId : Lifecycle!Advance(s)
         \/ UNCHANGED <<stage, States>>
<1>1. IsFileTable(file') /\ DOMAIN file' = DOMAIN file /\ UNCHANGED stage
  BY UpdatesFacts
<1>2. ASSUME NEW k \in DOMAIN file
      PROVE  Lifecycle!Forward(file[k].state, file'[k].state)
  <2>1. PICK st \in State : file'[k] = file[k] \/ file'[k] = UpdatedRow(file[k], st, now)
    BY <1>2, UpdatesFacts
  <2>2. file[k] \in FileRow /\ now \in Nat
    BY <1>2 DEF TypeOK, IsFileTable
  <2> QED
    BY <2>1, <2>2, ForwardFacts
<1>3. CASE DOMAIN file = {}
  BY <1>1, <1>3 DEF States
<1>4. CASE DOMAIN file # {}
  <2>1. PICK k \in DOMAIN file : k[1] \in DOMAIN stage /\ k[1] \in StageId
    BY <1>4, KeyFacts DEF NoOrphanFiles
  <2>2. DOMAIN stage' = DOMAIN stage /\ Done' = Done
    BY <1>1 DEF Done
  <2>3. Lifecycle!Advance(k[1])
    BY <1>1, <1>2, <2>1, <2>2, AdvanceFacts
  <2> QED
    BY <2>1, <2>3
<1> QED
  BY <1>3, <1>4

\* cancel() gives up files of its stage.
LEMMA CancelGivesUp ==
  ASSUME TypeOK, NEW s \in StageId, NEW L, Cancel(s, L)
  PROVE  Lifecycle!GiveUp(s)
<1>1. /\ DOMAIN file' = DOMAIN file
      /\ \A k \in DOMAIN file :
           file'[k] = file[k] \/ (k[1] = s /\ file'[k].state = "cancelled")
      /\ s \in DOMAIN stage /\ UNCHANGED stage
  BY CancelFacts
<1> DEFINE K == {k \in DOMAIN file : file'[k] # file[k]}
<1>2. K \in SUBSET Lifecycle!Files(s)
  BY <1>1, StatesFacts
<1>3. States' = [k \in DOMAIN States |-> IF k \in K THEN "cancelled" ELSE States[k]]
  BY <1>1 DEF States
<1>4. Done' = Done
  BY <1>1 DEF Done
<1> HIDE DEF K
<1> QED
  BY <1>1, <1>2, <1>3, <1>4 DEF Lifecycle!GiveUp, States, Done

\* erase() drops the files of its stage, and then removes it.
LEMMA EraseRemoves ==
  ASSUME TypeOK, NoOrphanFiles
  PROVE  /\ \A s \in StageId : EraseBegin(s) => Lifecycle!Drop(s)
         /\ EraseEnd => \E s \in StageId : Lifecycle!Remove(s)
<1>1. ASSUME NEW s \in StageId, EraseBegin(s) PROVE Lifecycle!Drop(s)
  <2>1. /\ UNCHANGED stage /\ s \in DOMAIN stage
        /\ \A k : k \in DOMAIN file' <=> k \in DOMAIN file /\ k[1] # s
        /\ \A k \in DOMAIN file' : file'[k] = file[k]
    BY <1>1, EraseFacts
  <2>2. DOMAIN file' = DOMAIN States \ Lifecycle!Files(s)
    BY <2>1, StatesFacts
  <2>3. States' = [k \in DOMAIN States \ Lifecycle!Files(s) |-> States[k]]
    BY <2>1, <2>2 DEF States
  <2>4. Done' = Done
    BY <2>1 DEF Done
  <2> QED
    BY <2>1, <2>3, <2>4 DEF Lifecycle!Drop, States, Done
<1>2. ASSUME EraseEnd PROVE \E s \in StageId : Lifecycle!Remove(s)
  <2>1. PICK s \in StageId : s = id /\ s \in DOMAIN stage
    BY <1>2, EraseFacts DEF TypeOK, IsStageTable
  <2>2. /\ UNCHANGED file /\ FilesOf(file, s) = {}
        /\ DOMAIN stage' = DOMAIN stage \ {s}
        /\ \A t \in DOMAIN stage' : stage'[t] = stage[t]
    BY <1>2, <2>1, EraseFacts
  <2>3. Lifecycle!Files(s) = {}
    BY <2>2, KeyFacts, StatesFacts
  <2>4. Done' = Done \ {s} /\ States' = States
    BY <2>2 DEF Done, States
  <2> QED
    BY <2>1, <2>2, <2>3, <2>4 DEF Lifecycle!Remove, States, Done
<1> QED
  BY <1>1, <1>2

\* Every step of the service is one of the abstract life, or a stutter.
LEMMA NextLifecycle ==
  ASSUME "stmt" \notin Events, TypeOK, NoOrphanFiles, [Next]_vars
  PROVE  Lifecycle!LNext \/ UNCHANGED <<DOMAIN stage, States, Done>>
<1>1. ASSUME NEW s \in StageId, NEW L \in Requests, Stage(s, L) \/ Cancel(s, L)
      PROVE  Lifecycle!LNext
  BY <1>1, StageAccepts, CancelGivesUp DEF Lifecycle!LNext
<1>2. ASSUME NEW s \in StageId, EraseBegin(s) PROVE Lifecycle!LNext
  BY <1>2, EraseRemoves DEF Lifecycle!LNext
<1>3. CASE StatusCommit
  BY <1>3, StatusAdvances DEF Lifecycle!LNext
<1>4. CASE EraseEnd
  BY <1>4, EraseRemoves DEF Lifecycle!LNext
<1>5. CASE Updates
  <2>1. CASE \E s \in StageId : Lifecycle!Advance(s)
    BY <2>1 DEF Lifecycle!LNext
  <2>2. CASE UNCHANGED <<stage, States>>
    BY <2>2 DEF Done
  <2>3. \/ \E s \in StageId : Lifecycle!Advance(s)
        \/ UNCHANGED <<stage, States>>
    BY <1>5, UpdatesAdvance
  <2> QED
    BY <2>1, <2>2, <2>3
<1>6. CASE UNCHANGED db
  <2>1. UNCHANGED stage /\ UNCHANGED file
    BY <1>6 DEF db
  <2>2. States' = States /\ Done' = Done
    BY <2>1 DEF States, Done
  <2> QED
    BY <2>1, <2>2
<1>7. UNCHANGED vars => UNCHANGED db
  BY DEF vars, db
<1> QED
  BY <1>1, <1>2, <1>3, <1>4, <1>5, <1>6, <1>7, NextCases

\* The service keeps its promise to clients: interleaved with GEMSS, the users
\* of the disk, crashes, errors and stages that share paths, every stage lives
\* the life StageLifecycle describes, unless the database loses a statement and
\* commits the rest.
THEOREM Refinement ==
  ASSUME "stmt" \notin Events
  PROVE  Spec => ImplementsLifecycle
<1>1. Init => Lifecycle!LInit
  BY DEF Init, Lifecycle!LInit
<1>2. TypeOK /\ NoOrphanFiles /\ [Next]_vars => [Lifecycle!LNext]_Lifecycle!lvars
  BY NextLifecycle DEF Lifecycle!lvars, States, Done
<1> QED
  BY <1>1, <1>2, TypeCorrectness, NoOrphans, PTL
     DEF Spec, ImplementsLifecycle, Lifecycle!LSpec
=============================================================================
