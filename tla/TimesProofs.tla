----------------------------- MODULE TimesProofs -----------------------------
(***************************************************************************)
(* The times of files and stages agree with each other and with the clock, *)
(* whichever handlers write them and in whatever order.                    *)
(***************************************************************************)
EXTENDS SafetyProofs

-----------------------------------------------------------------------------
(* Times are in order while the clock is *)

\* A handler that has taken the time and may write.
Writing == pc \notin {"idle", "down", "erase", "select_in_progress"}

\* The clock does not go back, and a handler takes the time before it may write.
LEMMA TimePointFacts ==
  ASSUME "clock" \notin Events, TypeOK, [Next]_vars
  PROVE  /\ clock \in Nat /\ clock' \in Nat /\ clock <= clock' /\ now \in Nat
         /\ ~Writing' \/ now' = clock' \/ (now' = now /\ Writing)
<1>0. clock \in Nat /\ clock \in 1..MaxTime /\ now \in Nat
  BY ServiceAssumption DEF TypeOK
<1>1. ASSUME clock' = clock, ~Writing' \/ now' = clock' \/ (now' = now /\ Writing)
      PROVE  /\ clock' \in Nat /\ clock <= clock'
             /\ ~Writing' \/ now' = clock' \/ (now' = now /\ Writing)
  BY <1>0, <1>1
<1>2. ASSUME NEW s \in StageId, NEW L \in Requests, Stage(s, L)
      PROVE  clock' \in Nat /\ clock <= clock' /\ ~Writing'
  <2>1. clock' \in 1..MaxTime
    BY <1>2, StageFacts
  <2>2. clock <= clock'
    BY <1>2, NewRowFacts
  <2>3. ~Writing'
    BY <1>2 DEF Stage, Writing
  <2> QED
    BY <2>1, <2>2, <2>3, ServiceAssumption
<1>3. ASSUME NEW s \in StageId, NEW L \in Requests, Cancel(s, L)
      PROVE  clock' = clock /\ ~Writing'
  BY <1>3 DEF Cancel, Writing
<1>4. ASSUME NEW s \in StageId, EraseBegin(s) PROVE clock' = clock /\ ~Writing'
  BY <1>4 DEF EraseBegin, Writing
<1>5. StatusCommit \/ Updates \/ EraseEnd
        => clock' = clock /\ (~Writing' \/ (now' = now /\ Writing))
  BY DEF StatusCommit, Updates, UpdateInProgress, UpdateOnDisk, UpdateTheRest,
         UpdateNeedRecall, UpdateGroup, EraseEnd, Return, local, Writing
<1>6. ASSUME NEW s \in StageId, StatusBegin(s) PROVE clock' = clock /\ now' = clock'
  BY <1>6 DEF StatusBegin
<1>7. ASSUME NEW l \in LogicalPath, StatusXattr(l) \/ StatusStat(l)
      PROVE  clock' = clock /\ now' = now /\ Writing
  BY <1>7 DEF StatusXattr, StatusStat, Conclude, local, Writing
<1>8. ASSUME NEW n \in TakeOverSizes, TakeOver(n) PROVE clock' = clock /\ ~Writing'
  BY <1>8 DEF TakeOver, Writing
<1>9. SelectInProgress => clock' = clock /\ now' = clock'
  BY DEF SelectInProgress
<1>10. ASSUME NEW p \in PhysicalPath, CreateXattr(p)
       PROVE  clock' = clock /\ now' = now /\ Writing
  BY <1>10 DEF CreateXattr, Writing
<1>11. StatusOfNoFiles \/ DatabaseError \/ Crash \/ Restart => clock' = clock /\ ~Writing'
  BY DEF StatusOfNoFiles, DatabaseError, Crash, Restart, Return, Halt, Writing
<1>12. ASSUME NEW p \in PhysicalPath, Gemss(p) \/ OtherRecall(p) \/ ChangeOnDisk(p)
       PROVE  UNCHANGED <<clock, pc, now>>
  BY <1>12 DEF Gemss, GemssRestore, GemssEnd, GemssMark, OtherRecall, ChangeOnDisk, local
<1>13. UNCHANGED vars => UNCHANGED <<clock, pc, now>>
  BY DEF vars
<1>14. Tick => clock' \in Nat /\ clock <= clock' /\ UNCHANGED <<pc, now>>
  <2> SUFFICES ASSUME "clock" \notin Events, Tick
               PROVE  clock' \in Nat /\ clock <= clock' /\ UNCHANGED <<pc, now>>
    OBVIOUS
  <2>1. clock' \in clock..MaxTime /\ UNCHANGED <<pc, now>>
    BY DEF Tick, Later, local
  <2> QED
    BY <1>0, <2>1, ServiceAssumption
<1>15. UNCHANGED <<pc, now>> => ~Writing' \/ (now' = now /\ Writing)
  BY DEF Writing
<1> QED
  BY <1>0, <1>1, <1>2, <1>3, <1>4, <1>5, <1>6, <1>7, <1>8, <1>9, <1>10, <1>11, <1>12,
     <1>13, <1>14, <1>15, NextCases

\* No row has a start in the future, nor one after the time point of a handler that
\* is to write; and no row ends before it starts.
TimesArePast ==
  /\ \A k \in DOMAIN file :
       /\ file[k].started_at <= clock
       /\ file[k].state \in Final => file[k].started_at <= file[k].finished_at
  /\ Writing => now <= clock /\ \A k \in DOMAIN file : file[k].started_at <= now

\* An update not earlier than the start of a row keeps its times in order.
LEMMA MovedInOrder ==
  ASSUME NEW row \in FileRow, NEW tp \in Nat, row.started_at <= tp,
         row.state \in Final => row.started_at <= row.finished_at
  PROVE  /\ \A st \in State :
              LET new == UpdatedRow(row, st, tp) IN
              /\ new.started_at <= tp
              /\ new.state \in Final => new.started_at <= new.finished_at
         /\ LET new == Moved(row, "cancelled", tp)
            IN  new.started_at <= tp /\ new.started_at <= new.finished_at
BY DEF FileRow, State, Final, UpdatedRow, Moved, MayMove

\* What is written is not earlier than what has been.
LEMMA NextTimesArePast ==
  ASSUME "clock" \notin Events, TypeOK, TimesArePast, [Next]_vars
  PROVE  TimesArePast'
<1>0. /\ \A k \in DOMAIN file : file[k] \in FileRow /\ file[k].started_at \in Nat
      /\ clock \in Nat /\ clock' \in Nat /\ clock <= clock' /\ now \in Nat
      /\ ~Writing' \/ now' = clock' \/ (now' = now /\ Writing)
  BY TimePointFacts DEF TypeOK, IsFileTable, FileRow
<1>1. ASSUME NEW s \in StageId, NEW L \in Requests, Stage(s, L) PROVE TimesArePast'
  <2>1. /\ DOMAIN file' = DOMAIN file \cup {<<s, l>> : l \in L}
        /\ \A k \in DOMAIN file : file'[k] = file[k]
    BY <1>1, StageFacts
  <2>2. \A l \in L : <<s, l>> \in DOMAIN file
          \/ /\ file'[<<s, l>>].started_at = file'[<<s, l>>].finished_at
             /\ file'[<<s, l>>].started_at \in {0} \cup clock..clock'
    BY <1>1, NewRowFacts
  <2>3. ~Writing'
    BY <1>1 DEF Stage, Writing
  <2>4. \A k \in DOMAIN file : file'[k].started_at <= clock'
    BY <1>0, <2>1 DEF TimesArePast
  <2>5. \A l \in L : <<s, l>> \in DOMAIN file
          \/ /\ file'[<<s, l>>].started_at = file'[<<s, l>>].finished_at
             /\ file'[<<s, l>>].started_at <= clock'
    BY <1>0, <2>2
  <2> QED
    BY <1>0, <2>1, <2>2, <2>3, <2>4, <2>5 DEF TimesArePast
<1>2. ASSUME NEW s \in StageId, NEW L \in Requests, Cancel(s, L) PROVE TimesArePast'
  <2>1. ~Writing' /\ clock' = clock
    BY <1>2 DEF Cancel, Writing
  <2>2. /\ DOMAIN file' = DOMAIN file
        /\ \A k \in DOMAIN file :
             file'[k] = file[k] \/ file'[k] = Moved(file[k], "cancelled", clock)
    BY <1>2, CancelFacts
  <2> QED
    BY <1>0, <2>1, <2>2, MovedInOrder DEF TimesArePast
<1>3. ASSUME StatusCommit \/ Updates PROVE TimesArePast'
  <2>1. /\ Writing /\ clock' = clock
        /\ ~Writing' \/ now' = now
    BY <1>3 DEF StatusCommit, Updates, UpdateInProgress, UpdateOnDisk, UpdateTheRest,
                UpdateNeedRecall, UpdateGroup, Return, local, Writing
  <2>2. /\ DOMAIN file' = DOMAIN file
        /\ \A k \in DOMAIN file : \E st \in State :
             file'[k] = file[k] \/ file'[k] = UpdatedRow(file[k], st, now)
    BY <1>3, StatusCommitFacts, UpdatesFacts
  <2>3. now <= clock /\ \A k \in DOMAIN file : file[k].started_at <= now
    BY <2>1 DEF TimesArePast
  <2>4. ASSUME NEW k \in DOMAIN file
        PROVE  /\ file'[k].started_at <= now
               /\ file'[k].state \in Final => file'[k].started_at <= file'[k].finished_at
    BY <1>0, <2>2, <2>3, MovedInOrder DEF TimesArePast
  <2>5. \A k \in DOMAIN file : file'[k].started_at \in Nat
    BY <1>3, <2>2, StatusCommitFacts, UpdatesFacts DEF IsFileTable, FileRow
  <2> QED
    BY <1>0, <2>1, <2>2, <2>3, <2>4, <2>5 DEF TimesArePast
<1>4. ASSUME DOMAIN file' \subseteq DOMAIN file, \A k \in DOMAIN file' : file'[k] = file[k]
      PROVE  TimesArePast'
  BY <1>0, <1>4 DEF TimesArePast
<1>5. ASSUME NEW s \in StageId, EraseBegin(s) PROVE TimesArePast'
  BY <1>4, <1>5, EraseFacts
<1>6. EraseEnd \/ UNCHANGED db \/ UNCHANGED vars => TimesArePast'
  BY <1>4, EraseFacts DEF db, vars
<1> QED
  BY <1>1, <1>2, <1>3, <1>5, <1>6, NextCases

\* While the clock is not set back no file ends before it has started, whichever two
\* handlers have written its start and its end, and whatever fails between them.
THEOREM TimesInOrder ==
  ASSUME "clock" \notin Events
  PROVE  Spec => []TimesAreOrdered
<1>1. Init => TimesArePast
  BY DEF Init, TimesArePast
<1>2. TypeOK /\ TimesArePast /\ [Next]_vars => TimesArePast'
  BY NextTimesArePast
<1>3. TimesArePast => TimesAreOrdered
  BY DEF TimesArePast, TimesAreOrdered
<1> QED
  BY <1>1, <1>2, <1>3, TypeCorrectness, PTL DEF Spec

-----------------------------------------------------------------------------
(* The end of a stage is that of its files *)

\* When status() completes a stage, no row of it has a later end: what it has stored of
\* each file ends when the file in memory does, from which the stage has its end.
LEMMA CommitEndsLast ==
  ASSUME "stmt" \notin Events, TypeOK, MemIsAhead, StatusCommit,
         stage[id].completed_at = 0, stage'[id].completed_at # 0,
         NEW l \in FilesOf(file, id)
  PROVE  file'[<<id, l>>].finished_at <= stage'[id].completed_at
<1> DEFINE row == file[<<id, l>>]
<1>1. /\ <<id, l>> \in DOMAIN file /\ row \in FileRow
      /\ id \in DOMAIN stage /\ pc = "status"
  BY DEF FilesOf, TypeOK, IsFileTable, StatusCommit
<1>2. PICK start \in StartTimes(stage[id], MemFiles),
           end \in CompletionTimes(stage[id], MemFiles) :
        stage' = [stage EXCEPT ![id] = [created_at   |-> stage[id].created_at,
                                        started_at   |-> start,
                                        completed_at |-> end]]
  BY DEF StatusCommit
<1>3. stage'[id].completed_at = end
  BY <1>1, <1>2
<1>4. /\ \A m \in FilesOf(file, id) : MemFiles[m].state \in Final
      /\ end \in Maxima({MemFiles[m].finished_at : m \in FilesOf(file, id)})
  BY <1>1, <1>2, <1>3, MemFilesFacts DEF CompletionTimes
<1>5. mem[l] \in Final /\ MemFiles[l].finished_at <= end
  BY <1>1, <1>4, MemFilesFacts DEF Maxima
<1>6. /\ row.state \in Final => file'[<<id, l>>] = row
      /\ file'[<<id, l>>].state \in Final
      /\ \E st \in State : file'[<<id, l>>] = UpdatedRow(row, st, now)
  BY <1>1, <1>5, StatusCommitFacts
<1>7. CASE row.state \in Final
  <2>1. mem[l] = row.state
    BY <1>1, <1>7 DEF MemIsAhead, MayMove, Final
  <2> QED
    BY <1>3, <1>5, <1>6, <1>7, <2>1 DEF MemFiles
<1>8. CASE row.state \notin Final
  <2>1. file'[<<id, l>>].finished_at = now
    BY <1>6, <1>8 DEF UpdatedRow, Moved, MayMove, Final
  <2>2. MemFiles[l].finished_at = now
    BY <1>5, <1>8 DEF MemFiles
  <2> QED
    BY <1>3, <1>5, <2>1, <2>2
<1> QED
  BY <1>7, <1>8

\* After that only cancel() writes to the rows of the stage.
LEMMA NextLateEndIsCancelled ==
  ASSUME "stmt" \notin Events, TypeOK, NoOrphanFiles, CompletedStageIsFinal, MemIsAhead,
         LateEndIsCancelled, [Next]_vars
  PROVE  LateEndIsCancelled'
<1>1. ASSUME NEW s \in StageId, NEW L \in Requests, Stage(s, L) PROVE LateEndIsCancelled'
  <2>1. /\ DOMAIN file' = DOMAIN file \cup {<<s, l>> : l \in L}
        /\ \A k \in DOMAIN file : file'[k] = file[k] /\ stage'[k[1]] = stage[k[1]]
        /\ stage'[s].completed_at = 0
    BY <1>1, StageFacts DEF NoOrphanFiles
  <2> QED
    BY <2>1 DEF LateEndIsCancelled
<1>2. ASSUME UNCHANGED stage, DOMAIN file' \subseteq DOMAIN file,
             \A k \in DOMAIN file' : file'[k] = file[k] \/ file'[k].state = "cancelled"
      PROVE  LateEndIsCancelled'
  BY <1>2 DEF LateEndIsCancelled
<1>3. ASSUME NEW k \in DOMAIN file, stage[k[1]].completed_at # 0
      PROVE  file[k].state \in Final
  BY <1>3, KeyFacts DEF CompletedStageIsFinal, NoOrphanFiles
<1>4. ASSUME NEW s \in StageId, NEW L \in Requests, Cancel(s, L) PROVE LateEndIsCancelled'
  BY <1>2, <1>4, CancelFacts
<1>5. ASSUME NEW s \in StageId, EraseBegin(s) PROVE LateEndIsCancelled'
  BY <1>2, <1>5, EraseFacts
<1>6. CASE StatusCommit
  <2>1. /\ DOMAIN file' = DOMAIN file
        /\ \A k \in DOMAIN file : file[k].state \in Final => file'[k] = file[k]
        /\ \A s \in DOMAIN stage \ {id} : stage'[s] = stage[s]
        /\ stage[id].completed_at # 0 => stage'[id].completed_at = stage[id].completed_at
    BY <1>6, StatusCommitFacts
  <2> SUFFICES ASSUME NEW k \in DOMAIN file,
                      stage'[k[1]].completed_at # 0,
                      file'[k].finished_at > stage'[k[1]].completed_at
               PROVE  file'[k].state = "cancelled"
    BY <2>1 DEF LateEndIsCancelled
  <2>2. k[1] \in DOMAIN stage /\ k[2] \in FilesOf(file, k[1]) /\ k = <<k[1], k[2]>>
    BY KeyFacts DEF NoOrphanFiles
  <2>3. CASE stage[k[1]].completed_at # 0
    <3>1. stage'[k[1]].completed_at = stage[k[1]].completed_at /\ file'[k] = file[k]
      BY <1>3, <2>1, <2>2, <2>3
    <3> QED
      BY <3>1, <2>3 DEF LateEndIsCancelled
  <2>4. CASE stage[k[1]].completed_at = 0
    <3>1. k[1] = id
      BY <2>1, <2>2, <2>4
    <3>2. file'[k].finished_at <= stage'[k[1]].completed_at
      BY <1>6, <2>2, <2>4, <3>1, CommitEndsLast
    <3>3. file'[k].finished_at \in Nat /\ stage'[k[1]].completed_at \in Nat
      BY <1>6, <2>1, <2>2, StatusCommitFacts
         DEF IsFileTable, IsStageTable, FileRow, StageRow
    <3> QED
      BY <3>2, <3>3
  <2> QED
    BY <2>3, <2>4
<1>7. CASE Updates
  <2>1. /\ DOMAIN file' = DOMAIN file /\ UNCHANGED stage
        /\ \A k \in DOMAIN file : file[k].state \in Final => file'[k] = file[k]
    BY <1>7, UpdatesFacts
  <2> QED
    BY <1>3, <2>1 DEF LateEndIsCancelled
<1>8. CASE EraseEnd
  <2>1. /\ UNCHANGED file /\ \A k \in DOMAIN file : k[1] # id /\ k[1] \in DOMAIN stage
        /\ DOMAIN stage' = DOMAIN stage \ {id}
        /\ \A s \in DOMAIN stage' : stage'[s] = stage[s]
    BY <1>8, EraseFacts, KeyFacts DEF NoOrphanFiles
  <2> QED
    BY <2>1 DEF LateEndIsCancelled
<1>9. CASE UNCHANGED db \/ UNCHANGED vars
  BY <1>2, <1>9 DEF db, vars
<1> QED
  BY <1>1, <1>4, <1>5, <1>6, <1>7, <1>8, <1>9, NextCases

\* Unless a statement fails, a file that ends after its stage was complete has been
\* cancelled: no later status() or take_over() writes a complete stage, though they write
\* to every row of a path; not even if the clock is set back.
THEOREM LateEnds ==
  ASSUME "stmt" \notin Events
  PROVE  Spec => []LateEndIsCancelled
<1>1. Init => MemIsAhead /\ LateEndIsCancelled
  BY DEF Init, MemIsAhead, LateEndIsCancelled
<1>2. TypeOK /\ NoOrphanFiles /\ CompletedStageIsFinal /\ MemIsAhead
        /\ LateEndIsCancelled /\ [Next]_vars
        => MemIsAhead' /\ LateEndIsCancelled'
  BY NextMemIsAhead, NextLateEndIsCancelled
<1> QED
  BY <1>1, <1>2, CompletedIsFinal, NoOrphans, TypeCorrectness, PTL DEF Spec

-----------------------------------------------------------------------------
(* The start of a stage is that of its files *)

\* Neither the request nor the start of a stage is in the future, nor after the time
\* point of a handler that is to write.
StagesArePast ==
  \A s \in DOMAIN stage :
    /\ stage[s].created_at <= clock /\ stage[s].started_at <= clock
    /\ Writing => stage[s].created_at <= now /\ stage[s].started_at <= now

\* The files of s that have been started, or have ended without.
Begun(s) == {l \in FilesOf(file, s) : file[<<s, l>>].state # "submitted"}

\* No file of the stage has a start before the stage's, which has one of theirs.  A
\* stage that has lost its files, its deletion cut short, keeps the times it had.
StartOf(s) ==
  /\ \A l \in Begun(s) : /\ stage[s].created_at <= file[<<s, l>>].started_at
                         /\ stage[s].started_at <= file[<<s, l>>].started_at
  /\ stage[s].started_at # 0 =>
       /\ stage[s].created_at <= stage[s].started_at
       /\ \/ FilesOf(file, s) = {}
          \/ \E l \in Begun(s) : stage[s].started_at = file[<<s, l>>].started_at

\* A stage that has an end has a start, which is not after it.
EndAfterStart(s) ==
  stage[s].completed_at # 0 =>
    stage[s].started_at # 0 /\ stage[s].started_at <= stage[s].completed_at

\* Both hold of all stages.
StartIsOfFiles == \A s \in DOMAIN stage : StartOf(s) /\ EndAfterStart(s)

\* A row takes its start when it leaves submitted, and keeps it.
StartsOnce(row, new, tp) ==
  IF row.state = "submitted" THEN new.state = "submitted" \/ new.started_at = tp
  ELSE new.state # "submitted" /\ new.started_at = row.started_at

\* Neither an update of the state nor a cancellation changes a start that is set.
LEMMA UpdatesStartOnce ==
  ASSUME NEW row \in FileRow, HasTimesOf(row), NEW tp
  PROVE  /\ StartsOnce(row, row, tp)
         /\ \A st \in State : StartsOnce(row, UpdatedRow(row, st, tp), tp)
         /\ StartsOnce(row, Moved(row, "cancelled", tp), tp)
BY DEF FileRow, State, Final, HasTimesOf, UpdatedRow, Moved, MayMove, StartsOnce

\* A start stays right while files of the stage start no earlier than now.
LEMMA StartKept ==
  ASSUME TypeOK, NEW s \in DOMAIN stage, StartOf(s),
         stage'[s].created_at = stage[s].created_at,
         stage'[s].started_at = stage[s].started_at,
         FilesOf(file', s) = FilesOf(file, s),
         NEW tp \in Nat, stage[s].created_at <= tp, stage[s].started_at <= tp,
         \A l \in FilesOf(file, s) : StartsOnce(file[<<s, l>>], file'[<<s, l>>], tp)
  PROVE  StartOf(s)'
<1>1. ASSUME NEW l \in FilesOf(file, s)
      PROVE  /\ l \in Begun(s) => /\ l \in Begun(s)'
                                  /\ file'[<<s, l>>].started_at = file[<<s, l>>].started_at
             /\ l \in Begun(s)' \ Begun(s) => file'[<<s, l>>].started_at = tp
  BY <1>1 DEF Begun, StartsOnce
<1>2. Begun(s) \subseteq FilesOf(file, s) /\ Begun(s)' \subseteq FilesOf(file, s)
  BY DEF Begun
<1> QED
  BY <1>1, <1>2 DEF StartOf

\* Requests and starts are not in the future.
LEMMA NextStagesArePast ==
  ASSUME "clock" \notin Events, TypeOK, TimesArePast, StagesArePast, [Next]_vars
  PROVE  StagesArePast'
<1>0. /\ \A s \in DOMAIN stage : stage[s] \in StageRow
      /\ clock \in Nat /\ clock' \in Nat /\ clock <= clock' /\ now \in Nat
      /\ ~Writing' \/ now' = clock' \/ (now' = now /\ Writing)
  BY TimePointFacts DEF TypeOK, IsStageTable
<1>1. ASSUME NEW s \in StageId, NEW L \in Requests, Stage(s, L) PROVE StagesArePast'
  <2>1. /\ stage' = InsertStage(stage, s,
             [created_at |-> clock, started_at |-> 0, completed_at |-> 0])
        /\ s \notin DOMAIN stage /\ ~Writing'
    BY <1>1 DEF Stage, Writing
  <2>2. /\ DOMAIN stage' = DOMAIN stage \cup {s}
        /\ stage'[s] = [created_at |-> clock, started_at |-> 0, completed_at |-> 0]
        /\ \A t \in DOMAIN stage : stage'[t] = stage[t]
    BY <2>1 DEF InsertStage
  <2>3. \A t \in DOMAIN stage : t # s
    BY <2>1
  <2> QED
    BY <1>0, <2>1, <2>2, <2>3 DEF StagesArePast, StageRow
<1>2. CASE StatusCommit
  <2>1. /\ id \in DOMAIN stage /\ DOMAIN stage' = DOMAIN stage
        /\ \A s \in DOMAIN stage \ {id} : stage'[s] = stage[s]
        /\ ~Writing' /\ Writing /\ pc = "status"
    BY <1>2, StatusCommitFacts DEF StatusCommit, Return, Writing
  <2>2. PICK start \in StartTimes(stage[id], MemFiles) :
          stage'[id].created_at = stage[id].created_at /\ stage'[id].started_at = start
    BY <1>2, <2>1 DEF StatusCommit
  <2>3. now <= clock /\ \A k \in DOMAIN file : file[k].started_at <= now
    BY <2>1 DEF TimesArePast
  <2>4. \A l \in FilesOf(file, id) : MemFiles[l].started_at <= now
    BY <1>0, <2>3 DEF MemFiles, FilesOf
  <2>5. start = stage[id].started_at \/ \E l \in FilesOf(file, id) : start = MemFiles[l].started_at
    BY <2>1, <2>2, MemFilesFacts DEF StartTimes, Minima, NotSubmitted
  <2>6. start \in Nat
    BY <1>0, <2>1, <2>2, MemFilesFacts, StageTimesFacts
  <2>7. start <= clock
    BY <1>0, <2>1, <2>3, <2>4, <2>5, <2>6 DEF StagesArePast
  <2> QED
    BY <1>0, <2>1, <2>2, <2>6, <2>7 DEF StagesArePast, StageRow
<1>3. ASSUME DOMAIN stage' \subseteq DOMAIN stage, \A s \in DOMAIN stage' : stage'[s] = stage[s]
      PROVE  StagesArePast'
  BY <1>0, <1>3 DEF StagesArePast, StageRow
<1>4. ASSUME NEW s \in StageId, NEW L \in Requests, Cancel(s, L) PROVE StagesArePast'
  BY <1>3, <1>4, CancelFacts
<1>5. ASSUME NEW s \in StageId, EraseBegin(s) PROVE StagesArePast'
  BY <1>3, <1>5, EraseFacts
<1>6. EraseEnd \/ Updates \/ UNCHANGED db \/ UNCHANGED vars => StagesArePast'
  BY <1>3, EraseFacts, UpdatesFacts DEF db, vars
<1> QED
  BY <1>1, <1>2, <1>4, <1>5, <1>6, NextCases

\* A file that has been found to change makes the updates of its path move it.
LEMMA NetStateMoves ==
  ASSUME TypeOK, NEW l \in Changed, mem[l] # "submitted"
  PROVE  NetState(file[<<id, l>>].physical_path, Changed) \in {"started"} \cup Final
<1> DEFINE p == file[<<id, l>>].physical_path
           U == {m \in Changed : file[<<id, m>>].physical_path = p}
           F == {m \in U : mem[m] \in Final}
<1>1. CASE F # {}
  BY <1>1, NetStateFacts
<1>2. CASE F = {}
  <2>1. l \in U
    OBVIOUS
  <2> QED
    BY <1>2, <2>1 DEF NetState
<1> QED
  BY <1>1, <1>2

\* A file that has a start in the memory of status() has it then in its row; a file
\* that has none there, but in its row, has its start from another name of its path.
LEMMA CommitStarts ==
  ASSUME "stmt" \notin Events, TypeOK, MemIsAhead, RowsHaveTimes, StatusCommit,
         NEW l \in FilesOf(file, id)
  PROVE  /\ StartsOnce(file[<<id, l>>], file'[<<id, l>>], now)
         /\ mem[l] # "submitted" =>
              /\ file'[<<id, l>>].state # "submitted"
              /\ file'[<<id, l>>].started_at = MemFiles[l].started_at
         /\ mem[l] = "submitted" => file[<<id, l>>].state = "submitted"
<1> DEFINE row == file[<<id, l>>]
           new == file'[<<id, l>>]
<1>1. /\ <<id, l>> \in DOMAIN file /\ row \in FileRow /\ HasTimesOf(row)
      /\ row.physical_path \in PhysicalPath
  BY DEF FilesOf, TypeOK, IsFileTable, RowsHaveTimes, FileRow
<1>2. \E st \in State : new = UpdatedRow(row, st, now)
  BY <1>1, StatusCommitFacts
<1>3. StartsOnce(row, new, now)
  BY <1>1, <1>2, UpdatesStartOnce
<1>4. mem[l] = row.state \/ MayMove(row.state, mem[l])
  BY DEF MemIsAhead, StatusCommit
<1>5. mem[l] = "submitted" => row.state = "submitted"
  BY <1>4 DEF MayMove, Final
<1>6. ASSUME mem[l] # "submitted"
      PROVE  new.state # "submitted" /\ new.started_at = MemFiles[l].started_at
  <2>1. CASE row.state # "submitted"
    BY <1>3, <2>1 DEF StartsOnce, MemFiles
  <2>2. CASE row.state = "submitted"
    <3>1. l \in Changed
      BY <1>6, <2>2 DEF Changed
    <3>2. new = UpdatedRow(row, NetState(row.physical_path, Changed), now)
      BY CommitUpdates
    <3>3. NetState(row.physical_path, Changed) \in {"started"} \cup Final
      BY <1>6, <3>1, NetStateMoves
    <3>4. new.state # "submitted"
      BY <2>2, <3>2, <3>3 DEF UpdatedRow, Moved, MayMove, Final
    <3>5. MemFiles[l].started_at = now
      BY <1>6, <2>2 DEF MemFiles
    <3> QED
      BY <1>3, <2>2, <3>4, <3>5 DEF StartsOnce
  <2> QED
    BY <2>1, <2>2
<1> QED
  BY <1>3, <1>5, <1>6

\* The times that status() gives to its stage are those of its files.
LEMMA CommitStartOfFiles ==
  ASSUME "stmt" \notin Events, TypeOK, MemIsAhead, RowsHaveTimes, TimesArePast,
         StagesArePast, StartIsOfFiles, StatusCommit, NEW s, s = id
  PROVE  StartOf(s)' /\ EndAfterStart(s)'
<1> DEFINE row(l) == file[<<s, l>>]
           new(l) == file'[<<s, l>>]
<1>0. /\ s \in DOMAIN stage /\ stage[s] \in StageRow /\ pc = "status"
      /\ now \in Nat \ {0} /\ stage[s].created_at <= now /\ stage[s].started_at <= now
      /\ FilesOf(file', s) = FilesOf(file, s)
  <2>1. DOMAIN file' = DOMAIN file /\ s \in DOMAIN stage
    BY StatusCommitFacts
  <2>2. pc = "status" /\ Writing
    BY DEF StatusCommit, Writing
  <2> QED
    BY <2>1, <2>2, ServiceAssumption DEF TypeOK, IsStageTable, FilesOf, StagesArePast
<1>1. PICK start \in StartTimes(stage[s], MemFiles),
           end \in CompletionTimes(stage[s], MemFiles) :
        /\ stage'[s].created_at = stage[s].created_at
        /\ stage'[s].started_at = start
        /\ stage'[s].completed_at = end
  BY <1>0 DEF StatusCommit
<1>2. DOMAIN MemFiles = FilesOf(file, s)
  BY <1>0, MemFilesFacts
<1>3. ASSUME NEW l \in FilesOf(file, s)
      PROVE  /\ row(l) \in FileRow /\ row(l).started_at <= now
             /\ row(l).state = "submitted" => row(l).started_at = 0
             /\ MemFiles[l] \in FileRow /\ MemFiles[l].state = mem[l]
             /\ mem[l] # "submitted" => MemFiles[l].started_at # 0
             /\ \/ MemFiles[l].started_at = row(l).started_at
                \/ MemFiles[l].started_at = now
             /\ mem[l] \in Final => MemFiles[l].started_at <= MemFiles[l].finished_at
             /\ mem[l] # "submitted" => new(l).state # "submitted"
                                        /\ new(l).started_at = MemFiles[l].started_at
             /\ mem[l] = "submitted" => row(l).state = "submitted"
             /\ StartsOnce(row(l), new(l), now)
  <2>1. /\ <<s, l>> \in DOMAIN file /\ row(l) \in FileRow
        /\ row(l).started_at <= now
        /\ row(l).state \in Final => row(l).started_at <= row(l).finished_at
        /\ row(l).state = "submitted" => row(l).started_at = 0
    BY <1>0 DEF FilesOf, TypeOK, IsFileTable, TimesArePast, Writing, RowsHaveTimes, HasTimesOf
  <2>2. /\ MemFiles[l] \in FileRow /\ MemFiles[l].state = mem[l] /\ HasTimesOf(MemFiles[l])
    BY <1>0, <1>2, MemFilesFacts, MemFilesHaveTimes
  <2>3. /\ MemFiles[l].started_at = row(l).started_at \/ MemFiles[l].started_at = now
        /\ mem[l] \in Final => MemFiles[l].started_at <= MemFiles[l].finished_at
    BY <1>0, <2>1 DEF MemFiles, FileRow
  <2> QED
    BY <2>1, <2>2, <2>3, CommitStarts DEF HasTimesOf
<1>4. /\ start \in Nat /\ end \in Nat
      /\ stage[s].started_at # 0 \/ NotSubmitted(MemFiles) = {} => start = stage[s].started_at
      /\ stage[s].started_at = 0 /\ NotSubmitted(MemFiles) # {} =>
           /\ \E l \in NotSubmitted(MemFiles) : start = MemFiles[l].started_at
           /\ \A l \in NotSubmitted(MemFiles) : start <= MemFiles[l].started_at
  <2>1. MemFiles \in [DOMAIN MemFiles -> FileRow]
    BY <1>0, MemFilesFacts
  <2> QED
    BY <1>0, <1>1, <2>1, StageTimesFacts DEF StartTimes, Minima
<1>5. \A l : l \in NotSubmitted(MemFiles) <=> l \in FilesOf(file, s) /\ mem[l] # "submitted"
  BY <1>2, <1>3 DEF NotSubmitted
<1>6. ASSUME NEW l \in NotSubmitted(MemFiles)
      PROVE  /\ start # 0 /\ start <= MemFiles[l].started_at
             /\ stage[s].created_at <= MemFiles[l].started_at
  <2>1. l \in FilesOf(file, s) /\ mem[l] # "submitted"
    BY <1>5
  <2>2. \/ MemFiles[l].started_at = now
        \/ l \in Begun(s) /\ MemFiles[l].started_at = row(l).started_at
    BY <1>3, <2>1 DEF Begun
  <2>3. /\ stage[s].created_at <= MemFiles[l].started_at
        /\ stage[s].started_at <= MemFiles[l].started_at
    BY <1>0, <2>2 DEF StartIsOfFiles, StartOf
  <2> QED
    BY <1>3, <1>4, <1>5, <2>3
<1>7. StartOf(s)'
  <2>1. CASE start = stage[s].started_at
    BY <1>0, <1>1, <1>3, <2>1, StartKept DEF StartIsOfFiles
  <2>2. CASE start # stage[s].started_at
    <3>1. PICK m \in NotSubmitted(MemFiles) : start = MemFiles[m].started_at
      BY <1>4, <2>2
    <3>2. m \in FilesOf(file, s) /\ mem[m] # "submitted"
      BY <1>5
    <3>3. start <= now
      <4>1. /\ row(m).started_at <= now
            /\ MemFiles[m].started_at = row(m).started_at \/ MemFiles[m].started_at = now
        BY <1>3, <3>2
      <4> HIDE DEF row
      <4> QED
        BY <1>0, <3>1, <4>1
    <3>4. stage[s].created_at <= start
      BY <1>6, <3>1
    <3>5. m \in Begun(s)' /\ new(m).started_at = start
      BY <1>0, <1>3, <3>1, <3>2 DEF Begun
    <3>6. ASSUME NEW l \in Begun(s)'
          PROVE  stage[s].created_at <= new(l).started_at /\ start <= new(l).started_at
      <4>1. l \in FilesOf(file, s) /\ new(l).state # "submitted"
        BY <1>0 DEF Begun
      <4>2. CASE mem[l] = "submitted"
        BY <1>0, <1>3, <3>3, <4>1, <4>2 DEF StartsOnce
      <4>3. CASE mem[l] # "submitted"
        BY <1>3, <1>5, <1>6, <4>1, <4>3
      <4> QED
        BY <4>2, <4>3
    <3> QED
      BY <1>1, <3>4, <3>5, <3>6 DEF StartOf
  <2> QED
    BY <2>1, <2>2
<1>8. EndAfterStart(s)'
  <2>1. CASE stage[s].completed_at # 0
    <3>1. end = stage[s].completed_at /\ start = stage[s].started_at
      BY <1>0, <1>1, <1>4, <2>1 DEF CompletionTimes, StartIsOfFiles, EndAfterStart
    <3> QED
      BY <1>0, <1>1, <3>1 DEF StartIsOfFiles, EndAfterStart
  <2>2. CASE stage[s].completed_at = 0 /\ end # 0
    <3>1. /\ \A l \in FilesOf(file, s) : MemFiles[l].state \in Final
          /\ end \in Maxima({MemFiles[l].finished_at : l \in FilesOf(file, s)})
      BY <1>1, <1>2, <2>2 DEF CompletionTimes
    <3>2. PICK l \in FilesOf(file, s) : end = MemFiles[l].finished_at
      BY <3>1 DEF Maxima
    <3>3. mem[l] \in Final /\ l \in NotSubmitted(MemFiles)
      BY <1>3, <1>5, <3>1 DEF Final
    <3>4. start # 0 /\ start <= MemFiles[l].started_at
      BY <1>6, <3>3
    <3>5. MemFiles[l].started_at \in Nat /\ MemFiles[l].started_at <= end
      BY <1>3, <3>2, <3>3 DEF FileRow
    <3> QED
      BY <1>1, <1>4, <3>4, <3>5 DEF EndAfterStart
  <2> QED
    BY <1>1, <2>1, <2>2 DEF EndAfterStart
<1> QED
  BY <1>7, <1>8

\* Every other step leaves the times of the stages as they are, and its files start at
\* its time point at the earliest.
LEMMA NextStartIsOfFiles ==
  ASSUME "stmt" \notin Events, "clock" \notin Events, TypeOK, NoOrphanFiles, MemIsAhead,
         RowsHaveTimes, TimesArePast, StagesArePast, StartIsOfFiles, [Next]_vars
  PROVE  StartIsOfFiles'
<1>0. /\ \A s \in DOMAIN stage : stage[s] \in StageRow
      /\ \A k \in DOMAIN file : file[k] \in FileRow /\ HasTimesOf(file[k])
      /\ clock \in Nat /\ clock' \in Nat
  BY TimePointFacts DEF TypeOK, IsStageTable, IsFileTable, RowsHaveTimes
<1>1. ASSUME NEW s \in DOMAIN stage \cap DOMAIN stage', stage'[s] = stage[s],
             FilesOf(file', s) = FilesOf(file, s),
             NEW tp \in Nat, stage[s].created_at <= tp, stage[s].started_at <= tp,
             \A l \in FilesOf(file, s) : StartsOnce(file[<<s, l>>], file'[<<s, l>>], tp)
      PROVE  StartOf(s)' /\ EndAfterStart(s)'
  BY <1>1, StartKept DEF StartIsOfFiles, EndAfterStart
<1>2. ASSUME NEW s \in DOMAIN stage \cap DOMAIN stage', stage'[s] = stage[s],
             FilesOf(file', s) = FilesOf(file, s),
             \A l \in FilesOf(file, s) : file'[<<s, l>>] = file[<<s, l>>]
      PROVE  StartOf(s)' /\ EndAfterStart(s)'
  BY <1>2 DEF StartIsOfFiles, StartOf, EndAfterStart, Begun
<1>3. ASSUME NEW s \in StageId, NEW L \in Requests, Stage(s, L) PROVE StartIsOfFiles'
  <2>1. stage' = InsertStage(stage, s,
          [created_at |-> clock, started_at |-> 0, completed_at |-> 0])
    BY <1>3 DEF Stage
  <2>2. /\ s \notin DOMAIN stage
        /\ DOMAIN file' = DOMAIN file \cup {<<s, l>> : l \in L}
        /\ \A k \in DOMAIN file : file'[k] = file[k]
        /\ \A l \in L : \/ <<s, l>> \in DOMAIN file
                        \/ HasTimesOf(file'[<<s, l>>])
    BY <1>3, StageFacts
  <2>3. /\ DOMAIN stage' = DOMAIN stage \cup {s}
        /\ stage'[s] = [created_at |-> clock, started_at |-> 0, completed_at |-> 0]
        /\ \A t \in DOMAIN stage : stage'[t] = stage[t]
    BY <2>1, <2>2 DEF InsertStage
  <2>4. ASSUME NEW t \in DOMAIN stage PROVE StartOf(t)' /\ EndAfterStart(t)'
    BY <1>2, <2>2, <2>3 DEF FilesOf
  <2>5. ASSUME NEW l \in Begun(s)'
        PROVE  clock <= file'[<<s, l>>].started_at /\ 0 <= file'[<<s, l>>].started_at
    <3>1. <<s, l>> \in DOMAIN file' \ DOMAIN file /\ file'[<<s, l>>].state # "submitted"
      BY <2>2 DEF Begun, FilesOf, NoOrphanFiles
    <3>2. l \in L
      BY <2>2, <3>1
    <3>3. file'[<<s, l>>].started_at # 0
      BY <2>2, <3>1, <3>2 DEF HasTimesOf
    <3>4. file'[<<s, l>>].started_at \in {0} \cup clock..clock'
      BY <1>3, <3>1, <3>2, NewRowFacts
    <3> QED
      BY <1>0, <3>3, <3>4
  <2>6. StartOf(s)' /\ EndAfterStart(s)'
    BY <2>3, <2>5 DEF StartOf, EndAfterStart
  <2> QED
    BY <2>3, <2>4, <2>6 DEF StartIsOfFiles
<1>4. ASSUME NEW s \in StageId, NEW L \in Requests, Cancel(s, L) PROVE StartIsOfFiles'
  <2>1. /\ DOMAIN file' = DOMAIN file /\ UNCHANGED stage
        /\ \A k \in DOMAIN file :
             file'[k] = file[k] \/ file'[k] = Moved(file[k], "cancelled", clock)
    BY <1>4, CancelFacts
  <2>2. \A k \in DOMAIN file : StartsOnce(file[k], file'[k], clock)
    BY <1>0, <2>1, UpdatesStartOnce
  <2>3. \A t \in DOMAIN stage : StartOf(t)' /\ EndAfterStart(t)'
    BY <1>0, <1>1, <2>1, <2>2 DEF FilesOf, StagesArePast
  <2> QED
    BY <2>1, <2>3 DEF StartIsOfFiles
<1>5. ASSUME NEW s \in StageId, EraseBegin(s) PROVE StartIsOfFiles'
  <2>1. /\ UNCHANGED stage /\ FilesOf(file', s) = {}
        /\ \A k : k \in DOMAIN file' <=> k \in DOMAIN file /\ k[1] # s
        /\ \A k \in DOMAIN file' : file'[k] = file[k]
    BY <1>5, EraseFacts
  <2>2. ASSUME NEW t \in DOMAIN stage, t # s PROVE StartOf(t)' /\ EndAfterStart(t)'
    BY <1>2, <2>1, <2>2 DEF FilesOf
  <2>3. ASSUME s \in DOMAIN stage PROVE StartOf(s)' /\ EndAfterStart(s)'
    BY <2>1, <2>3 DEF StartIsOfFiles, StartOf, EndAfterStart, Begun
  <2> QED
    BY <2>1, <2>2, <2>3 DEF StartIsOfFiles
<1>6. ASSUME StatusCommit \/ Updates PROVE StartIsOfFiles'
  <2>1. /\ DOMAIN file' = DOMAIN file /\ DOMAIN stage' = DOMAIN stage
        /\ \A k \in DOMAIN file : \E st \in State :
             file'[k] = file[k] \/ file'[k] = UpdatedRow(file[k], st, now)
        /\ \A s \in DOMAIN stage : (StatusCommit /\ s = id) \/ stage'[s] = stage[s]
    BY <1>6, StatusCommitFacts, UpdatesFacts
  <2>2. Writing /\ now \in Nat
    BY <1>6, TimePointFacts
       DEF StatusCommit, Updates, UpdateInProgress, UpdateOnDisk, UpdateTheRest,
           UpdateNeedRecall, Writing
  <2>3. \A k \in DOMAIN file : StartsOnce(file[k], file'[k], now)
    BY <1>0, <2>1, UpdatesStartOnce
  <2>4. ASSUME NEW s \in DOMAIN stage, stage'[s] = stage[s]
        PROVE  StartOf(s)' /\ EndAfterStart(s)'
    BY <1>1, <2>1, <2>2, <2>3, <2>4 DEF FilesOf, StagesArePast
  <2>5. ASSUME StatusCommit, NEW s \in DOMAIN stage, s = id
        PROVE  StartOf(s)' /\ EndAfterStart(s)'
    BY <2>5, CommitStartOfFiles
  <2> QED
    BY <2>1, <2>4, <2>5 DEF StartIsOfFiles
<1>7. CASE EraseEnd
  <2>1. UNCHANGED file /\ DOMAIN stage' \subseteq DOMAIN stage
        /\ \A s \in DOMAIN stage' : stage'[s] = stage[s]
    BY <1>7, EraseFacts
  <2> QED
    BY <1>2, <2>1 DEF StartIsOfFiles
<1>8. CASE UNCHANGED db \/ UNCHANGED vars
  <2>1. UNCHANGED <<stage, file>>
    BY <1>8 DEF db, vars
  <2> QED
    BY <1>2, <2>1 DEF StartIsOfFiles
<1> QED
  BY <1>3, <1>4, <1>5, <1>6, <1>7, <1>8, NextCases

\* While no statement fails and the clock is not set back, the start of a stage, which
\* is computed once, stays the earliest of its files, whichever handlers start the others
\* and whatever names and stages share their paths; and it is between request and end.
THEOREM StartIsEarliest ==
  ASSUME "stmt" \notin Events, "clock" \notin Events
  PROVE  Spec => []StageStartIsEarliest
<1> DEFINE Known == MemIsAhead /\ RowsHaveTimes
           Inv == TimesArePast /\ StagesArePast /\ StartIsOfFiles
<1>1. Init => Inv
  BY DEF Init, TimesArePast, StagesArePast, StartIsOfFiles
<1>2. TypeOK /\ NoOrphanFiles /\ Known /\ Inv /\ [Next]_vars => Inv'
  BY NextTimesArePast, NextStagesArePast, NextStartIsOfFiles
<1>3. Inv => StageStartIsEarliest
  BY DEF StartIsOfFiles, StartOf, EndAfterStart, Begun, StageStartIsEarliest
<1> HIDE DEF Inv, Known
<1>4. Spec => []Known
  BY AheadAndTimes DEF Known
<1> QED
  BY <1>1, <1>2, <1>3, <1>4, NoOrphans, TypeCorrectness, PTL DEF Spec
=============================================================================
