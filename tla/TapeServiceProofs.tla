-------------------------- MODULE TapeServiceProofs --------------------------
(***************************************************************************)
(* What each statement of Database does to a table, what each action of    *)
(* TapeService does to the tables, and type correctness, for every number  *)
(* of stages, files, seconds and events.                                   *)
(***************************************************************************)
EXTENDS ServiceProperties, TLAPS

-----------------------------------------------------------------------------
(* The statements *)

\* A conditional update keeps the type of a row; it leaves a final row as it is,
\* and sets a row that is not final to a final state when asked to.
LEMMA UpdatedRowFacts ==
  ASSUME NEW row \in FileRow, NEW st \in State, NEW tp \in Nat
  PROVE  /\ UpdatedRow(row, st, tp) \in FileRow
         /\ UpdatedRow(row, st, tp).physical_path = row.physical_path
         /\ row.state \in Final => UpdatedRow(row, st, tp) = row
         /\ st \in Final => UpdatedRow(row, st, tp).state \in Final
BY DEF FileRow, State, Final, UpdatedRow, Moved, MayMove

\* An unconditional update keeps the type of a row and gives it the state.
LEMMA MovedFacts ==
  ASSUME NEW row \in FileRow, NEW st \in State, NEW tp \in Nat
  PROVE  /\ Moved(row, st, tp) \in FileRow
         /\ Moved(row, st, tp).state = st
         /\ Moved(row, st, tp).physical_path = row.physical_path
BY DEF FileRow, State, Final, Moved

\* update() by physical path: rows of other paths and final rows stand.
LEMMA UpdatePathsFacts ==
  ASSUME NEW f, IsFileTable(f), NEW P, NEW st \in State, NEW tp \in Nat
  PROVE  /\ IsFileTable(UpdatePaths(f, P, st, tp))
         /\ DOMAIN UpdatePaths(f, P, st, tp) = DOMAIN f
         /\ \A k \in DOMAIN f :
              /\ f[k].state \in Final => UpdatePaths(f, P, st, tp)[k] = f[k]
              /\ \/ UpdatePaths(f, P, st, tp)[k] = f[k]
                 \/ UpdatePaths(f, P, st, tp)[k] = UpdatedRow(f[k], st, tp)
BY UpdatedRowFacts DEF IsFileTable, UpdatePaths

\* update() of several paths, each with its state: final rows stand.
LEMMA UpdatePathStatesFacts ==
  ASSUME NEW f, IsFileTable(f), NEW net \in [PhysicalPath -> State], NEW tp \in Nat
  PROVE  /\ IsFileTable(UpdatePathStates(f, net, tp))
         /\ DOMAIN UpdatePathStates(f, net, tp) = DOMAIN f
         /\ \A k \in DOMAIN f :
              /\ f[k] \in FileRow
              /\ net[f[k].physical_path] \in State
              /\ UpdatePathStates(f, net, tp)[k]
                   = UpdatedRow(f[k], net[f[k].physical_path], tp)
              /\ f[k].state \in Final => UpdatePathStates(f, net, tp)[k] = f[k]
<1>1. \A k \in DOMAIN f : f[k] \in FileRow /\ net[f[k].physical_path] \in State
  BY DEF IsFileTable, FileRow
<1>2. \A k \in DOMAIN f :
        UpdatePathStates(f, net, tp)[k] = UpdatedRow(f[k], net[f[k].physical_path], tp)
  BY DEF UpdatePathStates
<1>3. \A k \in DOMAIN f :
        /\ UpdatedRow(f[k], net[f[k].physical_path], tp) \in FileRow
        /\ f[k].state \in Final => UpdatedRow(f[k], net[f[k].physical_path], tp) = f[k]
  BY <1>1, UpdatedRowFacts
<1> QED
  BY <1>1, <1>2, <1>3 DEF IsFileTable, UpdatePathStates

\* update() by stage and logical path: each row stands or takes the state.
LEMMA UpdateStageFilesFacts ==
  ASSUME NEW f, IsFileTable(f), NEW sid, NEW L, NEW st \in State, NEW tp \in Nat
  PROVE  /\ IsFileTable(UpdateStageFiles(f, sid, L, st, tp))
         /\ DOMAIN UpdateStageFiles(f, sid, L, st, tp) = DOMAIN f
         /\ \A k \in DOMAIN f :
              \/ UpdateStageFiles(f, sid, L, st, tp)[k] = f[k]
              \/ /\ UpdateStageFiles(f, sid, L, st, tp)[k] = Moved(f[k], st, tp)
                 /\ UpdateStageFiles(f, sid, L, st, tp)[k].state = st
                 /\ k[1] = sid /\ k[2] \in L
BY MovedFacts DEF IsFileTable, UpdateStageFiles

\* insert() adds the rows of a stage that has none.
LEMMA InsertFilesFacts ==
  ASSUME NEW f, IsFileTable(f), NEW sid \in StageId, NEW rows,
         DOMAIN rows \subseteq LogicalPath, rows \in [DOMAIN rows -> FileRow]
  PROVE  /\ IsFileTable(InsertFiles(f, sid, rows))
         /\ DOMAIN InsertFiles(f, sid, rows)
              = DOMAIN f \cup {<<sid, l>> : l \in DOMAIN rows}
         /\ \A k \in DOMAIN f : InsertFiles(f, sid, rows)[k] = f[k]
BY DEF IsFileTable, InsertFiles, FileKey

\* erase() removes the files of one stage and no other.
LEMMA EraseFilesFacts ==
  ASSUME NEW f, IsFileTable(f), NEW sid
  PROVE  /\ IsFileTable(EraseFiles(f, sid))
         /\ \A k : k \in DOMAIN EraseFiles(f, sid) <=> k \in DOMAIN f /\ k[1] # sid
         /\ \A k \in DOMAIN EraseFiles(f, sid) : EraseFiles(f, sid)[k] = f[k]
         /\ FilesOf(EraseFiles(f, sid), sid) = {}
BY DEF IsFileTable, EraseFiles, FilesOf

\* insert() adds one stage.
LEMMA InsertStageFacts ==
  ASSUME NEW t, IsStageTable(t), NEW sid \in StageId, NEW row \in StageRow
  PROVE  /\ IsStageTable(InsertStage(t, sid, row))
         /\ DOMAIN InsertStage(t, sid, row) = DOMAIN t \cup {sid}
         /\ InsertStage(t, sid, row)[sid] = row
         /\ \A s \in DOMAIN t \ {sid} : InsertStage(t, sid, row)[s] = t[s]
BY DEF IsStageTable, InsertStage

\* erase() removes one stage.
LEMMA EraseStageFacts ==
  ASSUME NEW t, IsStageTable(t), NEW sid
  PROVE  /\ IsStageTable(EraseStage(t, sid))
         /\ DOMAIN EraseStage(t, sid) = DOMAIN t \ {sid}
         /\ \A s \in DOMAIN t \ {sid} : EraseStage(t, sid)[s] = t[s]
BY DEF IsStageTable, EraseStage

\* The times of a stage are those it had or times of its files.
LEMMA StageTimesFacts ==
  ASSUME NEW row \in StageRow, NEW files, files \in [DOMAIN files -> FileRow]
  PROVE  /\ StartTimes(row, files) \subseteq Nat
         /\ CompletionTimes(row, files) \subseteq Nat
         /\ \A end \in CompletionTimes(row, files) :
              end # row.completed_at => \A l \in DOMAIN files : files[l].state \in Final
         /\ row.completed_at # 0 => CompletionTimes(row, files) = {row.completed_at}
BY DEF StageRow, FileRow, StartTimes, CompletionTimes, Minima, Maxima, NotSubmitted

-----------------------------------------------------------------------------
(* Type correctness *)

\* What GEMSS, users and the service make of a file on disk is one.
LEMMA FileOnDiskFacts ==
  ASSUME NEW d \in FileOnDisk
  PROVE  /\ Absent \in FileOnDisk /\ (d.regular => WithTape(d) \in FileOnDisk)
         /\ \A b \in BOOLEAN : WithRecall(d, b) \in FileOnDisk
         /\ \A x \in Data \ {"absent"} :
              /\ WithData(d, x) \in FileOnDisk
              /\ \A regular \in BOOLEAN : New(x, regular) \in FileOnDisk
         /\ \A fails \in BOOLEAN : create_xattr(d, fails) \subseteq FileOnDisk
<1>1. Absent \in FileOnDisk
  BY DEF FileOnDisk, Data, Absent, New
<1>2. d.regular => WithTape(d) \in FileOnDisk
  BY DEF FileOnDisk, WithTape
<1>3. \A b \in BOOLEAN : WithRecall(d, b) \in FileOnDisk
  BY DEF FileOnDisk, WithRecall
<1>4. ASSUME NEW x \in Data \ {"absent"}
      PROVE  /\ WithData(d, x) \in FileOnDisk
             /\ \A regular \in BOOLEAN : New(x, regular) \in FileOnDisk
  BY DEF FileOnDisk, WithData, New
<1>5. \A fails \in BOOLEAN : create_xattr(d, fails) \subseteq {d, WithRecall(d, TRUE)}
  BY DEF create_xattr
<1>6. \A fails \in BOOLEAN : create_xattr(d, fails) \subseteq FileOnDisk
  BY <1>3, <1>5
<1> QED
  BY <1>1, <1>2, <1>3, <1>4, <1>6

\* What the updates of status() ask of a path is a state: a final one if a file
\* of that path among those updated has ended in memory.
LEMMA NetStateFacts ==
  ASSUME TypeOK, NEW W, W \subseteq Changed, NEW p
  PROVE  /\ NetState(p, W) \in State
         /\ \A l \in W : file[<<id, l>>].physical_path = p /\ mem[l] \in Final =>
              NetState(p, W) \in Final
<1> DEFINE U == {l \in W : file[<<id, l>>].physical_path = p}
           F == {l \in U : mem[l] \in Final}
<1>1. F \subseteq LogicalPath
  BY DEF Changed, FilesOf
<1>2. F # {} => \E l \in F : \A k \in F : l <= k
  BY <1>1, LogicalPathAssumption
<1>3. F # {} => (CHOOSE l \in F : \A k \in F : l <= k) \in F
  BY <1>2
<1>4. F # {} => NetState(p, W) \in Final
  BY <1>3 DEF NetState
<1>5. F = {} => NetState(p, W) \in State
  BY DEF NetState, State
<1> QED
  BY <1>4, <1>5 DEF State

\* The rows of the stage in memory are rows, with the states in memory.
LEMMA MemFilesFacts ==
  ASSUME TypeOK, pc = "status"
  PROVE  /\ DOMAIN MemFiles = FilesOf(file, id)
         /\ MemFiles \in [DOMAIN MemFiles -> FileRow]
         /\ \A l \in FilesOf(file, id) : MemFiles[l].state = mem[l]
<1>1. ASSUME NEW l \in FilesOf(file, id)
      PROVE  MemFiles[l] \in FileRow /\ MemFiles[l].state = mem[l]
  <2>1. file[<<id, l>>] \in FileRow /\ now \in Nat
    BY DEF TypeOK, IsFileTable, FilesOf
  <2>2. mem[l] \in State
    BY DEF TypeOK, FilesOf
  <2> QED
    BY <2>1, <2>2 DEF MemFiles, FileRow
<1> QED
  BY <1>1 DEF MemFiles

\* The type invariant holds initially.
LEMMA InitTypeOK == Init => TypeOK
<1> SUFFICES ASSUME Init PROVE TypeOK
  OBVIOUS
<1>1. IsStageTable(stage) /\ IsFileTable(file)
  BY DEF Init, IsStageTable, IsFileTable
<1> QED
  BY <1>1, ServiceAssumption DEF Init, TypeOK, Phase, NoFiles, NoGroups, GroupName, FilesOf

\* The steps that leave the tables alone.
LEMMA QuietTypeOK ==
  ASSUME TypeOK, UNCHANGED db,
         \/ \E s \in StageId : StatusBegin(s)
         \/ \E l \in LogicalPath : StatusXattr(l) \/ StatusStat(l)
         \/ \E n \in TakeOverSizes : TakeOver(n)
         \/ SelectInProgress
         \/ \E p \in PhysicalPath : CreateXattr(p)
         \/ StatusOfNoFiles \/ DatabaseError \/ Crash \/ Restart \/ Tick
         \/ \E p \in PhysicalPath : Gemss(p) \/ OtherRecall(p) \/ ChangeOnDisk(p)
  PROVE  TypeOK'
<1>0. stage' = stage /\ file' = file
  BY DEF db
<1>1. ASSUME NEW s \in StageId, StatusBegin(s) PROVE TypeOK'
  <2>1. mem' \in [LogicalPath -> State \cup {"none"}]
    BY <1>1 DEF StatusBegin, TypeOK, IsFileTable, FileRow
  <2>2. \A l \in FilesOf(file, s) : mem'[l] \in State
    BY <1>1 DEF StatusBegin, TypeOK, IsFileTable, FileRow, FilesOf
  <2>3. \A st \in State : st # "none"
    BY DEF State, Final
  <2>4. \A l \in todo' : <<s, l>> \in DOMAIN file /\ file[<<s, l>>].state \notin Final
    BY <1>1 DEF StatusBegin, FilesOf
  <2>5. todo' \in SUBSET LogicalPath
    BY <1>1 DEF StatusBegin, FilesOf
  <2>6. /\ pc' = "status" /\ id' = s /\ s \in DOMAIN stage /\ now' = clock
        /\ UNCHANGED <<disk, gemss, clock, grp>>
    BY <1>1 DEF StatusBegin
  <2>7. \A l \in FilesOf(file, s) : mem'[l] # "none"
    BY <2>2, <2>3
  <2> HIDE <1>1
  <2> QED
    BY <1>0, <2>1, <2>4, <2>5, <2>6, <2>7 DEF TypeOK, Phase, FilesOf
<1>2. ASSUME NEW l \in LogicalPath, NEW st \in State, TypeOK, Turn(l),
             pc \in {"status", "stat"}, Conclude(l, st)
      PROVE  TypeOK'
  <2>1. mem' \in [LogicalPath -> State \cup {"none"}]
    BY <1>2 DEF Conclude, TypeOK
  <2>2. \A k \in FilesOf(file, id) : mem'[k] # "none"
    BY <1>2 DEF Conclude, TypeOK, State, Final, FilesOf
  <2> QED
    BY <1>0, <1>2, <2>1, <2>2 DEF Conclude, TypeOK, Phase, FilesOf
<1>3. ASSUME NEW l \in LogicalPath, StatusXattr(l) \/ StatusStat(l) PROVE TypeOK'
  <2>1. CASE \E st \in State : Conclude(l, st)
    BY <1>2, <1>3, <2>1 DEF StatusXattr, StatusStat
  <2>2. CASE pc = "status" /\ pc' = "stat" /\ UNCHANGED <<db, disk, gemss, clock, local>>
    BY <1>0, <2>2 DEF TypeOK, Phase, FilesOf, local
  <2>3. /\ "started" \in State /\ "submitted" \in State
        /\ "failed" \in State /\ "completed" \in State
    BY DEF State, Final
  <2>4. CASE StatusXattr(l)
    BY <2>1, <2>2, <2>3, <2>4 DEF StatusXattr
  <2>5. CASE StatusStat(l)
    <3>1. \E r : Conclude(l, IF mem[l] = "started" THEN "failed" ELSE "submitted")
                  \/ Conclude(l, "completed")
      BY <2>5 DEF StatusStat
    <3> QED
      BY <2>1, <2>3, <3>1
  <2> QED
    BY <1>3, <2>4, <2>5
<1>4. ASSUME NEW n \in TakeOverSizes, TakeOver(n) PROVE TypeOK'
  BY <1>0, <1>4 DEF TakeOver, TypeOK, Phase, GroupName, FilesOf
<1>5. CASE SelectInProgress
  BY <1>0, <1>5 DEF SelectInProgress, TypeOK, Phase, GroupName, FilesOf
<1>6. ASSUME NEW p \in PhysicalPath, CreateXattr(p) PROVE TypeOK'
  <2>1. disk[p] \in FileOnDisk
    BY DEF TypeOK
  <2>2. disk' \in [PhysicalPath -> FileOnDisk]
    BY <1>6, <2>1, FileOnDiskFacts DEF CreateXattr, TypeOK
  <2>3. grp' \in [PhysicalPath -> GroupName]
    BY <1>6 DEF CreateXattr, TypeOK, GroupName
  <2> QED
    BY <1>0, <1>6, <2>2, <2>3 DEF CreateXattr, TypeOK, Phase, FilesOf
<1>7. ASSUME Forget, pc' \in {"idle", "down"}, UNCHANGED <<disk, gemss, clock>>
      PROVE  TypeOK'
  BY <1>0, <1>7, ServiceAssumption DEF Forget, TypeOK, Phase, GroupName, NoFiles, NoGroups, FilesOf
<1>8. CASE StatusOfNoFiles \/ DatabaseError \/ Crash
  BY <1>7, <1>8 DEF StatusOfNoFiles, DatabaseError, Crash, Halt, Return
<1>9. CASE Restart
  BY <1>0, <1>9 DEF Restart, TypeOK, Phase, FilesOf, local
<1>11. CASE Tick
  <2>1. clock' \in 1..MaxTime
    BY <1>11, ServiceAssumption DEF Tick, Later, TypeOK
  <2> QED
    BY <1>0, <1>11, <2>1 DEF Tick, TypeOK, FilesOf, local
<1>10. ASSUME NEW p \in PhysicalPath, Gemss(p) \/ OtherRecall(p) \/ ChangeOnDisk(p)
       PROVE  TypeOK'
  <2>0. \E d \in FileOnDisk : disk' = [disk EXCEPT ![p] = d]
    <3>1. disk[p] \in FileOnDisk /\ disk \in [PhysicalPath -> FileOnDisk]
      BY DEF TypeOK
    <3>2. "full" \in Data /\ "empty" \in Data /\ "stub" \in Data
      BY DEF Data
    <3>3. CASE Gemss(p)
      BY <3>1, <3>2, <3>3, FileOnDiskFacts DEF Gemss, GemssRestore, GemssEnd, GemssMark
    <3>4. CASE OtherRecall(p)
      BY <3>1, <3>4, FileOnDiskFacts DEF OtherRecall
    <3>5. CASE ChangeOnDisk(p)
      BY <3>1, <3>2, <3>5, FileOnDiskFacts DEF ChangeOnDisk
    <3> QED
      BY <1>10, <3>3, <3>4, <3>5
  <2>1. disk' \in [PhysicalPath -> FileOnDisk] /\ gemss' \in SUBSET PhysicalPath
    BY <1>10, <2>0 DEF Gemss, GemssRestore, GemssEnd, GemssMark, OtherRecall, ChangeOnDisk,
                       TypeOK
  <2>2. UNCHANGED <<clock, pc, id, now, mem, todo, grp>>
    BY <1>10 DEF Gemss, GemssRestore, GemssEnd, GemssMark, OtherRecall, ChangeOnDisk, local
  <2> QED
    BY <1>0, <2>1, <2>2 DEF TypeOK, FilesOf
<1> QED
  BY <1>1, <1>3, <1>4, <1>5, <1>6, <1>8, <1>9, <1>10, <1>11

\* The requests of clients are for logical paths.
LEMMA RequestFacts == \A L \in Requests : L \subseteq LogicalPath
BY ServiceAssumption

\* The rows that an insertion adds are those of the request.
LEMMA NewFilesFacts ==
  ASSUME TypeOK, NEW s \in StageId, NEW L \in Requests,
         NEW rows, DOMAIN rows = L, rows \in [L -> FileRow],
         file' = InsertFiles(file, s, rows)
  PROVE  /\ IsFileTable(file')
         /\ DOMAIN file' = DOMAIN file \cup {<<s, l>> : l \in L}
         /\ \A k \in DOMAIN file : file'[k] = file[k]
<1>1. IsFileTable(file) /\ L \subseteq LogicalPath
  BY RequestFacts DEF TypeOK
<1> QED
  BY <1>1, InsertFilesFacts

\* stage() adds rows of one new stage.
LEMMA StageFacts ==
  ASSUME TypeOK, NEW s \in StageId, NEW L \in Requests, Stage(s, L)
  PROVE  /\ IsFileTable(file') /\ IsStageTable(stage')
         /\ clock' \in 1..MaxTime
         /\ s \notin DOMAIN stage /\ DOMAIN stage' = DOMAIN stage \cup {s}
         /\ stage'[s].completed_at = 0
         /\ \A t \in DOMAIN stage : stage'[t] = stage[t]
         /\ DOMAIN file' = DOMAIN file \cup {<<s, l>> : l \in L}
         /\ \A k \in DOMAIN file : file'[k] = file[k]
         /\ \A l \in L : <<s, l>> \in DOMAIN file
                          \/ /\ file'[<<s, l>>].state \in {"submitted", "failed"}
                             /\ HasTimesOf(file'[<<s, l>>])
<1>1. PICK end \in Later(clock), bad \in SUBSET L, resolve \in Resolutions :
        \E at \in [bad -> {t \in Later(clock) : end \in Later(t)}] :
          /\ file' = InsertFiles(file, s,
               [l \in L |-> [physical_path |-> resolve[l],
                             state |-> IF l \in bad THEN "failed" ELSE "submitted",
                             started_at  |-> IF l \in bad THEN at[l] ELSE 0,
                             finished_at |-> IF l \in bad THEN at[l] ELSE 0]])
          /\ stage' = InsertStage(stage, s,
               [created_at |-> clock, started_at |-> 0, completed_at |-> 0])
          /\ clock' = end
  BY DEF Stage
<1>2. PICK at \in [bad -> {t \in Later(clock) : end \in Later(t)}] :
        file' = InsertFiles(file, s,
          [l \in L |-> [physical_path |-> resolve[l],
                        state |-> IF l \in bad THEN "failed" ELSE "submitted",
                        started_at  |-> IF l \in bad THEN at[l] ELSE 0,
                        finished_at |-> IF l \in bad THEN at[l] ELSE 0]])
  BY <1>1
<1> DEFINE rows == [l \in L |->
                      [physical_path |-> resolve[l],
                       state |-> IF l \in bad THEN "failed" ELSE "submitted",
                       started_at  |-> IF l \in bad THEN at[l] ELSE 0,
                       finished_at |-> IF l \in bad THEN at[l] ELSE 0]]
<1>3. clock \in 1..MaxTime /\ clock' \in 1..MaxTime
  BY <1>1, ServiceAssumption DEF TypeOK, Later
<1>4. \A l \in bad : at[l] \in Nat \ {0}
  <2> TAKE l \in bad
  <2>1. at[l] \in Later(clock)
    BY <1>2
  <2> QED
    BY <1>3, <2>1, ServiceAssumption DEF Later
<1>5. \A l \in L : /\ rows[l] \in FileRow
                   /\ rows[l].state \in {"submitted", "failed"}
                   /\ HasTimesOf(rows[l])
  <2> TAKE l \in L
  <2>1. resolve[l] \in PhysicalPath
    BY RequestFacts, ServiceAssumption
  <2> QED
    BY <1>4, <2>1 DEF FileRow, State, Final, HasTimesOf
<1>6. DOMAIN rows = L /\ rows \in [L -> FileRow]
  BY <1>5
<1>7. file' = InsertFiles(file, s, rows)
  BY <1>2
<1> HIDE DEF rows
<1>8. /\ IsFileTable(file')
      /\ DOMAIN file' = DOMAIN file \cup {<<s, l>> : l \in L}
      /\ \A k \in DOMAIN file : file'[k] = file[k]
  BY <1>6, <1>7, NewFilesFacts
<1>9. \A l \in L : <<s, l>> \in DOMAIN file
                   \/ /\ file'[<<s, l>>].state \in {"submitted", "failed"}
                      /\ HasTimesOf(file'[<<s, l>>])
  <2>1. \A l \in L : <<s, l>> \in DOMAIN file \/ file'[<<s, l>>] = rows[l]
    BY <1>6, <1>7 DEF InsertFiles
  <2> QED
    BY <1>5, <2>1
<1> DEFINE new == [created_at |-> clock, started_at |-> 0, completed_at |-> 0]
<1>10. new \in StageRow /\ new.completed_at = 0
  BY <1>3 DEF StageRow
<1>11. stage' = InsertStage(stage, s, new) /\ s \notin DOMAIN stage
  BY <1>1 DEF Stage
<1> HIDE DEF new
<1>12. /\ IsStageTable(stage') /\ DOMAIN stage' = DOMAIN stage \cup {s}
       /\ stage'[s] = new
       /\ \A t \in DOMAIN stage \ {s} : stage'[t] = stage[t]
  <2>1. IsStageTable(stage)
    BY DEF TypeOK
  <2>2. /\ IsStageTable(InsertStage(stage, s, new))
        /\ DOMAIN InsertStage(stage, s, new) = DOMAIN stage \cup {s}
        /\ InsertStage(stage, s, new)[s] = new
        /\ \A t \in DOMAIN stage \ {s} : InsertStage(stage, s, new)[t] = stage[t]
    BY <1>10, <2>1, InsertStageFacts
  <2> QED
    BY <1>11, <2>2
<1> QED
  BY <1>3, <1>8, <1>9, <1>10, <1>11, <1>12

\* take_over() moves the rows of some paths to a state, under the conditions.
LEMMA UpdateGroupFacts ==
  ASSUME TypeOK, NEW P, NEW st \in State, file' = UpdatePaths(file, P, st, now)
  PROVE  /\ IsFileTable(file') /\ DOMAIN file' = DOMAIN file
         /\ \A k \in DOMAIN file :
              /\ file[k].state \in Final => file'[k] = file[k]
              /\ file'[k] = file[k] \/ file'[k] = UpdatedRow(file[k], st, now)
<1>1. IsFileTable(file) /\ now \in Nat
  BY DEF TypeOK
<1> QED
  BY <1>1, UpdatePathsFacts

\* status() moves the rows of the paths it has found changed; the stage's own
\* files get the final states they have in memory, if no statement is lost.
LEMMA StatusCommitFacts ==
  ASSUME TypeOK, StatusCommit
  PROVE  /\ IsFileTable(file') /\ IsStageTable(stage')
         /\ DOMAIN file' = DOMAIN file /\ DOMAIN stage' = DOMAIN stage
         /\ id \in DOMAIN stage
         /\ \A s \in DOMAIN stage \ {id} : stage'[s] = stage[s]
         /\ \A k \in DOMAIN file :
              /\ file[k].state \in Final => file'[k] = file[k]
              /\ \E st \in State : file'[k] = UpdatedRow(file[k], st, now)
         /\ stage[id].completed_at # 0 =>
              stage'[id].completed_at = stage[id].completed_at
         /\ "stmt" \notin Events /\ stage'[id].completed_at # stage[id].completed_at =>
              \A l \in FilesOf(file, id) : file'[<<id, l>>].state \in Final
         /\ "stmt" \notin Events =>
              \A l \in FilesOf(file, id) :
                mem[l] \in Final => file'[<<id, l>>].state \in Final
<1>0. pc = "status" /\ id \in DOMAIN stage /\ now \in Nat
  BY DEF StatusCommit, TypeOK
<1>1. PICK lost \in Losses(Changed) :
        file' = UpdatePathStates(file,
                  [p \in PhysicalPath |-> NetState(p, Changed \ lost)], now)
  BY DEF StatusCommit
<1> DEFINE W == Changed \ lost
           net == [p \in PhysicalPath |-> NetState(p, W)]
<1>2. net \in [PhysicalPath -> State]
  BY NetStateFacts
<1>3. /\ IsFileTable(file') /\ DOMAIN file' = DOMAIN file
      /\ \A k \in DOMAIN file :
           /\ file[k] \in FileRow
           /\ net[file[k].physical_path] \in State
           /\ file'[k] = UpdatedRow(file[k], net[file[k].physical_path], now)
           /\ file[k].state \in Final => file'[k] = file[k]
  <2> HIDE DEF net
  <2>1. file' = UpdatePathStates(file, net, now)
    BY <1>1 DEF net
  <2> QED
    BY <1>0, <1>2, <2>1, UpdatePathStatesFacts DEF TypeOK
<1>4. PICK start \in StartTimes(stage[id], MemFiles),
           end \in CompletionTimes(stage[id], MemFiles) :
        stage' = [stage EXCEPT ![id] = [created_at   |-> stage[id].created_at,
                                        started_at   |-> start,
                                        completed_at |-> end]]
  BY DEF StatusCommit
<1>5. stage[id] \in StageRow
  BY <1>0 DEF TypeOK, IsStageTable
<1>6. /\ start \in Nat /\ end \in Nat
      /\ end # stage[id].completed_at => \A l \in FilesOf(file, id) : mem[l] \in Final
      /\ stage[id].completed_at # 0 => end = stage[id].completed_at
  BY <1>0, <1>4, <1>5, MemFilesFacts, StageTimesFacts
<1>7. /\ IsStageTable(stage') /\ DOMAIN stage' = DOMAIN stage
      /\ \A s \in DOMAIN stage \ {id} : stage'[s] = stage[s]
      /\ stage'[id].completed_at = end
  BY <1>0, <1>4, <1>5, <1>6 DEF TypeOK, IsStageTable, StageRow
<1>8. ASSUME "stmt" \notin Events, NEW l \in FilesOf(file, id), mem[l] \in Final
      PROVE  file'[<<id, l>>].state \in Final
  <2>1. <<id, l>> \in DOMAIN file
    BY DEF FilesOf
  <2>2. CASE l \notin Changed
    BY <1>3, <1>8, <2>1, <2>2 DEF Changed
  <2>3. CASE l \in Changed
    <3>1. l \in W
      BY <1>1, <1>8, <2>3 DEF Losses
    <3>2. file[<<id, l>>].physical_path \in PhysicalPath
      BY <1>3, <2>1 DEF FileRow
    <3>3. net[file[<<id, l>>].physical_path] \in Final
      BY <1>8, <3>1, <3>2, NetStateFacts
    <3> DEFINE row == file[<<id, l>>]
               st  == net[row.physical_path]
    <3>4. /\ row \in FileRow /\ st \in State /\ st \in Final
          /\ file'[<<id, l>>] = UpdatedRow(row, st, now)
      BY <1>3, <2>1, <3>3
    <3> HIDE DEF row, st
    <3> QED
      BY <1>0, <3>4, UpdatedRowFacts
  <2> QED
    BY <2>2, <2>3
<1> QED
  BY <1>0, <1>3, <1>6, <1>7, <1>8

\* The steps of take_over() that write.
Updates == UpdateInProgress \/ UpdateOnDisk \/ UpdateTheRest \/ UpdateNeedRecall

\* Each of them moves the rows of some paths to one state.
LEMMA UpdatesFacts ==
  ASSUME TypeOK, Updates
  PROVE  /\ IsFileTable(file') /\ DOMAIN file' = DOMAIN file
         /\ \A k \in DOMAIN file :
              /\ file[k].state \in Final => file'[k] = file[k]
              /\ \E st \in State :
                   file'[k] = file[k] \/ file'[k] = UpdatedRow(file[k], st, now)
         /\ UNCHANGED stage
<1>0. /\ "started" \in State /\ "completed" \in State /\ "failed" \in State
  BY DEF State, Final
<1>1. \E P : \E st \in State : file' = UpdatePaths(file, P, st, now)
  <2>1. CASE UpdateInProgress
    BY <1>0, <2>1 DEF UpdateInProgress, UpdateGroup
  <2>2. CASE UpdateOnDisk
    BY <1>0, <2>2 DEF UpdateOnDisk, UpdateGroup
  <2>3. CASE UpdateTheRest
    BY <1>0, <2>3 DEF UpdateTheRest, UpdateGroup
  <2>4. CASE UpdateNeedRecall
    BY <1>0, <2>4 DEF UpdateNeedRecall
  <2> QED
    BY <2>1, <2>2, <2>3, <2>4 DEF Updates
<1>2. UNCHANGED stage
  BY DEF Updates, UpdateInProgress, UpdateOnDisk, UpdateTheRest, UpdateNeedRecall,
         UpdateGroup
<1>3. PICK P : \E st \in State : file' = UpdatePaths(file, P, st, now)
  BY <1>1
<1>4. PICK st \in State : file' = UpdatePaths(file, P, st, now)
  BY <1>3
<1>5. /\ IsFileTable(file') /\ DOMAIN file' = DOMAIN file
      /\ \A k \in DOMAIN file :
           /\ file[k].state \in Final => file'[k] = file[k]
           /\ file'[k] = file[k] \/ file'[k] = UpdatedRow(file[k], st, now)
  BY <1>4, UpdateGroupFacts
<1> QED
  BY <1>2, <1>5

\* cancel() moves some files of one stage to cancelled.
LEMMA CancelFacts ==
  ASSUME TypeOK, NEW s \in StageId, NEW L, Cancel(s, L)
  PROVE  /\ IsFileTable(file') /\ DOMAIN file' = DOMAIN file
         /\ \A k \in DOMAIN file :
              \/ file'[k] = file[k]
              \/ /\ k[1] = s /\ file'[k].state = "cancelled"
                 /\ file'[k] = Moved(file[k], "cancelled", clock)
         /\ s \in DOMAIN stage /\ UNCHANGED stage
<1>1. PICK lost \in Losses(L) :
        file' = UpdateStageFiles(file, s, L \ lost, "cancelled", clock)
  BY DEF Cancel
<1>2. IsFileTable(file) /\ clock \in Nat /\ "cancelled" \in State
  BY DEF TypeOK, State, Final
<1> DEFINE f == UpdateStageFiles(file, s, L \ lost, "cancelled", clock)
<1>3. /\ IsFileTable(f) /\ DOMAIN f = DOMAIN file
      /\ \A k \in DOMAIN file :
           \/ f[k] = file[k]
           \/ /\ f[k].state = "cancelled" /\ k[1] = s
              /\ f[k] = Moved(file[k], "cancelled", clock)
  BY <1>2, UpdateStageFilesFacts
<1>4. file' = f
  BY <1>1
<1>5. s \in DOMAIN stage /\ UNCHANGED stage
  BY DEF Cancel
<1> HIDE DEF f
<1> QED
  BY <1>3, <1>4, <1>5

\* erase() removes the files of a stage, and then the stage.
LEMMA EraseFacts ==
  ASSUME TypeOK
  PROVE  /\ \A s \in StageId : EraseBegin(s) =>
              /\ IsFileTable(file') /\ UNCHANGED stage /\ s \in DOMAIN stage
              /\ \A k : k \in DOMAIN file' <=> k \in DOMAIN file /\ k[1] # s
              /\ \A k \in DOMAIN file' : file'[k] = file[k]
              /\ FilesOf(file', s) = {}
         /\ EraseEnd =>
              /\ IsStageTable(stage') /\ UNCHANGED file /\ FilesOf(file, id) = {}
              /\ id \in DOMAIN stage /\ DOMAIN stage' = DOMAIN stage \ {id}
              /\ \A s \in DOMAIN stage' : stage'[s] = stage[s]
<1>1. IsFileTable(file) /\ IsStageTable(stage)
  BY DEF TypeOK
<1>2. ASSUME NEW s \in StageId, EraseBegin(s)
      PROVE  /\ IsFileTable(file') /\ UNCHANGED stage /\ s \in DOMAIN stage
             /\ \A k : k \in DOMAIN file' <=> k \in DOMAIN file /\ k[1] # s
             /\ \A k \in DOMAIN file' : file'[k] = file[k]
             /\ FilesOf(file', s) = {}
  <2>1. file' = EraseFiles(file, s) /\ UNCHANGED stage /\ s \in DOMAIN stage
    BY <1>2 DEF EraseBegin
  <2> QED
    BY <1>1, <2>1, EraseFilesFacts
<1>3. ASSUME EraseEnd
      PROVE  /\ IsStageTable(stage') /\ UNCHANGED file /\ FilesOf(file, id) = {}
             /\ id \in DOMAIN stage /\ DOMAIN stage' = DOMAIN stage \ {id}
             /\ \A s \in DOMAIN stage' : stage'[s] = stage[s]
  <2>1. /\ stage' = EraseStage(stage, id) /\ UNCHANGED file
        /\ FilesOf(file, id) = {} /\ id \in DOMAIN stage
    BY <1>3 DEF EraseEnd, TypeOK
  <2> QED
    BY <1>1, <2>1, EraseStageFacts
<1> QED
  BY <1>2, <1>3

\* Every step is one that leaves the tables alone or one of those above.
LEMMA NextCases ==
  ASSUME [Next]_vars
  PROVE  \/ \E s \in StageId, L \in Requests : Stage(s, L) \/ Cancel(s, L)
         \/ \E s \in StageId : EraseBegin(s)
         \/ StatusCommit \/ EraseEnd \/ Updates
         \/ /\ UNCHANGED db
            /\ \/ \E s \in StageId : StatusBegin(s)
               \/ \E l \in LogicalPath : StatusXattr(l) \/ StatusStat(l)
               \/ \E n \in TakeOverSizes : TakeOver(n)
               \/ SelectInProgress
               \/ \E p \in PhysicalPath : CreateXattr(p)
               \/ StatusOfNoFiles \/ DatabaseError \/ Crash \/ Restart \/ Tick
               \/ \E p \in PhysicalPath : Gemss(p) \/ OtherRecall(p) \/ ChangeOnDisk(p)
         \/ UNCHANGED vars
<1>1. ASSUME NEW s \in StageId, StatusBegin(s) PROVE UNCHANGED db
  BY <1>1 DEF StatusBegin
<1>2. ASSUME NEW l \in LogicalPath, StatusXattr(l) \/ StatusStat(l) PROVE UNCHANGED db
  BY <1>2 DEF StatusXattr, StatusStat, Conclude
<1>3. ASSUME NEW n \in TakeOverSizes, TakeOver(n) PROVE UNCHANGED db
  BY <1>3 DEF TakeOver
<1>4. ASSUME NEW p \in PhysicalPath, CreateXattr(p) PROVE UNCHANGED db
  BY <1>4 DEF CreateXattr
<1>5. SelectInProgress \/ StatusOfNoFiles \/ DatabaseError \/ Crash \/ Restart \/ Tick
        => UNCHANGED db
  BY DEF SelectInProgress, StatusOfNoFiles, DatabaseError, Crash, Halt, Restart, Tick
<1>6. ASSUME NEW p \in PhysicalPath, Gemss(p) \/ OtherRecall(p) \/ ChangeOnDisk(p)
      PROVE  UNCHANGED db
  BY <1>6 DEF Gemss, GemssRestore, GemssEnd, GemssMark, OtherRecall, ChangeOnDisk
<1> QED
  BY <1>1, <1>2, <1>3, <1>4, <1>5, <1>6 DEF Next, Call, Continue, World, Updates

\* The type invariant is inductive.
LEMMA NextTypeOK == TypeOK /\ [Next]_vars => TypeOK'
<1> SUFFICES ASSUME TypeOK, [Next]_vars PROVE TypeOK'
  OBVIOUS
<1>1. ASSUME NEW s \in StageId, NEW L \in Requests, Stage(s, L) PROVE TypeOK'
  <2>1. UNCHANGED <<disk, gemss, pc, id, now, mem, todo, grp>> /\ pc = "idle"
    BY <1>1 DEF Stage, local
  <2>2. clock' \in 1..MaxTime /\ IsFileTable(file') /\ IsStageTable(stage')
    BY <1>1, StageFacts
  <2>3. todo = {}
    BY <2>1 DEF TypeOK
  <2> QED
    BY <2>1, <2>2, <2>3 DEF TypeOK
<1>2. ASSUME NEW s \in StageId, NEW L \in Requests, Cancel(s, L) PROVE TypeOK'
  <2>1. /\ UNCHANGED <<stage, disk, gemss, clock, pc, id, now, mem, todo, grp>>
        /\ pc = "idle"
    BY <1>2 DEF Cancel, local
  <2>2. IsFileTable(file') /\ IsStageTable(stage') /\ DOMAIN stage' = DOMAIN stage
    BY <1>2, <2>1, CancelFacts DEF TypeOK
  <2>3. todo' = {}
    BY <2>1 DEF TypeOK
  <2> QED
    BY <2>1, <2>2, <2>3 DEF TypeOK
<1>3. ASSUME NEW s \in StageId, EraseBegin(s) PROVE TypeOK'
  <2>1. /\ UNCHANGED <<stage, disk, gemss, clock, now, mem, todo, grp>>
        /\ pc = "idle" /\ pc' = "erase" /\ id' = s
    BY <1>3 DEF EraseBegin
  <2> QED
    BY <1>3, <2>1, EraseFacts DEF TypeOK, Phase
<1>4. ASSUME Return, IsStageTable(stage'), IsFileTable(file'),
             gemss' \in SUBSET PhysicalPath, UNCHANGED <<disk, clock>>
      PROVE  TypeOK'
  BY <1>4, ServiceAssumption DEF Return, Forget, TypeOK, Phase, GroupName, NoFiles, NoGroups
<1>5. CASE StatusCommit
  BY <1>4, <1>5, StatusCommitFacts DEF StatusCommit, TypeOK
<1>6. CASE EraseEnd
  BY <1>4, <1>6, EraseFacts DEF EraseEnd, TypeOK
<1>7. CASE Updates
  <2>1. IsFileTable(file') /\ IsStageTable(stage') /\ UNCHANGED stage
    BY <1>7, UpdatesFacts DEF TypeOK
  <2>2. CASE UpdateNeedRecall
    <3>1. gemss' \in SUBSET PhysicalPath
      BY <2>2 DEF UpdateNeedRecall, ToRecall, Group, TypeOK
    <3> QED
      BY <1>4, <2>1, <2>2, <3>1 DEF UpdateNeedRecall
  <2>3. CASE UpdateInProgress \/ UpdateOnDisk \/ UpdateTheRest
    <3>1. /\ UNCHANGED <<disk, gemss, clock, id, now, mem, todo, grp>>
          /\ pc' \in {"update_on_disk", "update_the_rest", "create_xattr"}
          /\ pc \in {"update_in_progress", "update_on_disk", "update_the_rest"}
      BY <2>3 DEF UpdateInProgress, UpdateOnDisk, UpdateTheRest, UpdateGroup, local
    <3> QED
      BY <2>1, <3>1 DEF TypeOK, Phase
  <2> QED
    BY <1>7, <2>2, <2>3 DEF Updates
<1>8. CASE UNCHANGED vars
  BY <1>8 DEF vars, TypeOK, FilesOf
<1> QED
  BY <1>1, <1>2, <1>3, <1>5, <1>6, <1>7, <1>8, NextCases, QuietTypeOK

\* The variables keep their types, and what a handler has in memory stays right
\* for the tables while the file system and GEMSS move on.
THEOREM TypeCorrectness == Spec => []TypeOK
<1> QED
  BY InitTypeOK, NextTypeOK, PTL DEF Spec

=============================================================================
