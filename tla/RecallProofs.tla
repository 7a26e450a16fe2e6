---------------------------- MODULE RecallProofs ----------------------------
(***************************************************************************)
(* The service and GEMSS agree on what is being recalled, while nothing    *)
(* comes between the recall marks and the response of take_over(), or      *)
(* between GEMSS and its files; and in_progress(), which answers GEMSS on  *)
(* its recalls, is made of steps of the service and misses no file.        *)
(***************************************************************************)
EXTENDS Listing, SafetyProofs

-----------------------------------------------------------------------------
(* A mark is of a recall that GEMSS holds *)

\* A mark that GEMSS does not know of is one of the running take_over().
MarksAreHeld ==
  \A p \in PhysicalPath :
    disk[p].recall => p \in gemss \/ (pc = "create_xattr" /\ grp[p] = "marked")

\* The service sets marks and GEMSS takes them off; nothing else touches a mark but
\* the deletion of the file.
LEMMA CreateXattrFacts ==
  ASSUME NEW d, NEW fails, NEW e \in create_xattr(d, fails)
  PROVE  /\ e = d \/ (d.data # "absent" /\ e = WithRecall(d, TRUE))
         /\ ~fails => ~d.regular \/ e = WithRecall(d, TRUE)
BY DEF create_xattr

\* A regular file is there.
LEMMA RegularIsThere ==
  ASSUME NEW d \in FileOnDisk
  PROVE  d.regular => d.data # "absent"
BY DEF FileOnDisk

\* The steps that change a file on disk, or what GEMSS holds.
LEMMA DiskSteps ==
  ASSUME [Next]_vars
  PROVE  \/ UNCHANGED <<disk, gemss>>
         \/ UpdateNeedRecall /\ UNCHANGED disk
         \/ \E p \in PhysicalPath : CreateXattr(p) /\ UNCHANGED gemss
         \/ /\ UNCHANGED <<file, pc, id, mem, todo, grp>>
            /\ \E p \in PhysicalPath : Gemss(p) \/ OtherRecall(p) \/ ChangeOnDisk(p)
<1>1. ASSUME NEW s \in StageId, NEW L \in Requests, Stage(s, L) \/ Cancel(s, L)
      PROVE  UNCHANGED <<disk, gemss>>
  BY <1>1 DEF Stage, Cancel
<1>2. ASSUME NEW s \in StageId, EraseBegin(s) \/ StatusBegin(s)
      PROVE  UNCHANGED <<disk, gemss>>
  BY <1>2 DEF EraseBegin, StatusBegin
<1>3. ASSUME NEW l \in LogicalPath, StatusXattr(l) \/ StatusStat(l)
      PROVE  UNCHANGED <<disk, gemss>>
  BY <1>3 DEF StatusXattr, StatusStat, Conclude
<1>4. ASSUME NEW n \in TakeOverSizes, TakeOver(n) PROVE UNCHANGED <<disk, gemss>>
  BY <1>4 DEF TakeOver
<1>5. StatusCommit \/ EraseEnd \/ UpdateInProgress \/ UpdateOnDisk \/ UpdateTheRest
        \/ SelectInProgress \/ StatusOfNoFiles \/ DatabaseError \/ Crash \/ Restart \/ Tick
        \/ UNCHANGED vars
      => UNCHANGED <<disk, gemss>>
  BY DEF StatusCommit, EraseEnd, UpdateInProgress, UpdateOnDisk, UpdateTheRest, UpdateGroup,
         SelectInProgress, StatusOfNoFiles, DatabaseError, Crash, Restart, Tick, Halt, vars
<1>6. UpdateNeedRecall => UNCHANGED disk
  BY DEF UpdateNeedRecall
<1>7. ASSUME NEW p \in PhysicalPath, CreateXattr(p) PROVE UNCHANGED gemss
  BY <1>7 DEF CreateXattr
<1>8. ASSUME NEW p \in PhysicalPath, Gemss(p) \/ OtherRecall(p) \/ ChangeOnDisk(p)
      PROVE  UNCHANGED <<file, pc, id, mem, todo, grp>>
  BY <1>8 DEF Gemss, GemssRestore, GemssEnd, GemssMark, OtherRecall, ChangeOnDisk,
              db, local
<1> QED
  BY <1>1, <1>2, <1>3, <1>4, <1>5, <1>6, <1>7, <1>8, NextCases DEF Updates

\* Nothing cuts take_over() short once the files are marked, unless it fails.
LEMMA MarkingSteps ==
  ASSUME Events \cap {"crash", "db"} = {}, [Next]_vars, pc = "create_xattr"
  PROVE  \/ UpdateNeedRecall
         \/ \E p \in PhysicalPath : CreateXattr(p)
         \/ UNCHANGED <<pc, grp>>
<1>1. ASSUME NEW s \in StageId, NEW L \in Requests, Stage(s, L) \/ Cancel(s, L) PROVE FALSE
  BY <1>1 DEF Stage, Cancel
<1>2. ASSUME NEW s \in StageId, EraseBegin(s) \/ StatusBegin(s) PROVE FALSE
  BY <1>2 DEF EraseBegin, StatusBegin
<1>3. ASSUME NEW l \in LogicalPath, StatusXattr(l) \/ StatusStat(l) PROVE FALSE
  BY <1>3 DEF StatusXattr, StatusStat
<1>4. ASSUME NEW n \in TakeOverSizes, TakeOver(n) PROVE FALSE
  BY <1>4 DEF TakeOver
<1>5. ~(StatusCommit \/ EraseEnd \/ UpdateInProgress \/ UpdateOnDisk \/ UpdateTheRest
          \/ SelectInProgress \/ StatusOfNoFiles \/ DatabaseError \/ Crash \/ Restart)
  BY DEF StatusCommit, EraseEnd, UpdateInProgress, UpdateOnDisk, UpdateTheRest,
         SelectInProgress, StatusOfNoFiles, DatabaseError, Crash, Restart
<1>6. ASSUME NEW p \in PhysicalPath, Gemss(p) \/ OtherRecall(p) \/ ChangeOnDisk(p)
      PROVE  UNCHANGED <<pc, grp>>
  BY <1>6 DEF Gemss, GemssRestore, GemssEnd, GemssMark, OtherRecall, ChangeOnDisk, local
<1>7. Tick \/ UNCHANGED vars => UNCHANGED <<pc, grp>>
  BY DEF Tick, local, vars
<1> QED
  BY <1>1, <1>2, <1>3, <1>4, <1>5, <1>6, <1>7, NextCases DEF Updates

\* What GEMSS and the users do to a mark: taken off it is forgotten, put on it is known.
LEMMA WorldKeepsMarks ==
  ASSUME TypeOK, NEW p \in PhysicalPath, Gemss(p) \/ OtherRecall(p) \/ ChangeOnDisk(p),
         NEW q \in PhysicalPath, disk'[q].recall
  PROVE  q \in gemss' \/ (disk[q].recall /\ (q \in gemss => q \in gemss'))
<1>1. disk \in [PhysicalPath -> FileOnDisk]
  BY DEF TypeOK
<1>2. CASE GemssRestore(p) \/ GemssMark(p)
  BY <1>1, <1>2 DEF GemssRestore, GemssMark, WithData, WithRecall
<1>3. CASE GemssEnd(p)
  BY <1>1, <1>3 DEF GemssEnd, WithRecall
<1>4. CASE OtherRecall(p)
  BY <1>1, <1>4 DEF OtherRecall, WithRecall
<1>5. CASE ChangeOnDisk(p)
  BY <1>1, <1>5 DEF ChangeOnDisk, WithData, WithTape, Absent, New
<1> QED
  BY <1>2, <1>3, <1>4, <1>5 DEF Gemss

\* No step leaves a mark that GEMSS does not know of, but those of the running take_over().
LEMMA NextMarksAreHeld ==
  ASSUME Events \cap {"crash", "db", "lost"} = {}, TypeOK, MarksAreHeld, [Next]_vars
  PROVE  MarksAreHeld'
<1> SUFFICES ASSUME NEW q \in PhysicalPath, disk'[q].recall
             PROVE  q \in gemss' \/ (pc' = "create_xattr" /\ grp'[q] = "marked")
  BY DEF MarksAreHeld
<1>0. disk \in [PhysicalPath -> FileOnDisk] /\ grp \in [PhysicalPath -> GroupName]
  BY DEF TypeOK
<1>1. CASE UpdateNeedRecall
  <2>1. /\ UNCHANGED disk /\ gemss' = gemss \cup ToRecall
        /\ Group("marked") \subseteq ToRecall
    BY <1>1 DEF UpdateNeedRecall, ToRecall
  <2> QED
    BY <2>1 DEF MarksAreHeld, Group
<1>2. ASSUME NEW p \in PhysicalPath, CreateXattr(p)
      PROVE  q \in gemss' \/ (pc' = "create_xattr" /\ grp'[q] = "marked")
  BY <1>0, <1>2 DEF CreateXattr, MarksAreHeld
<1>3. CASE UNCHANGED <<disk, gemss>>
  <2>1. CASE q \in gemss
    BY <1>3, <2>1
  <2>2. CASE pc = "create_xattr" /\ grp[q] = "marked"
    BY <1>1, <1>2, <2>2, MarkingSteps
  <2> QED
    BY <1>3, <2>1, <2>2 DEF MarksAreHeld
<1>4. ASSUME UNCHANGED <<pc, grp>>, NEW p \in PhysicalPath,
             Gemss(p) \/ OtherRecall(p) \/ ChangeOnDisk(p)
      PROVE  q \in gemss' \/ (pc' = "create_xattr" /\ grp'[q] = "marked")
  BY <1>4, WorldKeepsMarks DEF MarksAreHeld
<1> QED
  BY <1>1, <1>2, <1>3, <1>4, DiskSteps

\* Marks are held, unless take_over() is cut short or its response is lost.
LEMMA MarksHeld ==
  ASSUME Events \cap {"crash", "db", "lost"} = {}
  PROVE  Spec => []MarksAreHeld
<1>1. Init => MarksAreHeld
  BY DEF Init, MarksAreHeld
<1>2. TypeOK /\ MarksAreHeld /\ [Next]_vars => MarksAreHeld'
  BY NextMarksAreHeld
<1> QED
  BY <1>1, <1>2, TypeCorrectness, PTL DEF Spec

\* Unless take_over() is cut short after the marks, by a crash or the database, or its
\* response is lost, whatever else fails, nobody waits for a recall that nobody makes: a
\* started file that is marked and not on disk is one that GEMSS holds.
THEOREM StartedAreHeld ==
  ASSUME Events \cap {"crash", "db", "lost"} = {}
  PROVE  Spec => []StartedIsHeld
<1>1. TypeOK /\ MarksAreHeld => StartedIsHeld
  BY DEF MarksAreHeld, StartedIsHeld, TypeOK, IsFileTable, FileRow
<1> QED
  BY <1>1, MarksHeld, TypeCorrectness, PTL

\* Under the same conditions, what is listed as in progress, when GEMSS asks to be
\* precise, are files it holds, for any number of stages that name them.
THEOREM ListedIsHeld ==
  ASSUME Events \cap {"crash", "db", "lost"} = {}
  PROVE  Spec => []PreciseIsHeld
<1>1. TypeOK /\ MarksAreHeld => PreciseIsHeld
  <2> SUFFICES ASSUME TypeOK, MarksAreHeld, pc = "idle", NEW n \in TakeOverSizes,
                      NEW A \in InProgress(n, TRUE), NEW p \in A
               PROVE  p \in gemss
    BY DEF PreciseIsHeld
  <2>1. PICK P \in GetFiles(file, "started", n) :
          A \in SUBSET P /\ TRUE \in recall_in_progress(disk[p], IO)
    <3>1. PICK P \in GetFiles(file, "started", n) :
            A \in {B \in SUBSET P : \A q \in P :
                     (q \in B) \in recall_in_progress(disk[q], IO)}
      BY DEF InProgress
    <3>2. A \in SUBSET P /\ (p \in A) \in recall_in_progress(disk[p], IO) /\ p \in P
      BY <3>1
    <3>3. TRUE \in recall_in_progress(disk[p], IO)
      BY <3>2
    <3> QED
      BY <3>2, <3>3
  <2>2. p \in PhysicalPath
    BY <2>1 DEF GetFiles, PathsIn, TypeOK, IsFileTable, FileRow
  <2>3. disk[p].recall
    BY <2>1 DEF recall_in_progress, is_in_progress, Fails, Succeeds
  <2> QED
    BY <2>2, <2>3 DEF MarksAreHeld
<1> QED
  BY <1>1, MarksHeld, TypeCorrectness, PTL

-----------------------------------------------------------------------------
(* GEMSS holds nothing that is not marked *)

\* It is the service that sets the marks, and they can be read; a path that has lost
\* its file does not get another.
Readable == ~MirrorMode /\ Events \cap {"write", "recall", "io"} = {}

\* The marks can be set as well.
Undisturbed == Readable /\ "xattr" \notin Events

\* There is no regular file; a path that GEMSS does not hold, or has no use for.
Gone(p) == ~disk[p].regular
Free(p) == Gone(p) \/ p \notin gemss

\* What GEMSS holds carries its mark, and is not a file without data.
HeldAreMarked ==
  \A p \in PhysicalPath :
    p \in gemss => (disk[p].recall \/ Gone(p)) /\ disk[p].data # "empty"

\* A path that is free stays so until the next response of take_over().
LEMMA PathFacts ==
  ASSUME Undisturbed, TypeOK, HeldAreMarked, [Next]_vars, ~UpdateNeedRecall,
         NEW q \in PhysicalPath
  PROVE  /\ q \in gemss' => q \in gemss
         /\ Gone(q) => Gone(q)'
         /\ disk[q].data # "empty" => disk'[q].data # "empty"
         /\ disk[q].recall /\ (q \in gemss => q \in gemss') => disk'[q].recall \/ Gone(q)'
<1>0. disk \in [PhysicalPath -> FileOnDisk] /\ disk[q] \in FileOnDisk
  BY DEF TypeOK
<1> DEFINE Goal == /\ q \in gemss' => q \in gemss
                   /\ Gone(q) => Gone(q)'
                   /\ disk[q].data # "empty" => disk'[q].data # "empty"
                   /\ disk[q].recall /\ (q \in gemss => q \in gemss')
                        => disk'[q].recall \/ Gone(q)'
<1>1. CASE UNCHANGED <<disk, gemss>>
  BY <1>1 DEF Gone
<1>2. ASSUME NEW p \in PhysicalPath, CreateXattr(p), UNCHANGED gemss PROVE Goal
  <2>1. PICK d \in create_xattr(disk[p], {"xattr", "io"} \cap Events # {}) :
          disk' = [disk EXCEPT ![p] = d]
    BY <1>2 DEF CreateXattr
  <2>2. d = disk[p] \/ (disk[p].data # "absent" /\ d = WithRecall(disk[p], TRUE))
    BY <2>1, CreateXattrFacts
  <2> QED
    BY <1>0, <1>2, <2>1, <2>2 DEF Gone, WithRecall, FileOnDisk
<1>3. ASSUME NEW p \in PhysicalPath, Gemss(p) PROVE Goal
  <2>1. CASE GemssRestore(p)
    BY <1>0, <2>1 DEF GemssRestore, WithData, Gone
  <2>2. CASE GemssEnd(p)
    BY <1>0, <2>2 DEF GemssEnd, WithRecall, Gone
  <2> QED
    BY <1>3, <2>1, <2>2 DEF Gemss, GemssMark, Undisturbed, Readable
<1>4. ASSUME NEW p \in PhysicalPath, ChangeOnDisk(p) PROVE Goal
  BY <1>0, <1>4 DEF ChangeOnDisk, Undisturbed, Readable, WithData, WithTape, Absent, New, Gone
<1>5. ASSUME NEW p \in PhysicalPath, OtherRecall(p) PROVE FALSE
  BY <1>5 DEF OtherRecall, Undisturbed, Readable
<1> QED
  BY <1>1, <1>2, <1>3, <1>4, <1>5, DiskSteps

-----------------------------------------------------------------------------
(* What take_over() knows of its files *)

\* The positions of take_over().
TakesOver == {"select_in_progress", "update_in_progress", "update_on_disk",
              "update_the_rest", "create_xattr"}

\* A path that is to be recalled, or is to fail, is free, whatever happens to it since
\* its file was looked at; and it has its mark when it is said to have it.
GroupsAreFree ==
  pc \in TakesOver =>
    \A p \in PhysicalPath :
      /\ grp[p] \in {"only_on_tape", "need_recall", "marked"} => disk[p].data # "empty"
      /\ grp[p] \in {"the_rest", "need_recall", "marked"} => Free(p)
      /\ grp[p] = "marked" => disk[p].recall \/ Gone(p)

\* The steps that make the groups, and those that leave them.
LEMMA GroupSteps ==
  ASSUME [Next]_vars
  PROVE  \/ pc' \notin TakesOver
         \/ pc \in TakesOver /\ UNCHANGED grp
         \/ \E n \in TakeOverSizes : TakeOver(n)
         \/ SelectInProgress
         \/ \E p \in PhysicalPath : CreateXattr(p)
<1> USE DEF TakesOver
<1>1. ASSUME NEW s \in StageId, NEW L \in Requests, Stage(s, L) \/ Cancel(s, L)
      PROVE  pc' \notin TakesOver
  BY <1>1 DEF Stage, Cancel
<1>2. ASSUME NEW s \in StageId, EraseBegin(s) \/ StatusBegin(s) PROVE pc' \notin TakesOver
  BY <1>2 DEF EraseBegin, StatusBegin
<1>3. ASSUME NEW l \in LogicalPath, StatusXattr(l) \/ StatusStat(l)
      PROVE  pc' \notin TakesOver
  BY <1>3 DEF StatusXattr, StatusStat, Conclude
<1>4. StatusCommit \/ EraseEnd \/ UpdateNeedRecall \/ StatusOfNoFiles \/ DatabaseError
        \/ Crash \/ Restart => pc' \notin TakesOver
  BY DEF StatusCommit, EraseEnd, UpdateNeedRecall, StatusOfNoFiles, DatabaseError, Crash,
         Restart, Return, Halt
<1>5. UpdateInProgress \/ UpdateOnDisk \/ UpdateTheRest => pc \in TakesOver /\ UNCHANGED grp
  BY DEF UpdateInProgress, UpdateOnDisk, UpdateTheRest, UpdateGroup, local
<1>6. ASSUME NEW p \in PhysicalPath, Gemss(p) \/ OtherRecall(p) \/ ChangeOnDisk(p)
      PROVE  UNCHANGED <<pc, grp>>
  BY <1>6 DEF Gemss, GemssRestore, GemssEnd, GemssMark, OtherRecall, ChangeOnDisk, local
<1>7. Tick \/ UNCHANGED vars => UNCHANGED <<pc, grp>>
  BY DEF Tick, local, vars
<1> QED
  BY <1>1, <1>2, <1>3, <1>4, <1>5, <1>6, <1>7, NextCases DEF Updates

\* take_over() puts no file without data among those only on tape, and none with data
\* in the rest.
LEMMA TakeOverGroups ==
  ASSUME ~IO, TypeOK, NEW n \in TakeOverSizes, TakeOver(n), NEW p \in PhysicalPath
  PROVE  /\ grp'[p] \in {"none", "only_on_tape", "on_disk", "the_rest"}
         /\ grp'[p] = "only_on_tape" => disk[p].data # "empty"
         /\ grp'[p] = "the_rest" => disk[p].data = "empty" \/ Gone(p)
<1>1. PICK P : grp' \in {g \in [PhysicalPath -> {"none", "only_on_tape", "on_disk", "the_rest"}] :
         \A q \in PhysicalPath :
           IF q \notin P THEN g[q] = "none"
           ELSE \E loc \in locality(disk[q], IO) :
                  g[q] = CASE loc \in {"tape", "lost"}          -> "only_on_tape"
                           [] loc \in {"disk", "disk_and_tape"} -> "on_disk"
                           [] OTHER                             -> "the_rest"}
  BY DEF TakeOver
<1>2. grp'[p] \in {"none", "only_on_tape", "on_disk", "the_rest"}
  BY <1>1
<1>3. CASE p \notin P
  BY <1>1, <1>3
<1>4. CASE p \in P
  <2>1. PICK loc \in locality(disk[p], IO) :
          grp'[p] = CASE loc \in {"tape", "lost"}          -> "only_on_tape"
                      [] loc \in {"disk", "disk_and_tape"} -> "on_disk"
                      [] OTHER                             -> "the_rest"
    BY <1>1, <1>4
  <2>2. CASE disk[p].data = "absent"
    <3>1. Gone(p)
      BY <2>2, RegularIsThere DEF Gone, TypeOK
    <3> QED
      BY <1>2, <2>2, <3>1
  <2>3. CASE disk[p].data # "absent"
    <3>1. disk[p] \in FileOnDisk /\ disk[p].data \in Data
      BY DEF TypeOK, FileOnDisk
    <3>2. loc = CASE disk[p].data = "empty" -> "none"
                  [] disk[p].data = "full" /\ ~disk[p].recall ->
                       IF disk[p].tape THEN "disk_and_tape" ELSE "disk"
                  [] OTHER -> IF disk[p].tape THEN "tape" ELSE "lost"
      BY <2>1, <2>3 DEF locality, Fails, Succeeds
    <3> QED
      BY <1>2, <2>1, <2>3, <3>1, <3>2 DEF Data
  <2> QED
    BY <2>2, <2>3
<1> QED
  BY <1>2, <1>3, <1>4

\* take_over() reads the locality of a free path, then its mark, then sets the mark.
LEMMA NextGroupsAreFree ==
  ASSUME Undisturbed, TypeOK, HeldAreMarked, GroupsAreFree, [Next]_vars
  PROVE  GroupsAreFree'
<1>0. disk \in [PhysicalPath -> FileOnDisk] /\ ~IO
  BY DEF TypeOK, IO, Undisturbed, Readable
<1>1. ASSUME NEW n \in TakeOverSizes, TakeOver(n) PROVE GroupsAreFree'
  <2>1. UNCHANGED <<disk, gemss>>
    BY <1>1 DEF TakeOver
  <2> QED
    BY <1>0, <1>1, <2>1, TakeOverGroups DEF GroupsAreFree, HeldAreMarked, Free, Gone
<1>2. CASE SelectInProgress
  <2>1. UNCHANGED <<disk, gemss>> /\ pc \in TakesOver
    BY <1>2 DEF SelectInProgress, TakesOver
  <2>2. ASSUME NEW p \in PhysicalPath
        PROVE  /\ grp'[p] \in {"none", "on_disk", "the_rest", "in_progress", "need_recall"}
               /\ \/ grp'[p] = grp[p]
                  \/ /\ grp[p] = "only_on_tape"
                     /\ \E yes \in recall_in_progress(disk[p], IO) :
                          grp'[p] = IF yes THEN "in_progress" ELSE "need_recall"
    BY <1>2 DEF SelectInProgress
  <2>3. ASSUME NEW p \in PhysicalPath, FALSE \in recall_in_progress(disk[p], IO)
        PROVE  ~disk[p].recall \/ Gone(p)
    BY <1>0, <2>3, RegularIsThere DEF recall_in_progress, is_in_progress, Fails, Succeeds, Gone
  <2>4. ASSUME NEW p \in PhysicalPath, grp[p] = "only_on_tape", grp'[p] = "need_recall"
        PROVE  ~disk[p].recall \/ Gone(p)
    <3>1. PICK yes \in recall_in_progress(disk[p], IO) :
            grp'[p] = IF yes THEN "in_progress" ELSE "need_recall"
      BY <2>2, <2>4
    <3>2. yes \in BOOLEAN
      BY <3>1 DEF recall_in_progress
    <3>3. yes = FALSE
      BY <2>4, <3>1, <3>2
    <3> QED
      BY <2>3, <3>1, <3>3
  <2> QED
    BY <2>1, <2>2, <2>4 DEF GroupsAreFree, HeldAreMarked, Free, Gone
<1>3. ASSUME NEW p \in PhysicalPath, CreateXattr(p) PROVE GroupsAreFree'
  <2>1. /\ grp' = [grp EXCEPT ![p] = "marked"] /\ grp[p] = "need_recall"
        /\ pc \in TakesOver /\ UNCHANGED gemss
        /\ \E d \in create_xattr(disk[p], FALSE) : disk' = [disk EXCEPT ![p] = d]
    <3>1. ({"xattr", "io"} \cap Events # {}) = FALSE
      BY DEF Undisturbed, Readable
    <3> QED
      BY <1>3, <3>1 DEF CreateXattr, TakesOver
  <2>2. grp \in [PhysicalPath -> GroupName]
    BY DEF TypeOK
  <2>3. PICK d \in create_xattr(disk[p], FALSE) : disk' = [disk EXCEPT ![p] = d]
    BY <2>1
  <2>4. /\ d = disk[p] \/ d = WithRecall(disk[p], TRUE)
        /\ ~disk[p].regular \/ d = WithRecall(disk[p], TRUE)
    BY <2>3, CreateXattrFacts
  <2>5. /\ \A q \in PhysicalPath :
             /\ disk'[q].data = disk[q].data /\ disk'[q].regular = disk[q].regular
             /\ q # p => disk'[q] = disk[q]
        /\ disk'[p].recall \/ ~disk'[p].regular
    BY <1>0, <2>3, <2>4 DEF WithRecall
  <2>6. \A q \in PhysicalPath : grp'[q] = IF q = p THEN "marked" ELSE grp[q]
    BY <2>1, <2>2
  <2>7. ASSUME NEW q \in PhysicalPath
        PROVE  /\ grp'[q] \in {"only_on_tape", "need_recall", "marked"} => disk'[q].data # "empty"
               /\ grp'[q] \in {"the_rest", "need_recall", "marked"} =>
                    ~disk'[q].regular \/ q \notin gemss'
               /\ grp'[q] = "marked" => disk'[q].recall \/ ~disk'[q].regular
    <3>1. CASE q = p
      BY <2>1, <2>5, <3>1 DEF GroupsAreFree, Free, Gone
    <3>2. CASE q # p
      BY <2>1, <2>5, <2>6, <3>2 DEF GroupsAreFree, Free, Gone
    <3> QED
      BY <3>1, <3>2
  <2> QED
    BY <2>7 DEF GroupsAreFree, Free, Gone
<1>4. ASSUME pc \in TakesOver, UNCHANGED grp, ~UpdateNeedRecall PROVE GroupsAreFree'
  BY <1>4, PathFacts DEF GroupsAreFree, Free
<1>5. UpdateNeedRecall \/ pc' \notin TakesOver => GroupsAreFree'
  BY DEF UpdateNeedRecall, Return, TakesOver, GroupsAreFree
<1> QED
  BY <1>1, <1>2, <1>3, <1>4, <1>5, GroupSteps

\* What take_over() hands over has its mark.
LEMMA NextHeldAreMarked ==
  ASSUME Undisturbed, TypeOK, HeldAreMarked, GroupsAreFree, [Next]_vars
  PROVE  HeldAreMarked'
<1>1. CASE UpdateNeedRecall
  <2>1. /\ pc \in TakesOver /\ UNCHANGED disk
        /\ gemss' \subseteq gemss \cup Group("marked")
    BY <1>1 DEF UpdateNeedRecall, ToRecall, Group, TakesOver, Undisturbed, Readable
  <2> QED
    BY <2>1 DEF GroupsAreFree, HeldAreMarked, Group, Gone
<1>2. CASE ~UpdateNeedRecall
  BY <1>2, PathFacts DEF HeldAreMarked
<1> QED
  BY <1>1, <1>2

\* GEMSS and the marks agree, and take_over() has its paths in the right groups.
LEMMA RecallsAgree ==
  ASSUME Undisturbed
  PROVE  Spec => [](HeldAreMarked /\ GroupsAreFree)
<1>1. Init => HeldAreMarked /\ GroupsAreFree
  BY DEF Init, HeldAreMarked, GroupsAreFree, TakesOver
<1>2. TypeOK /\ (HeldAreMarked /\ GroupsAreFree) /\ [Next]_vars
        => (HeldAreMarked /\ GroupsAreFree)'
  BY NextHeldAreMarked, NextGroupsAreFree
<1> QED
  BY <1>1, <1>2, TypeCorrectness, PTL DEF Spec

\* While the marks can be set and read and are the service's alone, GEMSS is not handed
\* what it holds, for any number of stages that name a path, whatever is cut short and
\* whichever responses are lost.
THEOREM HandoutsAreFresh ==
  ASSUME Undisturbed
  PROVE  Spec => []HandoutIsFresh
<1>1. GroupsAreFree => HandoutIsFresh
  BY DEF GroupsAreFree, HandoutIsFresh, Free, Gone, TakesOver
<1> QED
  BY <1>1, RecallsAgree, PTL

-----------------------------------------------------------------------------
(* Only what GEMSS does not hold is failed *)

\* What status() has concluded to have failed is free, since it was looked at.
FailuresAreFree ==
  pc \in {"status", "stat"} =>
    \A l \in FilesOf(file, id) :
      /\ mem[l] = "failed" /\ file[<<id, l>>].state # "failed" =>
           Free(file[<<id, l>>].physical_path)
      /\ pc = "stat" /\ Turn(l) => Free(file[<<id, l>>].physical_path)

\* No step makes a path held that status() is about to fail.
LEMMA NextFailuresAreFree ==
  ASSUME Undisturbed, TypeOK, HeldAreMarked, MemIsAhead, FailuresAreFree, [Next]_vars
  PROVE  FailuresAreFree'
<1>0. /\ ~IO
      /\ \A l \in FilesOf(file, id) : file[<<id, l>>].physical_path \in PhysicalPath
  BY DEF IO, Undisturbed, Readable, FilesOf, TypeOK, IsFileTable, FileRow
<1>1. CASE pc' \notin {"status", "stat"}
  BY <1>1 DEF FailuresAreFree
<1>2. CASE UNCHANGED <<file, pc, id, mem, todo>> /\ pc \in {"status", "stat"}
  <2>1. ~UpdateNeedRecall
    BY <1>2 DEF UpdateNeedRecall
  <2>2. \A p \in PhysicalPath : Free(p) => Free(p)'
    BY <2>1, PathFacts DEF Free
  <2>3. \A l \in FilesOf(file, id) :
          Free(file[<<id, l>>].physical_path) => Free(file[<<id, l>>].physical_path)'
    BY <1>0, <1>2, <2>2 DEF Free, Gone
  <2> QED
    BY <1>2, <2>3 DEF FailuresAreFree, FilesOf, Turn
<1>3. ASSUME NEW s \in StageId, StatusBegin(s) PROVE FailuresAreFree'
  <2>1. /\ id' = s /\ UNCHANGED file /\ pc' = "status"
        /\ \A l \in FilesOf(file, s) : mem'[l] = file[<<s, l>>].state
    BY <1>3 DEF StatusBegin, db, FilesOf
  <2> QED
    BY <2>1 DEF FailuresAreFree, FilesOf
<1>4. ASSUME NEW l \in LogicalPath, StatusXattr(l) \/ StatusStat(l) PROVE FailuresAreFree'
  <2>1. /\ pc \in {"status", "stat"} /\ l \in todo /\ Turn(l)
        /\ UNCHANGED <<file, id, disk, gemss>>
    BY <1>4 DEF StatusXattr, StatusStat, Turn, Conclude, db, local
  <2>2. /\ l \in FilesOf(file, id) /\ mem[l] = file[<<id, l>>].state
        /\ mem \in [LogicalPath -> State \cup {"none"}]
    BY <2>1 DEF MemIsAhead, TypeOK, FilesOf
  <2> DEFINE p == file[<<id, l>>].physical_path
  <2>3. ASSUME NEW st, Conclude(l, st), st = "failed" => Free(p) PROVE FailuresAreFree'
    <3>1. /\ pc' = "status" /\ mem' = [mem EXCEPT ![l] = st]
      BY <2>3 DEF Conclude
    <3>2. \A m \in FilesOf(file, id) : mem'[m] = IF m = l THEN st ELSE mem[m]
      BY <2>2, <3>1 DEF FilesOf
    <3> QED
      BY <2>1, <2>3, <3>1, <3>2 DEF FailuresAreFree, FilesOf, Free, Gone
  <2>4. CASE StatusXattr(l)
    <3>1. PICK r \in is_in_progress(OnDisk(l), IO) :
            \/ r = "yes" /\ Conclude(l, "started")
            \/ r = "error" /\ mem[l] = "submitted" /\ Conclude(l, "failed")
            \/ /\ r \in {"no", "error"}
               /\ pc' = "stat" /\ UNCHANGED <<db, disk, gemss, clock, local>>
      BY <2>4 DEF StatusXattr
    <3>2. r \in {"no", "error"} => Free(p)
      <4>1. p \in PhysicalPath /\ disk[p] \in FileOnDisk
        BY <2>2 DEF TypeOK, IsFileTable, FileRow, FilesOf
      <4>2. r \in {"no", "error"} => ~disk[p].recall \/ disk[p].data = "absent"
        BY <1>0, <3>1 DEF is_in_progress, Fails, Succeeds, OnDisk
      <4> QED
        BY <4>1, <4>2, RegularIsThere DEF Free, Gone, HeldAreMarked
    <3>3. CASE r = "yes" /\ Conclude(l, "started")
      BY <2>3, <3>3
    <3>4. CASE r = "error" /\ Conclude(l, "failed")
      BY <2>3, <3>2, <3>4
    <3>5. CASE r \in {"no", "error"} /\ pc' = "stat" /\ UNCHANGED <<db, disk, gemss, clock, local>>
      <4>1. \A m \in todo : Turn(m) => m = l
        BY <2>1, LogicalPathAssumption DEF Turn, TypeOK
      <4> QED
        BY <2>1, <3>2, <3>5, <4>1 DEF FailuresAreFree, FilesOf, Turn, Free, Gone, db, local
    <3> QED
      BY <3>1, <3>3, <3>4, <3>5
  <2>5. CASE StatusStat(l)
    <3>1. \E st : Conclude(l, st)
      BY <2>5 DEF StatusStat
    <3>2. pc = "stat"
      BY <2>5 DEF StatusStat
    <3>3. Free(p)
      BY <2>1, <2>2, <3>2 DEF FailuresAreFree
    <3> QED
      BY <2>3, <3>1, <3>3
  <2> QED
    BY <1>4, <2>4, <2>5
<1> QED
  BY <1>1, <1>2, <1>3, <1>4, StatusSteps

\* What status() asks to fail it has found failed, under one name of the path or another.
LEMMA NetStateFailed ==
  ASSUME TypeOK, NEW W, W \subseteq Changed, NEW p, NetState(p, W) = "failed"
  PROVE  \E l \in W : file[<<id, l>>].physical_path = p /\ mem[l] = "failed"
<1> DEFINE U == {l \in W : file[<<id, l>>].physical_path = p}
           G == {l \in U : mem[l] \in Final}
<1>1. G # {} /\ mem[CHOOSE l \in G : \A k \in G : l <= k] = "failed"
  BY DEF NetState
<1>2. \E l \in G : \A k \in G : l <= k
  BY <1>1, LogicalPathAssumption DEF Changed, FilesOf
<1> QED
  BY <1>1, <1>2

\* A row goes from started to failed in status() and in take_over(), on a free path.
LEMMA NextFailedIsNotHeld ==
  ASSUME Undisturbed, TypeOK, GroupsAreFree, FailuresAreFree, [Next]_vars,
         NEW k \in DOMAIN file \cap DOMAIN file',
         file[k].state = "started", file'[k].state = "failed"
  PROVE  Free(file[k].physical_path)
<1>0. file'[k] # file[k] /\ file[k].physical_path \in PhysicalPath
  BY DEF TypeOK, IsFileTable, FileRow
<1>1. CASE StatusCommit
  <2>1. PICK lost \in Losses(Changed) :
          file' = UpdatePathStates(file,
                    [p \in PhysicalPath |-> NetState(p, Changed \ lost)], now)
    BY <1>1 DEF StatusCommit
  <2>2. NetState(file[k].physical_path, Changed \ lost) = "failed"
    BY <1>0, <2>1 DEF UpdatePathStates, UpdatedRow, Moved
  <2>3. PICK l \in Changed : file[<<id, l>>].physical_path = file[k].physical_path
                             /\ mem[l] = "failed"
    <3> DEFINE W == Changed \ lost
    <3>1. W \subseteq Changed /\ NetState(file[k].physical_path, W) = "failed"
      BY <2>2
    <3> HIDE DEF W
    <3>2. \E l \in W : file[<<id, l>>].physical_path = file[k].physical_path
                      /\ mem[l] = "failed"
      BY <3>1, NetStateFailed
    <3> QED
      BY <3>1, <3>2
  <2> QED
    BY <1>1, <2>3 DEF FailuresAreFree, StatusCommit, Changed
<1>2. CASE Updates
  <2>1. ASSUME NEW P, NEW st, file' = UpdatePaths(file, P, st, now)
        PROVE  st = "failed" /\ file[k].physical_path \in P
    BY <1>0, <2>1 DEF UpdatePaths, UpdatedRow, Moved
  <2>2. CASE UpdateTheRest
    <3>1. PICK lost : file' = UpdatePaths(file, Group("the_rest") \ lost, "failed", now)
      BY <2>2 DEF UpdateTheRest, UpdateGroup
    <3>2. grp[file[k].physical_path] = "the_rest" /\ pc \in TakesOver
      BY <2>1, <2>2, <3>1 DEF Group, UpdateTheRest, TakesOver
    <3> QED
      BY <1>0, <3>2 DEF GroupsAreFree
  <2>3. CASE UpdateInProgress \/ UpdateOnDisk \/ UpdateNeedRecall
    <3>1. \E P : \E st \in {"started", "completed"} : file' = UpdatePaths(file, P, st, now)
      BY <2>3 DEF UpdateInProgress, UpdateOnDisk, UpdateNeedRecall, UpdateGroup
    <3> QED
      BY <2>1, <3>1
  <2> QED
    BY <1>2, <2>2, <2>3 DEF Updates
<1>3. ASSUME NEW s \in StageId, NEW L \in Requests, Stage(s, L) \/ Cancel(s, L) PROVE FALSE
  <2>1. CASE Stage(s, L)
    BY <1>0, <2>1, StageFacts
  <2>2. CASE Cancel(s, L)
    BY <1>0, <2>2, CancelFacts
  <2> QED
    BY <1>3, <2>1, <2>2
<1>4. ASSUME NEW s \in StageId, EraseBegin(s) PROVE FALSE
  BY <1>0, <1>4, EraseFacts
<1>5. ~(EraseEnd \/ UNCHANGED db \/ UNCHANGED vars)
  BY <1>0, EraseFacts DEF db, vars
<1> QED
  BY <1>1, <1>2, <1>3, <1>4, <1>5, NextCases

\* While the marks can be set and read and are the service's alone, neither status() nor
\* take_over() fails a started file that GEMSS still holds, unless it was deleted.
THEOREM FailuresAreNotHeld ==
  ASSUME Undisturbed
  PROVE  Spec => FailedIsNotHeld
<1>1. Init => FailuresAreFree
  BY DEF Init, FailuresAreFree
<1>2. TypeOK /\ HeldAreMarked /\ MemIsAhead /\ FailuresAreFree /\ [Next]_vars
        => FailuresAreFree'
  BY NextFailuresAreFree
<1>3. TypeOK /\ GroupsAreFree /\ FailuresAreFree /\ [Next]_vars =>
        [\A k \in DOMAIN file \cap DOMAIN file' :
           file[k].state = "started" /\ file'[k].state = "failed" =>
             LET p == file[k].physical_path
             IN  disk[p].regular => p \notin gemss]_vars
  BY NextFailedIsNotHeld DEF Free, Gone
<1> QED
  BY <1>1, <1>2, <1>3, RecallsAgree, AheadAndTimes, TypeCorrectness, PTL
     DEF Spec, FailedIsNotHeld

-----------------------------------------------------------------------------
(* status() and archive_info() agree *)

\* A mark is on a file with data, and not on the file that status() has just found to
\* be without.
MarkedHasData == \A p \in PhysicalPath : disk[p].recall => disk[p].data # "empty"

\* What take_over() has taken to be only on tape is not a file without data.
GroupsHaveData ==
  pc \in TakesOver =>
    \A p \in PhysicalPath :
      grp[p] \in {"only_on_tape", "need_recall", "marked"} => disk[p].data # "empty"

\* The second reading of status() is of a file that had no mark in the first.
StatIsUnmarked ==
  pc = "stat" => \A l \in todo : Turn(l) => ~OnDisk(l).recall \/ OnDisk(l).data = "absent"

\* Only take_over() sets a mark.
LEMMA UnmarkedFacts ==
  ASSUME Readable, TypeOK, [Next]_vars, NEW q \in PhysicalPath, disk'[q].recall
  PROVE  disk[q].recall \/ (CreateXattr(q) /\ pc = "create_xattr" /\ grp[q] = "need_recall")
<1>0. disk \in [PhysicalPath -> FileOnDisk]
  BY DEF TypeOK
<1>1. ASSUME NEW p \in PhysicalPath, CreateXattr(p)
      PROVE  disk[q].recall \/ (CreateXattr(q) /\ pc = "create_xattr" /\ grp[q] = "need_recall")
  BY <1>0, <1>1 DEF CreateXattr
<1>2. ASSUME NEW p \in PhysicalPath, Gemss(p) \/ OtherRecall(p) \/ ChangeOnDisk(p)
      PROVE  disk[q].recall
  BY <1>0, <1>2 DEF Gemss, GemssRestore, GemssEnd, GemssMark, OtherRecall, ChangeOnDisk,
                    Readable, WithData, WithTape, WithRecall, Absent, New
<1> QED
  BY <1>1, <1>2, DiskSteps

\* Nobody writes to a path, and data does not get lost but with the file.
LEMMA DataStays ==
  ASSUME Readable, TypeOK, [Next]_vars, NEW q \in PhysicalPath
  PROVE  /\ disk[q].data = "absent" => disk'[q].data = "absent"
         /\ disk[q].data # "empty" => disk'[q].data # "empty"
<1>0. disk \in [PhysicalPath -> FileOnDisk] /\ disk[q] \in FileOnDisk
  BY DEF TypeOK
<1> DEFINE Stays == /\ disk[q].data = "absent" => disk'[q].data = "absent"
                    /\ disk[q].data # "empty" => disk'[q].data # "empty"
<1>1. ASSUME NEW p \in PhysicalPath, CreateXattr(p) PROVE Stays
  <2>1. PICK d \in create_xattr(disk[p], {"xattr", "io"} \cap Events # {}) :
          disk' = [disk EXCEPT ![p] = d]
    BY <1>1 DEF CreateXattr
  <2>2. d = disk[p] \/ (disk[p].data # "absent" /\ d = WithRecall(disk[p], TRUE))
    BY <2>1, CreateXattrFacts
  <2> QED
    BY <1>0, <2>1, <2>2 DEF WithRecall, FileOnDisk
<1>2. ASSUME NEW p \in PhysicalPath, Gemss(p) PROVE Stays
  <2>1. GemssRestore(p) => Stays
    BY <1>0 DEF GemssRestore, WithData
  <2>2. GemssEnd(p) => Stays
    BY <1>0 DEF GemssEnd, WithRecall
  <2> QED
    BY <1>2, <2>1, <2>2 DEF Gemss, GemssMark, Readable
<1>3. ASSUME NEW p \in PhysicalPath, ChangeOnDisk(p) PROVE Stays
  BY <1>0, <1>3 DEF ChangeOnDisk, Readable, WithData, WithTape, Absent, New
<1>4. ASSUME NEW p \in PhysicalPath PROVE ~OtherRecall(p)
  BY DEF OtherRecall, Readable
<1>5. UNCHANGED disk => Stays
  OBVIOUS
<1> QED
  BY <1>1, <1>2, <1>3, <1>4, <1>5, DiskSteps

\* What take_over() makes of its groups, whether the marks can be set or not.
LEMMA NextGroupsHaveData ==
  ASSUME Readable, TypeOK, GroupsHaveData, [Next]_vars
  PROVE  GroupsHaveData'
<1>0. ~IO
  BY DEF IO, Readable
<1>1. ASSUME NEW n \in TakeOverSizes, TakeOver(n) PROVE GroupsHaveData'
  <2>1. UNCHANGED disk
    BY <1>1 DEF TakeOver
  <2> QED
    BY <1>0, <1>1, <2>1, TakeOverGroups DEF GroupsHaveData
<1>2. CASE SelectInProgress
  <2>1. UNCHANGED disk /\ pc \in TakesOver
    BY <1>2 DEF SelectInProgress, TakesOver
  <2>2. \A p \in PhysicalPath :
          /\ grp'[p] \in {"none", "on_disk", "the_rest", "in_progress", "need_recall"}
          /\ grp'[p] = grp[p] \/ grp[p] = "only_on_tape"
    BY <1>2 DEF SelectInProgress
  <2> QED
    BY <2>1, <2>2 DEF GroupsHaveData
<1>3. ASSUME NEW p \in PhysicalPath, CreateXattr(p) PROVE GroupsHaveData'
  <2>1. grp' = [grp EXCEPT ![p] = "marked"] /\ grp[p] = "need_recall" /\ pc \in TakesOver
    BY <1>3 DEF CreateXattr, TakesOver
  <2>2. \A q \in PhysicalPath : grp'[q] = IF q = p THEN "marked" ELSE grp[q]
    BY <2>1 DEF TypeOK
  <2>3. \A q \in PhysicalPath :
          grp'[q] \in {"only_on_tape", "need_recall", "marked"} => disk[q].data # "empty"
    BY <2>1, <2>2 DEF GroupsHaveData
  <2> QED
    BY <2>3, DataStays DEF GroupsHaveData
<1>4. ASSUME pc \in TakesOver, UNCHANGED grp PROVE GroupsHaveData'
  BY <1>4, DataStays DEF GroupsHaveData
<1>5. pc' \notin TakesOver => GroupsHaveData'
  BY DEF GroupsHaveData
<1> QED
  BY <1>1, <1>2, <1>3, <1>4, <1>5, GroupSteps

\* The mark is set by take_over() on files that have data, and data does not get lost.
LEMMA NextMarkedHasData ==
  ASSUME Readable, TypeOK, GroupsHaveData, MarkedHasData, [Next]_vars
  PROVE  MarkedHasData'
<1> SUFFICES ASSUME NEW q \in PhysicalPath, disk'[q].recall PROVE disk'[q].data # "empty"
  BY DEF MarkedHasData
<1>1. disk[q].data # "empty"
  BY UnmarkedFacts DEF MarkedHasData, GroupsHaveData, TakesOver
<1> QED
  BY <1>1, DataStays

\* Between its two readings no mark is set, since take_over() is not running.
LEMMA NextStatIsUnmarked ==
  ASSUME Readable, TypeOK, StatIsUnmarked, [Next]_vars
  PROVE  StatIsUnmarked'
<1>0. \A l \in todo : file[<<id, l>>].physical_path \in PhysicalPath
  BY DEF TypeOK, IsFileTable, FileRow
<1>1. CASE pc' # "stat"
  BY <1>1 DEF StatIsUnmarked
<1>2. CASE UNCHANGED <<file, pc, id, mem, todo>> /\ pc' = "stat"
  <2>1. ~UpdateNeedRecall /\ pc # "create_xattr"
    BY <1>2 DEF UpdateNeedRecall
  <2>2. \A p \in PhysicalPath :
          ~disk[p].recall \/ disk[p].data = "absent"
            => ~disk'[p].recall \/ disk'[p].data = "absent"
    BY <2>1, DataStays, UnmarkedFacts
  <2> QED
    BY <1>0, <1>2, <2>2 DEF StatIsUnmarked, Turn, OnDisk
<1>3. ASSUME NEW s \in StageId, StatusBegin(s) PROVE pc' # "stat"
  BY <1>3 DEF StatusBegin
<1>4. ASSUME NEW l \in LogicalPath, StatusXattr(l) \/ StatusStat(l), pc' = "stat"
      PROVE  StatIsUnmarked'
  <2>1. PICK r \in is_in_progress(OnDisk(l), IO) : r \in {"no", "error"}
    BY <1>4 DEF StatusXattr, StatusStat, Conclude
  <2>2. Turn(l) /\ UNCHANGED <<file, disk, id, todo>>
    BY <1>4 DEF StatusXattr, StatusStat, Conclude, Turn, db, local
  <2>3. ~OnDisk(l).recall \/ OnDisk(l).data = "absent"
    BY <2>1 DEF is_in_progress, Fails, Succeeds, IO, Readable
  <2>4. \A m \in todo : Turn(m) => m = l
    BY <2>2, LogicalPathAssumption DEF Turn, TypeOK
  <2> QED
    BY <2>2, <2>3, <2>4 DEF StatIsUnmarked, Turn, OnDisk
<1> QED
  BY <1>1, <1>2, <1>3, <1>4, StatusSteps

\* What a step of status() concludes is what archive_info() shows then.
LEMMA NextConclusionIsShown ==
  ASSUME Readable, TypeOK, MemIsAhead, MarkedHasData, StatIsUnmarked, [Next]_vars,
         NEW l \in todo, l \notin todo', mem'[l] \in State, OnDisk(l).regular
  PROVE  mem'[l] = "completed" <=>
           archive_info(OnDisk(l), FALSE) \subseteq {"disk", "disk_and_tape", "none"}
<1> DEFINE d == OnDisk(l)
           shown == CASE d.data = "empty" -> "none"
                      [] d.data = "full" /\ ~d.recall -> IF d.tape THEN "disk_and_tape" ELSE "disk"
                      [] OTHER -> IF d.tape THEN "tape" ELSE "unavailable"
<1>0. /\ pc \in {"status", "stat"} /\ l \in FilesOf(file, id) /\ l \in LogicalPath
      /\ d \in FileOnDisk
      /\ d.recall => d.data # "empty"
      /\ mem \in [LogicalPath -> State \cup {"none"}]
      /\ mem[l] = file[<<id, l>>].state /\ mem[l] \notin Final /\ ~IO
  BY DEF TypeOK, IsFileTable, FileRow, FilesOf, OnDisk, MarkedHasData, MemIsAhead, IO,
         Readable
<1>there. d.data # "absent"
  BY <1>0, RegularIsThere
<1>1. archive_info(d, FALSE) = {shown}
  <2>1. locality(d, FALSE) =
          {CASE d.data = "empty" -> "none"
             [] d.data = "full" /\ ~d.recall -> IF d.tape THEN "disk_and_tape" ELSE "disk"
             [] OTHER -> IF d.tape THEN "tape" ELSE "lost"}
    BY <1>there DEF locality, Fails, Succeeds
  <2> QED
    BY <2>1 DEF archive_info, override_locality
<1>2. archive_info(d, FALSE) \subseteq {"disk", "disk_and_tape", "none"}
        <=> d.data = "empty" \/ (d.data = "full" /\ ~d.recall)
  BY <1>1
<1> HIDE DEF shown
<1>3. ASSUME NEW m \in LogicalPath, StatusXattr(m)
      PROVE  m = l /\ (mem'[l] = "completed" => FALSE)
                   /\ ~(d.data = "empty" \/ (d.data = "full" /\ ~d.recall))
  <2>1. PICK r \in is_in_progress(OnDisk(m), IO) :
          \/ r = "yes" /\ Conclude(m, "started")
          \/ r = "error" /\ Conclude(m, "failed")
          \/ UNCHANGED <<db, disk, gemss, clock, local>>
    BY <1>3 DEF StatusXattr
  <2>2. ~UNCHANGED <<db, disk, gemss, clock, local>>
    BY DEF local
  <2>3. m = l
    BY <2>1, <2>2 DEF Conclude
  <2>4. r = "yes" /\ Conclude(l, "started") /\ d.recall
    BY <1>0, <1>there, <2>1, <2>2, <2>3 DEF is_in_progress, Fails, Succeeds
  <2>5. mem'[l] = "started"
    BY <1>0, <2>4 DEF Conclude
  <2> HIDE DEF d
  <2> QED
    BY <1>0, <2>3, <2>4, <2>5
<1>4. ASSUME NEW m \in LogicalPath, StatusStat(m)
      PROVE  m = l /\ (mem'[l] = "completed" <=> d.data # "stub")
                   /\ ~d.recall
  <2>1. PICK r \in file_size_info(OnDisk(m), IO) :
          Conclude(m, IF r = "stub" THEN IF mem[m] = "started" THEN "failed" ELSE "submitted"
                      ELSE "completed")
    BY <1>4 DEF StatusStat
  <2>2. m = l
    BY <2>1 DEF Conclude
  <2>3. r = d.data
    BY <1>0, <1>there, <2>1, <2>2 DEF file_size_info, Fails, Succeeds
  <2>4. ~d.recall
    BY <1>4, <1>there, <2>2 DEF StatusStat, StatIsUnmarked
  <2> QED
    BY <1>0, <2>1, <2>2, <2>3, <2>4 DEF Conclude
<1>5. d.data \in {"empty", "stub", "full"}
  <2> HIDE DEF d
  <2> QED
    BY <1>0, <1>there DEF FileOnDisk, Data
<1>6. ~UNCHANGED todo /\ mem' # NoFiles
  BY <1>0 DEF NoFiles, State, Final
<1>7. ASSUME NEW s \in StageId, NEW L \in Requests, Stage(s, L) \/ Cancel(s, L) PROVE FALSE
  BY <1>0, <1>7 DEF Stage, Cancel
<1>8. ASSUME NEW s \in StageId, EraseBegin(s) \/ StatusBegin(s) PROVE FALSE
  BY <1>0, <1>8 DEF EraseBegin, StatusBegin
<1>9. ASSUME NEW n \in TakeOverSizes, TakeOver(n) PROVE FALSE
  BY <1>0, <1>9 DEF TakeOver
<1>10. ~(StatusCommit \/ EraseEnd \/ Updates \/ SelectInProgress \/ StatusOfNoFiles
           \/ DatabaseError \/ Crash \/ Restart)
  BY <1>0, <1>6
     DEF StatusCommit, EraseEnd, Updates, UpdateInProgress, UpdateOnDisk, UpdateTheRest,
         UpdateNeedRecall, SelectInProgress, StatusOfNoFiles, DatabaseError, AtCommit, Crash,
         Halt, Forget, Restart
<1>11. ASSUME NEW p \in PhysicalPath,
              CreateXattr(p) \/ Gemss(p) \/ OtherRecall(p) \/ ChangeOnDisk(p)
       PROVE  FALSE
  BY <1>6, <1>11 DEF CreateXattr, Gemss, GemssRestore, GemssEnd, GemssMark, OtherRecall,
                     ChangeOnDisk, local
<1>12. ~(Tick \/ UNCHANGED vars)
  BY <1>6 DEF Tick, local, vars
<1>13. \E m \in LogicalPath : StatusXattr(m) \/ StatusStat(m)
  BY <1>7, <1>8, <1>9, <1>10, <1>11, <1>12, NextCases
<1> QED
  BY <1>2, <1>3, <1>4, <1>5, <1>13

\* While the marks can be read and are the service's alone, whether it manages to set
\* them or not, a file that status() finds completed is one that archive_info() shows on
\* disk at that moment, and one that it finds anything else is not: unless the file is
\* deleted, they tell a client the same.
THEOREM ConclusionsAreShown ==
  ASSUME Readable
  PROVE  Spec => ConclusionIsShown
<1> DEFINE Inv == GroupsHaveData /\ MarkedHasData /\ StatIsUnmarked
<1>1. Init => Inv
  BY DEF Init, GroupsHaveData, MarkedHasData, StatIsUnmarked, TakesOver
<1>2. TypeOK /\ Inv /\ [Next]_vars => Inv'
  BY NextGroupsHaveData, NextMarkedHasData, NextStatIsUnmarked
<1>3. TypeOK /\ MemIsAhead /\ MarkedHasData /\ StatIsUnmarked /\ [Next]_vars =>
        [\A l \in todo :
           /\ l \notin todo' /\ mem'[l] \in State
           /\ OnDisk(l).regular
           => (mem'[l] = "completed" <=>
                 archive_info(OnDisk(l), FALSE) \subseteq {"disk", "disk_and_tape", "none"})]_vars
  BY NextConclusionIsShown
<1> QED
  BY <1>1, <1>2, <1>3, AheadAndTimes, TypeCorrectness, PTL DEF Spec, ConclusionIsShown

-----------------------------------------------------------------------------
(* What status() takes to be on disk was there when it was staged *)

\* A file that has still to end is there.
WaitingArePresent ==
  \A k \in DOMAIN file :
    file[k].state \notin Final => disk[file[k].physical_path].data # "absent"

\* A file that is there stays, unless it is deleted.
LEMMA PresentStays ==
  ASSUME "delete" \notin Events, TypeOK, [Next]_vars,
         NEW q \in PhysicalPath, disk[q].data # "absent"
  PROVE  disk'[q].data # "absent"
<1>0. disk \in [PhysicalPath -> FileOnDisk]
  BY DEF TypeOK
<1>1. ASSUME NEW p \in PhysicalPath, CreateXattr(p) PROVE disk'[q].data # "absent"
  <2>1. PICK d \in create_xattr(disk[p], {"xattr", "io"} \cap Events # {}) :
          disk' = [disk EXCEPT ![p] = d]
    BY <1>1 DEF CreateXattr
  <2>2. d.data = disk[p].data
    BY <2>1, CreateXattrFacts DEF WithRecall
  <2> QED
    BY <1>0, <2>1, <2>2
<1>2. ASSUME NEW p \in PhysicalPath, Gemss(p) \/ OtherRecall(p)
      PROVE  disk'[q].data # "absent"
  BY <1>0, <1>2 DEF Gemss, GemssRestore, GemssEnd, GemssMark, OtherRecall, WithData, WithRecall
<1>3. ASSUME NEW p \in PhysicalPath, ChangeOnDisk(p) PROVE disk'[q].data # "absent"
  BY <1>0, <1>3 DEF ChangeOnDisk, WithData, WithTape, New
<1>4. UNCHANGED disk => disk'[q].data # "absent"
  OBVIOUS
<1> QED
  BY <1>1, <1>2, <1>3, <1>4, DiskSteps

\* stage() fails the files that are not there.
LEMMA StagedArePresent ==
  ASSUME TypeOK, NEW s \in StageId, NEW L \in Requests, Stage(s, L), NEW l \in L,
         <<s, l>> \notin DOMAIN file, file'[<<s, l>>].state \notin Final
  PROVE  disk[file'[<<s, l>>].physical_path].data # "absent"
<1>1. PICK end \in Later(clock), bad \in SUBSET L, resolve \in Resolutions :
        /\ \A k \in L : ~disk[resolve[k]].regular => k \in bad
        /\ \E at \in [bad -> {t \in Later(clock) : end \in Later(t)}] :
             file' = InsertFiles(file, s,
               [k \in L |-> [physical_path |-> resolve[k],
                             state |-> IF k \in bad THEN "failed" ELSE "submitted",
                             started_at  |-> IF k \in bad THEN at[k] ELSE 0,
                             finished_at |-> IF k \in bad THEN at[k] ELSE 0]])
  BY DEF Stage
<1>2. PICK at \in [bad -> {t \in Later(clock) : end \in Later(t)}] :
        file' = InsertFiles(file, s,
          [k \in L |-> [physical_path |-> resolve[k],
                        state |-> IF k \in bad THEN "failed" ELSE "submitted",
                        started_at  |-> IF k \in bad THEN at[k] ELSE 0,
                        finished_at |-> IF k \in bad THEN at[k] ELSE 0]])
  BY <1>1
<1> DEFINE rows == [k \in L |->
                      [physical_path |-> resolve[k],
                       state |-> IF k \in bad THEN "failed" ELSE "submitted",
                       started_at  |-> IF k \in bad THEN at[k] ELSE 0,
                       finished_at |-> IF k \in bad THEN at[k] ELSE 0]]
<1>3. rows[l].physical_path = resolve[l] /\ (l \in bad => rows[l].state \in Final)
  BY DEF Final
<1>4. DOMAIN rows = L /\ file' = InsertFiles(file, s, rows)
  BY <1>2
<1> HIDE DEF rows
<1>5. file'[<<s, l>>] = rows[l]
  BY <1>4 DEF InsertFiles
<1>6. resolve[l] \in PhysicalPath
  <2>1. resolve \in [LogicalPath -> PhysicalPath] /\ L \subseteq LogicalPath
    BY <1>1, ServiceAssumption
  <2> QED
    BY <2>1
<1>7. disk[resolve[l]].regular => disk[resolve[l]].data # "absent"
  BY <1>6, RegularIsThere DEF TypeOK
<1> QED
  BY <1>1, <1>3, <1>5, <1>7

\* A row that has still to end was so before, with its path, or is a new one.
LEMMA NextWaitingArePresent ==
  ASSUME "delete" \notin Events, TypeOK, WaitingArePresent, [Next]_vars
  PROVE  WaitingArePresent'
<1>0. \A k \in DOMAIN file : file[k].physical_path \in PhysicalPath
  BY DEF TypeOK, IsFileTable, FileRow
<1>1. ASSUME NEW s \in StageId, NEW L \in Requests, Stage(s, L) PROVE WaitingArePresent'
  <2>1. /\ UNCHANGED disk
        /\ DOMAIN file' = DOMAIN file \cup {<<s, l>> : l \in L}
        /\ \A k \in DOMAIN file : file'[k] = file[k]
    BY <1>1, StageFacts DEF Stage
  <2> SUFFICES ASSUME NEW k \in DOMAIN file', file'[k].state \notin Final
               PROVE  disk[file'[k].physical_path].data # "absent"
    BY <2>1 DEF WaitingArePresent
  <2>2. CASE k \in DOMAIN file
    BY <2>1, <2>2 DEF WaitingArePresent
  <2>3. CASE k \notin DOMAIN file
    <3>1. PICK l \in L : k = <<s, l>>
      BY <2>1, <2>3
    <3> QED
      BY <1>1, <2>3, <3>1, StagedArePresent
  <2> QED
    BY <2>2, <2>3
<1>2. ASSUME DOMAIN file' \subseteq DOMAIN file,
             \A k \in DOMAIN file' :
               /\ file'[k].physical_path = file[k].physical_path
               /\ file[k].state \in Final => file'[k].state \in Final
      PROVE  WaitingArePresent'
  BY <1>0, <1>2, PresentStays DEF WaitingArePresent
<1>3. ASSUME NEW s \in StageId, NEW L \in Requests, Cancel(s, L) PROVE WaitingArePresent'
  <2>1. "cancelled" \in Final
    BY DEF Final
  <2> QED
    BY <1>2, <1>3, <2>1, CancelFacts, MovedKeepsPath
<1>4. ASSUME NEW s \in StageId, EraseBegin(s) PROVE WaitingArePresent'
  BY <1>2, <1>4, EraseFacts
<1>5. CASE StatusCommit
  BY <1>2, <1>5, StatusCommitFacts, MovedKeepsPath
<1>6. CASE Updates
  BY <1>2, <1>6, UpdatesFacts, MovedKeepsPath
<1>7. CASE EraseEnd \/ UNCHANGED db \/ UNCHANGED vars
  BY <1>2, <1>7, EraseFacts DEF db, vars
<1> QED
  BY <1>1, <1>3, <1>4, <1>5, <1>6, <1>7, NextCases

\* What status() has in memory goes when it is left.
LEMMA LeavingStatus ==
  ASSUME [Next]_vars, pc \in {"status", "stat"}, pc' \notin {"status", "stat"}
  PROVE  mem' = NoFiles
<1>1. ASSUME NEW s \in StageId, NEW L \in Requests PROVE ~(Stage(s, L) \/ Cancel(s, L))
  BY DEF Stage, Cancel
<1>2. ASSUME NEW s \in StageId PROVE ~(EraseBegin(s) \/ StatusBegin(s))
  BY DEF EraseBegin, StatusBegin
<1>3. ASSUME NEW l \in LogicalPath PROVE ~(StatusXattr(l) \/ StatusStat(l))
  BY DEF StatusXattr, StatusStat, Conclude
<1>4. ASSUME NEW n \in TakeOverSizes PROVE ~TakeOver(n)
  BY DEF TakeOver
<1>5. ~(EraseEnd \/ Updates \/ SelectInProgress \/ Restart)
  BY DEF EraseEnd, Updates, UpdateInProgress, UpdateOnDisk, UpdateTheRest,
         UpdateNeedRecall, SelectInProgress, Restart
<1>6. StatusCommit \/ StatusOfNoFiles \/ DatabaseError \/ Crash => mem' = NoFiles
  BY DEF StatusCommit, StatusOfNoFiles, DatabaseError, Crash, Halt, Return, Forget
<1>7. ASSUME NEW p \in PhysicalPath
      PROVE  ~(CreateXattr(p) \/ Gemss(p) \/ OtherRecall(p) \/ ChangeOnDisk(p))
  BY DEF CreateXattr, Gemss, GemssRestore, GemssEnd, GemssMark, OtherRecall, ChangeOnDisk
<1>8. ~(Tick \/ UNCHANGED vars)
  BY DEF Tick, vars
<1> QED
  BY <1>1, <1>2, <1>3, <1>4, <1>5, <1>6, <1>7, <1>8, NextCases

\* Whatever else fails and changes, status() completes no file that is not there, unless
\* it was deleted after it was staged: then its missing size counts as being on disk.
THEOREM CompletedAreOnDisk ==
  ASSUME "delete" \notin Events
  PROVE  Spec => CompletedIsOnDisk
<1>1. Init => WaitingArePresent
  BY DEF Init, WaitingArePresent
<1>2. TypeOK /\ WaitingArePresent /\ [Next]_vars => WaitingArePresent'
  BY NextWaitingArePresent
<1>3. TypeOK /\ WaitingArePresent /\ [Next]_vars =>
        [\A l \in LogicalPath :
           pc \in {"status", "stat"} /\ mem[l] # "completed" /\ mem'[l] = "completed" =>
             OnDisk(l).data # "absent"]_vars
  <2> SUFFICES ASSUME TypeOK, WaitingArePresent, [Next]_vars, NEW l \in LogicalPath,
                      pc \in {"status", "stat"}, mem[l] # "completed", mem'[l] = "completed"
               PROVE  OnDisk(l).data # "absent"
    OBVIOUS
  <2>1. CASE pc' \notin {"status", "stat"}
    <3>1. mem' = NoFiles
      BY <2>1, LeavingStatus
    <3> QED
      BY <3>1 DEF NoFiles
  <2>2. ~UNCHANGED <<file, pc, id, mem, todo>>
    OBVIOUS
  <2>3. ASSUME NEW s \in StageId PROVE ~StatusBegin(s)
    BY DEF StatusBegin
  <2>4. ASSUME NEW m \in LogicalPath, StatusXattr(m) \/ StatusStat(m)
        PROVE  OnDisk(l).data # "absent"
    <3>1. m \in todo
      BY <2>4 DEF StatusXattr, StatusStat, Turn
    <3>2. mem \in [LogicalPath -> State \cup {"none"}]
          /\ \E st : mem' = mem \/ mem' = [mem EXCEPT ![m] = st]
      BY <2>4 DEF StatusXattr, StatusStat, Conclude, TypeOK, local
    <3>3. l = m
      BY <3>2
    <3> QED
      BY <3>1, <3>3 DEF WaitingArePresent, OnDisk, TypeOK
  <2> QED
    BY <2>1, <2>2, <2>3, <2>4, StatusSteps
<1> QED
  BY <1>1, <1>2, <1>3, TypeCorrectness, PTL DEF Spec, CompletedIsOnDisk

-----------------------------------------------------------------------------
(* in_progress() is made of steps of the service *)

\* Each step is one of the service, or leaves it alone.
LEMMA LNextCases ==
  ASSUME [LNext]_allVars
  PROVE  [Next]_vars
<1>1. TransformStep => Next
  BY DEF TransformStep, Next, Continue
<1>2. ASSUME NEW s \in StageId, TransformBegin(s) PROVE Next
  BY <1>2 DEF TransformBegin, Next, Call
<1>3. Collect \/ InProgressThrow => Next
  BY DEF Collect, InProgressThrow, Next, Continue
<1>4. InProgressBegin \/ InProgressEnd \/ UNCHANGED allVars => UNCHANGED vars
  BY DEF InProgressBegin, InProgressEnd, allVars
<1>5. World => Next
  BY DEF Next
<1> QED
  BY <1>1, <1>2, <1>3, <1>4, <1>5 DEF LNext, ContinueListing

\* Each step of a list is one of the service, or leaves it alone.
LEMMA Composition == LSpec => Spec
<1>1. LInit => Init
  BY DEF LInit
<1>2. [LNext]_allVars => [Next]_vars
  BY LNextCases
<1> QED
  BY <1>1, <1>2, PTL DEF LSpec, Spec

-----------------------------------------------------------------------------
(* No file is missed *)

\* Only status() runs in in_progress(), for stages still on its list; and of the files
\* that were started at first those that have not ended are still to be asked for, or
\* already listed under another stage's name.
Covered ==
  /\ ~listing => begun = {}
  /\ listing => pc \in {"idle", "status", "stat"}
  /\ listing /\ pc # "idle" => id \in ids
  /\ \A k \in begun \cap DOMAIN file :
       \/ file[k].state \in Final
       \/ /\ file[k].state = "started"
          /\ k[1] \in ids \/ file[k].physical_path \in paths

\* A started row stays so or ends, and keeps its path.
LEMMA StartedRow ==
  ASSUME NEW row \in FileRow, NEW st \in State, NEW tp,
         row.state = "started" \/ row.state \in Final
  PROVE  LET new == UpdatedRow(row, st, tp) IN
         /\ new.physical_path = row.physical_path
         /\ new.state \in Final \/ (new.state = "started" /\ row.state = "started")
BY DEF FileRow, Final, UpdatedRow, Moved, MayMove

\* The status of a stage lists what it leaves started: a file that it has found
\* to have ended has ended in its row too, and a complete stage has none that has not.
LEMMA CollectCovered ==
  ASSUME "stmt" \notin Events,
         TypeOK, NoOrphanFiles, CompletedStageIsFinal, MemIsAhead, Covered, Collect,
         CompletedStageIsFinal'
  PROVE  Covered'
<1>1. /\ listing /\ listing' = listing /\ pc = "status" /\ pc' = "idle"
      /\ ids' = ids \ {id} /\ begun' = begun
      /\ paths' = IF stage'[id].completed_at # 0 THEN paths ELSE paths \cup StartedPaths
  BY DEF Collect, Left, StatusCommit, Return
<1>2. /\ DOMAIN file' = DOMAIN file /\ id \in DOMAIN stage
      /\ \A k \in DOMAIN file : \E st \in State : file'[k] = UpdatedRow(file[k], st, now)
      /\ \A l \in FilesOf(file, id) : mem[l] \in Final => file'[<<id, l>>].state \in Final
  BY StatusCommitFacts DEF Collect
<1>3. ASSUME NEW k \in begun' \cap DOMAIN file'
      PROVE  \/ file'[k].state \in Final
             \/ /\ file'[k].state = "started"
                /\ k[1] \in ids' \/ file'[k].physical_path \in paths'
  <2>1. /\ k \in begun /\ k \in DOMAIN file /\ file[k] \in FileRow
        /\ file[k].state = "started" \/ file[k].state \in Final
    BY <1>1, <1>2, <1>3 DEF Covered, TypeOK, IsFileTable
  <2>2. /\ file'[k].physical_path = file[k].physical_path
        /\ \/ file'[k].state \in Final
           \/ file'[k].state = "started" /\ file[k].state = "started"
    BY <1>2, <2>1, StartedRow
  <2>3. SUFFICES ASSUME file'[k].state = "started", file[k].state = "started",
                        file'[k].state \notin Final, k[1] = id
                 PROVE  file[k].physical_path \in paths'
    BY <1>1, <2>1, <2>2 DEF Covered
  <2>4. k[2] \in FilesOf(file, id) /\ k = <<id, k[2]>>
    BY <2>1, <2>3, KeyFacts
  <2>5. mem[k[2]] = "started"
    BY <1>1, <1>2, <2>3, <2>4 DEF MemIsAhead, MayMove
  <2>6. stage'[id].completed_at = 0
    BY <1>2, <2>1, <2>3 DEF CompletedStageIsFinal
  <2>7. file[k].physical_path \in StartedPaths
    BY <2>4, <2>5 DEF StartedPaths, PathsInMemory
  <2> QED
    BY <1>1, <2>6, <2>7
<1> QED
  BY <1>1, <1>3 DEF Covered

\* No step of a list or of the world loses a file that was started at the beginning.
LEMMA NextCovered ==
  ASSUME "stmt" \notin Events,
         TypeOK, NoOrphanFiles, CompletedStageIsFinal, MemIsAhead, Covered,
         CompletedStageIsFinal', [LNext]_allVars
  PROVE  Covered'
<1>1. CASE InProgressBegin
  <2>1. /\ listing' /\ pc' = "idle" /\ UNCHANGED file
        /\ ids' = find_incomplete_stages /\ begun' = StartedFiles
    BY <1>1 DEF InProgressBegin, vars
  <2>2. \A k \in StartedFiles : k \in DOMAIN file /\ file[k].state \notin Final
    BY DEF StartedFiles, Final
  <2>3. \A k \in StartedFiles : k[1] \in find_incomplete_stages
    BY <2>2 DEF NoOrphanFiles, CompletedStageIsFinal, find_incomplete_stages
  <2> QED
    BY <2>1, <2>3 DEF Covered, StartedFiles
<1>2. ASSUME NEW s \in StageId, TransformBegin(s) PROVE Covered'
  BY <1>2 DEF TransformBegin, StatusBegin, Covered, own, db
<1>3. CASE TransformStep
  <2>1. /\ pc # "idle" /\ pc' \in {"status", "stat"}
        /\ UNCHANGED <<file, id, listing, ids, paths, begun>>
    BY <1>3 DEF TransformStep, StatusXattr, StatusStat, Conclude, own, db, local
  <2> QED
    BY <2>1 DEF Covered
<1>4. CASE Collect
  BY <1>4, CollectCovered
<1>5. CASE InProgressEnd \/ InProgressThrow
  BY <1>5 DEF InProgressEnd, InProgressThrow, Leave, Covered
<1>6. CASE World /\ UNCHANGED own
  <2>1. UNCHANGED <<file, pc, id>>
    BY <1>6 DEF World, Tick, Gemss, GemssRestore, GemssEnd, GemssMark, OtherRecall,
                ChangeOnDisk, db, local
  <2> QED
    BY <1>6, <2>1 DEF Covered, own
<1>7. CASE ~listing /\ UNCHANGED own
  BY <1>7 DEF Covered, own
<1>8. CASE UNCHANGED allVars
  BY <1>8 DEF Covered, allVars, own, vars
<1> QED
  BY <1>1, <1>2, <1>3, <1>4, <1>5, <1>6, <1>7, <1>8 DEF LNext, ContinueListing

\* No file that was started when in_progress() was called and is still so when it
\* returns is missing from its list, for any number of stages and names, though the
\* stages are asked one after the other and each answer changes the rows of the others.
THEOREM NoneIsMissed ==
  ASSUME "stmt" \notin Events
  PROVE  LSpec => []NoneMissed
<1>1. LInit => Covered
  BY DEF LInit, Covered
<1>2. /\ TypeOK /\ NoOrphanFiles /\ CompletedStageIsFinal /\ MemIsAhead /\ Covered
      /\ CompletedStageIsFinal' /\ [LNext]_allVars
      => Covered'
  BY NextCovered
<1>3. Covered => NoneMissed
  BY DEF Covered, NoneMissed, StartedFiles, Final
<1> QED
  BY <1>1, <1>2, <1>3, Composition, TypeCorrectness, NoOrphans, CompletedIsFinal,
     AheadAndTimes, PTL DEF LSpec
=============================================================================
