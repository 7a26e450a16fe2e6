---------------------------- MODULE RoutesProofs ----------------------------
(***************************************************************************)
(* Theorems about Routes: what is proved of the service holds behind the   *)
(* routes, a refused request has changed nothing, and one that succeeds    *)
(* has been carried out.                                                   *)
(***************************************************************************)
EXTENDS Routes, SafetyProofs

\* The actions in which the service stays as it is, and those in which it moves.
Still == Arrive \/ BadRequest \/ StageNotFound \/ InvalidPaths \/ ReadOnly \/ TakeOverNone
           \/ QueryFails \/ Reply
Moving == Create \/ CancelPaths \/ Begin \/ GoOn \/ GoOnFails \/ Die

\* The service is as it was in those that are still.
LEMMA StillFacts == Still => UNCHANGED vars
BY DEF Still, Arrive, BadRequest, StageNotFound, InvalidPaths, ReadOnly, TakeOverNone,
       QueryFails, Reply

\* A request has paths that clients may send, and the id of a stage if it is about one.
RequestType ==
  \/ request = NoRequest
  \/ /\ request \in [operation : Operation, id : StageId \cup {NoStage},
                     paths : Requests \cup {{}}]
     /\ request.operation \in OfStage => request.id \in StageId
     /\ request.operation \in HasPaths => request.paths \in Requests

\* Which operations there are, and which of them have paths and a stage.
LEMMA OperationFacts ==
  /\ "none" \notin Operation /\ "STAGE" \in HasPaths /\ "CANCEL" \in HasPaths \cap OfStage
  /\ "STATUS" \in OfStage /\ "DELETE" \in OfStage /\ "STAGE" \notin OfStage
BY DEF Operation, OfStage, HasPaths, HasBody

\* Requests stay well formed: only a new stage gets another id.
LEMMA NextRequestType ==
  ASSUME RequestType, [HNext]_allVars
  PROVE  RequestType'
<1>1. CASE Arrive
  BY <1>1 DEF Arrive, NewRequest, RequestType
<1>2. CASE Create
  <2>1. PICK s \in StageId : request' = [request EXCEPT !.id = s]
    BY <1>2 DEF Create
  <2>2. request.operation = "STAGE" /\ request # NoRequest
    BY <1>2 DEF Create, Waiting, NoRequest
  <2> QED
    BY <2>1, <2>2, OperationFacts DEF RequestType
<1>3. request' = request \/ request' = NoRequest => RequestType'
  BY DEF RequestType
<1> QED
  BY <1>1, <1>2, <1>3 DEF HNext, BadRequest, StageNotFound, InvalidPaths, ReadOnly,
     TakeOverNone, QueryFails, Reply, CancelPaths, Begin, GoOn, GoOnFails, Die, Answer,
     own, allVars

\* Each step of the routes is one of the service, or leaves it alone.
LEMMA HNextCases ==
  ASSUME RequestType, [HNext]_allVars
  PROVE  [Next]_vars
<1>1. Still \/ UNCHANGED allVars => UNCHANGED vars
  BY StillFacts DEF allVars
<1>2. ASSUME NEW O, Waiting(O), NoRequest.operation \notin O PROVE request # NoRequest
  BY <1>2 DEF Waiting
<1>3. CASE Create
  <2>1. request # NoRequest /\ request.operation = "STAGE"
    BY <1>2, <1>3 DEF Create, NoRequest, Waiting
  <2> QED
    BY <1>3, <2>1, OperationFacts DEF Create, Next, Call, RequestType
<1>4. CASE CancelPaths
  <2>1. request # NoRequest /\ request.operation = "CANCEL"
    BY <1>2, <1>4 DEF CancelPaths, NoRequest, Waiting
  <2> QED
    BY <1>4, <2>1, OperationFacts DEF CancelPaths, Next, Call, RequestType
<1>5. CASE Begin
  <2>1. ASSUME request.operation \in {"STATUS", "DELETE"} PROVE request.id \in StageId
    BY <2>1, OperationFacts DEF RequestType, NoRequest
  <2> QED
    BY <1>5, <2>1 DEF Begin, Next, Call, Waiting
<1>6. GoOn \/ GoOnFails \/ Die \/ World \/ Restart => Next
  BY DEF GoOn, GoOnFails, Die, Next, Continue
<1> QED
  BY <1>1, <1>3, <1>4, <1>5, <1>6 DEF HNext, Still

\* The routes only use the service as TapeService says, whatever arrives.
THEOREM BehindRoutes == HSpec => Spec
<1>1. HInit => Init /\ RequestType
  BY DEF HInit, RequestType
<1>2. RequestType /\ [HNext]_allVars => RequestType' /\ [Next]_vars
  BY NextRequestType, HNextCases
<1> QED
  BY <1>1, <1>2, PTL DEF HSpec, Spec

-----------------------------------------------------------------------------
(* A refused request has changed nothing *)

\* What each step of the service within a request may do.
LEMMA ContinueFacts ==
  ASSUME TypeOK, Continue
  PROVE  /\ pc # "idle" /\ DOMAIN stage' \subseteq DOMAIN stage
         /\ pc \in {"erase", "down"} => pc' = "idle"
<1>1. ASSUME NEW l \in LogicalPath, StatusXattr(l) \/ StatusStat(l)
      PROVE  pc \in {"status", "stat"} /\ UNCHANGED stage
  BY <1>1 DEF StatusXattr, StatusStat, Conclude, db
<1>2. StatusCommit => pc = "status" /\ DOMAIN stage' = DOMAIN stage
  BY StatusCommitFacts DEF StatusCommit
<1>3. StatusOfNoFiles => pc = "status" /\ UNCHANGED stage
  BY DEF StatusOfNoFiles, Halt, db
<1>4. EraseEnd => pc = "erase" /\ pc' = "idle" /\ DOMAIN stage' \subseteq DOMAIN stage
  BY EraseFacts DEF EraseEnd, Return
<1>5. SelectInProgress \/ Updates =>
        /\ pc \in {"select_in_progress", "update_in_progress", "update_on_disk",
                   "update_the_rest", "create_xattr"}
        /\ UNCHANGED stage
  BY DEF SelectInProgress, Updates, UpdateInProgress, UpdateOnDisk, UpdateTheRest,
         UpdateNeedRecall, UpdateGroup, db
<1>6. ASSUME NEW p \in PhysicalPath, CreateXattr(p)
      PROVE  pc = "create_xattr" /\ UNCHANGED stage
  BY <1>6 DEF CreateXattr, db
<1>7. Restart => pc = "down" /\ pc' = "idle" /\ UNCHANGED stage
  BY DEF Restart, db
<1> QED
  BY <1>1, <1>2, <1>3, <1>4, <1>5, <1>6, <1>7 DEF Continue, Updates

\* The clock, GEMSS and the users of the disk leave the handler and the stages alone.
LEMMA WorldFacts == World => UNCHANGED <<stage, file, pc, id>>
BY DEF World, Tick, Gemss, GemssRestore, GemssEnd, GemssMark, OtherRecall, ChangeOnDisk,
       db, local

\* It is at work when it goes on or is stopped by the database, and a deletion goes on to
\* its second statement.
LEMMA HandlerRuns ==
  /\ Continue => pc # "idle" /\ (pc = "down" => Restart) /\ (pc = "erase" => EraseEnd)
  /\ DatabaseError => pc \notin {"idle", "down"}
BY DEF Continue, StatusXattr, StatusStat, StatusCommit, StatusOfNoFiles, EraseEnd,
       SelectInProgress, UpdateInProgress, UpdateOnDisk, UpdateTheRest, UpdateNeedRecall,
       UpdateGroup, CreateXattr, Restart, DatabaseError, AtCommit

\* A request has written nothing before its handler begins, and is decided only when the
\* handler has ended; the handler of a deletion has begun with the files of its stage.
Fresh ==
  /\ written \in BOOLEAN
  /\ code = Undecided /\ pc = "idle" => ~written
  /\ code # Undecided => pc = "idle"
  /\ pc = "down" => request = NoRequest
  /\ request = NoRequest => code = Undecided /\ ~written /\ pc \in {"idle", "down"}
  /\ request.operation = "DELETE" /\ pc \notin {"idle", "down"} => pc = "erase" /\ id = request.id

\* No step decides on a refusal after something has been written.
LEMMA NextFresh ==
  ASSUME TypeOK, RequestType, Fresh, RefusalChangesNothing, [HNext]_allVars
  PROVE  Fresh' /\ RefusalChangesNothing'
<1> USE DEF Undecided
<1>1. CASE Arrive
  BY <1>1 DEF Arrive, Fresh, RefusalChangesNothing, vars
<1>2. CASE BadRequest \/ StageNotFound \/ InvalidPaths \/ ReadOnly \/ TakeOverNone \/ QueryFails
  <2>1. /\ UNCHANGED <<vars, request>> /\ pc = "idle" /\ code = Undecided
        /\ code' \in {200, 400, 404, 500} /\ written' = (written \/ db' # db)
        /\ request # NoRequest
    BY <1>2 DEF BadRequest, StageNotFound, InvalidPaths, FindsInvalid, ReadOnly, TakeOverNone,
                QueryFails, Waiting, Answer, ErrorCode, NoRequest, Operation, OfStage, HasBody,
                HasPaths
  <2>2. written' = FALSE
    BY <2>1 DEF Fresh, vars, db
  <2> QED
    BY <2>1, <2>2 DEF Fresh, RefusalChangesNothing, vars
<1>3. CASE Create
  <2>1. /\ pc = "idle" /\ pc' = "idle" /\ code' \in {500, 201} /\ written' = TRUE
        /\ request.operation = "STAGE"
        /\ \E s : request' = [request EXCEPT !.id = s]
    BY <1>3 DEF Create, Stage, Waiting
  <2>2. request' # NoRequest
    BY <2>1 DEF RequestType, NoRequest
  <2> QED
    BY <2>1, <2>2 DEF Fresh, RefusalChangesNothing
<1>4. CASE CancelPaths
  BY <1>4 DEF CancelPaths, Cancel, Waiting, Answer, Fresh, RefusalChangesNothing, NoRequest
<1>5. CASE Begin
  BY <1>5 DEF Begin, StatusBegin, EraseBegin, TakeOver, Waiting, Answer, Fresh,
              RefusalChangesNothing, NoRequest
<1>6. CASE GoOn
  BY <1>6, ContinueFacts DEF GoOn, Answer, Fresh, RefusalChangesNothing
<1>7. CASE GoOnFails
  <2>1. /\ UNCHANGED <<stage, request>> /\ request # NoRequest
        /\ pc \notin {"idle", "down"} /\ pc' = "idle" /\ code' = ErrorCode
        /\ written' \in BOOLEAN
    BY <1>7 DEF GoOnFails, DatabaseError, AtCommit, Return, Answer, db
  <2>2. request.operation = "DELETE" => request.id \in DOMAIN stage
    BY <2>1 DEF Fresh, TypeOK
  <2> QED
    BY <2>1, <2>2 DEF Fresh, RefusalChangesNothing, ErrorCode
<1>8. CASE Die
  BY <1>8 DEF Die, Crash, StatusOfNoFiles, Halt, Fresh, RefusalChangesNothing
<1>9. CASE Reply
  BY <1>9 DEF Reply, Fresh, RefusalChangesNothing, vars, NoRequest
<1>10. CASE (World \/ Restart) /\ UNCHANGED own
  BY <1>10, WorldFacts DEF Restart, own, Fresh, RefusalChangesNothing, db, local
<1>11. CASE UNCHANGED allVars
  BY <1>11 DEF allVars, own, vars, Fresh, RefusalChangesNothing
<1> QED
  BY <1>1, <1>2, <1>3, <1>4, <1>5, <1>6, <1>7, <1>8, <1>9, <1>10, <1>11 DEF HNext

\* A request that is answered with 400 or 404 has left the tables as they were, whichever
\* step failed, but for the deletion whose second statement fails.
THEOREM RefusedIsUntouched == HSpec => []RefusalChangesNothing
<1>1. HInit => Fresh /\ RequestType /\ RefusalChangesNothing
  BY DEF HInit, Init, Fresh, RequestType, RefusalChangesNothing, NoRequest, Undecided
<1>2. /\ TypeOK /\ (Fresh /\ RequestType /\ RefusalChangesNothing) /\ [HNext]_allVars
      => (Fresh /\ RequestType /\ RefusalChangesNothing)'
  BY NextRequestType, NextFresh
<1> QED
  BY <1>1, <1>2, BehindRoutes, TypeCorrectness, PTL DEF HSpec

-----------------------------------------------------------------------------
(* What is answered with success has been done *)

\* The requests whose handlers take several steps.
Handling == pc \notin {"idle", "down"} => request.operation \in {"STATUS", "DELETE", "TAKE_OVER"}

\* Only a handler that begins can change that.
LEMMA NextHandling ==
  ASSUME Fresh, RequestType, Handling, [HNext]_allVars
  PROVE  Handling'
<1>1. CASE Arrive \/ BadRequest \/ StageNotFound \/ InvalidPaths \/ ReadOnly \/ TakeOverNone
             \/ QueryFails \/ Reply
  BY <1>1 DEF Arrive, BadRequest, StageNotFound, InvalidPaths, FindsInvalid, ReadOnly,
              TakeOverNone, QueryFails, Reply, Waiting, Answer, Fresh, Handling, vars
<1>2. CASE Create \/ CancelPaths
  BY <1>2 DEF Create, CancelPaths, Stage, Cancel, Handling
<1>3. CASE Begin
  BY <1>3 DEF Begin, Waiting, Answer, Handling
<1>4. CASE GoOn \/ GoOnFails
  <2>1. pc \notin {"idle", "down"} /\ UNCHANGED request
    BY <1>4, HandlerRuns DEF GoOn, GoOnFails, Answer, DatabaseError, AtCommit, Fresh
  <2> QED
    BY <2>1 DEF Handling
<1>5. CASE Die
  BY <1>5 DEF Die, Crash, StatusOfNoFiles, Halt, Handling
<1>6. CASE (World \/ Restart) /\ UNCHANGED own
  BY <1>6, WorldFacts DEF Restart, own, Handling
<1>7. CASE UNCHANGED allVars
  BY <1>7 DEF allVars, own, vars, Handling
<1> QED
  BY <1>1, <1>2, <1>3, <1>4, <1>5, <1>6, <1>7 DEF HNext

\* A new stage has the files of its request; a cancelled file is so when that is said; and
\* nothing of a stage is left when its deletion is said to be done.
LEMMA NextDone ==
  ASSUME "stmt" \notin Events, TypeOK, NoOrphanFiles, RequestType, Fresh, Handling,
         SuccessIsDone, [HNext]_allVars
  PROVE  SuccessIsDone'
<1> USE DEF Undecided
<1>1. CASE UNCHANGED <<stage, file, request, code>>
  BY <1>1 DEF SuccessIsDone, FilesOf
<1>2. CASE code' \notin {200, 201}
  BY <1>2 DEF SuccessIsDone
<1>3. CASE code' = 200 /\ request'.operation \notin {"DELETE", "CANCEL"}
  BY <1>3 DEF SuccessIsDone
<1>4. CASE Create
  <2>1. PICK s \in StageId, port \in Forwarded :
          /\ Stage(s, request.paths)
          /\ request' = [request EXCEPT !.id = s]
          /\ code' = IF port = "overflow" THEN 500 ELSE 201
    BY <1>4 DEF Create
  <2>2. request.operation = "STAGE"
    BY <1>4 DEF Create, Waiting
  <2>3. /\ request.paths \in Requests /\ request'.id = s /\ request'.paths = request.paths
        /\ code' \in {500, 201}
    BY <2>1, <2>2, OperationFacts DEF RequestType, NoRequest
  <2>4. /\ s \notin DOMAIN stage /\ s \in DOMAIN stage'
        /\ DOMAIN file' = DOMAIN file \cup {<<s, l>> : l \in request.paths}
    BY <2>1, <2>3, StageFacts
  <2>5. \A l : <<s, l>> \notin DOMAIN file
    BY <2>4 DEF NoOrphanFiles, TypeOK, IsFileTable
  <2>6. FilesOf(file', s) = request.paths
    BY <2>3, <2>4, <2>5, ServiceAssumption DEF FilesOf
  <2> QED
    BY <2>3, <2>4, <2>6 DEF SuccessIsDone
<1>5. CASE CancelPaths
  <2> DEFINE s == request.id
             L == request.paths
  <2>1. Cancel(s, L) /\ UNCHANGED request /\ code' = 200 /\ request.operation = "CANCEL"
    BY <1>5 DEF CancelPaths, Answer, Waiting
  <2>2. L \subseteq FilesOf(file, s)
    BY <2>1 DEF Cancel
  <2>3. file' = UpdateStageFiles(file, s, L, "cancelled", clock)
    BY <2>1 DEF Cancel, Losses
  <2>4. \A l \in L : file'[<<s, l>>].state = "cancelled"
    BY <2>2, <2>3 DEF UpdateStageFiles, Moved, FilesOf, TypeOK, IsFileTable, FileRow
  <2> QED
    BY <2>1, <2>4 DEF SuccessIsDone
<1>6. CASE GoOn /\ code' = 200 /\ request'.operation \in {"DELETE", "CANCEL"}
  <2>1. /\ Continue /\ pc' = "idle" /\ UNCHANGED request /\ request.operation = "DELETE"
        /\ pc = "erase" /\ id = request.id
    BY <1>6, HandlerRuns DEF GoOn, Answer, Handling, Fresh
  <2>2. EraseEnd
    BY <2>1, HandlerRuns
  <2>3. DOMAIN stage' = DOMAIN stage \ {id} /\ UNCHANGED file /\ FilesOf(file, id) = {}
    BY <2>2, EraseFacts
  <2> QED
    BY <1>6, <2>1, <2>3 DEF SuccessIsDone, FilesOf
<1>7. CASE Arrive \/ BadRequest \/ StageNotFound \/ InvalidPaths \/ TakeOverNone \/ Reply
  <2>1. CASE Arrive
    BY <1>2, <2>1 DEF Arrive, Fresh
  <2>2. CASE BadRequest \/ StageNotFound \/ InvalidPaths \/ TakeOverNone \/ Reply
    BY <1>2, <2>2 DEF BadRequest, StageNotFound, InvalidPaths, TakeOverNone, Reply, Answer
  <2> QED
    BY <1>7, <2>1, <2>2
<1>8. CASE ReadOnly \/ QueryFails \/ Begin \/ GoOnFails \/ Die
  <2>1. code' \notin {200, 201} \/ (code' = 200 /\ request'.operation \notin {"DELETE", "CANCEL"})
    BY <1>8 DEF ReadOnly, QueryFails, Begin, GoOnFails, Die, Waiting, Answer, ErrorCode
  <2> QED
    BY <1>2, <1>3, <2>1
<1>9. CASE GoOn /\ ~(code' = 200 /\ request'.operation \in {"DELETE", "CANCEL"})
  BY <1>2, <1>3, <1>9 DEF GoOn, Answer
<1>10. CASE (World \/ Restart) /\ UNCHANGED own
  BY <1>1, <1>10, WorldFacts DEF Restart, own, db
<1>11. CASE UNCHANGED allVars
  BY <1>1, <1>11 DEF allVars, own, vars
<1> QED
  BY <1>4, <1>5, <1>6, <1>7, <1>8, <1>9, <1>10, <1>11 DEF HNext

\* A request that is answered with 200 or 201 has been carried out, whatever else fails,
\* if no statement of a cancellation fails within its transaction.
THEOREM SuccessesAreDone ==
  ASSUME "stmt" \notin Events
  PROVE  HSpec => []SuccessIsDone
<1>1. HInit => Fresh /\ RequestType /\ Handling /\ SuccessIsDone /\ RefusalChangesNothing
  <2>1. HInit => Fresh /\ RequestType /\ Handling /\ RefusalChangesNothing
    BY DEF HInit, Init, Fresh, RequestType, Handling, RefusalChangesNothing, NoRequest,
           Undecided
  <2>2. HInit => SuccessIsDone
    BY DEF HInit, SuccessIsDone, Undecided
  <2> QED
    BY <2>1, <2>2
<1>2. /\ TypeOK /\ NoOrphanFiles
      /\ (Fresh /\ RequestType /\ Handling /\ SuccessIsDone /\ RefusalChangesNothing)
      /\ [HNext]_allVars
      => (Fresh /\ RequestType /\ Handling /\ SuccessIsDone /\ RefusalChangesNothing)'
  BY NextRequestType, NextFresh, NextHandling, NextDone
<1> QED
  BY <1>1, <1>2, BehindRoutes, TypeCorrectness, NoOrphans, PTL DEF HSpec
=============================================================================
