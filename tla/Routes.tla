------------------------------- MODULE Routes -------------------------------
(***************************************************************************)
(* The HTTP routes (src/src/routes.cpp), the requests they parse and the   *)
(* responses they make (src/src/io.cpp): what a client is told of a call   *)
(* on TapeService.  A request is answered when its handler has returned or *)
(* thrown, after what the handler has committed.                           *)
(***************************************************************************)
EXTENDS ServiceProperties

CONSTANT Forwarded   \* what the header Forwarded of POST /stage says of the port:
                     \* "port", or "overflow" if it has digits but is no int

\* A take-over that does not say how many files asks for one.
ASSUME RoutesAssumption ==
  /\ Forwarded \subseteq {"port", "overflow"}
  /\ 1 \in TakeOverSizes

VARIABLES
  request,  \* the request the worker thread is at, or NoRequest
  code,     \* the status code of its response, or Undecided
  written   \* it has changed the tables

own     == <<request, code, written>>
allVars == <<vars, own>>

OfStage == {"STATUS", "CANCEL", "DELETE", "RELEASE"}
HasPaths == {"STAGE", "CANCEL", "RELEASE"}
HasBody == HasPaths \cup {"ARCHIVEINFO", "TAKE_OVER"}
Operation == OfStage \cup HasBody \cup {"READY", "IN_PROGRESS"}

NoRequest == [operation |-> "none", id |-> NoStage, paths |-> {}]
Undecided == 0

\* A request about a stage has an id, of a stage that there is or not.
NewRequest ==
  {r \in [operation : Operation, id : StageId \cup {NoStage}, paths : Requests \cup {{}}] :
     /\ r.operation \notin OfStage <=> r.id = NoStage
     /\ r.paths \in IF r.operation \in HasPaths THEN Requests ELSE {{}}
     /\ r.operation = "STAGE" => DOMAIN stage # StageId}   \* bound: the stages there are

Arrive ==
  /\ pc = "idle" /\ request = NoRequest
  /\ request' \in NewRequest
  /\ UNCHANGED <<vars, code, written>>

Waiting(O) == pc = "idle" /\ code = Undecided /\ request.operation \in O

\* The route decides what to answer, or goes on.
Answer(c) ==
  /\ code' = c
  /\ written' = (written \/ db' # db)
  /\ UNCHANGED request

-----------------------------------------------------------------------------
(* Requests that change nothing *)

\* A body that is not what from_json() or from_body_params() expect is refused before
\* the service is called.
BadRequest == Waiting(HasBody) /\ UNCHANGED vars /\ Answer(400)

StageNotFound ==
  /\ Waiting(OfStage) /\ request.id \notin DOMAIN stage
  /\ UNCHANGED vars /\ Answer(404)

Owns == request.paths \subseteq FilesOf(file, request.id)

\* The paths that are not in the stage are told to the client; so are some that are,
\* when a path is repeated, or the two lists are in different orders (PathDifference).
\* (InvalidPathsApart, for comparison, cancels the others.)
FindsInvalid ==
  /\ Waiting({"CANCEL", "RELEASE"}) /\ request.id \in DOMAIN stage
  /\ Owns => request.paths # {}
InvalidPathsApart ==
  /\ FindsInvalid
  /\ Cancel(request.id, request.paths \cap FilesOf(file, request.id)) /\ Answer(400)
InvalidPaths == FindsInvalid /\ UNCHANGED vars /\ Answer(400)

ReadOnly ==
  /\ \/ Waiting({"RELEASE"}) /\ request.id \in DOMAIN stage /\ Owns
     \/ Waiting({"ARCHIVEINFO", "READY", "IN_PROGRESS"})
  /\ UNCHANGED vars /\ Answer(200)

\* No file is asked for ("first=0"), for which there is no vector to read into.
TakeOverNone == Waiting({"TAKE_OVER"}) /\ UNCHANGED vars /\ Answer(500)

-----------------------------------------------------------------------------
(* Requests that write *)

\* stage() has committed when the Location of the stage is made from the headers of
\* the request, which may throw.
Create ==
  /\ Waiting({"STAGE"})
  /\ \E s \in StageId, port \in Forwarded :
       /\ Stage(s, request.paths)
       /\ request' = [request EXCEPT !.id = s]
       /\ code' = IF port = "overflow" THEN 500 ELSE 201
  /\ written' = TRUE

CancelPaths ==
  /\ Waiting({"CANCEL"})
  /\ Cancel(request.id, request.paths) /\ Answer(200)

Begin ==
  /\ \/ Waiting({"STATUS"}) /\ StatusBegin(request.id)
     \/ Waiting({"DELETE"}) /\ EraseBegin(request.id)
     \/ Waiting({"TAKE_OVER"}) /\ \E n \in TakeOverSizes : TakeOver(n)
  /\ Answer(Undecided)

GoOn ==
  /\ request # NoRequest
  /\ Continue /\ pc' # "down"
  /\ Answer(IF pc' = "idle" THEN 200 ELSE Undecided)

-----------------------------------------------------------------------------
(* Failures *)

\* What is answered when the database fails: erase() says that there is no such stage.
\* (ErrorOrDone, for comparison, ignores what erase() returns.)
ErrorOrDone == IF request.operation = "DELETE" THEN 200 ELSE 500
ErrorCode == IF request.operation = "DELETE" THEN 404 ELSE 500

\* A transaction, or a statement before the first change, fails.
QueryFails ==
  /\ "db" \in Events /\ Waiting(Operation \ {"ARCHIVEINFO"})
  /\ UNCHANGED vars /\ Answer(ErrorCode)
GoOnFails == request # NoRequest /\ DatabaseError /\ Answer(ErrorCode)

\* The request goes with the process.
Die ==
  /\ Crash \/ StatusOfNoFiles
  /\ request' = NoRequest /\ code' = Undecided /\ written' = FALSE

-----------------------------------------------------------------------------
\* after_handle() writes a line of the access log, then the response is sent.
Reply ==
  /\ code # Undecided
  /\ request' = NoRequest /\ code' = Undecided /\ written' = FALSE
  /\ UNCHANGED vars

HInit == Init /\ request = NoRequest /\ code = Undecided /\ written = FALSE

HNext ==
  \/ Arrive
  \/ BadRequest \/ StageNotFound \/ InvalidPaths \/ ReadOnly \/ TakeOverNone
  \/ Create \/ CancelPaths \/ Begin \/ GoOn
  \/ QueryFails \/ GoOnFails \/ Die
  \/ Reply
  \/ (World \/ Restart) /\ UNCHANGED own

HSpec == HInit /\ [][HNext]_allVars

-----------------------------------------------------------------------------
(* What is expected of the routes *)

\* A request that is refused, because its body is wrong, its stage unknown or its
\* paths not in the stage, has changed nothing: "No modification has been made to
\* this request" (io.cpp:95).  The failure of the second statement of erase(), which
\* is also answered with 404, is excepted.
RefusalChangesNothing ==
  written /\ code \in {400, 404} => request.operation = "DELETE" /\ request.id \in DOMAIN stage

\* A request that is answered with success has been carried out: the stage is there
\* with the files asked for, or it and all its files are gone, or these are cancelled.
\* (A statement of a cancellation that fails is ignored: not with "stmt".)
SuccessIsDone ==
  LET s == request.id IN
  /\ code = 201 => s \in DOMAIN stage /\ FilesOf(file, s) = request.paths
  /\ code = 200 /\ request.operation = "DELETE" =>
       s \notin DOMAIN stage /\ FilesOf(file, s) = {}
  /\ code = 200 /\ request.operation = "CANCEL" =>
       \A l \in request.paths : file[<<s, l>>].state = "cancelled"
=============================================================================
