------------------------------- MODULE Listing -------------------------------
(***************************************************************************)
(* TapeService::in_progress() (src/src/tape_service.cpp): the list of the  *)
(* files being recalled, made by calling status() for every incomplete     *)
(* stage.  It is a handler that calls another one, many times: each of     *)
(* these writes the tables, while GEMSS and the users of the disk go on    *)
(* and what the calls before it have found gets old.                       *)
(***************************************************************************)
EXTENDS ServiceProperties

VARIABLES
  listing,  \* in_progress() is running
  ids,      \* the stages it has still to ask the status of
  paths,    \* the paths it has collected
  begun     \* the files that were started when it was called

own     == <<listing, ids, paths, begun>>
allVars == <<vars, own>>

StartedFiles == {k \in DOMAIN file : file[k].state = "started"}

\* SELECT id FROM Stage WHERE completed_at = 0
find_incomplete_stages == {s \in DOMAIN stage : stage[s].completed_at = 0}

InProgressBegin ==
  /\ pc = "idle" /\ ~listing
  /\ listing' = TRUE
  /\ ids' = find_incomplete_stages /\ paths' = {}
  /\ begun' = StartedFiles
  /\ UNCHANGED vars

\* std::transform_reduce takes the stages in any order.
TransformBegin(s) ==
  /\ listing /\ s \in ids
  /\ StatusBegin(s)
  /\ UNCHANGED own

\* The status of one of them goes on.
TransformStep ==
  /\ listing
  /\ \E l \in LogicalPath : StatusXattr(l) \/ StatusStat(l)
  /\ UNCHANGED own

\* The paths of the files that are started, unless the stage results complete.
\* (SubmittedPaths, for comparison, takes the files that still wait.)
PathsInMemory(state) ==
  {file[<<id, l>>].physical_path : l \in {k \in FilesOf(file, id) : mem[k] = state}}
SubmittedPaths == PathsInMemory("submitted")
StartedPaths == PathsInMemory("started")

\* The stages left to ask.  (StillIncomplete, for comparison, asks until they are complete.)
StillIncomplete == IF stage'[id].completed_at = 0 THEN ids ELSE ids \ {id}
Left == ids \ {id}

Collect ==
  /\ listing
  /\ StatusCommit
  /\ ids' = Left
  /\ paths' = IF stage'[id].completed_at # 0 THEN paths ELSE paths \cup StartedPaths
  /\ UNCHANGED <<listing, begun>>

Leave == listing' = FALSE /\ ids' = {} /\ paths' = {} /\ begun' = {}

InProgressEnd ==
  /\ listing /\ pc = "idle" /\ ids = {}
  /\ Leave
  /\ UNCHANGED vars

\* An error of the database is thrown through in_progress().
InProgressThrow ==
  /\ listing
  /\ DatabaseError \/ Crash \/ StatusOfNoFiles
  /\ Leave

-----------------------------------------------------------------------------
LInit == Init /\ listing = FALSE /\ ids = {} /\ paths = {} /\ begun = {}

ContinueListing ==
  \/ \E s \in StageId : TransformBegin(s)
  \/ TransformStep \/ Collect \/ InProgressEnd

\* While it runs no other handler does.
LNext ==
  \/ InProgressBegin
  \/ ContinueListing
  \/ InProgressThrow
  \/ listing /\ World /\ UNCHANGED own
  \/ ~listing /\ Next /\ UNCHANGED own

LSpec == LInit /\ [][LNext]_allVars

\* As Fairness, the calls that others make having to wait for the list.
LFairness ==
  /\ WF_allVars(ContinueListing \/ (~listing /\ Continue /\ UNCHANGED own))
  /\ \A s \in StageId : SF_allVars(~listing /\ StatusBegin(s) /\ UNCHANGED own)
  /\ SF_allVars(/\ ~listing /\ ReadyTakeOver > 0
                /\ \E n \in TakeOverSizes : TakeOver(n)
                /\ UNCHANGED own)
  /\ \A p \in PhysicalPath : WF_allVars(Gemss(p) /\ UNCHANGED own)

LFairSpec == LSpec /\ LFairness

-----------------------------------------------------------------------------
(* What is expected of it *)

\* A file that was started when in_progress() was called and is still so when it
\* returns is in its list, though the stages are asked one after the other, the
\* answer for one updates the rows of the others, and stages that result complete
\* are passed over.  find_incomplete_stages() says that "the important thing is that
\* the result includes all incomplete stages" (database_soci.cpp:164-169).
NoneMissed ==
  listing /\ pc = "idle" /\ ids = {} =>
    \A k \in begun \cap StartedFiles : file[k].physical_path \in paths

\* The list is made in the end, whatever GEMSS and the users do meanwhile.
ListingEnds == listing ~> ~listing
=============================================================================
