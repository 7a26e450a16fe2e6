------------------------------ MODULE Database ------------------------------
(***************************************************************************)
(* The two SQLite tables of the service and the statements that            *)
(* SociDatabase runs on them (src/src/database_soci.cpp, sql_queries.hpp). *)
(*                                                                         *)
(* A table is a function whose domain is the set of its primary keys: a    *)
(* stage id for Stage, a stage id and a logical path for File.  Every      *)
(* operator below maps a table to the table after one transaction.  The    *)
(* columns `locality' (never read back) and the texts of the paths are     *)
(* left out.                                                               *)
(***************************************************************************)
EXTENDS Integers, FiniteSets

CONSTANTS StageId,       \* the UUIDs the service gives to stage requests
          LogicalPath,   \* the paths clients name, by their place in the
                         \* order of the primary key (ORDER BY logical_path)
          PhysicalPath   \* the paths they resolve to

\* Both std::sort and SQL order paths totally: a set of them has a least one.
ASSUME LogicalPathAssumption ==
  /\ LogicalPath \subseteq Nat
  /\ \A L \in SUBSET LogicalPath : L # {} => \E l \in L : \A k \in L : l <= k

Final == {"cancelled", "failed", "completed"}
State == {"submitted", "started"} \cup Final

StageRow == [created_at : Nat, started_at : Nat, completed_at : Nat]
FileRow  == [physical_path : PhysicalPath, state : State,
             started_at : Nat, finished_at : Nat]
FileKey  == StageId \X LogicalPath

\* A well-formed table: CREATE TABLE IF NOT EXISTS gives the columns and keys.
IsStageTable(t) == DOMAIN t \subseteq StageId /\ t \in [DOMAIN t -> StageRow]
IsFileTable(f)  == DOMAIN f \subseteq FileKey /\ f \in [DOMAIN f -> FileRow]

-----------------------------------------------------------------------------
(* Queries *)

\* The logical paths of a stage's files.
FilesOf(f, id) == {l \in LogicalPath : <<id, l>> \in DOMAIN f}

\* SELECT DISTINCT physical_path FROM File WHERE state = st
PathsIn(f, st) == {f[k].physical_path : k \in {j \in DOMAIN f : f[j].state = st}}

\* SELECT COUNT(DISTINCT physical_path) FROM File WHERE state = st
CountFiles(f, st) == Cardinality(PathsIn(f, st))

\* The results of the first query with LIMIT n: SQL promises no order, so any n.
GetFiles(f, st, n) ==
  {P \in SUBSET PathsIn(f, st) :
     \/ Cardinality(P) = n
     \/ P = PathsIn(f, st) /\ Cardinality(P) <= n}

-----------------------------------------------------------------------------
(* Updates of File *)

\* A row after UPDATE File SET state = st, ... with time point tp: a start sets
\* started_at, an end sets finished_at, and started_at if it was not set.
\* (For comparison: MovedKeepStart leaves started_at alone at the end, MovedSwapped
\* has the CASE on the other column.)
MovedKeepStart(row, st, tp) ==
  [physical_path |-> row.physical_path,
   state         |-> st,
   started_at    |-> IF st = "started" THEN tp ELSE row.started_at,
   finished_at   |-> IF st = "started" THEN row.finished_at ELSE tp]
MovedSwapped(row, st, tp) ==
  [physical_path |-> row.physical_path,
   state         |-> st,
   started_at    |-> tp,
   finished_at   |-> IF st = "started" \/ row.finished_at # 0 THEN row.finished_at ELSE tp]
Moved(row, st, tp) ==
  [physical_path |-> row.physical_path,
   state         |-> st,
   started_at    |-> IF st = "started" \/ row.started_at = 0 THEN tp ELSE row.started_at,
   finished_at   |-> IF st = "started" THEN row.finished_at ELSE tp]

\* The WHERE clause of an update by physical path: only a submitted file starts,
\* only a submitted or a started one ends, and submitted is never a target.
\* (For comparison: no condition on the old state; no end without a start; no
\* end after a start.)
MayAlwaysMove(old, new)    == new \in State \ {"submitted"}
MayEndStarted(old, new)    ==
  \/ new = "started" /\ old = "submitted"
  \/ new \in Final /\ old = "started"
MayEndSubmitted(old, new)  == new # "submitted" /\ old = "submitted"
MayMove(old, new) ==
  \/ new = "started" /\ old = "submitted"
  \/ new \in Final /\ old \in {"submitted", "started"}

\* A row after the update by physical path, for the rows of that path.
UpdatedRow(row, st, tp) ==
  IF MayMove(row.state, st) THEN Moved(row, st, tp) ELSE row

\* update(span<PhysicalPath>, state, tp): one state for several paths.
UpdatePaths(f, P, st, tp) ==
  [k \in DOMAIN f |->
     IF f[k].physical_path \in P THEN UpdatedRow(f[k], st, tp) ELSE f[k]]

\* update(span<pair<PhysicalPath, State>>, tp): a state per path, in net.
\* The rows of a path are updated in every stage that names it.
UpdatePathStates(f, net, tp) ==
  [k \in DOMAIN f |-> UpdatedRow(f[k], net[f[k].physical_path], tp)]

\* update(id, span<LogicalPath>, state, tp): no condition on the old state.
UpdateStageFiles(f, id, L, st, tp) ==
  [k \in DOMAIN f |->
     IF k[1] = id /\ k[2] \in L THEN Moved(f[k], st, tp) ELSE f[k]]

-----------------------------------------------------------------------------
(* Insertion and deletion *)

\* INSERT INTO Stage; INSERT INTO File for each file: one transaction.
InsertStage(t, id, row) ==
  [s \in DOMAIN t \cup {id} |-> IF s = id THEN row ELSE t[s]]
InsertFiles(f, id, rows) ==
  [k \in DOMAIN f \cup {<<id, l>> : l \in DOMAIN rows} |->
     IF k \in DOMAIN f THEN f[k] ELSE rows[k[2]]]

\* DELETE FROM File WHERE stage_id = id; DELETE FROM Stage WHERE id = id.
\* (For comparison: a deletion that spares the files still to end.)
EraseEnded(f, id) == [k \in {j \in DOMAIN f : j[1] # id \/ f[j].state \notin Final} |-> f[k]]
EraseFiles(f, id) == [k \in {j \in DOMAIN f : j[1] # id} |-> f[k]]
EraseStage(t, id) == [s \in DOMAIN t \ {id} |-> t[s]]
=============================================================================
