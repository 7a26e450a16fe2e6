# StoRM Tape in TLA+

StoRM Tape is an HTTP service that fronts a tape-backed file system.  Clients ask
it to *stage* files, that is to bring them back from tape, and poll for progress;
GEMSS, the system that moves data between disk and tape, polls it for files to
recall.  The service keeps its requests in SQLite and learns everything else from
`stat` and two extended attributes of the files.

This directory holds a model of that program, the properties it is expected to
have, TLC configurations that check them on small instances, and proofs of the
most important ones for every instance.  Line numbers refer to `src/src/` unless
another directory is named.

1. [The system](#1-the-system)
2. [The modules](#2-the-modules)
3. [How the code becomes actions](#3-how-the-code-becomes-actions)
4. [The runs](#4-the-runs)
5. [Fairness and progress](#5-fairness-and-progress)
6. [The proofs](#6-the-proofs)
7. [Where the code and its texts part](#7-where-the-code-and-its-texts-part)
8. [What is not modelled](#8-what-is-not-modelled)
9. [Plan](#9-plan)

## 1. The system

### Components

| Component | State it keeps | Operations | What makes it correct |
|---|---|---|---|
| Tape service (`tape_service.cpp`) | none between calls | `stage`, `status`, `cancel`, `erase`, `release`, `archive_info`, `take_over`, `ready_take_over`, `in_progress` | what it answers is what it stores; a file is handed to GEMSS once; a stage ends |
| Database (`database_soci.cpp`, `sql_queries.hpp`) | tables `Stage` and `File` | `insert`, `find`, four forms of `update`, `get_files`, `erase`, queries | states only move forward; no file without stage; stage and file rows agree |
| Stage request (`stage_request.cpp`, `file.hpp`) | the request in memory | `update_timestamps` | times tell the states |
| Storage (`local_storage.cpp`) | none: the files on disk | `is_in_progress`, `file_size_info`, `is_on_tape`, `create_xattr` | readings are classified as documented, errors included |
| Extended attributes (`extended_attributes.cpp`) | none | `create_xattr`, `set_xattr`, `get_xattr`, `has_xattr`, `list_xattr_names`, `remove_xattr` | what they return the file has had, though it changes between their calls |
| Storage areas (`configuration.cpp`, `storage_area_resolver.cpp`) | the configuration, read once | `load_configuration`, the resolver | the longest access point wins, in any order |
| HTTP routes and JSON (`routes.cpp`, `io.cpp`) | the request at hand | one route per operation | what is refused has changed nothing, what is granted is done |
| Server (`main.cpp`) | the process | start, stop | one worker thread (`main.cpp:54-58`) |
| Access log (`access_logger.cpp`) | a line per request | `after_handle` | the line is written before the response is sent |
| Profiler | timings | — | diagnostics only |
| *GEMSS* (external) | the recalls it holds | polls `take_over`, restores data, removes marks | — |
| *Users, disk manager* (external) | the files | write, delete, migrate, purge, read a stub | — |

### How they interact

A client's `POST /stage` resolves each logical path to a physical path, looks at
it, and inserts a row of `Stage` and one of `File` per path, in one transaction.
Files are **submitted**, or **failed** at once if they are not regular files.
`take_over` gives GEMSS submitted files that are only on tape, marks them with the
attribute `user.TSMRecT`, and makes them **started**.  GEMSS writes the data back
and takes the mark off.  Nobody tells the service: when a client polls, `status`
looks at every file that has not ended and concludes from the mark and from its
blocks what became of it — **completed**, **failed**, still started.  It then
updates the rows *by physical path*, in every stage that names the path, and
computes the times of the stage.  `cancel` makes rows **cancelled** whatever they
were; `erase` deletes a stage.

The shared state is therefore: the two tables, written by every call; the files on
disk, changed by GEMSS, users and the service (which only sets the mark); and the
set of recalls GEMSS holds, which the service cannot see except through the mark.

### What is hard

* **Time of check, time of use.**  `status` and `take_over` read the disk file by
  file, several calls each, and write the tables at the end.  GEMSS, users and the
  clock go on in between.
* **One path, many rows.**  Updates of one stage reach the rows of others, and of
  other names of the same file in the same stage, each in its own state.
* **Two-phase hand-over.**  Mark, update, response: an error or crash between
  them leaves the disk, the tables and GEMSS with different beliefs.
* **Partial failure.**  A failed statement inside a transaction is logged and the
  transaction commits; `erase` is two statements without a transaction; errors of
  the file system are values.
* **Answers after the fact.**  The response is made when the tables have been
  written, out of headers that may be wrong, and may get lost.
* **A clock that others set.**  Times are compared with each other, and time 0 means
  "not set".
* **Liveness through polling.**  A file only ends if somebody looks at it again.
* **Orders.**  `std::set_difference` on two ranges sorted by different orders;
  `std::transform_reduce`, whose order is not specified; `LIMIT` without `ORDER BY`.

`PROJECT.json` lists these hazards line by line, each with the properties that
would catch it going wrong.

## 2. The modules

| Module | What it is |
|---|---|
| `Database` | The tables as functions on their primary keys, and the statements and transactions as operators from table to table. |
| `StageRequest` | `update_timestamps`. |
| `Storage` | A file on disk as a record (data, tape attribute, recall mark) and each reading as the *set* of results it may give. |
| `TapeService` | The system: service, tables, disk, GEMSS, clock, failures.  Extends the three above. |
| `StageLifecycle` | Abstract specification: what the service promises of a stage, with no disk, handler or recall in it. |
| `ServiceProperties` | Everything expected of `TapeService`, and the refinement mapping to `StageLifecycle`. |
| `Listing` | `in_progress()` without arguments: a handler that calls `status` for one stage after the other.  Composes with `TapeService`: while it runs, its steps are steps of that module. |
| `Routes` | The HTTP routes on top of `TapeService`: requests, refusals, failures, status codes and lost responses. |
| `ExtendedAttributes` | The functions on extended attributes, one call of the system per step, and the check of a root that uses them. |
| `PathDifference` | The path check of `cancel` and `release`, `std::set_difference` step by step. |
| `Resolver` | The checks of the storage areas and the resolver. |
| `MCTapeService`, `MCListing`, `MCRoutes`, `MCPathDifference`, `MCResolver`, `MCExtendedAttributes` | Instances for TLC. |
| `TapeServiceProofs`, `SafetyProofs`, `TimesProofs`, `RecallProofs` (`Listing` as well), `RoutesProofs`, `PathDifferenceProofs`, `ResolverProofs`, `ExtendedAttributesProofs` | Theorems and their proofs. |

`TapeService` takes any set `Resolutions` of functions from logical to physical paths,
one for each configuration it may be started with, two names of one file included, and
any subset of a stage's files as a `cancel` that passes the check; `Resolver` and
`PathDifference` say which functions and which check, and are otherwise independent of
it.  `ExtendedAttributes` says what the mark of `Storage` is made of: its property
`MarksAsInStorage` compares its `has_xattr` and `create_xattr`, on a file with its
attributes, with those of `Storage`, where the mark is a Boolean.  The names that begin
with a capital and are followed in a comment by "for comparison" (`MayAlwaysMove`, `SameLoose`, …)
are wrong variants of the operators next to them: substituted for the right one
they must violate a property, which shows that the property depends on that code.

### Variables of `TapeService`

| Variable | In the program |
|---|---|
| `stage`, `file` | the rows of the tables; keys are stage ids and ⟨stage id, logical path⟩ |
| `disk` | what is there by physical path: `absent`, `empty`, `stub` (fewer blocks than bytes) or `full`; a regular file or something else, such as a directory; on tape or not; marked or not |
| `gemss` | the paths GEMSS was asked to recall and still holds |
| `clock` | `std::time(nullptr)`; time 0 in a row means "not set", as in the code |
| `pc`, `id`, `now` | the running handler's position, its stage, its time point |
| `mem`, `todo` | `status`: the states in `stage.files`, and the files the loop has still to visit |
| `grp` | `take_over`: the span each path has been sorted into |

`Listing` adds `listing`, `ids` and `paths`, the variables of `in_progress()`, and
`begun`, the files that were started when it was called; `Routes` adds the request at
hand, the `code` of its response, and whether it has `written`.

A logical path is a number, its place in the order of the primary key, because
`status` visits files and issues updates in that order.

## 3. How the code becomes actions

Crow runs with one worker thread, so handlers do not interleave with each other;
they do interleave with GEMSS, users and the clock at every call on the file
system, and can be cut short at every transaction.  The steps are cut there:

| Code | Actions |
|---|---|
| `stage` (`tape_service.cpp:31-65`) | `Stage` |
| `status` (213-282) | `StatusBegin`; per file `StatusXattr`, `StatusStat`; `StatusCommit` or `StatusOfNoFiles` |
| `cancel` (284-315) | `Cancel`, with the check in `PathDifference` |
| `erase` (317-326) | `EraseBegin`, `EraseEnd` (two statements, no transaction) |
| `take_over` (456-530) | `TakeOver`, `SelectInProgress`, `UpdateInProgress`, `UpdateOnDisk`, `UpdateTheRest`, `CreateXattr` per file, `UpdateNeedRecall` |
| `in_progress()` (579-597) and `get_paths_in_progress` (537-568) | in `Listing`: `InProgressBegin`, per stage `TransformBegin`, `TransformStep`, `Collect`; `InProgressEnd`, `InProgressThrow` |
| `archive_info` (359-399), `ready_take_over`, `in_progress` with a request | the operators `archive_info`, `ReadyTakeOver`, `InProgress` |
| the routes (`routes.cpp:25-227`) | in `Routes`: `Arrive`; `BadRequest`, `StageNotFound`, `InvalidPaths`, `ReadOnly`, `TakeOverNone`, or `Create`, `CancelPaths`, `Begin` and `GoOn`; `QueryFails`, `GoOnFails`, `Die`; `Reply` |
| `get_xattr` (`extended_attributes.cpp:63-89`), `list_xattr_names` (133-159) | `GetXattr`, `GetSize`, `GetAgain`; `ListXattrNames`, `ListAgain` |
| `storm_has_all_permissions` (`configuration.cpp:51-91`) | `ProbeOpen`, `ProbeRead`, `ProbeCreate`, `ProbeHas`, `Guard` |
| a transaction that fails, a crash, a start | `DatabaseError`, `Crash`, `Restart` |
| outside the program | `GemssRestore`, `GemssEnd`, `GemssMark`, `OtherRecall`, `ChangeOnDisk`, `Tick` |

Where one action stands for several calls, no result is lost:

* `Stage` looks at every file once, with one `stat` each.  Looking at one path and a
  change of another commute, so all readings can be taken at one moment, and the
  times of failed files are chosen freely between its start and its end.  Two
  names of *one* path could be looked at on both sides of a change; that is only
  in the model where readings may fail at will (`io`).
* `locality` makes up to three readings of one file: `stat`, the mark, the tape
  attribute.  The `CASE` of `Storage` gives the result for readings taken together.  If
  the file changes once in between, whichever mixture is read gives the locality it has
  before or after the change.  (A file deleted and written anew between two readings of
  one call is left out.)
* In `Routes` a `status` or a `take_over` that a client asks for goes through the same
  steps as in `TapeService`; `Create` is the whole of POST /stage up to its response,
  since nothing that others do can come between its commit and that.
* `TakeOver` and `SelectInProgress` read several paths; again readings of
  different paths commute.

What may happen besides the calls is the constant `Events`, so that every run says
what it stands: `write`, `delete`, `migrate`, `purge` and `recall` (users and the
disk manager), `crash`, `lost` (a response), `db` (a transaction), `stmt` (one
statement in a transaction that commits), `io` and `xattr` (calls on the file
system), `tape` (an unreadable tape), `clock` (the clock is set back, also while a
handler runs).  `MirrorMode` is `mirror-mode` of the
configuration: the service then sets no marks and something else does, later.

*Restarts.*  What a start may change is the configuration, of which only the resolution
of paths matters to the tables, and only to `Stage`.  The model therefore lets `Stage`
choose among `Resolutions`: any number of restarts between two calls shows in nothing
else.  `Crash` and `Restart` are for the end of the process in the middle of a call.

*Errors.*  `Losses` is the set of updates that an error inside a transaction
loses: `update(path, …)` catches (269-272 of `database_soci.cpp`), returns false,
and its callers do not look.  A transaction that cannot begin or commit throws to
the route, which answers 500; what was in memory is gone.

*Stages without files.*  `stage` accepts an empty list and `erase` cut short
leaves such a stage.  `update_timestamps` then calls `back()` and `front()` on an
empty vector; its data pointer is null, so the read is of address zero or just below,
and the process ends: `StatusOfNoFiles`.  It does not when both times are set,
which happens when a complete stage is half erased: `ReadsNoFile`.

`MemFiles` and `NetState` are where two views of one file meet.  `status` keeps a
vector of files in memory, by logical path, and issues conditional updates by
physical path; `NetState` is the composition of these updates on one row (the first
final state wins), `MemFiles` what `update_timestamps` sees.  Most of the properties
of stages are about the two being compatible.

## 4. The runs

Passing runs:

| Run | Instance | Question |
|---|---|---|
| `tables` | 2 stages, 1 file, empty stages too, lists of what is in progress, 1 second, every event but `stmt` and `clock` | Are the tables consistent, do stages live the abstract life, and is no list incomplete, whatever fails? |
| `names` | 2 stages, 2 names of one file, the second of which may be given a file of its own by a restart, mirror mode; `purge`, `tape` | Do updates by path keep all the rows of a file, of one stage or two, in agreement? |
| `files` | 1 stage of up to 2 files, 2 seconds, `delete`, `purge`, `recall`, `crash`, `db`, `io` | Are answers what is stored, and times right, when one file changes while the other is looked at? |
| `recall` | 2 stages, 1 file, lists of what is in progress, fair; `migrate`, `purge`, `delete`, `tape` | Do the service and GEMSS agree on who recalls what, and does every stage and every list end? |
| `requests` | 2 stages of up to 2 names of one file, or of none, made and deleted again and again, every kind of request, a Location that may not be made; `delete`, `lost`, `db`, `crash` | Is what the status code says of the tables true? |
| `attributes` | 1 file with up to 2 attributes of up to 3 bytes, any call may fail | Do the functions return what the file has had, and is the mark what the other modules take it for? |
| `paths` | requests and stages of up to 4 of 4 paths, two different orders | Does the path check let strangers through, and is it exact? |
| `areas` | up to 2 areas of up to 2 of 5 access points, 2 roots, 8 requests | Does the longest access point win, and does the configuration exclude ties? |

Why each property is there:

* `CompletedStageIsFinal` (`tables`, `names`, `files`): a stage with `completed_at`
  has only files that have ended.  `completed_at` comes from memory, the rows from
  conditional updates: any disagreement shows here.
* `FinalIsForever` (`tables`, `names`): only a cancellation changes a row that has
  ended, although updates reach rows of other stages read by nobody.
* `AnswerIsStored` (`tables`, `names`, `files`): the state that the table has of a file
  after `status` is the one that was answered of it, or of another name of the same file;
  and if the answer is final so is the row.  Two names of one file may get two answers,
  since the file may go between the two looks: the first of them to end is stored for both.
* `TimesTellState` (`names`): a row's times are set exactly when its state says so,
  after any mix of `cancel`, `status` and `take_over`; and the same is true of the files
  in memory, whose times `update_timestamps` takes for those of the stage.  Two comments
  of `take_over` say otherwise of files it completes or fails (section 7).
* `TimesAreOrdered` (`files`): while the clock is not set back, no file ends before it
  starts, though the two times may come from handlers that read the clock at different
  points, before or after they look at the disk.
* `StageStartIsEarliest`, `LateEndIsCancelled` (`files`): the stage's times, computed
  once, stay right while files go on.
* `EndIsShared` (`names`): when a path is found to have ended for one stage, all rows
  of it that had not ended end alike, under every name and in every stage; also those of
  stages made under another configuration, which have the path they were made with.
* `NoOrphanFiles` (`tables`): SQLite does not enforce the foreign key.
* `ImplementsLifecycle` (`tables`): refinement of `StageLifecycle`.
* `NoneMissed` (`tables`): each call of `status` that a list is made of writes
  the rows of other stages, so that what earlier calls have found gets old and stages
  result complete before their turn; still no file that is started all the time is
  missed.
* `PreciseIsHeld`, `HandoutIsFresh`, `FailedIsNotHeld` (`recall`): what the service
  lists as in progress, when asked to be precise, GEMSS holds; GEMSS is not handed
  what it holds; a file is not failed while GEMSS holds it.  (`StartedIsHeld`, of
  the run `interrupted`, follows from the first.)
* `ConclusionIsShown` (`recall`): `status` and `archive_info` go by different readings;
  a client that asks both is told the same.
* `StageCompletes`, `ListingEnds` (`recall`): see the next section.
* `RefusalChangesNothing`, `SuccessIsDone` (`requests`): what the status code says of the
  tables is true, for every way through every route.
* `GetIsHeld`, `ListIsHeld` (`attributes`): size and contents are read by different calls
  of the system, and the attribute changes in between.
* `MarksAsInStorage` (`attributes`): of the errors of `getxattr` only `ENODATA` is a no; a
  mark is set on what is there only, once, and not if the call fails.
* `NoStrangerAccepted`, `InvalidIsExact` (`paths`): whatever the two orders,
  all strangers are in the answer and only paths that were asked for; if both lists
  increase in one order, exactly the strangers.
* `NoTies`, `ResolvesToLongest` (`areas`).

Runs that find a disagreement (section 7): `interrupted`, `deleted`, `nofiles`,
`other_order`.

### Bounds

* *Stages.*  Two: every interaction between stages is of the one a handler runs for
  with another that shares a path; stages are symmetric.  One in `files`,
  which is about what happens within a stage.
* *Files.*  Two in `files`: one that has been looked at and one that has not.  One
  physical path in `tables`, `recall` and `requests`, since what shares a path is what
  interacts; two in `names`, where a name changes from one to the other.
* *Seconds* (`MaxTime`).  Two where times are compared, so that "before", "equal" and
  "after" all occur, also within one handler; one elsewhere.
* *Requests.*  The empty one in `tables` and `requests`; `{1}` and `{1, 2}`, so that a
  request, and a cancellation, is of a part of the files or of all.
* *Paths.*  Lists of four: on each side of a match something greater and something
  less; the two orders differ on two of the paths.
* *Areas.*  Two areas of two access points tie, nest and cross in all the ways three
  could pairwise; the reduction has three elements, the initial value included, so
  that its order can vary.
* *Attributes.*  Values of up to three bytes for a string that holds one: the first call
  suffices, or not, and the value may grow and shrink between the others.  Two names, so
  that one may come as the other goes.

In `tables`, `names`, `recall` and `requests` the clock has one value: how times compare
is left to `files`, and a clock that is set back to the theorems.
`stmt` is in none of the passing runs since it breaks `CompletedStageIsFinal` (section 7).
`Forwarded` has both values in `requests`: with the header that is refused a client gets 500
for a stage that has been made, of which the properties of `requests` say nothing.

## 5. Fairness and progress

`StageCompletes` says that every stage that exists is, in the end, complete, without
files, or deleted.  It holds under `FairSpec`:

* weak fairness of `Continue`: the one worker thread runs on;
* strong fairness of `StatusBegin(s)` for each stage: its client polls, and requests
  are served in the order they come — not weak, because the action is disabled
  while any handler runs;
* strong fairness of `TakeOver` when `ReadyTakeOver` is positive, for the same reason:
  GEMSS polls, and asks for files if the service says that it has some;
* weak fairness of `Gemss(p)`: a recall that GEMSS holds ends, well or not.

In `recall` it is checked under `LFairSpec` of `Listing`, which says the same of a
service that also makes lists: the worker runs on, in a list or in another handler, and
a poll has to wait until a list is made.  `ListingEnds` follows if the stages to ask are
fixed when the list begins; it would not if those still incomplete were asked again.

Nothing is assumed of users, clients' other calls, the clock, or failures.  The premise
`NoNewStage` (from some time on no stages are made) is necessary: a file that cannot
be recalled is marked again each time a new stage is handed over, and if an old stage
is only polled at those times it stays started for ever.  `PathDifference`, `Resolver`,
`Routes` and `ExtendedAttributes` are checked for safety only.

Deadlock is checked in the runs of `TapeService`, `Listing`, `Routes` and
`ExtendedAttributes` (a poll is always possible, or a restart).  It is not in `paths`,
`other_order` and `areas`: the search of a path list ends, and a server whose
configuration is rejected does not start.

## 6. The proofs

All theorems are for arbitrary sets of stages, paths and requests, any `Resolutions`, clock
bound and `Events`, in particular for everything the bounds of the runs leave out.
Assumptions: `LogicalPathAssumption` (paths are totally ordered and each non-empty set
has a least one), `ServiceAssumption`, `RoutesAssumption`, `PathAssumption`,
`ResolverAssumption`, `AttributesAssumption` (a file may only have finitely many names of
attributes, of bounded length), `NoFileAssumption`: that the constants are of the kind the
comments say.  TLC evaluates them in every run.

| Theorem | Statement | Argument |
|---|---|---|
| `TypeCorrectness` | `Spec => []TypeOK` | `TypeOK` is inductive: besides types it ties what a handler has in memory to the tables (its stage exists, the files still to visit have not ended, `erase` has left no file, a writer has read the clock).  Without these, `StatusCommit` would not be known to write to rows that exist. |
| `NoOrphans` | `Spec => []NoOrphanFiles` | Inductive with `TypeOK`; the case that matters is `EraseEnd`, by the conjunct on `pc = "erase"`. |
| `CompletedIsFinal` | `Spec /\ "stmt" \notin Events => []CompletedStageIsFinal` | If `update_timestamps` finds all files in memory final, then for each of them either its row was final or its path's net update is, and no conditional update leaves a row of that path not final (`NetStateFacts`, `UpdatePathStatesFacts`). |
| `FinalLasts` | `Spec => FinalIsForever` | Per action: conditional updates leave final rows, `cancel` writes `cancelled`, insertions keep what is there. |
| `TimesTell` | `Spec => []TimesTellState` | Invariant: every row has the times of its state (`RowsHaveTimes`), and a file in memory is either in the state of its row or ahead of it (`MemIsAhead`): a handler never takes back a state the row has reached. It takes times as set or not, so that the clock plays no part in it. |
| `Refinement` | `Spec /\ "stmt" \notin Events => ImplementsLifecycle` | Each action is `Accept`, `Advance`, `GiveUp`, `Drop`, `Remove` of the abstract life, or a stutter; uses the three invariants above. |
| `EndsTogether` | `Spec => EndIsShared` | Per action: only the updates by path fail or complete a row, they reach every row of the path, and the condition on the state passes over ended rows only. |
| `AnswersAreStored` | `Spec /\ "stmt" \notin Events => AnswerIsStored` | `MemIsAhead`, and what the conditional updates of one path come to (`NetStateOfNames`): the first final state concluded of one of its names, which every row of the path that has not ended admits. |
| `EachAnswerIsStored` | the same with the very name, if no resolution gives two logical paths one physical path | Invariant `OwnPaths`: the files of a stage have different physical paths. |
| `TimesInOrder` | `Spec /\ "clock" \notin Events => []TimesAreOrdered` | Invariant `TimesArePast`: every time in a row, and the `now` of the handler, is at most the clock; and a handler that has yet to write has read the clock after every start it may end (`Writing`). |
| `LateEnds` | `Spec /\ "stmt" \notin Events => []LateEndIsCancelled` | The commit that completes a stage takes the end of the last of its files; afterwards only `cancel` moves them (`CompletedStageIsFinal`).  Holds for a clock that is set back as well. |
| `StartIsEarliest` | `Spec /\ Events \cap {"stmt", "clock"} = {} => []StageStartIsEarliest` | Invariant `StartIsOfFiles` with `StagesArePast`: whatever starts later starts no earlier than the clock, which is past the start of the stage. |
| `ListedIsHeld` | `Spec /\ Events \cap {"crash", "db", "lost"} = {} => []PreciseIsHeld` | Invariant `MarksAreHeld`: a mark GEMSS does not know of is one that the running `take_over` has just made. |
| `StartedAreHeld` | `Spec /\ Events \cap {"crash", "db", "lost"} = {} => []StartedIsHeld` | The same invariant.  These three are the causes of what the run `interrupted` finds, and there is no other. |
| `HandoutsAreFresh`, `FailuresAreNotHeld` | `Spec /\ Undisturbed =>` `[]HandoutIsFresh`, `FailedIsNotHeld` | `Undisturbed` is: not in mirror mode, none of the events `write`, `recall`, `io`, `xattr`; crashes, database failures and lost responses are admitted.  Invariant `HeldAreMarked`: what GEMSS holds carries its mark, unless deleted.  So a path seen without mark is free, and stays so until the next hand-over (`PathFacts`), in the groups of `take_over` (`GroupsAreFree`) and in the memory of `status` (`FailuresAreFree`). |
| `ConclusionsAreShown` | `Spec /\ Readable => ConclusionIsShown` | `Readable` is `Undisturbed` without `xattr`: whether marks can be set does not matter.  Invariants: the second reading of `status` is of a file that had no mark in the first and gets none (`StatIsUnmarked`); only files with data are marked (`MarkedHasData`), since `take_over` sorts empty ones out (`GroupsHaveData`). |
| `CompletedAreOnDisk` | `Spec /\ "delete" \notin Events => CompletedIsOnDisk` | Invariant `WaitingArePresent`: a file that has still to end is there, since it was when it was staged.  So deletion is the only cause of what the run `deleted` finds, in mirror mode and with every other event too. |
| `StatusesAnswer` | `Spec /\ Events \cap {"crash", "db"} = {} => []StatusAnswers`, if `{} \notin Requests` | Invariant `StagesHaveFiles`: only the stage that `erase` is at is without files, and nothing comes between its two statements (`ErasingSteps`).  Empty requests and deletions cut short are the only causes of what `nofiles` finds. |
| `NoneIsMissed` | `LSpec /\ "stmt" \notin Events => []NoneMissed` | First `LSpec => Spec` (`Composition`): each step of a list is one of the service.  Invariant: a file that was started at the beginning and still is belongs to a stage not yet asked or has its path collected.  For the stage just asked: a row that stays started was so in memory, and then the stage has not resulted complete (`CollectCovered`). |
| `BehindRoutes` | `HSpec => Spec` | Each step of the routes is one of the service or leaves it alone, so all theorems about `Spec` hold behind the routes. |
| `RefusedIsUntouched` | `HSpec => []RefusalChangesNothing` | Invariant: a request that has written is not of a kind, or not in a phase, that can still be refused. |
| `SuccessesAreDone` | `HSpec /\ "stmt" \notin Events => []SuccessIsDone` | A cancellation takes one step; a handler of several steps belongs to a request of another kind (`Handling`), and a deletion is answered by its second statement.  Uses `NoOrphanFiles` for a new stage: its id has no files yet. |
| `NoStranger` | `DSpec => []NoStrangerAccepted` | Invariant: each path passed over in the request is in the stage or invalid.  Needs no order at all. |
| `Exact` | `DSpec => []InvalidIsExact` | Invariant for the strangers: each path passed over is in the stage or invalid, whatever the orders.  Invariant `Apart` (for lists increasing in one order): nothing invalid is in the stage, because whatever the second range has passed is less than what the first has left. |
| `ForeignIfAlike` | `DSpec => [](SortedAlike => InvalidIsForeign)` | The same invariant: what the run `other_order` finds comes of the two orders or of a path that is repeated, and of nothing else. |
| `DifferenceTypes` | `DSpec => []DTypeOK` | Inductive. |
| `TiesNever` | `RSpec => []NoTies` | Invariant `TieFree`: results in hand are matches by access points of accepted areas; two prefixes of one path with the same length are equal, and no two areas share an access point. |
| `LongestWins` | `RSpec => []ResolvesToLongest` | Invariant `Reached`: for each access point that is a prefix of the path there is a result in hand at least as long.  For one area this needs a first greatest element of finitely many sizes (`FirstOfTheGreatest`, from the well-foundedness of the naturals); a step of the reduction keeps the longer of two.  The last result is then a longest match, and the only one, as above. |
| `ResolverTypes` | `RSpec => []RTypeOK` | With `TieFree`: an answer joins the root of an accepted area with the end of the path. |
| `GotValuesAreHeld`, `ListedNamesAreHeld` | `ASpec => []GetIsHeld`, `[]ListIsHeld` | Invariant `SeenSoFar`: while a function reads, what is there now is among what has been there since the call, and if it has been told that there is nothing, nothing was there then.  The last call then succeeds only on a value no longer than its room, which is filled up with NULs (`GetSucceeds`, `ValueFacts`). |
| `MarksAreAttributes` | `ASpec => MarksAsInStorage` | Case by case: there or not, marked or not, which call fails (`MarkIsRead`, `MarkIsSet`).  So the theorems about `Spec`, whose mark is a Boolean, are about the attribute. |
| `AttributeTypes` | `ASpec => []ATypeOK` | Inductive. |

`TapeServiceProofs` begins with lemmas about the statements alone, and says once
what each action does to the tables (`StageFacts`, `StatusCommitFacts`, `UpdatesFacts`,
`CancelFacts`, `EraseFacts`, `NextCases`), and the other proofs cite that instead of the
definitions.

*The conditions.*  Where a theorem excludes events, they are no stronger than the property
needs: with any one of them allowed again TLC finds it violated, on two stages of one
file.  That was tried for each event in `CompletedAreOnDisk` (`delete`), `StatusesAnswer`
(`crash`, `db`), `StartedAreHeld` and `ListedIsHeld` (`crash`, `db`, `lost`),
`HandoutsAreFresh` and `FailuresAreNotHeld` (`write`, `recall`, `io`, `xattr`, mirror mode),
`ConclusionsAreShown` (`write`, `recall`, `io`, mirror mode), `StartIsEarliest` (`stmt`,
`clock`) and `LateEnds` (`stmt`).

Only model-checked: liveness (`StageCompletes`, `ListingEnds`), since the prover
does not do `ENABLED` or fairness.  Every other property of a passing run is the statement
of a theorem; the four that a run finds violated are, under the conditions above.

## 7. Where the code and its texts part

Each of these is a run that TLC finds violated.

* `interrupted` — the comment at `tape_service.cpp:502-505` says that failing to update
  the database is no big deal, since the file stays submitted and can be passed later
  again to GEMSS.  By then it carries the mark: the next `take_over` counts it as in
  progress, makes it started and does not return it.
* `deleted` — a submitted file that is deleted after `status` has read its mark is
  concluded to be completed: only the call for its size fails, `is_stub()` answers false
  for that, and line 253 looks for an error before it (`tape_service.cpp:253-257`).  The
  same befalls a started file that has been deleted, of whose two calls none is checked
  (232-236).  A submitted file that is deleted before both calls is failed, as
  `tests/tape_service.t.cpp:69-74` expects.
* `nofiles` — the status of a stage without files reads past an empty vector.
* `other_order` — `cancel` and `release` sort the request by path elements, the table by
  bytes: `/a/b` of a stage that also has `/a.b` is refused as not in the stage.

Seen while modelling, without a run:

* A statement that fails inside a transaction is passed over (`database_soci.cpp:269-272`
  and `303`, `282`): with the event `stmt`, `completed_at` is committed without the state
  of a file, against the definition of an incomplete stage at `database_soci.cpp:164-165`
  (`CompletedStageIsFinal` fails), and a cancellation is answered with 200 that has not
  taken place (`SuccessIsDone` fails).
* The comments at `tape_service.cpp:485` and `491` say of the files that `take_over`
  completes or fails that "started_at may remain at its default value".  It does not: the
  statement sets `started_at` as well when it is 0 (`database_soci.cpp:198-222`, `231-274`).
  `TimesTellState`, which the run `names` checks and `TimesTell` proves, says so; the
  operator `MovedKeepStart` is what the comments describe, and violates it.
* `access-point: []` is accepted, against the name of the test at
  `tests/configuration.t.cpp:120`, and the resolver dereferences the end of the list
  (`MatchNothing` of `Resolver`).
* A port of ten digits or more in the header `Forwarded` makes `lexical_cast` throw when
  the stage has been committed (`routes.cpp:37`, `io.cpp:276`): the client gets 500 and no
  id, and the log has none either, since it is given the id on the line after
  (`"overflow"` in `Forwarded`).
* `get_xattr` returns a value that got shorter between its calls with NULs at its end,
  which `GetIsHeld` admits; and if the attribute goes away before the second call, -1
  becomes a size, and `resize` throws past the `error_code`.
* A cancellation of a file after its stage has completed moves the file's `finished_at`
  past the stage's `completed_at` (`LateEndIsCancelled` says that nothing else does).
* An access point that ends with a slash, or one in a list that is not normal, is
  accepted and matches no file below it.
* The list of files in a log line gets longer than its limit by its commas
  (`access_logger.cpp:53-62`).
* A crash while the root of a storage area is checked leaves a file there, and so does a
  failure of `fs::remove`, whose error is ignored (`configuration.cpp:54-57`; `Guard`).

## 8. What is not modelled

* *Contents of bodies and answers*: a body is right or wrong, the text of an answer
  follows from the state and the status code.  Parameters that cannot be parsed count as
  wrong bodies (`take_over`) or as not given (`in_progress`).
* *Column `locality`* of `File`: written as a constant and never read back.
* *YAML, port, log level*: start-up only.  `Load` may fail at will, for the permissions
  of roots (`ExtendedAttributes`) as for anything else.
* *The contents of log lines, the profiler, the storage for tests*: no other part reads
  them.
* *`XAttrName::valid`*: used in assertions only, on a name that is a constant.
* *Kinds of files*: what is not a regular file is one kind, which has a size, blocks and
  attributes and may take the mark or not.  `stage` and `archive_info` refuse it; `status`
  does not see the difference, and completes a submitted path that has become a directory.
* *A file deleted and written anew* between two readings of one call.
* *More than one worker*: the server is started with `concurrency(1)`.

That `in_progress()` without arguments is called at all is an assumption: it is public, but
no route reaches it.

## 9. Plan

Done in this order: `Database`, `StageRequest`, `Storage`, `TapeService` (the core),
`ServiceProperties`, `StageLifecycle`, `PathDifference`, `Resolver`, and their proofs; then
the events `clock` and the restart with another configuration, `archive_info`, `Listing`,
`Routes`, `ExtendedAttributes`, and the proofs about times, recalls, lists, routes, the
resolver and attributes, and under which conditions the disagreements go away.

Next, in the model:

1. Two worker handlers, if the server is ever configured so: which properties rest on
   `concurrency(1)`.
2. The loading of a configuration step by step, with what each exception leaves behind.

Next, in the proofs:

That a service behind its routes keeps what is proved of `Listing`, were it reached by a
route.
