---------------------------- MODULE StageRequest ----------------------------
(***************************************************************************)
(* StageRequest::update_timestamps (src/src/stage_request.cpp): the times  *)
(* a stage row takes from its files, files being the function from logical *)
(* paths to rows that status() holds in memory.  The vector is sorted by   *)
(* state, so back() tells whether some file has left submitted and front() *)
(* whether all are final.  Both operators give the set of the values the   *)
(* column may take: one, or none for a stage without files.                *)
(***************************************************************************)
EXTENDS Database

Minima(T) == {t \in T : \A u \in T : t <= u}
Maxima(T) == {t \in T : \A u \in T : t >= u}

NotSubmitted(files) == {l \in DOMAIN files : files[l].state # "submitted"}

\* std::min_element of started_at over the files that left submitted.
\* (LatestStartTimes, for comparison, takes the max.)
LatestStartTimes(row, files) ==
  IF row.started_at = 0 /\ NotSubmitted(files) # {}
    THEN Maxima({files[l].started_at : l \in NotSubmitted(files)})
    ELSE {row.started_at}
StartTimes(row, files) ==
  IF row.started_at = 0 /\ NotSubmitted(files) # {}
    THEN Minima({files[l].started_at : l \in NotSubmitted(files)})
    ELSE {row.started_at}

\* std::max_element of finished_at over all files, once all are final.
\* (EarlyCompletionTimes, for comparison, is content with one final file.)
EarlyCompletionTimes(row, files) ==
  IF row.completed_at = 0 /\ \E l \in DOMAIN files : files[l].state \in Final
    THEN Maxima({files[l].finished_at : l \in DOMAIN files})
    ELSE {row.completed_at}
CompletionTimes(row, files) ==
  IF row.completed_at = 0 /\ \A l \in DOMAIN files : files[l].state \in Final
    THEN Maxima({files[l].finished_at : l \in DOMAIN files})
    ELSE {row.completed_at}
=============================================================================
