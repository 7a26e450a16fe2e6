--------------------------- MODULE StageLifecycle ---------------------------
(***************************************************************************)
(* What the service promises its clients of a stage request, whatever      *)
(* happens underneath: its files only move forward, a cancellation         *)
(* excepted, and it is done no earlier than they are.  There are no disk,  *)
(* no recall system, no handlers here; TapeService implements this.        *)
(***************************************************************************)
CONSTANTS StageId, LogicalPath

VARIABLES live,    \* the stages that can be asked for
          state,   \* the state of each of their files
          done     \* the stages that have been reported complete

lvars == <<live, state, done>>

Ended == {"cancelled", "failed", "completed"}
Files(s) == {k \in DOMAIN state : k[1] = s}

LInit == live = {} /\ state = [k \in {} |-> 0] /\ done = {}

\* A new stage: files that are not there have failed, the others wait.
Accept(s) ==
  /\ s \notin live
  /\ live' = live \cup {s}
  /\ \E L \in SUBSET LogicalPath :
       \E new \in [L -> {"submitted", "failed"}] :
         state' = [k \in DOMAIN state \cup {<<s, l>> : l \in L} |->
                     IF k \in DOMAIN state THEN state[k] ELSE new[k[2]]]
  /\ UNCHANGED done

\* A file waits, is being recalled, has ended.
Forward(old, new) ==
  \/ new = old
  \/ old = "submitted" /\ new \in {"started"} \cup Ended
  \/ old = "started" /\ new \in Ended

\* Files, of any stages, go forward; s may be found done.
Advance(s) ==
  /\ s \in live
  /\ state' \in [DOMAIN state -> {"submitted", "started"} \cup Ended]
  /\ \A k \in DOMAIN state : Forward(state[k], state'[k])
  /\ \/ UNCHANGED done
     \/ /\ \A k \in Files(s) : state'[k] \in Ended
        /\ done' = done \cup {s}
  /\ UNCHANGED live

\* The client gives up some files of s, ended or not.
GiveUp(s) ==
  /\ s \in live
  /\ \E K \in SUBSET Files(s) :
       state' = [k \in DOMAIN state |-> IF k \in K THEN "cancelled" ELSE state[k]]
  /\ UNCHANGED <<live, done>>

\* A stage is deleted: its files go, then itself.
Drop(s) ==
  /\ s \in live
  /\ state' = [k \in DOMAIN state \ Files(s) |-> state[k]]
  /\ UNCHANGED <<live, done>>
Remove(s) ==
  /\ s \in live /\ Files(s) = {}
  /\ live' = live \ {s} /\ done' = done \ {s}
  /\ UNCHANGED state

LNext ==
  \E s \in StageId : Accept(s) \/ Advance(s) \/ GiveUp(s) \/ Drop(s) \/ Remove(s)

LSpec == LInit /\ [][LNext]_lvars
=============================================================================
