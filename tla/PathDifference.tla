--------------------------- MODULE PathDifference ---------------------------
(***************************************************************************)
(* How cancel() and release() look for paths that are not in the stage     *)
(* (src/src/tape_service.cpp): std::set_difference of the paths they are   *)
(* asked for, sorted with the operator < of fs::path, and those of the     *)
(* files of the stage, in the order find() returns them, ORDER BY          *)
(* logical_path.  The first order compares paths element by element, the   *)
(* second byte by byte: "/a/b" comes before "/a.b" in the first, after it  *)
(* in the second.                                                          *)
(***************************************************************************)
EXTENDS Integers, Sequences

CONSTANTS Path,      \* the paths, each by its place in the first order
          Key,       \* the place of each in the second
          MaxLength  \* bound: the paths of a request and of a stage

ASSUME PathAssumption ==
  /\ Path \subseteq Nat
  /\ Key \in [Path -> Nat]
  /\ MaxLength \in Nat

VARIABLES asked,    \* the sorted paths of the request
          files,    \* the paths of the files of the stage
          i, j,     \* how far the two ranges have been gone through
          invalid,  \* the paths found not to be in the stage
          answer    \* "none" so far; "done" or "rejected"

dvars == <<asked, files, i, j, invalid, answer>>

Lists == UNION {[1..n -> Path] : n \in 0..MaxLength}
In(s) == {s[k] : k \in DOMAIN s}

\* std::sort leaves repetitions in place; the primary key of File has none.
DInit ==
  /\ asked \in {s \in Lists : \A a, b \in DOMAIN s : a < b => s[a] <= s[b]}
  /\ files \in {s \in Lists : \A a, b \in DOMAIN s : a < b => Key[s[a]] < Key[s[b]]}
  /\ i = 1 /\ j = 1 /\ invalid = {} /\ answer = "none"

Left == i <= Len(asked) /\ j <= Len(files)

\* A path less than the next of the stage is not in it.
Extra ==
  /\ Left /\ asked[i] < files[j]
  /\ invalid' = invalid \cup {asked[i]}
  /\ i' = i + 1
  /\ UNCHANGED <<asked, files, j, answer>>

\* A greater one may come later.
Skip ==
  /\ Left /\ files[j] < asked[i]
  /\ j' = j + 1
  /\ UNCHANGED <<asked, files, i, invalid, answer>>

\* (SameLoose, for comparison, has lost the second comparison.)
SameLoose ==
  /\ Left /\ ~(asked[i] < files[j])
  /\ i' = i + 1 /\ j' = j + 1
  /\ UNCHANGED <<asked, files, invalid, answer>>
Same ==
  /\ Left /\ asked[i] = files[j]
  /\ i' = i + 1 /\ j' = j + 1
  /\ UNCHANGED <<asked, files, invalid, answer>>

\* What is left when the stage has no more is not in it.
\* (RestOfFiles, for comparison, moves on in the wrong range.)
RestOfFiles ==
  /\ i <= Len(asked) /\ j > Len(files)
  /\ invalid' = invalid \cup {asked[i]}
  /\ j' = j + 1
  /\ UNCHANGED <<asked, files, i, answer>>
Rest ==
  /\ i <= Len(asked) /\ j > Len(files)
  /\ invalid' = invalid \cup {asked[i]}
  /\ i' = i + 1
  /\ UNCHANGED <<asked, files, j, answer>>

\* The request goes through if nothing is invalid.
Answer ==
  /\ i > Len(asked) /\ answer = "none"
  /\ answer' = IF invalid = {} THEN "done" ELSE "rejected"
  /\ UNCHANGED <<asked, files, i, j, invalid>>

DNext == Extra \/ Skip \/ Same \/ Rest \/ Answer

DSpec == DInit /\ [][DNext]_dvars

-----------------------------------------------------------------------------
(* What is expected of it *)

DTypeOK ==
  /\ asked \in Lists /\ files \in Lists
  /\ i \in 1..Len(asked) + 1 /\ j \in 1..Len(files) + 1
  /\ invalid \in SUBSET Path
  /\ answer \in {"none", "done", "rejected"}

\* A request that goes through names files of the stage only, whatever the two
\* orders and however often it names them.
NoStrangerAccepted == answer = "done" => In(asked) \subseteq In(files)

\* The paths in the answer are paths of the request, with all those that are not in
\* the stage, whatever the two orders; and they are no others, where the request repeats
\* no path and the stage has its own in the same order.
Increasing(s) == \A a, b \in DOMAIN s : a < b => s[a] < s[b]
InvalidIsExact ==
  answer # "none" =>
    /\ In(asked) \ In(files) \subseteq invalid /\ invalid \subseteq In(asked)
    /\ Increasing(asked) /\ Increasing(files) => invalid = In(asked) \ In(files)

\* io.cpp:79-80, "files targeted for cancellation do not belong to the initially
\* submitted stage request": only such files are said to be invalid.
InvalidIsForeign == invalid \cap In(files) = {}
=============================================================================
