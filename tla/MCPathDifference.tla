-------------------------- MODULE MCPathDifference --------------------------
(* Instances of PathDifference for TLC. *)
EXTENDS PathDifference, TLC

\* The orders differ on "/a/b" and "/a.b", the paths 1 and 2.
MCKey == [p \in Path |-> CASE p = 1 -> 2 [] p = 2 -> 1 [] OTHER -> p]
=============================================================================
