---------------------------- MODULE MCTapeService ----------------------------
(* Instances of TapeService for TLC. *)
EXTENDS ServiceProperties, TLC

MCPaths1 == {"p1"}
MCPaths2 == {"p1", "p2"}

\* One file; two files; two names of one file (storage areas whose roots are nested),
\* or the second is given a file of its own, before or after (its root moved).
MCOneFile  == {1 :> "p1"}
MCTwoFiles == {1 :> "p1" @@ 2 :> "p2"}
MCTwoNames == {1 :> "p1" @@ 2 :> "p1"}
MCNames    == {1 :> "p1" @@ 2 :> "p1", 1 :> "p1" @@ 2 :> "p2"}

MCSymmetry == Permutations(StageId)
=============================================================================
