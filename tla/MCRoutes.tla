------------------------------ MODULE MCRoutes ------------------------------
(* Instances of Routes, on those of TapeService, for TLC. *)
EXTENDS MCTapeService, Routes
=============================================================================
