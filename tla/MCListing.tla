------------------------------ MODULE MCListing ------------------------------
(* Instances of Listing, on those of TapeService, for TLC. *)
EXTENDS MCTapeService, Listing
=============================================================================
