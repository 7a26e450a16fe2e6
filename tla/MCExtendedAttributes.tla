------------------------ MODULE MCExtendedAttributes ------------------------
(* Instances of ExtendedAttributes for TLC. *)
EXTENDS ExtendedAttributes
=============================================================================
