----------------------------- MODULE MCResolver -----------------------------
(* Instances of Resolver for TLC. *)
EXTENDS Resolver

MCElement == {"/", "a", "b", "r", "..", ""}

\* A root that ends with a slash and one inside it.
MCRoots == {<<"/", "r", "">>, <<"/", "r", "a">>}

\* Nested access points, the root of all, and what a list may also hold: one that
\* ends with a slash, and a relative one.
MCAccessPoints == {<<"/">>, <<"/", "a">>, <<"/", "a", "b">>, <<"/", "a", "">>, <<"a">>}
MCRequests == MCAccessPoints \cup {<<"/", "a", "b", "a">>, <<"/", "b">>, <<"/", "..", "a">>}
=============================================================================
