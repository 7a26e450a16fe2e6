------------------------------ MODULE Resolver ------------------------------
(***************************************************************************)
(* The storage areas, as load_configuration() accepts them                 *)
(* (src/src/configuration.cpp), and StorageAreaResolver, which finds the   *)
(* physical path of a logical path among them                              *)
(* (src/src/storage_area_resolver.cpp).                                    *)
(*                                                                         *)
(* A path is the sequence of its elements, "/" first if it is absolute and *)
(* "" last if it ends with a slash.  The resolver takes the best match of  *)
(* each area and has std::transform_reduce find the best of all, in        *)
(* whatever order that chooses.                                            *)
(***************************************************************************)
EXTENDS Integers, FiniteSets, SequencesExt

CONSTANTS Element,         \* the elements of paths
          Name,            \* the names of areas, in lower case
          Root,            \* the roots of areas, normalised
          AccessPoint,     \* their access points; in a list they may be anything
          Request,         \* the logical paths to resolve
          NoArea,          \* no area
          MaxAreas,        \* bound: the areas of a configuration
          MaxAccessPoints  \* bound: the access points of an area

ASSUME ResolverAssumption ==
  /\ Root \cup AccessPoint \cup Request \subseteq Seq(Element)
  /\ \A r \in Root : r # <<>>
  /\ NoArea \notin Name
  /\ MaxAreas \in Nat /\ MaxAccessPoints \in Nat

VARIABLES areas,    \* the entries of the configuration
          phase,    \* how far the start or the resolution is
          path,     \* the path to resolve
          partial,  \* the results that are still to be reduced to one
          answer    \* the physical path, empty if there is none

rvars == <<areas, phase, path, partial, answer>>

Area == [name : Name, root : Root,
         access_points : UNION {[1..n -> AccessPoint] : n \in 0..MaxAccessPoints}]

is_relative(p) == p = <<>> \/ p[1] # "/"
IsNormal(p) == \A k \in DOMAIN p : p[k] \notin {".", ".."}

RInit ==
  /\ areas \in UNION {[1..n -> Area] : n \in 0..MaxAreas}
  /\ phase = "start" /\ path = <<>> /\ partial = {} /\ answer = <<>>

-----------------------------------------------------------------------------
(* The start *)

\* The access points of all areas, with their places.
Places(a) ==
  {x \in (1..MaxAreas) \X (1..MaxAccessPoints) :
     x[1] \in DOMAIN a /\ x[2] \in DOMAIN a[x[1]].access_points}
At(a, x) == a[x[1]].access_points[x[2]]

\* The checks of load_storage_areas() and the first one of check_root().
\* (AcceptableShared, for comparison, lets areas share an access point.)
AcceptableShared(a) ==
  /\ a # <<>>
  /\ \A m, n \in DOMAIN a : m # n => a[m].name # a[n].name
  /\ \A x \in Places(a) : ~is_relative(At(a, x))
  /\ \A n \in DOMAIN a : ~is_relative(a[n].root)
Acceptable(a) ==
  /\ a # <<>>
  /\ \A m, n \in DOMAIN a : m # n => a[m].name # a[n].name
  /\ \A x, y \in Places(a) : x # y => At(a, x) # At(a, y)
  /\ \A x \in Places(a) : ~is_relative(At(a, x))
  /\ \A n \in DOMAIN a : ~is_relative(a[n].root)

\* The areas are sorted by name, which the order of the reduction does not tell.
\* The rest of check_root() is up to the disk: the start may fail there as well.
Load ==
  /\ phase = "start"
  /\ \/ Acceptable(areas) /\ phase' = "ready"
     \/ phase' = "rejected"
  /\ UNCHANGED <<areas, path, partial, answer>>

-----------------------------------------------------------------------------
(* The resolution *)

\* A BestMatchOpt; nullopt is less than any match.
NoMatch == [match_size |-> -1, path |-> <<>>, sa |-> NoArea]

\* The number of elements of ap if it is a prefix of p.
\* (PrefixButLast, for comparison, does not look at the last of them.)
PrefixButLast(p, ap) == IF IsPrefix(Front(ap), p) THEN Len(ap) ELSE -1
prefix_match(p, ap) == IF IsPrefix(ap, p) THEN Len(ap) ELSE -1

\* std::max_element over the access points of area a, the first of the greatest,
\* and its match, if it is one: a set of one result.
\* (FirstMatch, for comparison, takes the first access point.)
Found(a, k, p) ==
  LET ap == a.access_points[k]
  IN  IF prefix_match(p, ap) = -1 THEN NoMatch
      ELSE [match_size |-> prefix_match(p, ap), path |-> ap, sa |-> a.name]
FirstMatch(a, p) == {Found(a, 1, p)}
BestMatch(a, p) ==
  LET size(k) == prefix_match(p, a.access_points[k])
  IN  {Found(a, best, p) : best \in
         {k \in DOMAIN a.access_points : \A m \in DOMAIN a.access_points :
            size(m) < size(k) \/ (size(m) = size(k) /\ k <= m)}}

\* A relative path, or one that is not normal, has no physical path.
Refuse(p) ==
  /\ phase \in {"ready", "answered"}
  /\ is_relative(p) \/ ~IsNormal(p)
  /\ path' = p /\ answer' = <<>> /\ phase' = "answered"
  /\ UNCHANGED <<areas, partial>>

\* The matches of the areas, and the initial value of the reduction.
Match(p) ==
  /\ phase \in {"ready", "answered"}
  /\ ~is_relative(p) /\ IsNormal(p)
  /\ \A n \in DOMAIN areas : areas[n].access_points # <<>>
  /\ path' = p /\ phase' = "reducing"
  /\ partial' = {NoMatch} \cup UNION {BestMatch(areas[n], p) : n \in DOMAIN areas}
  /\ UNCHANGED <<areas, answer>>

\* max_element of no access points is end(), which is dereferenced.
MatchNothing(p) ==
  /\ phase \in {"ready", "answered"}
  /\ ~is_relative(p) /\ IsNormal(p)
  /\ \E n \in DOMAIN areas : areas[n].access_points = <<>>
  /\ phase' = "undefined"
  /\ UNCHANGED <<areas, path, partial, answer>>

\* std::max of two results, the first unless it is less.
max(x, y) == IF x.match_size < y.match_size THEN y ELSE x
Reduce(x, y) ==
  /\ phase = "reducing" /\ x \in partial /\ y \in partial /\ x # y
  /\ partial' = (partial \ {x, y}) \cup {max(x, y)}
  /\ UNCHANGED <<areas, phase, path, answer>>

RootOf(name) == areas[CHOOSE n \in DOMAIN areas : areas[n].name = name].root

\* root / lexically_relative: the root itself if only a slash is left, and no
\* empty element between them.
Join(root, rel) ==
  IF rel \in {<<>>, <<"">>} THEN root
  ELSE (IF Last(root) = "" THEN Front(root) ELSE root) \o rel

\* The one result left tells the area and what to cut off the path.
Finish(m) ==
  /\ phase = "reducing" /\ partial = {m}
  /\ answer' = IF m = NoMatch THEN <<>>
               ELSE Join(RootOf(m.sa), SubSeq(path, Len(m.path) + 1, Len(path)))
  /\ phase' = "answered" /\ partial' = {}
  /\ UNCHANGED <<areas, path>>

RNext ==
  \/ Load
  \/ \E p \in Request : Refuse(p) \/ Match(p) \/ MatchNothing(p)
  \/ \E x, y \in partial : Reduce(x, y)
  \/ \E m \in partial : Finish(m)

RSpec == RInit /\ [][RNext]_rvars

-----------------------------------------------------------------------------
(* What is expected of it *)

\* The results in hand are matches of areas of the configuration, each by one of
\* its access points that is a prefix of the path.
IsMatch(m) ==
  \E n \in DOMAIN areas :
    /\ m.sa = areas[n].name
    /\ m.path \in ToSet(areas[n].access_points)
    /\ IsPrefix(m.path, path) /\ m.match_size = Len(m.path)
RTypeOK ==
  /\ areas \in Seq(Area)
  /\ phase \in {"start", "rejected", "ready", "reducing", "answered", "undefined"}
  /\ path \in Request \cup {<<>>}
  /\ \A m \in partial : m = NoMatch \/ IsMatch(m)
  /\ partial # {} <=> phase = "reducing"
  /\ answer \in Seq(Element)

\* No two areas match equally well, so that the order of the reduction, which is
\* not specified, does not matter: the checks of the configuration see to it.
NoTies ==
  \A x, y \in partial : x # y => x.match_size # y.match_size

\* The path is answered from the longest access point that is a prefix of it, of
\* whatever area and wherever in it, and has no answer if there is none.
Longest(x) ==
  /\ IsPrefix(At(areas, x), path)
  /\ \A y \in Places(areas) :
       IsPrefix(At(areas, y), path) => Len(At(areas, y)) <= Len(At(areas, x))
ResolvesToLongest ==
  phase = "answered" /\ ~is_relative(path) /\ IsNormal(path) =>
    /\ \A x \in Places(areas) : Longest(x) =>
         answer = Join(areas[x[1]].root,
                       SubSeq(path, Len(At(areas, x)) + 1, Len(path)))
    /\ (\A x \in Places(areas) : ~Longest(x)) => answer = <<>>

\* tests/configuration.t.cpp:120: "A storage area must have at least one
\* access-point".
HasAccessPoint ==
  phase \notin {"start", "rejected"} =>
    \A n \in DOMAIN areas : areas[n].access_points # <<>>
=============================================================================
