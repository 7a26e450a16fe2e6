--------------------------- MODULE ResolverProofs ---------------------------
(***************************************************************************)
(* No two storage areas of an accepted configuration match a path equally  *)
(* well: the order of the reduction in the resolver does not matter.  What *)
(* it comes to is the longest access point of them all.                    *)
(***************************************************************************)
EXTENDS Resolver, WellFoundedInduction, TLAPS

Configurations == UNION {[1..n -> Area] : n \in 0..MaxAreas}
MatchRecord == [match_size : Int, path : Seq(Element), sa : Name]

\* What a result in hand is: nothing, or the match of an area.
Sound(m) == m = NoMatch \/ (m \in MatchRecord /\ IsMatch(m))

\* The inductive invariant: the areas in use have been accepted, and the results
\* are matches of theirs.
TieFree ==
  /\ areas \in Configurations
  /\ path \in Seq(Element)
  /\ phase \notin {"start", "rejected"} => Acceptable(areas)
  /\ partial # {} => phase = "reducing"
  /\ \A m \in partial : Sound(m)

\* Areas and places are what their names say.
LEMMA AreaType ==
  ASSUME areas \in Configurations, NEW n \in DOMAIN areas
  PROVE  /\ n \in 1..MaxAreas
         /\ areas[n].name \in Name
         /\ areas[n].access_points \in Seq(AccessPoint)
         /\ DOMAIN areas[n].access_points \subseteq 1..MaxAccessPoints
         /\ \A k \in DOMAIN areas[n].access_points :
              areas[n].access_points[k] \in Seq(Element)
<1>1. PICK c \in 0..MaxAreas : areas \in [1..c -> Area]
  BY DEF Configurations
<1>2. n \in 1..MaxAreas /\ areas[n] \in Area
  BY <1>1, ResolverAssumption
<1>3. PICK d \in 0..MaxAccessPoints : areas[n].access_points \in [1..d -> AccessPoint]
  BY <1>2 DEF Area
<1>4. areas[n].name \in Name
  BY <1>2 DEF Area
<1> QED
  BY <1>2, <1>3, <1>4, ResolverAssumption

\* Two prefixes of a path of the same length are one.
LEMMA SamePrefix ==
  ASSUME NEW p \in Seq(Element), NEW s \in Seq(Element), NEW t \in Seq(Element),
         IsPrefix(s, p), IsPrefix(t, p), Len(s) = Len(t)
  PROVE  s = t
<1>1. SubSeq(s, 1, Len(s)) = SubSeq(t, 1, Len(t))
  BY DEF IsPrefix
<1>2. SubSeq(s, 1, Len(s)) = s /\ SubSeq(t, 1, Len(t)) = t
  OBVIOUS
<1> QED
  BY <1>1, <1>2

\* Of two matches of one size there is one only.
LEMMA NoTwo ==
  ASSUME areas \in Configurations, path \in Seq(Element), Acceptable(areas),
         NEW x, NEW y, Sound(x), Sound(y), x.match_size = y.match_size
  PROVE  x = y
<1>1. CASE x = NoMatch /\ y = NoMatch
  BY <1>1
<1>2. CASE x # NoMatch /\ y # NoMatch
  <2>1. x \in MatchRecord /\ y \in MatchRecord /\ IsMatch(x) /\ IsMatch(y)
    BY <1>2 DEF Sound
  <2>2. PICK m \in DOMAIN areas :
          /\ x.sa = areas[m].name /\ x.path \in ToSet(areas[m].access_points)
          /\ IsPrefix(x.path, path) /\ x.match_size = Len(x.path)
    BY <2>1 DEF IsMatch
  <2>3. PICK n \in DOMAIN areas :
          /\ y.sa = areas[n].name /\ y.path \in ToSet(areas[n].access_points)
          /\ IsPrefix(y.path, path) /\ y.match_size = Len(y.path)
    BY <2>1 DEF IsMatch
  <2>4. PICK j \in DOMAIN areas[m].access_points : x.path = areas[m].access_points[j]
    BY <2>2 DEF ToSet
  <2>5. PICK k \in DOMAIN areas[n].access_points : y.path = areas[n].access_points[k]
    BY <2>3 DEF ToSet
  <2>6. x.path \in Seq(Element) /\ y.path \in Seq(Element)
    BY <2>1 DEF MatchRecord
  <2>7. x.path = y.path
    BY <2>2, <2>3, <2>6, SamePrefix
  <2>8. <<m, j>> \in Places(areas) /\ <<n, k>> \in Places(areas)
    BY AreaType DEF Places
  <2>9. At(areas, <<m, j>>) = At(areas, <<n, k>>)
    BY <2>4, <2>5, <2>7 DEF At
  <2>10. <<m, j>> = <<n, k>>
    BY <2>8, <2>9 DEF Acceptable
  <2>11. m = n
    BY <2>10
  <2> QED
    BY <2>1, <2>2, <2>3, <2>7, <2>11 DEF MatchRecord
<1>3. ASSUME NEW u, NEW v, u = NoMatch, v # NoMatch, Sound(u), Sound(v)
      PROVE  u.match_size # v.match_size
  <2>1. v \in MatchRecord /\ v.match_size = Len(v.path)
    BY <1>3 DEF Sound, IsMatch
  <2>2. v.match_size >= 0
    BY <2>1 DEF MatchRecord
  <2>3. u.match_size = -1
    BY <1>3 DEF NoMatch
  <2> QED
    BY <2>2, <2>3
<1> QED
  BY <1>1, <1>2, <1>3

\* The results that Match gives are sound.
LEMMA MatchesAreSound ==
  ASSUME areas \in Configurations, NEW p \in Seq(Element), path' = p, areas' = areas,
         NEW n \in DOMAIN areas, NEW m \in BestMatch(areas[n], p)
  PROVE  Sound(m)'
<1>1. PICK k \in DOMAIN areas[n].access_points : m = Found(areas[n], k, p)
  BY DEF BestMatch
<1> DEFINE ap == areas[n].access_points[k]
<1>2. ap \in Seq(Element) /\ areas[n].name \in Name
  BY AreaType
<1>3. CASE prefix_match(p, ap) = -1
  BY <1>1, <1>3 DEF Found, Sound
<1>4. CASE prefix_match(p, ap) # -1
  <2>1. IsPrefix(ap, p) /\ prefix_match(p, ap) = Len(ap)
    BY <1>4 DEF prefix_match
  <2>2. m = [match_size |-> Len(ap), path |-> ap, sa |-> areas[n].name]
    BY <1>1, <1>4, <2>1 DEF Found
  <2>3. m \in MatchRecord
    BY <1>2, <2>2 DEF MatchRecord
  <2>4. ap \in ToSet(areas[n].access_points)
    BY DEF ToSet
  <2>5. IsMatch(m)'
    BY <2>1, <2>2, <2>4 DEF IsMatch
  <2> QED
    BY <2>3, <2>5 DEF Sound
<1> QED
  BY <1>3, <1>4

\* Before the configuration is loaded there are no results.
LEMMA TieFreeInit == RInit => TieFree
BY DEF RInit, TieFree, Configurations

\* Neither the loading nor a step of the reduction makes a tie.
LEMMA TieFreeStep == TieFree /\ [RNext]_rvars => TieFree'
<1> SUFFICES ASSUME TieFree, [RNext]_rvars PROVE TieFree'
  OBVIOUS
<1> USE DEF TieFree
<1>k. ASSUME UNCHANGED <<areas, path>>, NEW m, Sound(m) PROVE Sound(m)'
  BY <1>k DEF Sound, IsMatch
<1>1. CASE Load
  BY <1>1 DEF Load
<1>2. ASSUME NEW p \in Request, Refuse(p) PROVE TieFree'
  BY <1>2, ResolverAssumption DEF Refuse
<1>3. ASSUME NEW p \in Request, Match(p) PROVE TieFree'
  <2>1. p \in Seq(Element)
    BY ResolverAssumption
  <2>2. /\ path' = p /\ areas' = areas /\ phase' = "reducing"
        /\ phase \in {"ready", "answered"}
        /\ partial' = {NoMatch} \cup UNION {BestMatch(areas[n], p) : n \in DOMAIN areas}
    BY <1>3 DEF Match
  <2>3. \A m \in partial' : Sound(m)'
    <3> SUFFICES ASSUME NEW m \in partial' PROVE Sound(m)'
      OBVIOUS
    <3>1. CASE m = NoMatch
      BY <3>1 DEF Sound
    <3>2. CASE m # NoMatch
      <4>1. PICK n \in DOMAIN areas : m \in BestMatch(areas[n], p)
        BY <2>2, <3>2
      <4> QED
        BY <2>1, <2>2, <4>1, MatchesAreSound
    <3> QED
      BY <3>1, <3>2
  <2>4. Acceptable(areas')
    BY <2>2
  <2> QED
    BY <2>1, <2>2, <2>3, <2>4
<1>4. ASSUME NEW p \in Request, MatchNothing(p) PROVE TieFree'
  BY <1>4, <1>k DEF MatchNothing
<1>5. ASSUME NEW x \in partial, NEW y \in partial, Reduce(x, y) PROVE TieFree'
  <2>1. max(x, y) \in {x, y}
    BY DEF max
  <2>2. partial' \subseteq partial /\ UNCHANGED <<areas, phase, path>>
    BY <1>5, <2>1 DEF Reduce
  <2>3. \A m \in partial' : Sound(m)'
    BY <2>2, <1>k
  <2> QED
    BY <2>2, <2>3
<1>6. ASSUME NEW m \in partial, Finish(m) PROVE TieFree'
  BY <1>6 DEF Finish
<1>7. CASE UNCHANGED rvars
  <2>1. UNCHANGED <<areas, phase, path, partial>>
    BY <1>7 DEF rvars
  <2> QED
    BY <2>1, <1>k
<1> QED
  BY <1>1, <1>2, <1>3, <1>4, <1>5, <1>6, <1>7 DEF RNext

\* The two together.
LEMMA TieFreeAlways == RSpec => []TieFree
<1>1. RInit => TieFree
  BY TieFreeInit
<1>2. TieFree /\ [RNext]_rvars => TieFree'
  BY TieFreeStep
<1> QED
  BY <1>1, <1>2, PTL DEF RSpec

\* Two results in hand never match equally many elements, for any configuration:
\* what std::transform_reduce finds does not depend on the order it chooses.
THEOREM TiesNever == RSpec => []NoTies
<1>1. TieFree => NoTies
  BY NoTwo DEF TieFree, NoTies
<1> QED
  BY <1>1, TieFreeAlways, PTL

-----------------------------------------------------------------------------
(* The longest access point *)

\* Less than, on the naturals, as a relation.
Less == {p \in Nat \X Nat : p[1] < p[2]}

\* A set of naturals that is not empty has a least element.
LEMMA LeastNat ==
  ASSUME NEW T \in SUBSET Nat, T # {}
  PROVE  \E x \in T : \A y \in T : x <= y
<1>1. IsWellFoundedOn(Less, Nat)
  <2>1. IsWellFoundedOn({p \in Nat \X Nat : p[1] < p[2]}, Nat)
    BY NatLessThanWellFounded, Zenon DEF OpToRel
  <2> QED
    BY <2>1 DEF Less
<1>2. PICK x \in T : \A y \in T : ~(<<y, x>> \in Less)
  BY <1>1, WFMin
<1>3. \A y \in T : ~(y < x)
  BY <1>2 DEF Less
<1> QED
  BY <1>3

\* One of the greatest of finitely many sizes comes first: std::max_element finds one.
LEMMA FirstOfTheGreatest ==
  ASSUME NEW p \in Seq(Element), NEW K \in SUBSET Nat, K # {},
         NEW size \in [K -> Int], \A k \in K : size[k] <= Len(p)
  PROVE  \E k \in K : \A m \in K : size[m] < size[k] \/ (size[m] = size[k] /\ k <= m)
<1> DEFINE Short == {Len(p) - size[k] : k \in K}
<1>1. Short \subseteq Nat /\ Short # {}
  OBVIOUS
<1>2. PICK c \in Short : \A d \in Short : c <= d
  <2> HIDE DEF Short
  <2> QED
    BY <1>1, LeastNat
<1>3. PICK k \in K : c = Len(p) - size[k]
  BY <1>2
<1>4. ASSUME NEW m \in K PROVE size[m] \in Int /\ size[m] <= size[k]
  <2>1. Len(p) - size[k] <= Len(p) - size[m]
    BY <1>2, <1>3
  <2>2. size[m] \in Int /\ size[k] \in Int /\ Len(p) \in Nat
    BY <1>3, <1>4
  <2> QED
    BY <2>1, <2>2
<1> DEFINE Greatest == {m \in K : size[m] = size[k]}
<1>5. Greatest \subseteq Nat /\ Greatest # {}
  OBVIOUS
<1>6. PICK h \in Greatest : \A m \in Greatest : h <= m
  <2> HIDE DEF Greatest
  <2> QED
    BY <1>5, LeastNat
<1>7. h \in K /\ size[h] = size[k]
  BY <1>6
<1>8. \A m \in K : size[m] < size[h] \/ (size[m] = size[h] /\ h <= m)
  BY <1>3, <1>4, <1>6, <1>7
<1> QED
  BY <1>7, <1>8

\* What an area gives is at least as long as each of its access points that matches.
LEMMA BestIsLongest ==
  ASSUME areas \in Configurations, NEW p \in Seq(Element), NEW n \in DOMAIN areas,
         NEW k \in DOMAIN areas[n].access_points, IsPrefix(areas[n].access_points[k], p)
  PROVE  \E m \in BestMatch(areas[n], p) :
           m.match_size >= Len(areas[n].access_points[k])
<1> DEFINE ap(j) == areas[n].access_points[j]
           K == DOMAIN areas[n].access_points
           size == [j \in K |-> prefix_match(p, ap(j))]
<1>1. \A j \in K : ap(j) \in Seq(Element) /\ j \in Nat
  BY AreaType
<1>2. \A j \in K : size[j] \in Int /\ size[j] <= Len(p)
  BY <1>1 DEF prefix_match, IsPrefix
<1>3. PICK best \in K : \A m \in K :
        size[m] < size[best] \/ (size[m] = size[best] /\ best <= m)
  <2>1. size \in [K -> Int]
    BY <1>2
  <2>2. K \in SUBSET Nat
    BY <1>1
  <2>3. K # {}
    OBVIOUS
  <2> HIDE DEF size, K
  <2> QED
    BY <1>2, <2>1, <2>2, <2>3, FirstOfTheGreatest
<1>4. Found(areas[n], best, p) \in BestMatch(areas[n], p)
  BY <1>3 DEF BestMatch
<1>5. size[k] = Len(ap(k)) /\ size[best] >= size[k]
  <2>1. size[k] = Len(ap(k))
    BY DEF prefix_match
  <2> HIDE DEF size
  <2> QED
    BY <1>2, <1>3, <2>1
<1>6. size[best] # -1
  BY <1>1, <1>5
<1>7. Found(areas[n], best, p).match_size = size[best]
  BY <1>6 DEF Found
<1> QED
  BY <1>4, <1>5, <1>7

\* Among the results in hand is one for every access point that matches, as long as it.
Reached ==
  phase = "reducing" =>
    \A x \in Places(areas) : IsPrefix(At(areas, x), path) =>
      \E m \in partial : m.match_size >= Len(At(areas, x))

\* No step loses it: of two results the reduction keeps the longer.
LEMMA NextReached ==
  ASSUME TieFree, Reached, [RNext]_rvars
  PROVE  Reached'
<1>1. ASSUME NEW p \in Request, Match(p) PROVE Reached'
  <2>1. p \in Seq(Element) /\ path' = p /\ areas' = areas
    BY <1>1, ResolverAssumption DEF Match
  <2> SUFFICES ASSUME NEW x \in Places(areas), IsPrefix(At(areas, x), p)
               PROVE  \E m \in partial' : m.match_size >= Len(At(areas, x))
    BY <2>1 DEF Reached, Places, At
  <2>2. x[1] \in DOMAIN areas /\ x[2] \in DOMAIN areas[x[1]].access_points
    BY DEF Places
  <2>3. PICK m \in BestMatch(areas[x[1]], p) : m.match_size >= Len(At(areas, x))
    BY <2>1, <2>2, BestIsLongest DEF At, TieFree
  <2>4. m \in partial'
    BY <1>1, <2>2, <2>3 DEF Match
  <2> QED
    BY <2>3, <2>4
<1>2. ASSUME NEW y \in partial, NEW z \in partial, Reduce(y, z) PROVE Reached'
  <2>1. /\ UNCHANGED <<areas, phase, path>> /\ phase = "reducing"
        /\ partial' = (partial \ {y, z}) \cup {max(y, z)}
    BY <1>2 DEF Reduce
  <2>2. \A m \in partial : m.match_size \in Int
    BY DEF TieFree, Sound, NoMatch, MatchRecord
  <2>3. /\ max(y, z) \in partial'
        /\ max(y, z).match_size >= y.match_size /\ max(y, z).match_size >= z.match_size
        /\ max(y, z).match_size \in Int
    BY <2>1, <2>2 DEF max
  <2> SUFFICES ASSUME NEW x \in Places(areas), IsPrefix(At(areas, x), path)
               PROVE  \E m \in partial' : m.match_size >= Len(At(areas, x))
    BY <2>1 DEF Reached, Places, At
  <2>4. PICK m \in partial : m.match_size >= Len(At(areas, x))
    BY <2>1 DEF Reached
  <2>5. Len(At(areas, x)) \in Nat
    BY AreaType DEF Places, At, TieFree
  <2>6. m \in {y, z} \/ m \in partial'
    BY <2>1
  <2> QED
    BY <2>2, <2>3, <2>4, <2>5, <2>6
<1>3. CASE UNCHANGED <<areas, phase, path, partial>> \/ phase' # "reducing"
  BY <1>3 DEF Reached, Places, At
<1> QED
  BY <1>1, <1>2, <1>3
     DEF RNext, Load, Refuse, MatchNothing, Finish, rvars, TieFree

\* The area of an accepted configuration that has a given name.
LEMMA RootOfArea ==
  ASSUME areas \in Configurations, Acceptable(areas), NEW n \in DOMAIN areas
  PROVE  RootOf(areas[n].name) = areas[n].root
<1> DEFINE c == CHOOSE m \in DOMAIN areas : areas[m].name = areas[n].name
<1>1. c \in DOMAIN areas /\ areas[c].name = areas[n].name
  OBVIOUS
<1>2. c = n
  BY <1>1 DEF Acceptable
<1> QED
  BY <1>2 DEF RootOf

\* The answer is that of a longest match, and there is none without one.
LEMMA FinishLongest ==
  ASSUME TieFree, Reached, NEW m \in partial, Finish(m)
  PROVE  ResolvesToLongest'
<1>1. /\ phase = "reducing" /\ partial = {m} /\ UNCHANGED <<areas, path>>
      /\ answer' = IF m = NoMatch THEN <<>>
                   ELSE Join(RootOf(m.sa), SubSeq(path, Len(m.path) + 1, Len(path)))
      /\ areas \in Configurations /\ Acceptable(areas) /\ path \in Seq(Element)
  BY DEF Finish, TieFree
<1>2. ASSUME NEW x \in Places(areas), IsPrefix(At(areas, x), path)
      PROVE  m # NoMatch /\ m.match_size >= Len(At(areas, x))
  <2>1. m.match_size >= Len(At(areas, x))
    BY <1>1, <1>2 DEF Reached
  <2>2. Len(At(areas, x)) \in Nat
    BY <1>1, AreaType DEF Places, At
  <2> QED
    BY <2>1, <2>2 DEF NoMatch
<1>3. ASSUME m # NoMatch
      PROVE  \E z \in Places(areas) :
               /\ m.sa = areas[z[1]].name /\ m.path = At(areas, z)
               /\ IsPrefix(At(areas, z), path) /\ m.match_size = Len(At(areas, z))
  <2>1. PICK n \in DOMAIN areas :
          /\ m.sa = areas[n].name /\ m.path \in ToSet(areas[n].access_points)
          /\ IsPrefix(m.path, path) /\ m.match_size = Len(m.path)
    BY <1>3 DEF TieFree, Sound, IsMatch
  <2>2. PICK k \in DOMAIN areas[n].access_points : m.path = areas[n].access_points[k]
    BY <2>1 DEF ToSet
  <2>3. <<n, k>> \in Places(areas) /\ At(areas, <<n, k>>) = m.path
    BY <1>1, <2>2, AreaType DEF Places, At
  <2> QED
    BY <2>1, <2>3
<1>4. ASSUME NEW x \in Places(areas), Longest(x)
      PROVE  answer' = Join(areas[x[1]].root,
                            SubSeq(path, Len(At(areas, x)) + 1, Len(path)))
  <2>1. m # NoMatch /\ m.match_size >= Len(At(areas, x))
    BY <1>2, <1>4 DEF Longest
  <2>2. PICK z \in Places(areas) :
          /\ m.sa = areas[z[1]].name /\ m.path = At(areas, z)
          /\ IsPrefix(At(areas, z), path) /\ m.match_size = Len(At(areas, z))
    BY <1>3, <2>1
  <2>3. At(areas, x) \in Seq(Element) /\ At(areas, z) \in Seq(Element)
    BY <1>1, AreaType DEF Places, At
  <2>4. Len(At(areas, z)) = Len(At(areas, x))
    BY <1>4, <2>1, <2>2, <2>3 DEF Longest
  <2>5. At(areas, z) = At(areas, x)
    BY <1>1, <1>4, <2>2, <2>3, <2>4, SamePrefix DEF Longest
  <2>6. z = x
    BY <1>1, <2>5 DEF Acceptable
  <2>7. x[1] \in DOMAIN areas
    BY DEF Places
  <2> QED
    BY <1>1, <2>1, <2>2, <2>6, <2>7, RootOfArea
<1>5. ASSUME \A x \in Places(areas) : ~Longest(x) PROVE answer' = <<>>
  <2>1. m = NoMatch
    BY <1>2, <1>3, <1>5 DEF Longest
  <2> QED
    BY <1>1, <2>1
<1>6. Places(areas)' = Places(areas) /\ \A x : At(areas, x)' = At(areas, x)
  BY <1>1 DEF Places, At
<1>7. \A x : Longest(x)' = Longest(x)
  BY <1>1, <1>6 DEF Longest
<1> QED
  BY <1>1, <1>4, <1>5, <1>6, <1>7 DEF ResolvesToLongest

\* A path is answered from the longest access point that is a prefix of it, for any
\* number of areas and access points, in any order, and any order of the reduction.
THEOREM LongestWins == RSpec => []ResolvesToLongest
<1>1. RInit => Reached /\ ResolvesToLongest
  BY DEF RInit, Reached, ResolvesToLongest
<1>2. TieFree /\ (Reached /\ ResolvesToLongest) /\ [RNext]_rvars
        => (Reached /\ ResolvesToLongest)'
  <2> SUFFICES ASSUME TieFree, Reached, ResolvesToLongest, [RNext]_rvars
               PROVE  Reached' /\ ResolvesToLongest'
    OBVIOUS
  <2>1. Reached'
    BY NextReached
  <2>2. CASE \E m \in partial : Finish(m)
    BY <2>1, <2>2, FinishLongest
  <2>3. CASE UNCHANGED <<areas, phase, path, answer>>
    BY <2>1, <2>3 DEF ResolvesToLongest, Longest, Places, At
  <2>4. CASE phase' # "answered"
    BY <2>1, <2>4 DEF ResolvesToLongest
  <2>5. ASSUME NEW p \in Request, Refuse(p) PROVE ResolvesToLongest'
    BY <2>5 DEF Refuse, ResolvesToLongest
  <2> QED
    BY <2>1, <2>2, <2>3, <2>4, <2>5
       DEF RNext, Load, Match, MatchNothing, Reduce, rvars
<1> QED
  BY <1>1, <1>2, TieFreeAlways, PTL DEF RSpec

-----------------------------------------------------------------------------
(* Types *)

\* A root and what is left of a path make a path.
LEMMA JoinType ==
  ASSUME NEW r \in Seq(Element), r # <<>>, NEW rel \in Seq(Element)
  PROVE  Join(r, rel) \in Seq(Element)
<1>1. Front(r) \in Seq(Element)
  BY DEF Front
<1>2. r \o rel \in Seq(Element) /\ Front(r) \o rel \in Seq(Element)
  BY <1>1
<1> QED
  BY <1>2, Zenon DEF Join

\* Results are matches, there are some exactly during a reduction, and answers are paths,
\* for any number of areas and access points.
THEOREM ResolverTypes == RSpec => []RTypeOK
<1> DEFINE Kept == /\ path \in Request \cup {<<>>} /\ answer \in Seq(Element)
                   /\ phase \in {"start", "rejected", "ready", "reducing", "answered",
                                 "undefined"}
                   /\ phase = "reducing" => partial # {}
<1>1. RInit => Kept
  BY DEF RInit
<1>2. TieFree /\ Kept /\ [RNext]_rvars => Kept'
  <2> SUFFICES ASSUME TieFree, Kept, [RNext]_rvars PROVE Kept'
    OBVIOUS
  <2>1. CASE Load
    BY <2>1 DEF Load
  <2>2. ASSUME NEW p \in Request, Refuse(p) \/ Match(p) \/ MatchNothing(p) PROVE Kept'
    <3>1. CASE Refuse(p)
      <4>1. <<>> \in Seq(Element)
        OBVIOUS
      <4> QED
        BY <3>1, <4>1 DEF Refuse
    <3>2. CASE Match(p)
      <4>1. NoMatch \in partial'
        BY <3>2 DEF Match
      <4> QED
        BY <3>2, <4>1 DEF Match
    <3>3. CASE MatchNothing(p)
      BY <3>3 DEF MatchNothing
    <3> QED
      BY <2>2, <3>1, <3>2, <3>3
  <2>3. ASSUME NEW x \in partial, NEW y \in partial, Reduce(x, y) PROVE Kept'
    BY <2>3 DEF Reduce
  <2>4. ASSUME NEW m \in partial, Finish(m) PROVE Kept'
    <3>1. /\ answer' = IF m = NoMatch THEN <<>>
                       ELSE Join(RootOf(m.sa), SubSeq(path, Len(m.path) + 1, Len(path)))
          /\ phase' = "answered" /\ UNCHANGED path
          /\ areas \in Configurations /\ Acceptable(areas) /\ path \in Seq(Element)
      BY <2>4 DEF Finish, TieFree
    <3>2. ASSUME m # NoMatch
          PROVE  /\ RootOf(m.sa) \in Seq(Element) \ {<<>>}
                 /\ SubSeq(path, Len(m.path) + 1, Len(path)) \in Seq(Element)
      <4>1. PICK n \in DOMAIN areas : m.sa = areas[n].name /\ m.path \in Seq(Element)
        BY <3>2 DEF TieFree, Sound, IsMatch, MatchRecord
      <4>2. RootOf(m.sa) = areas[n].root
        BY <3>1, <4>1, RootOfArea
      <4>3. areas[n].root \in Root
        BY <3>1 DEF Configurations, Area
      <4> QED
        BY <3>1, <4>1, <4>2, <4>3, ResolverAssumption
    <3>3. <<>> \in Seq(Element)
      OBVIOUS
    <3>4. ASSUME m # NoMatch
          PROVE  Join(RootOf(m.sa), SubSeq(path, Len(m.path) + 1, Len(path))) \in Seq(Element)
      BY <3>2, <3>4, JoinType
    <3>5. answer' \in Seq(Element)
      BY <3>1, <3>3, <3>4
    <3> QED
      BY <3>1, <3>5
  <2>5. CASE UNCHANGED rvars
    BY <2>5 DEF rvars
  <2> QED
    BY <2>1, <2>2, <2>3, <2>4, <2>5 DEF RNext
<1>3. TieFree /\ Kept => RTypeOK
  BY DEF TieFree, Sound, Configurations, RTypeOK
<1> HIDE DEF Kept
<1> QED
  BY <1>1, <1>2, <1>3, TieFreeAlways, PTL DEF RSpec
=============================================================================
