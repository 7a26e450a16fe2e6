------------------------ MODULE PathDifferenceProofs ------------------------
(***************************************************************************)
(* Theorems about PathDifference, for requests and stages of any length.   *)
(***************************************************************************)
EXTENDS PathDifference, TLAPS

\* A list has its length.
LEMMA ListFacts ==
  ASSUME NEW s \in Lists
  PROVE  /\ Len(s) \in Nat /\ DOMAIN s = 1..Len(s)
         /\ \A k \in 1..Len(s) : s[k] \in Path /\ s[k] \in In(s)
<1>1. PICK n \in 0..MaxLength : s \in [1..n -> Path]
  BY DEF Lists
<1>2. n \in Nat
  BY <1>1, PathAssumption
<1>3. Len(s) = n /\ DOMAIN s = 1..n
  BY <1>1, <1>2
<1> QED
  BY <1>1, <1>2, <1>3 DEF In

\* The type invariant is inductive.
LEMMA DTypes ==
  /\ DInit => DTypeOK
  /\ DTypeOK /\ [DNext]_dvars => DTypeOK'
<1>1. ASSUME DInit PROVE DTypeOK
  <2>1. asked \in Lists /\ files \in Lists
    BY <1>1 DEF DInit
  <2>2. Len(asked) \in Nat /\ Len(files) \in Nat
    BY <2>1, ListFacts
  <2> QED
    BY <1>1, <2>1, <2>2 DEF DInit, DTypeOK
<1>2. ASSUME DTypeOK, [DNext]_dvars PROVE DTypeOK'
  <2>1. /\ Len(asked) \in Nat /\ Len(files) \in Nat
        /\ \A k \in 1..Len(asked) : asked[k] \in Path
    BY <1>2, ListFacts DEF DTypeOK
  <2>2. UNCHANGED <<asked, files>>
    BY <1>2 DEF DNext, dvars, Extra, Skip, Same, Rest, Answer
  <2>3. i \in 1..Len(asked) + 1 /\ j \in 1..Len(files) + 1 /\ invalid \in SUBSET Path
    BY <1>2 DEF DTypeOK
  <2>4. CASE Extra
    BY <1>2, <2>1, <2>2, <2>3, <2>4 DEF Extra, Left, DTypeOK
  <2>5. CASE Skip
    BY <1>2, <2>1, <2>2, <2>3, <2>5 DEF Skip, Left, DTypeOK
  <2>6. CASE Same
    BY <1>2, <2>1, <2>2, <2>3, <2>6 DEF Same, Left, DTypeOK
  <2>7. CASE Rest
    BY <1>2, <2>1, <2>2, <2>3, <2>7 DEF Rest, DTypeOK
  <2>8. CASE Answer
    BY <1>2, <2>2, <2>8 DEF Answer, DTypeOK
  <2>9. CASE UNCHANGED dvars
    BY <1>2, <2>9 DEF dvars, DTypeOK
  <2> QED
    BY <1>2, <2>4, <2>5, <2>6, <2>7, <2>8, <2>9 DEF DNext
<1> QED
  BY <1>1, <1>2

-----------------------------------------------------------------------------
(* No path of another stage is accepted *)

\* The paths gone through are in the stage or invalid.
Sorted == /\ invalid \subseteq In(asked)
          /\ \A a \in 1..Len(asked) : a < i => asked[a] \in In(files) \cup invalid
          /\ answer # "none" => i > Len(asked)
          /\ answer = "done" => invalid = {}

\* No step leaves a path behind.
LEMMA NextSorted ==
  ASSUME DTypeOK, Sorted, [DNext]_dvars
  PROVE  Sorted'
<1>1. /\ Len(asked) \in Nat /\ Len(files) \in Nat
      /\ \A k \in 1..Len(asked) : asked[k] \in In(asked)
      /\ \A k \in 1..Len(files) : files[k] \in In(files)
      /\ i \in 1..Len(asked) + 1 /\ j \in 1..Len(files) + 1
  BY ListFacts DEF DTypeOK
<1>2. UNCHANGED <<asked, files>>
  BY DEF DNext, dvars, Extra, Skip, Same, Rest, Answer
<1>3. In(files)' = In(files) /\ In(asked)' = In(asked)
  BY <1>2
<1>4. CASE Extra \/ Rest
  <2>1. i <= Len(asked) /\ i' = i + 1 /\ invalid' = invalid \cup {asked[i]}
        /\ answer' = answer
    BY <1>4 DEF Extra, Rest, Left
  <2>2. answer = "none"
    BY <1>1, <2>1 DEF Sorted
  <2>3. \A a \in 1..Len(asked) : a < i + 1 => a < i \/ a = i
    BY <1>1
  <2>4. asked[i] \in In(asked)
    BY <1>1, <2>1
  <2> QED
    BY <1>2, <1>3, <2>1, <2>2, <2>3, <2>4 DEF Sorted
<1>5. CASE Same
  <2>1. /\ i <= Len(asked) /\ j <= Len(files) /\ asked[i] = files[j]
        /\ i' = i + 1 /\ invalid' = invalid /\ answer' = answer
    BY <1>5 DEF Same, Left
  <2>2. answer = "none"
    BY <1>1, <2>1 DEF Sorted
  <2>3. asked[i] \in In(files)
    BY <1>1, <2>1
  <2>4. \A a \in 1..Len(asked) : a < i + 1 => a < i \/ a = i
    BY <1>1
  <2> QED
    BY <1>2, <1>3, <2>1, <2>2, <2>3, <2>4 DEF Sorted
<1>6. CASE Skip
  BY <1>2, <1>3, <1>6 DEF Skip, Sorted
<1>7. CASE Answer
  BY <1>2, <1>3, <1>7 DEF Answer, Sorted
<1>8. CASE UNCHANGED dvars
  BY <1>3, <1>8 DEF dvars, Sorted
<1> QED
  BY <1>4, <1>5, <1>6, <1>7, <1>8 DEF DNext

\* The two ranges stay within their lists, of any length.
THEOREM DifferenceTypes == DSpec => []DTypeOK
BY DTypes, PTL DEF DSpec

\* Where the difference is at is sorted out, always.
LEMMA DifferenceIsSorted == DSpec => []Sorted
<1>1. DInit => Sorted
  BY DEF DInit, Sorted
<1>2. DTypeOK /\ Sorted /\ [DNext]_dvars => Sorted'
  BY NextSorted
<1> QED
  BY <1>1, <1>2, DTypes, PTL DEF DSpec

\* A cancellation or a release that goes through names files of the stage only,
\* even where the two orders differ and paths are repeated.
THEOREM NoStranger == DSpec => []NoStrangerAccepted
<1>1. DTypeOK /\ Sorted => NoStrangerAccepted
  <2> SUFFICES ASSUME DTypeOK, Sorted, answer = "done"
               PROVE  In(asked) \subseteq In(files)
    BY DEF NoStrangerAccepted
  <2>1. /\ Len(asked) \in Nat /\ DOMAIN asked = 1..Len(asked)
        /\ i \in 1..Len(asked) + 1 /\ i > Len(asked)
    BY ListFacts DEF DTypeOK, Sorted
  <2>2. \A a \in 1..Len(asked) : asked[a] \in In(files)
    BY <2>1 DEF Sorted
  <2> QED
    BY <2>1, <2>2 DEF In
<1> QED
  BY <1>1, DifferenceIsSorted, DifferenceTypes, PTL

-----------------------------------------------------------------------------
(* Where the two lists are sorted alike, exactly the others are invalid *)

\* The request and the stage are in one order, without repetitions.
SortedAlike == Increasing(asked) /\ Increasing(files)

\* Nothing of the stage is invalid, and the files gone through come before the
\* paths still to go through.
Apart ==
  /\ invalid \subseteq In(asked) \ In(files)
  /\ \A a \in 1..Len(asked) : \A b \in 1..Len(files) :
       i <= a /\ b < j => files[b] < asked[a]

\* A path less than the next file, or with no file left, is none of the files.
LEMMA StrangerFacts ==
  ASSUME DTypeOK, SortedAlike, Apart, i <= Len(asked), j <= Len(files) => asked[i] < files[j]
  PROVE  asked[i] \in In(asked) \ In(files)
<1>1. /\ Len(asked) \in Nat /\ DOMAIN asked = 1..Len(asked) /\ i \in 1..Len(asked)
      /\ Len(files) \in Nat /\ DOMAIN files = 1..Len(files) /\ j \in 1..Len(files) + 1
      /\ \A k \in 1..Len(asked) : asked[k] \in Path /\ asked[k] \in In(asked)
      /\ \A k \in 1..Len(files) : files[k] \in Path
  BY ListFacts DEF DTypeOK
<1>2. asked[i] \in Nat /\ \A k \in 1..Len(files) : files[k] \in Nat
  BY <1>1, PathAssumption
<1>3. \A b \in 1..Len(files) : files[b] # asked[i]
  <2> TAKE b \in 1..Len(files)
  <2>1. CASE b < j
    BY <1>1, <1>2, <2>1 DEF Apart
  <2>2. CASE b >= j
    <3>1. j \in 1..Len(files) /\ (b = j \/ j < b)
      BY <1>1, <2>2
    <3>2. files[j] <= files[b]
      BY <1>1, <1>2, <3>1 DEF SortedAlike, Increasing
    <3> QED
      BY <1>1, <1>2, <3>1, <3>2
  <2> QED
    BY <1>1, <2>1, <2>2
<1> QED
  BY <1>1, <1>3 DEF In

\* The two ranges stay apart.
LEMMA NextApart ==
  ASSUME DTypeOK, SortedAlike, Apart, [DNext]_dvars
  PROVE  Apart'
<1>1. /\ Len(asked) \in Nat /\ Len(files) \in Nat /\ DOMAIN asked = 1..Len(asked)
      /\ i \in 1..Len(asked) + 1 /\ j \in 1..Len(files) + 1
      /\ \A k \in 1..Len(asked) : asked[k] \in Nat
      /\ \A k \in 1..Len(files) : files[k] \in Nat
  BY ListFacts, PathAssumption DEF DTypeOK
<1>2. UNCHANGED <<asked, files>>
  BY DEF DNext, dvars, Extra, Skip, Same, Rest, Answer
<1>3. In(files)' = In(files) /\ In(asked)' = In(asked)
  BY <1>2
<1>4. CASE Extra \/ Rest
  <2>1. /\ i <= Len(asked) /\ i' = i + 1 /\ j' = j
        /\ invalid' = invalid \cup {asked[i]}
        /\ j <= Len(files) => asked[i] < files[j]
    BY <1>1, <1>4 DEF Extra, Rest, Left
  <2>2. asked[i] \in In(asked) \ In(files)
    BY <2>1, StrangerFacts
  <2>3. \A a \in 1..Len(asked) : \A b \in 1..Len(files) :
          i + 1 <= a /\ b < j => files[b] < asked[a]
    BY <1>1 DEF Apart
  <2> QED
    BY <1>2, <1>3, <2>1, <2>2, <2>3 DEF Apart
<1>5. CASE Skip \/ Same
  <2>1. /\ i <= Len(asked) /\ j <= Len(files) /\ j' = j + 1 /\ invalid' = invalid
        /\ \/ i' = i /\ files[j] < asked[i]
           \/ i' = i + 1 /\ files[j] = asked[i]
    BY <1>5 DEF Skip, Same, Left
  <2>2. ASSUME NEW a \in 1..Len(asked), NEW b \in 1..Len(files), i' <= a, b < j + 1
        PROVE  files[b] < asked[a]
    <3>1. CASE b < j
      BY <1>1, <2>1, <2>2, <3>1 DEF Apart
    <3>2. CASE b = j
      <4>1. i \in 1..Len(asked) /\ (i = a \/ i < a)
        BY <1>1, <2>1, <2>2
      <4>2. i < a => asked[i] < asked[a]
        BY <1>1, <4>1 DEF SortedAlike, Increasing
      <4>3. i' = i + 1 => i < a
        BY <1>1, <2>2
      <4> QED
        BY <1>1, <2>1, <2>2, <3>2, <4>1, <4>2, <4>3
    <3> QED
      BY <1>1, <2>2, <3>1, <3>2
  <2> QED
    BY <1>2, <1>3, <2>1, <2>2 DEF Apart
<1>6. CASE Answer \/ UNCHANGED dvars
  BY <1>2, <1>3, <1>6 DEF Answer, dvars, Apart
<1> QED
  BY <1>4, <1>5, <1>6 DEF DNext

\* Nothing of the stage is invalid while the two lists are sorted alike.
LEMMA StaysApart == DSpec => [](SortedAlike => Apart)
<1> DEFINE Inv == SortedAlike => Apart
<1>1. DInit => Inv
  BY DEF DInit, Apart
<1>2. DTypeOK /\ Inv /\ [DNext]_dvars => Inv'
  <2> SUFFICES ASSUME DTypeOK, Inv, [DNext]_dvars, SortedAlike' PROVE Apart'
    OBVIOUS
  <2>1. UNCHANGED <<asked, files>>
    BY DEF DNext, dvars, Extra, Skip, Same, Rest, Answer
  <2>2. SortedAlike
    BY <2>1 DEF SortedAlike, Increasing
  <2> QED
    BY <2>2, NextApart
<1> QED
  BY <1>1, <1>2, DTypes, PTL DEF DSpec

\* The answer lists every path that is not in the stage, whatever the two orders; and
\* when a request repeats no path and is sorted as the stage is, exactly those.
THEOREM Exact == DSpec => []InvalidIsExact
<1>1. DTypeOK /\ Sorted /\ (SortedAlike => Apart) => InvalidIsExact
  <2> SUFFICES ASSUME DTypeOK, Sorted, SortedAlike => Apart, answer # "none"
               PROVE  /\ In(asked) \ In(files) \subseteq invalid
                      /\ invalid \subseteq In(asked)
                      /\ SortedAlike => invalid = In(asked) \ In(files)
    BY DEF InvalidIsExact, SortedAlike
  <2>1. /\ Len(asked) \in Nat /\ DOMAIN asked = 1..Len(asked)
        /\ i \in 1..Len(asked) + 1 /\ i > Len(asked)
    BY ListFacts DEF DTypeOK, Sorted
  <2>2. \A a \in 1..Len(asked) : asked[a] \in In(files) \cup invalid
    BY <2>1 DEF Sorted
  <2>3. In(asked) \subseteq In(files) \cup invalid
    BY <2>1, <2>2 DEF In
  <2> QED
    BY <2>3 DEF Apart, Sorted
<1> QED
  BY <1>1, DifferenceIsSorted, StaysApart, DifferenceTypes, PTL

\* Only files of other stages, or of none, are said to be invalid in a request that
\* repeats no path and is sorted as the stage is: what the service says of the paths it
\* refuses can be wrong only of repeated paths, and of those that the two orders swap.
THEOREM ForeignIfAlike == DSpec => [](SortedAlike => InvalidIsForeign)
<1>1. Apart => InvalidIsForeign
  BY DEF Apart, InvalidIsForeign
<1> QED
  BY <1>1, StaysApart, PTL
=============================================================================
