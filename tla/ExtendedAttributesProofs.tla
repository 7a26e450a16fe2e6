---------------------- MODULE ExtendedAttributesProofs ----------------------
(***************************************************************************)
(* Theorems about ExtendedAttributes: however the attributes of a file     *)
(* change between the calls of the system that a function makes, a value   *)
(* or a list of names that it returns is one that was there.               *)
(***************************************************************************)
EXTENDS ExtendedAttributes, SequenceTheorems, FiniteSetTheorems, TLAPS

-----------------------------------------------------------------------------
(* The calls of the system *)

\* A value is a sequence of bytes, of a bounded length, with no NUL to follow it.
LEMMA ValueFacts ==
  ASSUME NEW v \in Value
  PROVE  v \in Seq(Byte) /\ Len(v) \in 0..MaxSize /\ v = v \o NULs(0)
<1>1. MaxSize \in Nat
  BY AttributesAssumption
<1>2. PICK n \in 0..MaxSize : v \in [1..n -> Byte]
  BY DEF Value
<1>3. n \in Nat /\ v \in Seq(Byte)
  BY <1>1, <1>2, SeqDef
<1>4. Len(v) = n
  BY <1>2, <1>3, LenProperties
<1>5. NULs(0) = <<>>
  BY DEF NULs
<1> QED
  BY <1>2, <1>3, <1>4, <1>5, ConcatEmptySeq

\* There is an empty value.
LEMMA NoValue == <<>> \in Value
<1>1. 0 \in 0..MaxSize
  BY AttributesAssumption
<1>2. <<>> \in [1..0 -> Byte]
  OBVIOUS
<1> QED
  BY <1>1, <1>2 DEF Value

\* What the attributes of a file are.
LEMMA AttributesFacts ==
  ASSUME NEW a \in Attributes
  PROVE  /\ Names(a) \in SUBSET Name
         /\ \A n \in Names(a) : a[n] \in Value
         /\ a # NoFile => DOMAIN a = Names(a)
BY DEF Attributes, OfAFile, Names

\* getxattr succeeds on an attribute that is there and that there is room for.
LEMMA GetSucceeds ==
  ASSUME NEW n, NEW room, "ok" \in getxattr(n, room)
  PROVE  n \in Names(attrs) /\ attrs # NoFile /\ room \notin 1..(Len(attrs[n]) - 1)
BY DEF getxattr, Faults, Has, Names

\* listxattr succeeds on a file that is there, if there is room for its names.
LEMMA ListSucceeds ==
  ASSUME NEW room, "ok" \in listxattr(room)
  PROVE  attrs # NoFile /\ room \notin 1..(Cardinality(Names(attrs)) - 1)
BY DEF listxattr, Faults

\* A file has a finite number of attributes.
LEMMA NamesAreCounted ==
  ASSUME ATypeOK
  PROVE  /\ Cardinality(Names(attrs)) \in Nat
         /\ Cardinality(Names(attrs)) = 0 => Names(attrs) = {}
<1>1. IsFiniteSet(Names(attrs))
  BY AttributesFacts, AttributesAssumption, FS_Subset DEF ATypeOK
<1> QED
  BY <1>1, FS_CardinalityType, FS_EmptySet

-----------------------------------------------------------------------------
(* The types *)

\* What the functions that write make of the attributes.
LEMMA Written ==
  ASSUME attrs \in Attributes, NEW n \in Name, NEW v \in Value
  PROVE  /\ With(n, v) \in OfAFile /\ n \in DOMAIN With(n, v)
         /\ With(n, v) \in Attributes /\ Created(n) \in Attributes
         /\ [m \in Names(attrs) \ {n} |-> attrs[m]] \in Attributes
<1>1. ASSUME NEW w \in Value PROVE With(n, w) \in OfAFile
  <2> DEFINE f(m) == IF m = n THEN w ELSE attrs[m]
  <2>1. \A m \in Names(attrs) \cup {n} : f(m) \in Value
    BY AttributesFacts
  <2>2. Names(attrs) \cup {n} \in SUBSET Name
    BY AttributesFacts
  <2>3. [m \in Names(attrs) \cup {n} |-> f(m)] \in [Names(attrs) \cup {n} -> Value]
    BY <2>1
  <2>4. [m \in Names(attrs) \cup {n} |-> f(m)] \in OfAFile
    BY <2>2, <2>3 DEF OfAFile
  <2> QED
    BY <2>4 DEF With
<1>2. Created(n) \in Attributes
  BY <1>1, NoValue DEF Created, Attributes
<1>3. [m \in Names(attrs) \ {n} |-> attrs[m]] \in Attributes
  <2>1. Names(attrs) \ {n} \in SUBSET Name /\ \A m \in Names(attrs) \ {n} : attrs[m] \in Value
    BY AttributesFacts
  <2> QED
    BY <2>1 DEF Attributes, OfAFile
<1>4. n \in DOMAIN With(n, v)
  BY DEF With
<1> QED
  BY <1>1, <1>2, <1>3, <1>4 DEF Attributes

\* The parts of a result.
LEMMA Parts ==
  ASSUME NEW f, NEW e, NEW v, NEW n
  PROVE  /\ Result(f, e, v, n).function = f /\ Result(f, e, v, n).error = e
         /\ Result(f, e, v, n).value = v /\ Result(f, e, v, n).names = n
BY DEF Result

\* The other functions, and what they are at when they have not returned, have
\* nothing to do with the ones that read.
LEMMA NextReads ==
  ASSUME [Next]_vars
  PROVE  \/ \E n \in Name : GetXattr(n)
         \/ GetSize \/ GetAgain \/ ListXattrNames \/ ListAgain \/ Change
         \/ UNCHANGED vars
         \/ /\ pc' \notin {"get_size", "get_again", "list_again"}
            /\ result'.function \notin {"get", "list"}
<1> DEFINE Other == /\ pc' \notin {"get_size", "get_again", "list_again"}
                    /\ result'.function \notin {"get", "list"}
<1>1. ASSUME NEW n \in Name, HasXattr(n) \/ CreateXattr(n) \/ RemoveXattr(n) PROVE Other
  BY <1>1, Parts DEF HasXattr, CreateXattr, RemoveXattr, Return
<1>2. ASSUME NEW n \in Name, NEW v \in Value, SetXattr(n, v) PROVE Other
  BY <1>2, Parts DEF SetXattr, Return
<1>3. ProbeOpen \/ ProbeRead \/ ProbeCreate \/ ProbeHas \/ Guard => Other
  BY Parts DEF ProbeOpen, ProbeRead, ProbeCreate, ProbeHas, Guard, ProbeFails, Return, GoTo,
         NoResult
<1> QED
  BY <1>1, <1>2, <1>3 DEF Next

\* The attributes keep their type.
LEMMA NextAttributes ==
  ASSUME attrs \in Attributes, [Next]_vars
  PROVE  attrs' \in Attributes
<1>1. ASSUME NEW n \in Name, GetXattr(n) \/ HasXattr(n) PROVE attrs' = attrs
  BY <1>1 DEF GetXattr, HasXattr
<1>2. ASSUME NEW n \in Name, CreateXattr(n) \/ RemoveXattr(n) PROVE attrs' \in Attributes
  BY <1>2, Written, NoValue DEF CreateXattr, RemoveXattr
<1>3. ASSUME NEW n \in Name, NEW v \in Value, SetXattr(n, v) PROVE attrs' \in Attributes
  BY <1>3, Written DEF SetXattr
<1>4. GetSize \/ GetAgain \/ ListXattrNames \/ ListAgain \/ ProbeRead \/ ProbeHas
        \/ UNCHANGED vars
      => attrs' = attrs
  BY DEF GetSize, GetAgain, ListXattrNames, ListAgain, ProbeRead, ProbeHas, ProbeFails, vars
<1>5. ProbeOpen => attrs' \in Attributes
  <2>1. [n \in {} |-> <<>>] \in [{} -> Value]
    OBVIOUS
  <2>2. {} \in SUBSET Name
    OBVIOUS
  <2>3. [n \in {} |-> <<>>] \in Attributes
    BY <2>1, <2>2 DEF Attributes, OfAFile
  <2> QED
    BY <2>3 DEF ProbeOpen, ProbeFails
<1>6. ProbeCreate => attrs' \in Attributes
  <2>1. TSMRecT \in Name
    BY AttributesAssumption
  <2> QED
    BY <2>1, Written, NoValue DEF ProbeCreate, ProbeFails
<1>7. Guard \/ Change => attrs' \in Attributes
  BY DEF Guard, Change, Attributes
<1> QED
  BY <1>1, <1>2, <1>3, <1>4, <1>5, <1>6, <1>7 DEF Next

\* Every step keeps the types: the sizes are those of values and of sets of names, and
\* the names that are returned are names of attributes.
LEMMA NextATypeOK ==
  ASSUME ATypeOK, [Next]_vars
  PROVE  ATypeOK'
<1> USE DEF ATypeOK
<1> DEFINE Moves == /\ pc' \in {"idle", "get_size", "get_again", "list_again",
                                "probe_read", "probe_create", "probe_has", "guard"}
                    /\ name' \in Name /\ size' \in Nat /\ result'.names \subseteq Name
<1>1. ASSUME NEW n \in Name, GetXattr(n) PROVE Moves
  BY <1>1, Parts DEF GetXattr, Return, GoTo, NoResult
<1>2. ASSUME NEW n \in Name, HasXattr(n) \/ CreateXattr(n) \/ RemoveXattr(n) PROVE Moves
  BY <1>2, Parts DEF HasXattr, CreateXattr, RemoveXattr, Return
<1>3. ASSUME NEW n \in Name, NEW v \in Value, SetXattr(n, v) PROVE Moves
  BY <1>3, Parts DEF SetXattr, Return
<1>4. GetSize => Moves
  <2>1. "ok" \in getxattr(name, 0) => Len(attrs[name]) \in Nat
    BY GetSucceeds, AttributesFacts, ValueFacts, AttributesAssumption
  <2> QED
    BY <2>1, Parts DEF GetSize, Return, GoTo, NoResult
<1>5. GetAgain => Moves
  BY Parts DEF GetAgain, Filled, Return
<1>6. ListXattrNames => Moves
  BY NamesAreCounted, Parts DEF ListXattrNames, Return, GoTo, NoResult
<1>7. ListAgain => Moves
  BY AttributesFacts, Parts DEF ListAgain, Split, Return
<1>8. ProbeOpen \/ ProbeRead \/ ProbeCreate \/ ProbeHas \/ Guard => Moves
  BY Parts DEF ProbeOpen, ProbeRead, ProbeCreate, ProbeHas, Guard, ProbeFails, Return, GoTo,
         NoResult
<1>9. Change \/ UNCHANGED vars => Moves
  BY DEF Change, vars
<1>10. Moves
  BY <1>1, <1>2, <1>3, <1>4, <1>5, <1>6, <1>7, <1>8, <1>9 DEF Next
<1> QED
  BY <1>10, NextAttributes

\* The variables have their types, for any number of names and any length of values.
THEOREM AttributeTypes == ASpec => []ATypeOK
<1>1. Init => ATypeOK
  BY AttributesAssumption, Parts DEF Init, ATypeOK, NoResult
<1>2. ATypeOK /\ [Next]_vars => ATypeOK'
  BY NextATypeOK
<1> QED
  BY <1>1, <1>2, PTL DEF ASpec

-----------------------------------------------------------------------------
(* What is returned was there *)

\* While a function reads, what is there now is among what has been there since it was
\* called; and if it was told that there is nothing to read, nothing was there then.
SeenSoFar ==
  /\ pc \in {"get_size", "get_again"} =>
       ToGet(attrs, name) \subseteq held /\ held \subseteq Value
  /\ pc = "get_again" => size <= MaxSize /\ (size = 0 => <<>> \in held)
  /\ pc = "list_again" => Names(attrs) \in held /\ (size = 0 => {} \in held)

\* What is there now is made of values.
LEMMA ToGetFacts ==
  ASSUME NEW a \in Attributes, NEW n
  PROVE  ToGet(a, n) \subseteq Value
BY AttributesFacts DEF ToGet

\* Every change is seen, and the size is of something that was there.
LEMMA NextSeenSoFar ==
  ASSUME ATypeOK, SeenSoFar, [Next]_vars
  PROVE  SeenSoFar'
<1>0. attrs \in Attributes /\ attrs' \in Attributes /\ size \in Nat
  BY NextAttributes DEF ATypeOK
<1>1. ASSUME NEW n \in Name, GetXattr(n) PROVE SeenSoFar'
  BY <1>0, <1>1, ToGetFacts DEF GetXattr, Return, GoTo, SeenSoFar
<1>2. CASE GetSize
  <2>1. CASE pc' = "get_again"
    <3>1. "ok" \in getxattr(name, 0) /\ size' = Len(attrs[name])
      BY <1>2, <2>1 DEF GetSize, Return, GoTo
    <3>2. name \in Names(attrs) /\ attrs[name] \in Value
      BY <1>0, <3>1, GetSucceeds, AttributesFacts
    <3>3. attrs[name] \in held
      BY <1>2, <3>2 DEF GetSize, SeenSoFar, ToGet
    <3>4. size' <= MaxSize /\ (size' = 0 => attrs[name] = <<>>)
      BY <3>1, <3>2, ValueFacts, EmptySeq, AttributesAssumption
    <3> QED
      BY <1>2, <2>1, <3>3, <3>4 DEF GetSize, SeenSoFar
  <2> QED
    BY <1>2, <2>1 DEF GetSize, Return, GoTo, SeenSoFar
<1>3. CASE GetAgain \/ ListAgain
  BY <1>3 DEF GetAgain, ListAgain, Return, SeenSoFar
<1>4. CASE ListXattrNames
  BY <1>4, NamesAreCounted DEF ListXattrNames, Return, GoTo, SeenSoFar, ToList
<1>5. CASE Change
  BY <1>0, <1>5, ToGetFacts DEF Change, SeenSoFar, ToList
<1>6. CASE pc' \notin {"get_size", "get_again", "list_again"}
  BY <1>6 DEF SeenSoFar
<1>7. CASE UNCHANGED vars
  BY <1>7 DEF SeenSoFar, vars
<1> QED
  BY <1>1, <1>2, <1>3, <1>4, <1>5, <1>6, <1>7, NextReads

\* The last call fills the string with what is there now, or leaves it empty.
LEMMA NextGetIsHeld ==
  ASSUME ATypeOK, SeenSoFar, GetIsHeld, [Next]_vars
  PROVE  GetIsHeld'
<1>0. attrs \in Attributes /\ size \in Nat /\ MaxSize \in Nat
  BY AttributesAssumption DEF ATypeOK
<1>1. SUFFICES ASSUME result'.function = "get", result'.error = "ok"
               PROVE  \E v \in held' : \E n \in 0..MaxSize : result'.value = v \o NULs(n)
  BY DEF GetIsHeld
<1>2. ASSUME NEW m \in Name, GetXattr(m)
      PROVE  \E v \in held' : \E n \in 0..MaxSize : result'.value = v \o NULs(n)
  <2>1. "ok" \in getxattr(m, Capacity) /\ result'.value = attrs[m]
    BY <1>1, <1>2, Parts DEF GetXattr, Return, GoTo, NoResult
  <2>2. m \in Names(attrs) /\ attrs[m] \in Value /\ held' = {attrs[m]}
    BY <1>0, <1>2, <2>1, GetSucceeds, AttributesFacts DEF GetXattr, ToGet
  <2>3. 0 \in 0..MaxSize /\ result'.value = attrs[m] \o NULs(0)
    BY <1>0, <2>1, <2>2, ValueFacts
  <2> QED
    BY <2>2, <2>3
<1>3. ASSUME GetAgain
      PROVE  \E v \in held' : \E n \in 0..MaxSize : result'.value = v \o NULs(n)
  <2>1. /\ pc = "get_again" /\ held' = held
        /\ "ok" \in getxattr(name, size) /\ result' = Filled("ok")
    BY <1>1, <1>3, Parts DEF GetAgain, Return, Filled
  <2>2. /\ name \in Names(attrs) /\ attrs[name] \in Value
        /\ size \notin 1..(Len(attrs[name]) - 1)
    BY <1>0, <2>1, GetSucceeds, AttributesFacts
  <2>3. attrs[name] \in held /\ size <= MaxSize /\ (size = 0 => <<>> \in held)
    BY <2>1, <2>2 DEF SeenSoFar, ToGet
  <2>4. CASE size = 0
    <3>1. 0 \in 0..MaxSize /\ result'.value = <<>> \o NULs(0)
      BY <1>0, <2>1, <2>4, NoValue, ValueFacts, Parts DEF Filled
    <3> QED
      BY <2>1, <2>3, <2>4, <3>1
  <2>5. CASE size # 0
    <3>1. size - Len(attrs[name]) \in 0..MaxSize
      BY <1>0, <2>2, <2>3, <2>5, ValueFacts
    <3>2. result'.value = attrs[name] \o NULs(size - Len(attrs[name]))
      <4> DEFINE filled == attrs[name] \o NULs(size - Len(attrs[name]))
      <4>1. result' = Result("get", "ok", filled, {})
        BY <2>1, <2>5 DEF Filled
      <4> HIDE DEF filled
      <4>2. result'.value = filled
        BY <4>1, Parts
      <4> QED
        BY <4>2 DEF filled
    <3> QED
      BY <2>1, <2>3, <3>1, <3>2
  <2> QED
    BY <2>4, <2>5
<1>4. ~(GetSize \/ ListXattrNames \/ ListAgain)
  BY <1>1, Parts DEF GetSize, ListXattrNames, ListAgain, Return, GoTo, NoResult
<1>5. ASSUME Change
      PROVE  \E v \in held' : \E n \in 0..MaxSize : result'.value = v \o NULs(n)
  <2>1. result' = result /\ held \subseteq held'
    BY <1>5 DEF Change
  <2> QED
    BY <1>1, <2>1 DEF GetIsHeld
<1>6. ASSUME UNCHANGED vars
      PROVE  \E v \in held' : \E n \in 0..MaxSize : result'.value = v \o NULs(n)
  BY <1>1, <1>6 DEF vars, GetIsHeld
<1> QED
  BY <1>1, <1>2, <1>3, <1>4, <1>5, <1>6, NextReads

\* The last call lists the names there are now, or none.
LEMMA NextListIsHeld ==
  ASSUME SeenSoFar, ListIsHeld, [Next]_vars
  PROVE  ListIsHeld'
<1>1. SUFFICES ASSUME result'.function = "list", result'.error = "ok"
               PROVE  result'.names \in held'
  BY DEF ListIsHeld
<1>2. ASSUME ListAgain PROVE result'.names \in held'
  <2>1. pc = "list_again" /\ held' = held /\ result'.names = Split
    BY <1>1, <1>2, Parts DEF ListAgain, Return
  <2> QED
    BY <2>1 DEF SeenSoFar, Split
<1>3. ASSUME NEW n \in Name PROVE ~GetXattr(n)
  BY <1>1, Parts DEF GetXattr, Return, GoTo, NoResult
<1>4. ~(GetSize \/ GetAgain)
  BY <1>1, Parts DEF GetSize, GetAgain, Filled, Return, GoTo, NoResult
<1>5. ~ListXattrNames
  BY <1>1, Parts DEF ListXattrNames, Return, GoTo, NoResult
<1>6. ASSUME Change PROVE result'.names \in held'
  <2>1. result' = result /\ held \subseteq held'
    BY <1>6 DEF Change
  <2> QED
    BY <1>1, <2>1 DEF ListIsHeld
<1>7. UNCHANGED vars => result'.names \in held'
  BY <1>1 DEF vars, ListIsHeld
<1> QED
  BY <1>1, <1>2, <1>3, <1>4, <1>5, <1>6, <1>7, NextReads

\* What is there is seen by the functions that read.
LEMMA Seen == ASpec => []SeenSoFar
<1>1. Init => SeenSoFar
  BY DEF Init, SeenSoFar
<1>2. ATypeOK /\ SeenSoFar /\ [Next]_vars => SeenSoFar'
  BY NextSeenSoFar
<1> QED
  BY <1>1, <1>2, AttributeTypes, PTL DEF ASpec

\* However a value changes between the three calls of get_xattr(), what this returns
\* without error was there at one moment since it was called, but for NULs at its end.
THEOREM GotValuesAreHeld == ASpec => []GetIsHeld
<1>1. Init => GetIsHeld
  BY Parts DEF Init, GetIsHeld, NoResult
<1>2. ATypeOK /\ SeenSoFar /\ GetIsHeld /\ [Next]_vars => GetIsHeld'
  BY NextGetIsHeld
<1> QED
  BY <1>1, <1>2, AttributeTypes, Seen, PTL DEF ASpec

\* However many names come and go between the two calls of list_xattr_names(), those
\* that it returns without error were all the names of the file at one moment.
THEOREM ListedNamesAreHeld == ASpec => []ListIsHeld
<1>1. Init => ListIsHeld
  BY Parts DEF Init, ListIsHeld, NoResult
<1>2. SeenSoFar /\ ListIsHeld /\ [Next]_vars => ListIsHeld'
  BY NextListIsHeld
<1> QED
  BY <1>1, <1>2, Seen, PTL DEF ASpec

-----------------------------------------------------------------------------
(* The mark of the other modules *)

\* The answers of has_xattr() about the mark are those that is_in_progress() may give,
\* no more and no less.
LEMMA MarkIsRead ==
  ASSUME NEW data \in Data \ {"absent"}, NEW tape \in BOOLEAN
  PROVE  {IF error # "ok" THEN "error" ELSE IF Has(TSMRecT) THEN "yes" ELSE "no" :
            error \in has_xattr(TSMRecT)}
           = is_in_progress(FileOf(attrs, data, tape), "getxattr" \in Failing)
<1> DEFINE d == FileOf(attrs, data, tape)
           io == "getxattr" \in Failing
           answers == {IF error # "ok" THEN "error" ELSE IF Has(TSMRecT) THEN "yes" ELSE "no" :
                         error \in has_xattr(TSMRecT)}
<1>1. CASE attrs = NoFile
  <2>1. getxattr(TSMRecT, 0) = Faults("getxattr") \cup {"ENOENT"}
    BY <1>1 DEF getxattr
  <2>2. answers = {"error"}
    BY <2>1 DEF has_xattr, Faults
  <2>3. d.data = "absent"
    BY <1>1 DEF FileOf, Absent, New
  <2> HIDE DEF d, answers
  <2>4. is_in_progress(d, io) = {"error"}
    BY <2>3 DEF is_in_progress, Fails, Succeeds
  <2> QED
    BY <2>2, <2>4 DEF d, answers
<1>2. CASE attrs # NoFile
  <2>1. d.data # "absent" /\ (d.recall <=> Has(TSMRecT))
    BY <1>2 DEF FileOf, Has, Names
  <2>2. is_in_progress(d, io) =
          (IF io THEN {"error"} ELSE {}) \cup {IF Has(TSMRecT) THEN "yes" ELSE "no"}
    <3> HIDE DEF d, io, answers
    <3> QED
      BY <2>1 DEF is_in_progress, Fails, Succeeds
  <2>3. getxattr(TSMRecT, 0)
          = Faults("getxattr") \cup {IF Has(TSMRecT) THEN "ok" ELSE "ENODATA"}
    <3>1. Has(TSMRecT) => 0 \notin 1..(Len(attrs[TSMRecT]) - 1)
      OBVIOUS
    <3> QED
      BY <1>2, <3>1 DEF getxattr, Has
  <2>4. has_xattr(TSMRecT) = Faults("getxattr") \cup {"ok"}
    BY <2>3 DEF has_xattr, Faults
  <2>5. answers = (IF io THEN {"error"} ELSE {}) \cup {IF Has(TSMRecT) THEN "yes" ELSE "no"}
    BY <2>4 DEF Faults
  <2> QED
    BY <2>2, <2>5
<1> QED
  BY <1>1, <1>2

\* create_xattr() leaves the file as the create_xattr of Storage may leave it.
LEMMA MarkIsSet ==
  ASSUME attrs \in Attributes, CreateXattr(TSMRecT),
         NEW data \in Data \ {"absent"}, NEW tape \in BOOLEAN
  PROVE  FileOf(attrs', data, tape)
           \in create_xattr(FileOf(attrs, data, tape), "setxattr" \in Failing)
<1>1. PICK error \in setxattr : attrs' = IF error = "ok" THEN Created(TSMRecT) ELSE attrs
  BY DEF CreateXattr
<1>2. CASE attrs = NoFile
  <2>1. attrs' = attrs
    BY <1>1, <1>2 DEF setxattr, Faults
  <2> QED
    BY <1>2, <2>1 DEF FileOf, Absent, New, create_xattr
<1>3. CASE attrs # NoFile /\ error = "ok"
  <2>1. Has(TSMRecT) => TSMRecT \in Names(Created(TSMRecT)) /\ Created(TSMRecT) # NoFile
    BY DEF Created, Has, Names
  <2>2. With(TSMRecT, <<>>) \in OfAFile /\ TSMRecT \in DOMAIN With(TSMRecT, <<>>)
    BY Written, NoValue, AttributesAssumption
  <2>3. TSMRecT \in Names(Created(TSMRecT)) /\ Created(TSMRecT) # NoFile
    BY <2>1, <2>2, NoFileAssumption DEF Created, Names
  <2> QED
    BY <1>1, <1>3, <2>3 DEF FileOf, create_xattr, WithRecall
<1>4. CASE attrs # NoFile /\ error # "ok"
  <2>1. "setxattr" \in Failing /\ attrs' = attrs
    BY <1>1, <1>4 DEF setxattr, Faults
  <2> QED
    BY <1>4, <2>1 DEF FileOf, create_xattr
<1> QED
  BY <1>2, <1>3, <1>4

\* The functions on attributes implement the mark that all the other theorems are about:
\* what TapeService takes for a Boolean, which a call reads or sets at once.
THEOREM MarksAreAttributes == ASpec => MarksAsInStorage
<1>1. ASSUME [Next]_vars, NEW data \in Data \ {"absent"}, NEW tape \in BOOLEAN,
             HasXattr(TSMRecT)
      PROVE  Answer(result')
               \in is_in_progress(FileOf(attrs, data, tape), "getxattr" \in Failing)
  <2>1. PICK error \in has_xattr(TSMRecT) :
          result' = Result("has", error, <<>>,
                           IF error = "ok" /\ Has(TSMRecT) THEN {TSMRecT} ELSE {})
    BY <1>1 DEF HasXattr, Return
  <2> DEFINE found == IF error = "ok" /\ Has(TSMRecT) THEN {TSMRecT} ELSE {}
  <2>2. result'.error = error /\ result'.names = found
    BY <2>1 DEF Result
  <2> HIDE DEF found
  <2>3. Answer(result') = IF error # "ok" THEN "error" ELSE IF found = {} THEN "no" ELSE "yes"
    BY <2>2 DEF Answer
  <2>4. Answer(result')
          = IF error # "ok" THEN "error" ELSE IF Has(TSMRecT) THEN "yes" ELSE "no"
    BY <2>3 DEF found
  <2> QED
    BY <2>4, MarkIsRead
<1>2. ATypeOK /\ [Next]_vars =>
        [\A data \in Data \ {"absent"}, tape \in BOOLEAN :
           LET d == FileOf(attrs, data, tape)
           IN  /\ HasXattr(TSMRecT) =>
                    Answer(result') \in is_in_progress(d, "getxattr" \in Failing)
               /\ CreateXattr(TSMRecT) =>
                    FileOf(attrs', data, tape) \in create_xattr(d, "setxattr" \in Failing)]_vars
  BY <1>1, MarkIsSet DEF ATypeOK
<1> QED
  BY <1>2, AttributeTypes, PTL DEF ASpec, MarksAsInStorage
=============================================================================
