------------------------- MODULE ExtendedAttributes -------------------------
(***************************************************************************)
(* The functions on extended attributes (src/src/extended_attributes.cpp), *)
(* call by call of the system, on one file whose attributes other          *)
(* processes change meanwhile, and the check of the root of a storage area *)
(* that uses them (storm_has_all_permissions of src/src/configuration.cpp).*)
(* The other modules have the mark of a file as a Boolean that has_xattr() *)
(* reads and create_xattr() sets: see MarksAsInStorage.                    *)
(***************************************************************************)
EXTENDS Storage, Naturals, FiniteSets, Sequences

CONSTANTS Name,      \* the names of attributes, of a bounded length and so finite
          TSMRecT,   \* the one that the service sets
          Byte, NUL, \* what values are made of, and what buffers are filled with
          Capacity,  \* of an empty std::string
          MaxSize,   \* bound: the length of a value
          Failing,   \* the calls that may fail by themselves
          NoFile     \* the attributes of a file that does not exist

ASSUME AttributesAssumption ==
  /\ IsFiniteSet(Name) /\ TSMRecT \in Name
  /\ NUL \notin Byte
  /\ Capacity \in Nat \ {0} /\ MaxSize \in Nat
  /\ Failing \subseteq
       {"open", "remove", "getxattr", "setxattr", "listxattr", "removexattr"}

Value == UNION {[1..n -> Byte] : n \in 0..MaxSize}
OfAFile == UNION {[N -> Value] : N \in SUBSET Name}
Attributes == {NoFile} \cup OfAFile

\* A file without attributes is there all the same.
ASSUME NoFileAssumption == NoFile \notin OfAFile

VARIABLES
  attrs,   \* of the file
  pc,      \* the next call of the running function, or "idle"
  name,    \* its argument
  size,    \* what it knows of the size
  result,  \* what the last function has returned
  held     \* what was there for it to read, at each moment since it was called

vars == <<attrs, pc, name, size, result, held>>

Has(n) == attrs # NoFile /\ n \in DOMAIN attrs
Names(a) == IF a = NoFile THEN {} ELSE DOMAIN a

\* error is "ok" if there is none, and "throws" for an exception.
Result(function, error, value, names) ==
  [function |-> function, error |-> error, value |-> value, names |-> names]
NoResult == Result("none", "ok", <<>>, {})

Init ==
  /\ attrs \in Attributes
  /\ pc = "idle" /\ name = TSMRecT /\ size = 0 /\ result = NoResult /\ held = {}

\* The value of n, or the names, of a file with attributes a.
ToGet(a, n) == IF n \in Names(a) THEN {a[n]} ELSE {}
ToList(a) == {Names(a)}

Call == pc = "idle"
Return(r) == pc' = "idle" /\ size' = 0 /\ result' = r
GoTo(step, sz) == pc' = step /\ size' = sz /\ result' = NoResult

-----------------------------------------------------------------------------
(* The system calls (xattr(7)), by the errors they may give *)

Faults(call) == IF call \in Failing THEN {"EIO"} ELSE {}

\* With no room the size is asked for.
getxattr(n, room) ==
  Faults("getxattr") \cup
  {CASE attrs = NoFile -> "ENOENT"
     [] attrs # NoFile /\ ~Has(n) -> "ENODATA"
     [] Has(n) /\ room \in 1..(Len(attrs[n]) - 1) -> "ERANGE"
     [] OTHER -> "ok"}

setxattr == Faults("setxattr") \cup {IF attrs = NoFile THEN "ENOENT" ELSE "ok"}

removexattr(n) ==
  Faults("removexattr") \cup
  {CASE attrs = NoFile -> "ENOENT" [] attrs # NoFile /\ ~Has(n) -> "ENODATA" [] OTHER -> "ok"}

\* The names take as much room as there are of them, for a length of one.
listxattr(room) ==
  Faults("listxattr") \cup
  {CASE attrs = NoFile -> "ENOENT"
     [] room \in 1..(Cardinality(Names(attrs)) - 1) -> "ERANGE"
     [] OTHER -> "ok"}

-----------------------------------------------------------------------------
(* get_xattr: three calls if the value is longer than the string's own buffer *)

GetXattr(n) ==
  /\ Call /\ name' = n /\ held' = ToGet(attrs, n)
  /\ \E error \in getxattr(n, Capacity) :
       IF error = "ERANGE" THEN GoTo("get_size", 0)
       ELSE Return(Result("get", error, IF error = "ok" THEN attrs[n] ELSE <<>>, {}))
  /\ UNCHANGED attrs

\* An error here is a size of -1, to which no string can be resized.
GetSize ==
  /\ pc = "get_size"
  /\ \E error \in getxattr(name, 0) :
       IF error = "ok" THEN GoTo("get_again", Len(attrs[name]))
       ELSE Return(Result("get", "throws", <<>>, {}))
  /\ UNCHANGED <<attrs, name, held>>

\* The string keeps its size: a value that has got shorter is followed by NULs.
\* (FilledUnchecked, for comparison, takes it as it is after an error as well.)
NULs(n) == [i \in 1..n |-> NUL]
FilledUnchecked(error) ==
  Result("get", "ok", IF error = "ok" THEN attrs[name] ELSE NULs(size), {})
Filled(error) ==
  IF error # "ok" THEN Result("get", error, <<>>, {})
  ELSE IF size = 0 THEN Result("get", "ok", <<>>, {})
  ELSE Result("get", "ok", attrs[name] \o NULs(size - Len(attrs[name])), {})
GetAgain ==
  /\ pc = "get_again"
  /\ \E error \in getxattr(name, size) : Return(Filled(error))
  /\ UNCHANGED <<attrs, name, held>>

-----------------------------------------------------------------------------
(* list_xattr_names: the size, then the names *)

ListXattrNames ==
  /\ Call /\ held' = ToList(attrs)
  /\ \E error \in listxattr(0) :
       IF error = "ok" THEN GoTo("list_again", Cardinality(Names(attrs)))
       ELSE Return(Result("list", error, <<>>, {}))
  /\ UNCHANGED <<attrs, name>>

\* The list is split at its NULs and those it is filled with; empty names are left
\* out.  With no room nothing is read.  (SplitAll, for comparison, keeps them.)
SplitAll == IF size = 0 THEN {} ELSE Names(attrs) \cup {""}
Split == IF size = 0 THEN {} ELSE Names(attrs)
ListAgain ==
  /\ pc = "list_again"
  /\ \E error \in listxattr(size) :
       Return(Result("list", error, <<>>, IF error = "ok" THEN Split ELSE {}))
  /\ UNCHANGED <<attrs, name, held>>

-----------------------------------------------------------------------------
(* has_xattr, create_xattr, set_xattr, remove_xattr: one call *)

\* ENODATA is a no.  (NoFileIsNo, for comparison, takes ENOENT for one as well.)
NoFileIsNo(n) ==
  {IF error \in {"ENODATA", "ENOENT"} THEN "ok" ELSE error : error \in getxattr(n, 0)}
has_xattr(n) ==
  {IF error = "ENODATA" THEN "ok" ELSE error : error \in getxattr(n, 0)}
HasXattr(n) ==
  /\ Call
  /\ \E error \in has_xattr(n) :
       Return(Result("has", error, <<>>, IF error = "ok" /\ Has(n) THEN {n} ELSE {}))
  /\ UNCHANGED <<attrs, name, held>>

With(n, v) == [m \in Names(attrs) \cup {n} |-> IF m = n THEN v ELSE attrs[m]]

\* XATTR_CREATE: an attribute that is there stays as it is, which is no error.
Created(n) == IF Has(n) THEN attrs ELSE With(n, <<>>)
CreateXattr(n) ==
  /\ Call
  /\ \E error \in setxattr :
       /\ attrs' = IF error = "ok" THEN Created(n) ELSE attrs
       /\ Return(Result("create", error, <<>>, {}))
  /\ UNCHANGED <<name, held>>

SetXattr(n, v) ==
  /\ Call
  /\ \E error \in setxattr :
       /\ attrs' = IF error = "ok" THEN With(n, v) ELSE attrs
       /\ Return(Result("set", error, <<>>, {}))
  /\ UNCHANGED <<name, held>>

RemoveXattr(n) ==
  /\ Call
  /\ \E error \in removexattr(n) :
       /\ attrs' = IF error = "ok" THEN [m \in Names(attrs) \ {n} |-> attrs[m]] ELSE attrs
       /\ Return(Result("remove", error, <<>>, {}))
  /\ UNCHANGED <<name, held>>

-----------------------------------------------------------------------------
(* storm_has_all_permissions, whose temporary file this is then *)

\* The guard is there before the file: it removes it whatever happens next, if it can.
ProbeFails == GoTo("guard", 0) /\ UNCHANGED attrs

ProbeOpen ==
  /\ Call /\ attrs = NoFile
  /\ \/ attrs' = [n \in {} |-> <<>>] /\ GoTo("probe_read", 0)
     \/ "open" \in Failing /\ ProbeFails
  /\ UNCHANGED <<name, held>>

ProbeRead ==
  /\ pc = "probe_read"
  /\ \/ attrs # NoFile /\ GoTo("probe_create", 0) /\ UNCHANGED attrs
     \/ (attrs = NoFile \/ "open" \in Failing) /\ ProbeFails
  /\ UNCHANGED <<name, held>>

ProbeCreate ==
  /\ pc = "probe_create"
  /\ \E error \in setxattr :
       IF error = "ok" THEN attrs' = Created(TSMRecT) /\ GoTo("probe_has", 0) ELSE ProbeFails
  /\ UNCHANGED <<name, held>>

ProbeHas ==
  /\ pc = "probe_has"
  /\ \E error \in has_xattr(TSMRecT) :
       IF error = "ok" THEN GoTo("guard", 1) /\ UNCHANGED attrs ELSE ProbeFails
  /\ UNCHANGED <<name, held>>

Guard ==
  /\ pc = "guard"
  /\ attrs' = NoFile \/ ("remove" \in Failing /\ UNCHANGED attrs)
  /\ Return(Result("probe", IF size = 1 THEN "ok" ELSE "no", <<>>, {}))
  /\ UNCHANGED <<name, held>>

-----------------------------------------------------------------------------
\* What GEMSS, the users and the administrators do to the file.
Change ==
  /\ attrs' \in Attributes \ {attrs}
  /\ held' = CASE pc \in {"get_size", "get_again"} -> held \cup ToGet(attrs', name)
               [] pc = "list_again" -> held \cup ToList(attrs')
               [] OTHER -> held
  /\ UNCHANGED <<pc, name, size, result>>

Next ==
  \/ \E n \in Name : GetXattr(n) \/ HasXattr(n) \/ CreateXattr(n) \/ RemoveXattr(n)
  \/ \E n \in Name, v \in Value : SetXattr(n, v)
  \/ GetSize \/ GetAgain \/ ListXattrNames \/ ListAgain
  \/ ProbeOpen \/ ProbeRead \/ ProbeCreate \/ ProbeHas \/ Guard
  \/ Change

ASpec == Init /\ [][Next]_vars

-----------------------------------------------------------------------------
(* What is expected of them *)

ATypeOK ==
  /\ attrs \in Attributes
  /\ pc \in {"idle", "get_size", "get_again", "list_again",
             "probe_read", "probe_create", "probe_has", "guard"}
  /\ name \in Name /\ size \in Nat
  /\ result.names \subseteq Name

\* A value that is returned without error is one the attribute has had since the call,
\* but for NULs at its end, however it changes between the calls of the system.
GetIsHeld ==
  result.function = "get" /\ result.error = "ok" =>
    \E v \in held : \E n \in 0..MaxSize : result.value = v \o NULs(n)

\* The names that are returned without error are those the file has had at one moment
\* since the call: none is missed, none is empty, and none was gone before another came.
ListIsHeld ==
  result.function = "list" /\ result.error = "ok" => result.names \in held

\* What the other modules know of the file, of which they have the data and the tape.
FileOf(a, data, tape) ==
  IF a = NoFile THEN Absent
  ELSE [data |-> data, regular |-> TRUE, tape |-> tape, recall |-> TSMRecT \in Names(a)]
Answer(r) == IF r.error # "ok" THEN "error" ELSE IF r.names = {} THEN "no" ELSE "yes"

\* The recall mark, which the service looks at and sets as if it were a Boolean, is the
\* attribute as has_xattr() reads it and create_xattr() sets it, on regular files that are
\* there and files that are not, whatever else these carry and whichever calls fail.
MarksAsInStorage ==
  [][\A data \in Data \ {"absent"}, tape \in BOOLEAN :
       LET d == FileOf(attrs, data, tape)
       IN  /\ HasXattr(TSMRecT) =>
                Answer(result') \in is_in_progress(d, "getxattr" \in Failing)
           /\ CreateXattr(TSMRecT) =>
                FileOf(attrs', data, tape) \in create_xattr(d, "setxattr" \in Failing)]_vars
=============================================================================
