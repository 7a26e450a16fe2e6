------------------------------ MODULE Storage ------------------------------
(***************************************************************************)
(* What the service can learn of a file on disk: the Storage interface as  *)
(* LocalStorage implements it on stat(2) and getxattr(2), and the locality *)
(* that ExtendedFileStatus derives (src/src/local_storage.cpp,             *)
(* extended_attributes.cpp, tape_service.cpp).                             *)
(*                                                                         *)
(* A file on disk is a record: its data, whether it is a regular file, and *)
(* whether it carries the xattr user.storm.migrated (tape) and the xattr   *)
(* user.TSMRecT (recall).  What is not a regular file (a directory, say)   *)
(* has a size, blocks and attributes as well, and is never on tape.        *)
(* Every reading is the SET of results a call may give; io says whether    *)
(* the calls may fail on a file that is there.                             *)
(***************************************************************************)

\* stub: fewer blocks than bytes, its contents only on tape.
Data == {"absent", "empty", "stub", "full"}
FileOnDisk ==
  {d \in [data : Data, regular : BOOLEAN, tape : BOOLEAN, recall : BOOLEAN] :
     (d.tape => d.regular) /\ (d.regular => d.data # "absent")}

New(x, regular) == [data |-> x, regular |-> regular, tape |-> FALSE, recall |-> FALSE]
Absent == New("absent", FALSE)

WithData(d, x) ==
  [data |-> x, regular |-> d.regular, tape |-> d.tape, recall |-> d.recall]
WithTape(d) ==
  [data |-> d.data, regular |-> d.regular, tape |-> TRUE, recall |-> d.recall]
WithRecall(d, b) ==
  [data |-> d.data, regular |-> d.regular, tape |-> d.tape, recall |-> b]

\* A call on a missing file fails; so may one on any file if io.  stat(2) and
\* getxattr(2) succeed on a directory.
Fails(d, io) == IF io \/ d.data = "absent" THEN {"error"} ELSE {}
Succeeds(d, result) == IF d.data = "absent" THEN {} ELSE {result}

\* has_xattr of user.TSMRecT: ENODATA is "no", any other errno an error.
is_in_progress(d, io) ==
  Fails(d, io) \cup Succeeds(d, IF d.recall THEN "yes" ELSE "no")

\* stat: "empty" is size 0, "stub" is blocks * 512 < size.
file_size_info(d, io) == Fails(d, io) \cup Succeeds(d, d.data)

\* ExtendedFileStatus::locality, all of whose readings are of the same file.
\* (LocalityByBlocks, for comparison, does not look at the recall mark.)
LocalityByBlocks(d, io) ==
  (IF Fails(d, io) = {} THEN {} ELSE {"unavailable"}) \cup
  Succeeds(d,
    CASE d.data = "empty" -> "none"
      [] d.data = "full" -> IF d.tape THEN "disk_and_tape" ELSE "disk"
      [] OTHER -> IF d.tape THEN "tape" ELSE "lost")
locality(d, io) ==
  (IF Fails(d, io) = {} THEN {} ELSE {"unavailable"}) \cup
  Succeeds(d,
    CASE d.data = "empty" -> "none"
      [] d.data = "full" /\ ~d.recall -> IF d.tape THEN "disk_and_tape" ELSE "disk"
      [] OTHER -> IF d.tape THEN "tape" ELSE "lost")

\* What archive_info() shows of a file: an error if there is none or it is not a
\* regular one, and a lost file as unavailable, not to scare the client.  When
\* fs::status fails the file is unavailable if it is too large (EOVERFLOW), and
\* otherwise not there.
override_locality(loc) == IF loc = "lost" THEN "unavailable" ELSE loc
archive_info(d, io) ==
  (IF io \/ ~d.regular THEN {"error"} ELSE {}) \cup
  (IF io /\ d.data # "absent" THEN {"unavailable"} ELSE {}) \cup
  (IF d.regular THEN {override_locality(loc) : loc \in locality(d, io)} ELSE {})

\* recall_in_progress takes an error for a no.
\* (NeverInProgress, for comparison, does not look.)
NeverInProgress(d, io) == {FALSE}
recall_in_progress(d, io) == {r = "yes" : r \in is_in_progress(d, io)}

\* The file after create_xattr of user.TSMRecT, which fails on a missing file, may fail
\* on what is not a regular one (a directory takes the mark, a device does not), and on
\* any if fails; a mark that is there already (EEXIST) is fine.
\* (NoXattr, for comparison, never sets it.)
NoXattr(d, fails) == {d}
create_xattr(d, fails) ==
  (IF fails \/ ~d.regular THEN {d} ELSE {}) \cup
  (IF d.data = "absent" THEN {} ELSE {WithRecall(d, TRUE)})
=============================================================================
