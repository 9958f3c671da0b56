------------------------------- MODULE FileMap -------------------------------
(***************************************************************************)
(* What a client of the file system of asgn4 may rely on: a map from names *)
(* to contents that creating, writing and removing a file change.  It is   *)
(* less than a file system should give.  A file ends where the last write  *)
(* to it ended, for hello_write sets the size to offset + size whatever it *)
(* was: what a file held after the bytes written is lost.  And there is no *)
(* truncate: hello_truncate reports success and changes no file.           *)
(***************************************************************************)
EXTENDS Naturals, Sequences

CONSTANTS Names,     \* the file names
          Requests,  \* the buffers a client writes
          Missing    \* stands for the contents of a file that does not exist

VARIABLE files

\* The contents of one file before and after each call.
Create(old, new) == old = Missing /\ new = <<>>

Write(old, new) ==
    /\ old # Missing
    /\ \E offset \in 0..Len(old), buf \in Requests :
           new = SubSeq(old, 1, offset) \o buf

Unlink(old, new) == old # Missing /\ new = Missing

Change(old, new) == Create(old, new) \/ Write(old, new) \/ Unlink(old, new)

Init == files = [n \in Names |-> Missing]

\* Each call changes one file.  (The singletons let TLC evaluate a refinement
\* mapping of files once for each step.)
Next == \E before \in {files}, after \in {files'} : \E n \in Names :
            /\ Change(before[n], after[n])
            /\ after = [before EXCEPT ![n] = after[n]]

Spec == Init /\ [][Next]_files
=============================================================================
