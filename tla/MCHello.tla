------------------------------- MODULE MCHello ------------------------------
(***************************************************************************)
(* Instances of HelloFS for TLC, in one state graph: calls that add to the *)
(* store, and calls that also remove files, of one block each.             *)
(***************************************************************************)
EXTENDS HelloFS

VARIABLE instance

MCCells == {"a", "b"}
MCKeep   == {<<"a", "b", "b">>}
MCUnlink == {<<"a">>, <<"a", "b">>}
MCRequests == MCKeep \cup MCUnlink

WriteOneOf(requests) ==
    \E n \in Names, offset \in Offsets, buf \in requests : Write(n, offset, buf)

CreateOrTruncate ==
    \/ \E n \in Names \cup LongNames : Create(n)
    \/ \E n \in Names : Truncate(n)
    \/ Getattr

MCInit == Init /\ instance \in {"keep", "unlink"}

MCNext ==
    /\ \/ CreateOrTruncate
       \/ instance = "keep" /\ WriteOneOf(MCKeep)
       \/ instance = "unlink" /\ (WriteOneOf(MCUnlink) \/ Delete)
    /\ instance = "unlink" => \A b \in Blocks : disk'.md[b].next = 0
    /\ UNCHANGED instance

MCSpec == MCInit /\ [][MCNext]_<<vars, instance>>
=============================================================================
