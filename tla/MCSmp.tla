------------------------------- MODULE MCSmp --------------------------------
(* Three threads, one of which may run on one processor only. *)
EXTENDS Smp, TLC

CONSTANT Homebound

MCInit ==
    /\ Init
    /\ \A t \in Threads : cpuset[t] = IF t = Homebound THEN {1} ELSE 1 .. MaxCpus

Equals == Permutations(Threads \ {Homebound})

MCSpec == MCInit /\ [][Next]_vars
=============================================================================
