---------------------------- MODULE MCPageQueues ----------------------------
(***************************************************************************)
(* Two small instances of PageQueues in one run, chosen in the initial     *)
(* state: one page between two objects, every operation and both scans, not*)
(* held and wired at once and of one object only while that is dead; or two*)
(* pages of one object, of which the launderer makes clusters while users  *)
(* map and store and busy the first.                                       *)
(***************************************************************************)
EXTENDS PageQueues

CONSTANTS FirstPage, FirstObject

VARIABLE instance

OnePage ==
    /\ \A p \in Pages \ {FirstPage} : pg'[p].free
    /\ dead' \subseteq {FirstObject}
    /\ dead' = {} \/ pg'[FirstPage].object \in {FirstObject, NoObject}
    /\ pg'[FirstPage].wire + pg'[FirstPage].hold <= 1

Clusters ==
    /\ scan'["daemon"].pc = "idle" /\ scan'["launderer"].target <= 1 /\ dead' = {} /\ q'["active"] = <<>>
    /\ user'.pc = "locked" => user'.object = FirstObject
    /\ \A p \in Pages : pg'[p].object \in {FirstObject, NoObject}
                        /\ pg'[p].wire = 0 /\ pg'[p].hold = 0
    /\ \A p \in Pages \ {FirstPage} : pg'[p].busy = "x" => ~pg'[p].valid

MCNext ==
    /\ Next /\ UNCHANGED instance
    /\ (instance = "one page" /\ OnePage) \/ (instance = "clusters" /\ Clusters)

MCInit == Init /\ instance \in {"one page", "clusters"}

MCSpec == MCInit /\ [][MCNext]_<<vars, instance>>
=============================================================================
