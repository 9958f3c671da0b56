---------------------------- MODULE MCPageDaemon ----------------------------
(***************************************************************************)
(* Three small instances in one run, chosen in the initial state: two      *)
(* threads and the page daemon of a machine with one domain; one thread    *)
(* and the page daemons of two domains; or the laundry thread with the     *)
(* page daemons of two domains that post to it.                            *)
(***************************************************************************)
EXTENDS PageDaemon, Laundry

CONSTANT FirstThread

VARIABLE instance

Pages     == free + clean + dirty
Allocs(t) == thread[t].allocs

MCInit ==
    /\ Init /\ LaundryInit
    /\ \/ /\ instance = "one domain" /\ vm_ndomains = 1 /\ Pages = MaxPages
          /\ \A t \in Threads : Allocs(t) = MaxAllocs
       \/ /\ instance = "two domains" /\ vm_ndomains = 2 /\ Pages = 1
          /\ \A t \in Threads : Allocs(t) = IF t = FirstThread THEN MaxAllocs ELSE 0
       \/ /\ instance = "laundry" /\ vm_ndomains = 1 /\ free = MaxPages
          /\ \A t \in Threads : Allocs(t) = 0

mcVars == <<vars, laundryVars, instance>>

OfMemory(A)  == instance # "laundry" /\ A /\ UNCHANGED <<laundryVars, instance>>
OfLaundry(A) == instance = "laundry" /\ A /\ UNCHANGED <<vars, instance>>

MCNext == OfMemory(Next) \/ OfLaundry(LaundryNext)

\* Fairness and LaundryFairness, each of its own instances.
MCFairness ==
    /\ \A d \in AllDomains : WF_mcVars(OfMemory(d \in Domains /\ DaemonStep(d)))
    /\ WF_mcVars(OfMemory(VictimExits))
    /\ \A p \in Posters : WF_mcVars(OfLaundry(Post(p)))
    /\ WF_mcVars(OfLaundry(WorkerStep))

MCSpec == MCInit /\ [][MCNext]_mcVars /\ MCFairness
=============================================================================
