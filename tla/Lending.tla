------------------------------- MODULE Lending ------------------------------
(***************************************************************************)
(* The priorities of one thread in asgn2/sched_ule.c: its own, the one lent*)
(* to it while others wait for a lock it holds, and the one lent to it in  *)
(* user space.  Turnstiles and user mutexes are not in the repository;     *)
(* they are modelled by how they call the scheduler.  What a change does   *)
(* to the run queue is in Tdq.                                             *)
(***************************************************************************)
EXTENDS Integers, FiniteSetsExt

CONSTANTS
    Pris,                \* the priorities threads have; less is better
    Timeshare,           \* those in PRI_MIN_TIMESHARE .. PRI_MAX_TIMESHARE
    PRI_MAX              \* nothing is lent

ASSUME LendingAssumption ==
    /\ Pris \subseteq Nat /\ IsFiniteSet(Pris) /\ Timeshare \subseteq Pris
    /\ PRI_MAX \in Nat /\ \A p \in Pris : p < PRI_MAX

VARIABLES
    pri,                 \* td_priority, td_base_pri, td_user_pri,
                         \* td_base_user_pri, td_lend_user_pri, TDF_BORROWING
    waiters,             \* priorities of the threads blocked on its locks
    inKernel

lendingVars == <<pri, waiters, inKernel>>

Best(set) == Min(set \cup {PRI_MAX})

-----------------------------------------------------------------------------
(* The functions of the scheduler *)

sched_lend_prio(r, p) == [r EXCEPT !.borrowing = TRUE, !.priority = p]

\* p is the best of what is still lent.
sched_unlend_prio(r, p) ==
    LET base == IF r.base_pri \in Timeshare THEN r.user_pri ELSE r.base_pri
    IN  IF p >= base THEN [r EXCEPT !.borrowing = FALSE, !.priority = base]
                     ELSE sched_lend_prio(r, p)

\* Mutant of sched_prio: lowers a borrowed priority.
sched_prio_lowers(r, p) == [r EXCEPT !.base_pri = p, !.priority = p]

\* The base changes; a borrowed priority is never lowered.
sched_prio(r, p) ==
    [r EXCEPT !.base_pri = p, !.priority = IF r.borrowing /\ @ < p THEN @ ELSE p]

\* Mutant of sched_user_prio: forgets what is lent.
sched_user_prio_own(r, p) == [r EXCEPT !.base_user_pri = p, !.user_pri = p]

\* A better priority lent stays.
sched_user_prio(r, p) ==
    [r EXCEPT !.base_user_pri = p, !.user_pri = IF r.lend_user_pri <= p THEN @ ELSE p]

sched_lend_user_prio(r, p) ==
    LET lent == [r EXCEPT !.lend_user_pri = p, !.user_pri = Min({p, r.base_user_pri})]
    IN  IF lent.priority > lent.user_pri THEN sched_prio(lent, lent.user_pri) ELSE lent

-----------------------------------------------------------------------------
(* Who calls them *)

\* A thread blocks on a lock of this one and lends if it is the better of the
\* two.
Block(p) ==
    /\ inKernel /\ p \notin waiters /\ waiters' = waiters \cup {p}
    /\ pri' = IF p < pri.priority THEN sched_lend_prio(pri, p) ELSE pri
    /\ UNCHANGED inKernel

\* A lock is released, and with it all who waited for it.
Release ==
    /\ waiters # {}
    /\ \E left \in SUBSET waiters :
          left # waiters /\ waiters' = left /\ pri' = sched_unlend_prio(pri, Best(left))
    /\ UNCHANGED inKernel

\* sched_sleep in the kernel, with no such lock held.
SleepPrio(p) ==
    /\ inKernel /\ waiters = {} /\ p \notin Timeshare
    /\ pri' = sched_prio(pri, p) /\ UNCHANGED <<waiters, inKernel>>

\* sched_priority, from the clock and at a fork, and sched_nice.
UserPrio(p) ==
    /\ p \in Timeshare /\ pri' = sched_user_prio(pri, p) /\ UNCHANGED <<waiters, inKernel>>

Nice(p) ==
    /\ p \in Timeshare
    /\ pri' = sched_prio(sched_user_prio(pri, p), p)
    /\ UNCHANGED <<waiters, inKernel>>

\* Another thread waits for a user mutex of this one, or none does any more.
UserLend(p) ==
    pri' = sched_lend_user_prio(pri, p) /\ UNCHANGED <<waiters, inKernel>>

Trap == ~inKernel /\ inKernel' = TRUE /\ UNCHANGED <<pri, waiters>>

\* sched_userret, with no lock held.
UserRet ==
    /\ inKernel /\ waiters = {} /\ inKernel' = FALSE
    /\ pri' = IF pri.priority = pri.user_pri THEN pri
              ELSE [pri EXCEPT !.priority = pri.user_pri, !.base_pri = pri.user_pri]
    /\ UNCHANGED waiters

-----------------------------------------------------------------------------

LendingInit ==
    /\ \E p \in Timeshare :
          pri = [priority |-> p, base_pri |-> p, user_pri |-> p, base_user_pri |-> p,
                 lend_user_pri |-> PRI_MAX, borrowing |-> FALSE]
    /\ waiters = {} /\ inKernel = FALSE

LendingNext ==
    \/ \E p \in Pris : Block(p) \/ SleepPrio(p) \/ UserPrio(p) \/ Nice(p) \/ UserLend(p)
    \/ UserLend(PRI_MAX) \/ Release \/ Trap \/ UserRet

LendingSpec == LendingInit /\ [][LendingNext]_lendingVars

-----------------------------------------------------------------------------
(* Properties *)

\* A borrowed priority is never lowered by what happens to the thread's own
\* priorities, and a release leaves the thread at least as urgent as whoever
\* still waits for it (sched_ule.c:1833, 1869).  A waiter that found the thread
\* as urgent as itself lends nothing, and is not remembered when the thread's own
\* priority worsens.
LentKept ==
    [][/\ pri.borrowing /\ waiters \subseteq waiters' =>
            pri'.borrowing /\ pri'.priority <= pri.priority
       /\ waiters' \subseteq waiters /\ waiters' # waiters =>
            pri'.priority <= Best(waiters')]_lendingVars

\* Once nobody waits, nothing is borrowed: the assertion of sched_userret
\* (sched_ule.c:2431).
BorrowingEnds == waiters = {} => ~pri.borrowing

\* What is lent in user space is never lost to the thread's own changes
\* (sched_ule.c:1907).
UserLendKept == pri.user_pri <= Min({pri.lend_user_pri, pri.base_user_pri})

\* Both: in the kernel nothing stays borrowed from a lender that has gone, and out
\* of it nothing that is lent now is lost (sched_ule.c:2431, 1907).
LendingExact == BorrowingEnds /\ UserLendKept
=============================================================================
