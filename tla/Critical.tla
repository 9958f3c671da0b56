------------------------------ MODULE Critical ------------------------------
(***************************************************************************)
(* critical_enter and critical_exit of a thread (asgn2/kern_switch.c)      *)
(* against the interrupts of its processor, one of which may queue a       *)
(* better thread.                                                          *)
(*                                                                         *)
(* An interrupt handler is one step: it runs with interrupts disabled and  *)
(* leaves by critical_exit itself.                                         *)
(***************************************************************************)
EXTENDS Integers

CONSTANT MaxNest         \* bound on the nesting of critical sections

ASSUME CriticalAssumption == MaxNest \in Nat \ {0}

VARIABLES
    critnest, owepreempt,    \* td_critnest, td_owepreempt
    depth,                   \* sections the thread has entered and not left
    at,                      \* where in critical_exit it is, "runs" elsewhere
    better,                  \* a better thread is on the run queue
    switched                 \* the last step was a switch to it

criticalVars == <<critnest, owepreempt, depth, at, better, switched>>

-----------------------------------------------------------------------------
(* The thread *)

critical_enter ==
    /\ at = "runs" /\ depth < MaxNest
    /\ depth' = depth + 1 /\ critnest' = critnest + 1 /\ switched' = FALSE
    /\ UNCHANGED <<owepreempt, at, better>>

\* An inner section.
ExitInner ==
    /\ at = "runs" /\ depth > 1
    /\ depth' = depth - 1 /\ critnest' = critnest - 1 /\ switched' = FALSE
    /\ UNCHANGED <<owepreempt, at, better>>

\* td_critnest goes to 0; from here on interrupts preempt by themselves.
ExitOuter ==
    /\ at = "runs" /\ depth = 1 /\ critnest = 1
    /\ depth' = 0 /\ critnest' = 0 /\ at' = "read" /\ switched' = FALSE
    /\ UNCHANGED <<owepreempt, better>>

\* td_owepreempt is read; if it is set, interrupts are told not to preempt.
ExitRead ==
    /\ at = "read" /\ at' = (IF owepreempt THEN "lock" ELSE "runs")
    /\ critnest' = IF owepreempt THEN 1 ELSE critnest
    /\ switched' = FALSE /\ UNCHANGED <<owepreempt, depth, better>>

\* mi_switch, with the thread lock: sched_switch clears what is owed.
Switch ==
    /\ owepreempt' = FALSE /\ better' = FALSE /\ switched' = better

ExitSwitch ==
    /\ at = "lock" /\ critnest' = critnest - 1 /\ at' = "runs"
    /\ Switch /\ UNCHANGED depth

\* The thread gives way, or a slice ends: outside of critical sections.
Yields ==
    /\ at = "runs" /\ depth = 0 /\ Switch /\ UNCHANGED <<critnest, depth, at>>

-----------------------------------------------------------------------------
(* Interrupts *)

\* What critical_exit makes of the handler's own section.
LeaveHandler(owed) ==
    IF critnest = 0 /\ owed THEN owepreempt' = FALSE /\ better' = FALSE /\ switched' = TRUE
    ELSE owepreempt' = owed /\ better' = TRUE /\ switched' = FALSE

\* A handler wakes a better thread here: sched_setpreempt.
InterruptWakes == LeaveHandler(TRUE) /\ UNCHANGED <<critnest, depth, at>>

\* The thread has been queued by another processor, and then an IPI comes.
RemoteWakes ==
    /\ ~better /\ better' = TRUE /\ switched' = FALSE
    /\ UNCHANGED <<critnest, owepreempt, depth, at>>

\* Mutant of MayPreempt: counts the section of the lock for one of the thread.
MayPreempt_late == critnest <= 1

\* "td_critnest > 1" in sched_preempt, which holds the thread lock.
MayPreempt == critnest + 1 <= 1

PreemptIpi ==
    /\ better
    /\ IF MayPreempt THEN Switch ELSE owepreempt' = TRUE /\ switched' = FALSE /\ UNCHANGED better
    /\ UNCHANGED <<critnest, depth, at>>

-----------------------------------------------------------------------------

CriticalInit ==
    /\ critnest = 0 /\ owepreempt = FALSE /\ depth = 0 /\ at = "runs"
    /\ better = FALSE /\ switched = FALSE

CriticalNext ==
    \/ critical_enter \/ ExitInner \/ ExitOuter \/ ExitRead \/ ExitSwitch \/ Yields
    \/ InterruptWakes \/ RemoteWakes \/ PreemptIpi

CriticalSpec == CriticalInit /\ [][CriticalNext]_criticalVars

-----------------------------------------------------------------------------
(* Properties *)

\* A preemption that is owed is made when the last section is left, whenever the
\* interrupt that owes it came: it never stays owed outside of critical_exit
\* (kern_switch.c:236).
OwedIsPaid == owepreempt /\ depth = 0 => at # "runs"

\* The thread is never switched out inside a section, by whatever interrupt in
\* whatever nesting (kern_switch.c:228; sched_ule.c:2405).
SectionsUnbroken == switched => depth = 0

\* Both: a preemption that is owed is made, and not before it may be.
PreemptionsMade == OwedIsPaid /\ SectionsUnbroken
=============================================================================
