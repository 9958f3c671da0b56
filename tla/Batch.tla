-------------------------------- MODULE Batch -------------------------------
(***************************************************************************)
(* A closed load on one processor: threads that are added once, compute in *)
(* user mode and never sleep, and a clock.  A thread in user mode returns  *)
(* through ast() and userret() after the interrupt that asks for a         *)
(* reschedule, so no second tick comes while one is owed.  This is the     *)
(* load the calendar queue of asgn2/sched_ule.c turns for.                 *)
(***************************************************************************)
EXTENDS Tdq

\* hardclock in user mode: sched_clock of asgn2/sched_ule.c.
Tick == curthread \in Threads /\ flags = {} /\ SchedClock

\* The idle loop finds a load.  Nobody steals here, so it is still there.
IdleRun == tdq.load > 0 /\ IdleSwitch

\* sched_clock works out a user priority anew; the return to user mode takes it.
NewPriority == flags = {} /\ \E prio \in Prios : UserRet(prio)

BatchNext ==
    \/ \E t \in Threads : SchedAdd(t)
    \/ IdleRun
    \/ Ast
    \/ NewPriority
    \/ Tick

BatchSpec == Init /\ [][BatchNext]_vars

-----------------------------------------------------------------------------

\* "... can have a one slot difference between idx and ridx while we wait for
\* threads to drain" (sched_ule.c:523): the removal index leaves a slot of the
\* calendar only when no thread is left in it.
SlotDrained ==
    [][tdq'.ridx # tdq.ridx
       => tdq'.runq["timeshare"].rq_queues[tdq.ridx] = <<>>]_vars
=============================================================================
