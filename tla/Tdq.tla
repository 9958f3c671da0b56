-------------------------------- MODULE Tdq ---------------------------------
(***************************************************************************)
(* One processor's thread queue (struct tdq) and its current thread, from  *)
(* asgn2/sched_ule.c with the lottery queue the assignment added.          *)
(*                                                                         *)
(* A step is what the code does under the tdq lock.  Other processors are  *)
(* the environment: they add threads to this queue, notify it with an IPI, *)
(* and steal threads from it, also in the two windows in which             *)
(* sched_switch drops the lock.  A thread this tdq neither runs nor queues *)
(* is "OFF": asleep, on another processor, or not created yet.             *)
(***************************************************************************)
EXTENDS RunQueue

CONSTANTS
    IdleThread,          \* this processor's idle thread
    Root,                \* threads for which sys_getuid gives 0
    NoLoad,              \* threads with TDF_NOLOAD
    Fifo,                \* threads with PRI_FIFO_BIT in td_pri_class
    Prios,               \* the priorities threads take
    RQ_PPQ,              \* priorities per queue
    PRI_MIN_BATCH, PRI_MAX_BATCH, PRI_MIN_IDLE, PRI_MAX_IDLE,
    PRI_MAX_INTERACT, preempt_thresh,
    NiceValues,          \* p_nice, read when a thread joins the lottery
    NICE_BASE,           \* the 20 of "20 + nice"
    RandMax,             \* random() gives 0 .. RandMax
    MaxCounted,          \* bound on the lottery's total_proc, which can drift
    sched_slice, SLICE_MIN_DIVISOR

ASSUME TdqAssumption ==
    /\ IdleThread \notin Threads \cup {NULL}
    /\ Root \subseteq Threads /\ NoLoad \subseteq Threads /\ Fifo \subseteq Threads
    /\ RQ_PPQ \in Nat \ {0}
    /\ PRI_MIN_BATCH \in Nat /\ PRI_MAX_BATCH \in Nat /\ PRI_MAX_IDLE \in Nat
    /\ PRI_MIN_BATCH <= PRI_MAX_BATCH /\ PRI_MAX_BATCH < PRI_MAX_IDLE
    /\ PRI_MIN_IDLE = PRI_MAX_BATCH + 1
    /\ PRI_MAX_INTERACT \in Nat /\ preempt_thresh \in Nat
    /\ PRI_MAX_IDLE \div RQ_PPQ < RQ_NQS
    /\ Prios \subseteq 0 .. PRI_MAX_IDLE
    /\ NICE_BASE \in Nat /\ \A n \in NiceValues : n \in Int /\ NICE_BASE + n \in Nat
    /\ RandMax \in Nat /\ MaxCounted \in Nat
    /\ sched_slice \in Nat \ {0} /\ SLICE_MIN_DIVISOR \in Nat \ {0}

VARIABLES
    tdq,         \* struct tdq
    td,          \* per thread: the fields of struct thread and td_sched
    curthread,   \* pc_curthread
    flags,       \* what curthread owes: TDF_NEEDRESCHED, TDF_SLICEEND, td_owepreempt
    window,      \* where sched_switch has dropped the lock, "none" elsewhere
    panicked     \* the kernel has trapped; nothing runs any more

vars == <<tdq, td, curthread, flags, window, panicked>>

Queues == {"realtime", "timeshare", "lottery", "idle"}

TdqType == [runq         : [Queues -> RunQ],
            idx          : Slots,        \* insert index
            ridx         : Slots,        \* removal index
            load         : Int,
            sysload      : Int,
            transferable : Int,
            lowpri       : 0 .. PRI_MAX_IDLE,
            ipipending   : BOOLEAN]

TdType == [state    : {"OFF", "RUNQ", "RUNNING"},
           priority : 0 .. PRI_MAX_IDLE,
           ts_runq  : Queues,
           rqindex  : Slots,
           xferable : BOOLEAN,           \* TSF_XFERABLE
           pinned   : BOOLEAN,           \* td_pinned # 0
           tickets  : Nat,
           slice    : Nat]

\* What this tdq remembers of a thread that is not on it.
OffThread == [state |-> "OFF", priority |-> PRI_MAX_IDLE, ts_runq |-> "idle",
              rqindex |-> 0, xferable |-> FALSE, pinned |-> FALSE,
              tickets |-> 0, slice |-> 0]

Here == [tdq |-> tdq, td |-> td]

PriorityOf(s, t) == IF t = IdleThread THEN PRI_MAX_IDLE ELSE s.td[t].priority

-----------------------------------------------------------------------------
(* tdq_runq_add, tdq_runq_rem and the load *)

QueueFor(t, pri) ==
    CASE pri < PRI_MIN_BATCH                        -> "realtime"
      [] pri \in PRI_MIN_BATCH .. PRI_MAX_BATCH
         /\ t \notin Root                           -> "lottery"
      [] pri \in PRI_MIN_BATCH .. PRI_MAX_BATCH
         /\ t \in Root                              -> "timeshare"
      [] OTHER                                      -> "idle"

\* Mutant of TimeshareSlot: does not step back from the draining slot.
TimeshareSlot_open(q, pri, how) ==
    LET PRI_BATCH_RANGE == PRI_MAX_BATCH - PRI_MIN_BATCH + 1
    IN  IF how \in {"BORROWING", "PREEMPTED"} THEN q.ridx
        ELSE ((RQ_NQS * (pri - PRI_MIN_BATCH)) \div PRI_BATCH_RANGE + q.idx) % RQ_NQS

\* The calendar slot of a timeshare thread.  A normal insertion goes ahead of
\* the insert index by its priority and steps back from the removal index
\* while that slot drains; (unsigned char)(pri - 1) % RQ_NQS wraps at 256.
TimeshareSlot(q, pri, how) ==
    LET PRI_BATCH_RANGE == PRI_MAX_BATCH - PRI_MIN_BATCH + 1
        offset == (RQ_NQS * (pri - PRI_MIN_BATCH)) \div PRI_BATCH_RANGE
        slot   == (offset + q.idx) % RQ_NQS
    IN  CASE how \in {"BORROWING", "PREEMPTED"}               -> q.ridx
          [] how \notin {"BORROWING", "PREEMPTED"}
             /\ q.ridx # q.idx /\ slot = q.ridx               -> ((slot - 1) % 256) % RQ_NQS
          [] OTHER                                            -> slot

SlotFor(q, t, pri, how) ==
    CASE QueueFor(t, pri) = "lottery"   -> 0
      [] QueueFor(t, pri) = "timeshare" -> TimeshareSlot(q, pri, how)
      [] OTHER                          -> pri \div RQ_PPQ

\* The lottery branch counts the thread in and keeps the extremes.
LotteryCountIn(rq, tickets) ==
    [rq EXCEPT !.max_tickets = IF tickets > @ \/ @ = 0 THEN tickets ELSE @,
               !.min_tickets = IF tickets < @ \/ @ = 0 THEN tickets ELSE @,
               !.total_proc  = @ + 1,
               !.num_tickets = (@ + tickets) % Word]

tdq_runq_add(s, t, how, nice) ==
    LET pri   == s.td[t].priority
        queue == QueueFor(t, pri)
        slot  == SlotFor(s.tdq, t, pri, how)
        rq    == runq_add_pri(s.tdq.runq[queue], t, slot, how = "PREEMPTED")
        xfer  == ~s.td[t].pinned
        tkts  == IF queue = "lottery" THEN NICE_BASE + nice ELSE s.td[t].tickets
    IN  [tdq |-> [s.tdq EXCEPT
                    !.runq[queue] = IF queue = "lottery" THEN LotteryCountIn(rq, tkts) ELSE rq,
                    !.transferable = IF xfer THEN @ + 1 ELSE @],
         td  |-> [s.td EXCEPT
                    ![t] = [s.td[t] EXCEPT !.state = "RUNQ", !.ts_runq = queue, !.rqindex = slot,
                                           !.xferable = s.td[t].xferable \/ xfer,
                                           !.tickets = tkts]]]

\* Only the timeshare queue moves the removal index, and only while draining.
tdq_runq_rem(s, t) ==
    LET queue == s.td[t].ts_runq
        slot  == s.td[t].rqindex
        drain == queue = "timeshare" /\ s.tdq.idx # s.tdq.ridx
    IN  [tdq |-> [s.tdq EXCEPT
                    !.runq[queue] = runq_remove(@, t, slot),
                    !.ridx = IF drain THEN runq_remove_idx(s.tdq.runq[queue], t, slot, @) ELSE @,
                    !.transferable = IF s.td[t].xferable THEN @ - 1 ELSE @],
         td  |-> [s.td EXCEPT ![t].xferable = FALSE]]

SysLoadOf(t) == IF t \in NoLoad THEN 0 ELSE 1

tdq_load_add(s, t) ==
    [s EXCEPT !.tdq.load = @ + 1, !.tdq.sysload = @ + SysLoadOf(t)]

tdq_load_rem(s, t) ==
    [s EXCEPT !.tdq.load = @ - 1, !.tdq.sysload = @ - SysLoadOf(t)]

tdq_add(s, t, how, nice) ==
    LET low == [s EXCEPT !.tdq.lowpri = IF s.td[t].priority < @ THEN s.td[t].priority ELSE @]
    IN  tdq_load_add(tdq_runq_add(low, t, how, nice), t)

\* The least quantum, which the sysctl of the quantum keeps in proportion; it
\* is 0 for a quantum of fewer ticks than the divisor.
sched_slice_min == sched_slice \div SLICE_MIN_DIVISOR

\* Mutant of tdq_slice: grows with the load.
tdq_slice_grows(s) == sched_slice * (s.tdq.sysload - 1)

\* Ticks a timeshare thread may run, shrinking with the load.
tdq_slice(s) ==
    LET load == s.tdq.sysload - 1
    IN  CASE load >= SLICE_MIN_DIVISOR                -> sched_slice_min
          [] load < SLICE_MIN_DIVISOR /\ load <= 1    -> sched_slice
          [] OTHER                                    -> sched_slice \div load
-----------------------------------------------------------------------------
(* tdq_choose and what rests on it *)

Tickets(s) == [t \in Threads |-> s.td[t].tickets]

\* Mutant of TimeshareChoice: serves the removal slot only.
TimeshareChoice_noscan(s) ==
    LET q == s.tdq.runq["timeshare"].rq_queues[s.tdq.ridx]
    IN  IF q = <<>> THEN NULL ELSE q[1]

\* The queue tdq_choose serves: realtime, then timeshare from the removal
\* index, then the lottery if a ticket is drawn, then idle.
RealtimeChoice(s)  == runq_choose(s.tdq.runq["realtime"])
TimeshareChoice(s) == runq_choose_from(s.tdq.runq["timeshare"], s.tdq.ridx)
LotteryChoice(s, r) == lotteryq_choose(s.tdq.runq["lottery"], Tickets(s), r)
IdleChoice(s)      == runq_choose(s.tdq.runq["idle"])

ReachesLottery(s) == RealtimeChoice(s) = NULL /\ TimeshareChoice(s) = NULL

\* The scan that looks for the new extreme reuses td and leaves it NULL; the
\* next use of td->td_tickets faults.  It runs when threads remain counted and
\* the winner held the most (or no maximum is known) or the fewest tickets.
ExtremeScan(s, t) ==
    LET rq == s.tdq.runq["lottery"]
        k  == s.td[t].tickets
    IN  /\ rq.total_proc # 1
        /\ k = rq.max_tickets \/ rq.max_tickets = 0 \/ k = rq.min_tickets

tdq_choose_panics(s, r) ==
    /\ ReachesLottery(s)
    /\ \/ lotteryq_choose_traps(s.tdq.runq["lottery"])
       \/ /\ ~lotteryq_choose_traps(s.tdq.runq["lottery"])
          /\ LotteryChoice(s, r) # NULL
          /\ ExtremeScan(s, LotteryChoice(s, r))

\* After a draw without a scan: discounted, extremes reset with the last one.
LotteryDrawn(s, t) ==
    LET rq == LotteryDiscount(s.tdq.runq["lottery"], Tickets(s), t)
    IN  [s EXCEPT !.tdq.runq["lottery"] =
            IF rq.total_proc = 0 THEN [rq EXCEPT !.max_tickets = 0, !.min_tickets = 0]
                                 ELSE rq]

\* The thread tdq_choose returns, r being the value of random(), and the
\* state it leaves: it changes nothing but the lottery counters.
tdq_choose(s, r) ==
    CASE RealtimeChoice(s) # NULL                        -> RealtimeChoice(s)
      [] RealtimeChoice(s) = NULL
         /\ TimeshareChoice(s) # NULL                    -> TimeshareChoice(s)
      [] ReachesLottery(s) /\ LotteryChoice(s, r) # NULL -> LotteryChoice(s, r)
      [] OTHER                                           -> IdleChoice(s)

AfterChoice(s, r) ==
    IF ReachesLottery(s) /\ LotteryChoice(s, r) # NULL
    THEN LotteryDrawn(s, LotteryChoice(s, r))
    ELSE s

\* "Set lowpri to its exact value by searching the run-queue and evaluating
\* curthread": by one more tdq_choose.
tdq_setlowpri(s, ctd, r) ==
    LET t == tdq_choose(s, r)
    IN  [AfterChoice(s, r) EXCEPT !.tdq.lowpri =
            IF t = NULL \/ s.td[t].priority > PriorityOf(s, ctd)
            THEN PriorityOf(s, ctd)
            ELSE s.td[t].priority]

\* sched_choose and choosethread: take the choice off its queue and run it.
ChosenThread(s, r) ==
    IF tdq_choose(s, r) = NULL THEN IdleThread ELSE tdq_choose(s, r)

choosethread(s, r) ==
    LET t   == ChosenThread(s, r)
        off == tdq_runq_rem(AfterChoice(s, r), t)
    IN  IF t = IdleThread
        THEN [AfterChoice(s, r) EXCEPT !.tdq.lowpri = PRI_MAX_IDLE]
        ELSE [off EXCEPT !.tdq.lowpri = s.td[t].priority, !.td[t].state = "RUNNING"]

\* sched_rem, without the tdq_setlowpri it makes when the thread had lowpri.
Removed(s, t) ==
    [tdq_load_rem(tdq_runq_rem(s, t), t) EXCEPT !.td[t].state = "OFF"]

RemSetsLowpri(s, t) == s.td[t].priority = s.tdq.lowpri

sched_rem(s, t, r) ==
    IF RemSetsLowpri(s, t) THEN tdq_setlowpri(Removed(s, t), curthread, r)
                           ELSE Removed(s, t)

sched_rem_panics(s, t, r) ==
    RemSetsLowpri(s, t) /\ tdq_choose_panics(Removed(s, t), r)

-----------------------------------------------------------------------------
(* Preemption *)

sched_shouldpreempt(pri, cpri, remote) ==
    /\ pri < cpri
    /\ \/ cpri >= PRI_MIN_IDLE
       \/ /\ preempt_thresh # 0
          /\ \/ pri <= preempt_thresh
             \/ remote /\ pri <= PRI_MAX_INTERACT /\ cpri > PRI_MAX_INTERACT

\* sched_setpreempt: what curthread owes after a local sched_add; nothing is
\* owed beyond the resched flag while curthread is on its way to sleep.
sched_setpreempt(pri, cpri, inhibited) ==
    (IF pri < cpri THEN {"NEEDRESCHED"} ELSE {})
    \cup (IF ~inhibited /\ sched_shouldpreempt(pri, cpri, FALSE)
          THEN {"OWEPREEMPT"} ELSE {})

\* tdq_notify: an IPI unless one is pending; an idle processor may instead be
\* polling tdq_load or be woken by cpu_idle_wakeup.
NotifyOutcomes(s, t) ==
    LET wants == ~s.tdq.ipipending
                 /\ sched_shouldpreempt(s.td[t].priority, PriorityOf(s, curthread), TRUE)
    IN  CASE ~wants                              -> {s.tdq.ipipending}
          [] wants /\ curthread = IdleThread     -> {TRUE, FALSE}
          [] wants /\ curthread # IdleThread     -> {TRUE}

-----------------------------------------------------------------------------
(* Stealing *)

\* The threads of a run queue in the order a scan of its slots meets them.
ScanFrom(rq, start) ==
    FlattenSeq([i \in 1 .. RQ_NQS - start |-> rq.rq_queues[start + i - 1]])

FirstOf(seq, Test(_)) == LET i == SelectInSeq(seq, Test) IN IF i = 0 THEN NULL ELSE seq[i]

\* May a thread with the given affinity leave?
MayLeave(s, allowed, t) == ~s.td[t].pinned /\ t \in allowed

runq_steal(s, queue, allowed) ==
    FirstOf(ScanFrom(s.tdq.runq[queue], 0), LAMBDA t : MayLeave(s, allowed, t))

\* The scan passes over the first thread it meets, which is only taken when it
\* is the only one; after a wrap the slots are scanned again from 0.
runq_steal_from(s, queue, allowed) ==
    LET rq   == s.tdq.runq[queue]
        scan == ScanFrom(rq, s.tdq.ridx)
                \o (IF s.tdq.ridx # 0 THEN ScanFrom(rq, 0) ELSE <<>>)
        Ok(t) == MayLeave(s, allowed, t)
    IN  CASE scan = <<>>     -> NULL
          [] Len(scan) = 1   -> FirstOf(scan, Ok)
          [] OTHER           -> FirstOf(Tail(scan), Ok)

\* tdq_steal tries the queues in this order; allowed stands for the threads
\* whose cpuset holds the thief.
tdq_steal(s, allowed) ==
    FirstOf(<<runq_steal(s, "realtime", allowed),
              runq_steal_from(s, "timeshare", allowed),
              runq_steal_from(s, "lottery", allowed),
              runq_steal(s, "idle", allowed)>>, LAMBDA t : t # NULL)
-----------------------------------------------------------------------------
(* Steps *)

Randoms == 0 .. RandMax

Running == ~panicked /\ window = "none"
Queued  == {t \in Threads : td[t].state = "RUNQ"}

Put(s) ==
    /\ s.tdq.runq["lottery"].total_proc <= MaxCounted
    /\ tdq' = s.tdq /\ td' = s.td

\* The rest of sched_switch once the old thread has been dealt with.
SwitchTo(s, r) ==
    /\ ~tdq_choose_panics(s, r)
    /\ Put(choosethread(s, r))
    /\ curthread' = ChosenThread(s, r)
    /\ flags' = {}
    /\ window' = "none"
    /\ UNCHANGED panicked

\* A draw that faults inside the kernel stops everything.
Panic ==
    /\ panicked' = TRUE
    /\ UNCHANGED <<tdq, td, curthread, flags, window>>

Choose(s) ==
    \E r \in Randoms :
        \/ SwitchTo(s, r)
        \/ tdq_choose_panics(s, r) /\ Panic

Init ==
    /\ tdq = [runq |-> [q \in Queues |-> runq_init], idx |-> 0, ridx |-> 0,
              load |-> 0, sysload |-> 0, transferable |-> 0,
              lowpri |-> PRI_MAX_IDLE, ipipending |-> FALSE]
    /\ td = [t \in Threads |-> OffThread]
    /\ curthread = IdleThread
    /\ flags = {}
    /\ window = "none"
    /\ panicked = FALSE

\* The ticks a thread may have used when it comes: fewer than a quantum if it
\* has run before (none after sched_wakeup), or what sched_fork_thread charges
\* a child, which is at most the quantum less the least one.
UsedTicks == (0 .. sched_slice - 1) \cup (0 .. sched_slice - sched_slice_min)

\* The states in which t has been added, for every priority, pin and number
\* of used ticks it may bring.
Arriving(t, pri, pin, slice) ==
    [Here EXCEPT !.td[t] = [OffThread EXCEPT !.priority = pri, !.pinned = pin,
                                             !.slice = slice]]

Arrivals(t, how) ==
    {tdq_add(Arriving(t, pri, pin, slice), t, how, nice) :
        pri \in Prios, pin \in BOOLEAN, slice \in UsedTicks, nice \in NiceValues}

CanArrive(t) == td[t].state = "OFF" /\ t # curthread

\* sched_add by curthread, or by an interrupt on this processor.
SchedAdd(t) ==
    /\ Running /\ CanArrive(t)
    /\ \E s \in Arrivals(t, "BORING"), inhibited \in BOOLEAN :
          /\ Put(s)
          /\ flags' = flags \cup sched_setpreempt(s.td[t].priority,
                                     PriorityOf(s, curthread), inhibited)
    /\ UNCHANGED <<curthread, window, panicked>>

\* sched_add, tdq_move or a migrating thread from another processor, which
\* notifies this one.
RemoteAdd(t) ==
    /\ ~panicked /\ CanArrive(t)
    /\ \E how \in {"BORING", "YIELDING", "PREEMPTED"} :
          \E s \in Arrivals(t, how) : \E ipi \in NotifyOutcomes(s, t) :
             Put([s EXCEPT !.tdq.ipipending = ipi])
    /\ UNCHANGED <<curthread, flags, window, panicked>>

\* sched_balance_pair or tdq_idled of this processor brings a thread in; a
\* processor does not notify itself.
MoveIn(t) ==
    /\ Running /\ CanArrive(t)
    /\ \E s \in Arrivals(t, "YIELDING") : Put(s)
    /\ UNCHANGED <<curthread, flags, window, panicked>>

\* tdq_idled: steal a thread and switch to it.
IdleSteal(t) ==
    /\ Running /\ CanArrive(t) /\ curthread = IdleThread /\ tdq.load = 0
    /\ \E s \in Arrivals(t, "YIELDING") : Choose(s)

\* tdq_move by another processor, which has found this one loaded.
StealOut ==
    /\ ~panicked
    /\ tdq.transferable # 0 /\ tdq.load >= 1
    /\ \E allowed \in SUBSET Threads, r \in Randoms, t \in Queued :
          /\ t = tdq_steal(Here, allowed)
          /\ \/ /\ ~sched_rem_panics(Here, t, r)
                /\ tdq' = sched_rem(Here, t, r).tdq
                /\ td' = [td EXCEPT ![t] = OffThread]
                /\ UNCHANGED <<curthread, flags, window, panicked>>
             \/ sched_rem_panics(Here, t, r) /\ Panic

-----------------------------------------------------------------------------
(* curthread gives up the processor *)

\* sched_switch of a running thread that stays on this processor.
SwitchOut(preempt) ==
    /\ Running /\ curthread \in Threads
    /\ \E nice \in NiceValues :
          LET how == IF preempt /\ "SLICEEND" \notin flags THEN "PREEMPTED" ELSE "YIELDING"
          IN  Choose(tdq_runq_add(Here, curthread, how, nice))

\* sched_relinquish.
Relinquish == SwitchOut(FALSE)

\* The return to user mode with a reschedule owed.
Ast == "NEEDRESCHED" \in flags /\ SwitchOut(FALSE)

\* critical_exit with a preemption owed.
OwedPreempt == "OWEPREEMPT" \in flags /\ SwitchOut(TRUE)

\* The idle thread has seen a load, or leaves a critical section with a
\* preemption owed, and calls mi_switch.  It read tdq_load without the lock:
\* by now the thread may have been stolen.
IdleSwitch ==
    /\ Running /\ curthread = IdleThread
    /\ Choose(Here)

\* sched_preempt: an IPI arrives, the one tdq_notify recorded or one that
\* sched_affinity sent without recording it.
SchedPreempt ==
    /\ Running
    /\ LET s == [Here EXCEPT !.tdq.ipipending = FALSE]
       IN  \/ /\ PriorityOf(s, curthread) <= tdq.lowpri
              /\ Put(s) /\ UNCHANGED <<curthread, flags, window, panicked>>
           \/ /\ PriorityOf(s, curthread) > tdq.lowpri
              /\ \/ /\ Put(s)                             \* in a critical section
                    /\ flags' = flags \cup {"OWEPREEMPT"}
                    /\ UNCHANGED <<curthread, window, panicked>>
                 \/ curthread = IdleThread /\ Choose(s)
                 \/ /\ curthread # IdleThread
                    /\ \E nice \in NiceValues :
                          Choose(tdq_runq_add(s, curthread,
                              IF "SLICEEND" \in flags THEN "YIELDING" ELSE "PREEMPTED", nice))

\* sched_switch of a thread that is going to sleep.  With nothing left to run
\* tdq_trysteal drops the lock to look for work elsewhere.
\* Its priority counts until the switch is done.
Leaving ==
    [tdq_load_rem(Here, curthread) EXCEPT
        !.td[curthread] = [OffThread EXCEPT !.priority = td[curthread].priority]]

Gone(s) ==
    IF curthread \in Threads THEN [s EXCEPT !.td[curthread] = OffThread] ELSE s

Sleep ==
    /\ Running /\ curthread \in Threads
    /\ \/ tdq.load > 1 /\ Choose(Gone(Leaving))
       \/ /\ tdq.load = 1
          /\ Put(Leaving) /\ flags' = {} /\ window' = "trysteal"
          /\ UNCHANGED <<curthread, panicked>>

\* sched_throw of an exiting thread.
Exit ==
    /\ Running /\ curthread \in Threads
    /\ Choose(Gone(Leaving))

\* sched_switch_migrate: curthread leaves for another processor's queue.
SwitchMigrate ==
    /\ Running /\ curthread \in Threads
    /\ Put(Leaving) /\ flags' = {} /\ window' = "migrate"
    /\ UNCHANGED <<curthread, panicked>>

\* The lock is taken again; tdq_trysteal may bring a thread if none has come.
EndWindow ==
    /\ ~panicked /\ window # "none"
    /\ \/ Choose(Gone(Here))
       \/ /\ window = "trysteal" /\ tdq.load = 0
          /\ \E t \in Threads :
                CanArrive(t) /\ \E s \in Arrivals(t, "YIELDING") : Choose(Gone(s))

-----------------------------------------------------------------------------
(* Priorities, affinity and the clock *)

\* sched_thread_priority of the running thread.
RunningPriority(prio) ==
    /\ Running /\ curthread \in Threads /\ prio # td[curthread].priority
    /\ LET old == td[curthread].priority
           s   == [Here EXCEPT !.td[curthread].priority = prio]
       IN  \/ /\ prio < tdq.lowpri
              /\ Put([s EXCEPT !.tdq.lowpri = prio]) /\ UNCHANGED panicked
           \/ /\ prio >= tdq.lowpri /\ tdq.lowpri # old
              /\ Put(s) /\ UNCHANGED panicked
           \/ /\ prio >= tdq.lowpri /\ tdq.lowpri = old
              /\ \E r \in Randoms :
                    \/ /\ ~tdq_choose_panics(s, r)
                       /\ Put(tdq_setlowpri(s, curthread, r)) /\ UNCHANGED panicked
                    \/ /\ tdq_choose_panics(s, r)
                       /\ panicked' = TRUE /\ UNCHANGED <<tdq, td>>
    /\ UNCHANGED <<curthread, flags, window>>

\* sched_thread_priority of a queued thread that gets worse: it stays put.
QueuedWorse(t, prio) ==
    /\ ~panicked /\ t \in Queued /\ prio > td[t].priority
    /\ td' = [td EXCEPT ![t].priority = prio]
    /\ UNCHANGED <<tdq, curthread, flags, window, panicked>>

\* sched_rem followed by sched_add: the thread goes to another processor, or
\* comes back here, added locally (which may owe a preemption) or from afar
\* (which may send an IPI).
Requeue(t, prio, how) ==
    \E r \in Randoms, nice \in NiceValues :
        LET s     == [sched_rem(Here, t, r) EXCEPT !.td[t].priority = prio]
            added == tdq_add(s, t, how, nice)
        IN  \/ sched_rem_panics(Here, t, r) /\ Panic
            \/ /\ ~sched_rem_panics(Here, t, r)
               /\ UNCHANGED <<curthread, window, panicked>>
               /\ \/ /\ ~td[t].pinned
                     /\ tdq' = s.tdq /\ td' = [td EXCEPT ![t] = OffThread]
                     /\ UNCHANGED flags
                  \/ /\ window = "none" /\ Put(added)
                     /\ \E inhibited \in BOOLEAN :
                           flags' = flags \cup sched_setpreempt(prio,
                                        PriorityOf(Here, curthread), inhibited)
                  \/ /\ \E ipi \in NotifyOutcomes(added, t) :
                           Put([added EXCEPT !.tdq.ipipending = ipi])
                     /\ UNCHANGED flags

\* Mutant of QueuedBetter: the thread stays on the queue of its old priority.
QueuedBetter_inplace(t, prio) ==
    /\ ~panicked /\ t \in Queued /\ prio < td[t].priority
    /\ td' = [td EXCEPT ![t].priority = prio]
    /\ UNCHANGED <<tdq, curthread, flags, window, panicked>>

\* sched_thread_priority of a queued thread that gets better.
QueuedBetter(t, prio) ==
    /\ ~panicked /\ t \in Queued /\ prio < td[t].priority
    /\ Requeue(t, prio, "BORROWING")

\* sched_affinity of a queued thread whose cpuset lost this processor.
Affinity(t) ==
    /\ ~panicked /\ t \in Queued
    /\ Requeue(t, td[t].priority, "BORING")

\* sched_affinity of the running thread.
AffinityRunning ==
    /\ Running /\ curthread \in Threads
    /\ flags' = flags \cup {"NEEDRESCHED"}
    /\ UNCHANGED <<tdq, td, curthread, window, panicked>>

\* sched_userret: back to the user priority, whatever it is by now.
UserRet(prio) ==
    /\ Running /\ curthread \in Threads /\ prio # td[curthread].priority
    /\ \E r \in Randoms :
          LET s == [Here EXCEPT !.td[curthread].priority = prio]
          IN  \/ /\ ~tdq_choose_panics(s, r)
                 /\ Put(tdq_setlowpri(s, curthread, r))
                 /\ UNCHANGED <<curthread, flags, window, panicked>>
              \/ tdq_choose_panics(s, r) /\ Panic

\* Mutant of Pin: pins a thread that is not running.
Pin_any ==
    /\ Running
    /\ \E t \in Threads : td' = [td EXCEPT ![t].pinned = ~@]
    /\ UNCHANGED <<tdq, curthread, flags, window, panicked>>

\* sched_pin and sched_unpin, and sched_bind and sched_unbind to this processor.
Pin ==
    /\ Running /\ curthread \in Threads
    /\ td' = [td EXCEPT ![curthread].pinned = ~@]
    /\ UNCHANGED <<tdq, curthread, flags, window, panicked>>

\* Mutants of ClockIndexes: the insert index runs past the last slot; the
\* insert index advances while a slot drains.
ClockIndexes_nowrap(q) ==
    IF q.idx # q.ridx THEN [idx |-> q.idx, ridx |-> q.ridx]
                      ELSE [idx |-> q.idx + 1, ridx |-> q.idx + 1]

ClockIndexes_always(q) ==
    LET next == (q.idx + 1) % RQ_NQS
        SlotEmpty(queue) == q.runq[queue].rq_queues[q.ridx] = <<>>
    IN  [idx  |-> next,
         ridx |-> IF SlotEmpty("timeshare") \/ SlotEmpty("lottery") THEN next ELSE q.ridx]

\* The indexes after a tick.  The second test looks at the lottery queue of
\* the same number, which is empty for every slot but 0.
ClockIndexes(q) ==
    LET next == (q.idx + 1) % RQ_NQS
        SlotEmpty(queue) == q.runq[queue].rq_queues[q.ridx] = <<>>
    IN  IF q.idx # q.ridx THEN [idx |-> q.idx, ridx |-> q.ridx]
        ELSE [idx  |-> next,
              ridx |-> IF SlotEmpty("timeshare") \/
                          q.runq["lottery"].rq_queues[
                              IF SlotEmpty("timeshare") THEN next ELSE q.ridx] = <<>>
                       THEN next ELSE q.ridx]

\* sched_clock, without the balancer it may call (StealOut and MoveIn).
SchedClock ==
    /\ Running
    /\ LET i == ClockIndexes(tdq)
       IN  tdq' = [tdq EXCEPT !.idx = i.idx, !.ridx = i.ridx]
    /\ LET counted == curthread \in Threads \ Fifo
           used    == td[curthread].slice + 1
           ended   == counted /\ used >= tdq_slice(Here)
       IN  /\ td' = IF counted THEN [td EXCEPT ![curthread].slice = IF ended THEN 0 ELSE used]
                               ELSE td
           /\ flags' = IF ended THEN flags \cup {"NEEDRESCHED", "SLICEEND"} ELSE flags
    /\ UNCHANGED <<curthread, window, panicked>>

Next ==
    \/ \E t \in Threads : SchedAdd(t) \/ RemoteAdd(t) \/ MoveIn(t) \/ IdleSteal(t)
    \/ StealOut
    \/ Relinquish \/ Ast \/ OwedPreempt \/ IdleSwitch \/ SchedPreempt
    \/ Sleep \/ Exit \/ SwitchMigrate \/ EndWindow
    \/ \E prio \in Prios : RunningPriority(prio) \/ UserRet(prio)
    \/ \E t \in Threads, prio \in Prios : QueuedWorse(t, prio) \/ QueuedBetter(t, prio)
    \/ \E t \in Threads : Affinity(t)
    \/ AffinityRunning \/ Pin \/ SchedClock

Spec == Init /\ [][Next]_vars

-----------------------------------------------------------------------------
(* Properties *)

TypeOK ==
    /\ tdq \in TdqType
    /\ td \in [Threads -> TdType]
    /\ curthread \in Threads \cup {IdleThread}
    /\ flags \subseteq {"NEEDRESCHED", "SLICEEND", "OWEPREEMPT"}
    /\ window \in {"none", "migrate", "trysteal"}
    /\ panicked \in BOOLEAN

\* A thread is on a queue exactly when it is in state RUNQ, on the one queue
\* its ts_runq and td_rqindex name, and only once (sched_ule.c:544
\* tdq_runq_rem trusts both fields); and the thread in state RUNNING is
\* curthread.
QueuesMatchThreads ==
    /\ \A q \in Queues, i \in Slots : IsInjective(tdq.runq[q].rq_queues[i])
    /\ \A t \in Threads, q \in Queues, i \in Slots :
          t \in Range(tdq.runq[q].rq_queues[i]) <=>
              td[t].state = "RUNQ" /\ td[t].ts_runq = q /\ td[t].rqindex = i
    /\ \A t \in Threads :
          td[t].state = "RUNNING" <=> t = curthread /\ window = "none"

\* A status bit is set exactly when its queue holds a thread: runq_choose and
\* runq_choose_from take the head of the queue the bits name
\* (kern_switch.c:514 "no thread on busy queue").
StatusBitsExact ==
    \A q \in Queues, i \in Slots :
        i \in tdq.runq[q].rq_status <=> tdq.runq[q].rq_queues[i] # <<>>

\* tdq_transferable counts the queued threads that may migrate
\* (sched_ule.c:456 "Keeps transferable counts up to date with what is
\* actually on the run-queue").
TransferableExact ==
    tdq.transferable = Cardinality({t \in Queued : ~td[t].pinned})

\* "Load is maintained for all threads RUNNING and ON_RUNQ" (sched_ule.c:567),
\* also while sched_switch has dropped the lock; the idle thread and its
\* notifiers go by it.
LoadExact ==
    LET on == {t \in Threads : td[t].state # "OFF"}
    IN  tdq.load = Cardinality(on) /\ tdq.sysload = Cardinality(on \ NoLoad)

\* The insert index is the removal index or one slot ahead of it
\* (sched_ule.c:523 "a one slot difference between idx and ridx").
OneSlotApart == tdq.idx \in {tdq.ridx, (tdq.ridx + 1) % RQ_NQS}

\* A thread's priority fits the queue it waits on, although a priority may
\* change while it is queued (the assertions at sched_ule.c:1396 and 1436).
PriorityFitsQueue ==
    \A t \in Queued :
        /\ td[t].ts_runq \in {"timeshare", "lottery"} => td[t].priority >= PRI_MIN_BATCH
        /\ td[t].ts_runq = "idle" => td[t].priority >= PRI_MIN_IDLE

\* All of these: what tdq_runq_add and tdq_runq_rem record of a thread, and count,
\* is still so when the thread is chosen, stolen or requeued.
TdqSound ==
    /\ QueuesMatchThreads /\ StatusBitsExact /\ LoadExact /\ TransferableExact
    /\ PriorityFitsQueue

\* No thread keeps a full quantum of used ticks, whatever load the tdq had
\* when its slice began (sched_ule.c:2500, tdq_slice shrinks with the load),
\* but a child charged that much by sched_fork_thread (2334), which it is only
\* where sched_slice_min is 0.
SliceWithinQuantum ==
    \A t \in Threads :
        \/ td[t].slice < sched_slice
        \/ td[t].slice = sched_slice /\ sched_slice_min = 0

\* While the removal slot drains (the insert index is one ahead), no thread
\* joins its tail unless its priority is being lent to it, so a thread
\* waiting there is not overtaken by a stream of newcomers.
DrainingSlotClosed ==
    [][LET old == tdq.runq["timeshare"].rq_queues[tdq.ridx]
           new == tdq'.runq["timeshare"].rq_queues[tdq.ridx]
       IN  tdq.idx # tdq.ridx /\ tdq'.idx = tdq.idx /\ tdq'.ridx = tdq.ridx
           /\ old # <<>> /\ new # <<>> /\ Len(new) > Len(old) /\ new[Len(new)] # old[Len(old)]
           => \E t \in Queued : td'[t].priority < td[t].priority]_vars

\* The idle thread gets the processor only when nothing is queued but,
\* perhaps, threads of the lottery (sched_ule.c:1382 tdq_choose).
IdleOnlyWithoutWork ==
    [][curthread # IdleThread /\ curthread' = IdleThread
       => \A t \in Threads : td'[t].state = "RUNQ" => td'[t].ts_runq = "lottery"]_vars
-----------------------------------------------------------------------------
(* What a comment says and the lottery code does not do. *)

\* "Pick the highest priority task we have and return it" (sched_ule.c:1383):
\* tdq_choose returns; drawing among the threads of ordinary users, whose
\* programs asgn2/README.txt:7 tests the lottery with, does not trap the kernel.
NoPanic == ~panicked
=============================================================================
