------------------------------ MODULE Interact ------------------------------
(***************************************************************************)
(* What sched_ule.c (asgn2) remembers of how a thread has run and slept,   *)
(* and the priority it computes from that.  One thread is followed; at a   *)
(* fork either side may be.                                                *)
(*                                                                         *)
(* ticks is a counter that wraps, so the times ts_ltick, ts_ftick and      *)
(* td_slptick are kept as what (ticks - time) gives: ages modulo TickWord. *)
(***************************************************************************)
EXTENDS Integers, FiniteSetsExt

CONSTANTS
    Word,                \* 2^32 of u_int
    TickWord,            \* 2^32 of ticks
    Unit,                \* 1 << SCHED_TICK_SHIFT
    hz, tickincr,
    SCHED_TICK_SECS, SCHED_SLP_RUN_MAX, SCHED_SLP_RUN_FORK,
    SCHED_INTERACT_HALF, sched_interact,
    PRIO_MAX,            \* of nice values
    PRI_MIN_TIMESHARE, PRI_MAX_TIMESHARE,
    TickGap,             \* most ticks between two statclock ticks
    Naps                 \* ticks that pass at once while a thread does not run

PRIO_MIN            == -PRIO_MAX
PRI_TIMESHARE_RANGE == PRI_MAX_TIMESHARE - PRI_MIN_TIMESHARE + 1
SCHED_PRI_NRESV     == PRIO_MAX - PRIO_MIN
PRI_INTERACT_RANGE  == (PRI_TIMESHARE_RANGE - SCHED_PRI_NRESV) \div 2
PRI_MIN_INTERACT    == PRI_MIN_TIMESHARE
PRI_MAX_INTERACT    == PRI_MIN_TIMESHARE + PRI_INTERACT_RANGE - 1
PRI_MIN_BATCH       == PRI_MIN_TIMESHARE + PRI_INTERACT_RANGE
PRI_MAX_BATCH       == PRI_MAX_TIMESHARE
SCHED_PRI_NHALF     == SCHED_PRI_NRESV \div 2
SCHED_PRI_MIN       == PRI_MIN_BATCH + SCHED_PRI_NHALF
SCHED_PRI_MAX       == PRI_MAX_BATCH - SCHED_PRI_NHALF
SCHED_PRI_RANGE     == SCHED_PRI_MAX - SCHED_PRI_MIN + 1
SCHED_TICK_TARG     == hz * SCHED_TICK_SECS
SCHED_TICK_MAX      == SCHED_TICK_TARG + hz

ASSUME InteractAssumption ==
    /\ {Word, TickWord, Unit, hz, tickincr, SCHED_TICK_SECS, SCHED_SLP_RUN_MAX,
        SCHED_SLP_RUN_FORK, SCHED_INTERACT_HALF, sched_interact, TickGap} \subseteq Nat \ {0}
    /\ PRI_MIN_TIMESHARE \in Nat /\ PRI_MAX_TIMESHARE \in Nat
    /\ PRIO_MAX \in Nat
    /\ PRI_INTERACT_RANGE >= sched_interact /\ SCHED_PRI_RANGE > 0
    /\ TickWord > 2 * (SCHED_TICK_MAX + SCHED_TICK_TARG) /\ TickGap < SCHED_TICK_TARG
    /\ Naps \subseteq Nat

VARIABLE td
    \* runtime, slptime, ticks: of struct td_sched; lage, fage: age of ts_ltick
    \* and ts_ftick; slept: age of td_slptick; nice: p_nice; state; overflowed:
    \* has a sum not fitted a u_int?

interactVars == <<td>>

-----------------------------------------------------------------------------
(* sched_interact_score and sched_priority *)

sched_interact_score(r) ==
    CASE sched_interact <= SCHED_INTERACT_HALF /\ r.runtime >= r.slptime ->
            SCHED_INTERACT_HALF
      [] sched_interact > SCHED_INTERACT_HALF /\ r.runtime > r.slptime ->
            2 * SCHED_INTERACT_HALF
                - r.slptime \div Max({1, r.runtime \div SCHED_INTERACT_HALF})
      [] r.slptime > r.runtime ->
            r.runtime \div Max({1, r.slptime \div SCHED_INTERACT_HALF})
      [] OTHER -> IF r.runtime # 0 THEN SCHED_INTERACT_HALF ELSE 0

\* SCHED_PRI_TICKS: the share of the window that was run, in SCHED_PRI_RANGE.
SCHED_PRI_TICKS(r) ==
    LET total   == Max({(r.fage - r.lage) % TickWord, hz})
        roundup == ((total + SCHED_PRI_RANGE - 1) \div SCHED_PRI_RANGE) * SCHED_PRI_RANGE
    IN  (r.ticks \div Unit) \div (roundup \div SCHED_PRI_RANGE)

\* Mutant of TicksPart: not cut at the end of the range.
TicksPart_uncut(r) == SCHED_PRI_TICKS(r)

TicksPart(r) == Min({SCHED_PRI_TICKS(r), SCHED_PRI_RANGE - 1})

Interactive(r) == Max({0, sched_interact_score(r) + r.nice}) < sched_interact

\* What sched_priority gives to sched_user_prio.
sched_priority(r) ==
    IF Interactive(r)
    THEN PRI_MIN_INTERACT + ((PRI_MAX_INTERACT - PRI_MIN_INTERACT + 1) \div sched_interact)
                                * Max({0, sched_interact_score(r) + r.nice})
    ELSE SCHED_PRI_MIN + TicksPart(r) + r.nice

-----------------------------------------------------------------------------
(* The histories *)

Summed(r) == [r EXCEPT !.overflowed = @ \/ r.runtime + r.slptime >= Word]

Scaled(r, num, div) ==
    [r EXCEPT !.runtime = (@ \div div) * num, !.slptime = (@ \div div) * num]

\* Mutant of sched_interact_update: no case for what halving does not cure.
sched_interact_update_twice(r) ==
    LET sum == (r.runtime + r.slptime) % Word
    IN  CASE sum < SCHED_SLP_RUN_MAX -> r
          [] sum >= SCHED_SLP_RUN_MAX /\ sum > (SCHED_SLP_RUN_MAX \div 5) * 6 -> Scaled(r, 1, 2)
          [] OTHER -> Scaled(r, 4, 5)

\* The sum is a u_int.
sched_interact_update(r) ==
    LET sum == (r.runtime + r.slptime) % Word
        ran == r.runtime > r.slptime
    IN  CASE sum < SCHED_SLP_RUN_MAX -> r
          [] sum > SCHED_SLP_RUN_MAX * 2 ->
                [r EXCEPT !.runtime = IF ran THEN SCHED_SLP_RUN_MAX ELSE 1,
                          !.slptime = IF ran THEN 1 ELSE SCHED_SLP_RUN_MAX]
          [] sum \in (SCHED_SLP_RUN_MAX \div 5) * 6 + 1 .. SCHED_SLP_RUN_MAX * 2
             /\ sum >= SCHED_SLP_RUN_MAX -> Scaled(r, 1, 2)
          [] OTHER -> Scaled(r, 4, 5)

\* sum is an int here.
sched_interact_fork(r) ==
    LET sum   == (r.runtime + r.slptime) % Word
        ratio == sum \div SCHED_SLP_RUN_FORK
    IN  IF sum < Word \div 2 /\ sum > SCHED_SLP_RUN_FORK THEN Scaled(r, 1, ratio) ELSE r

\* What sched_pctcpu_update does to the window: begun anew after a pause of the
\* whole window, as an unsigned difference; cut to its length when it is over.
Forgotten(r) ==
    CASE r.lage >= SCHED_TICK_TARG -> [r EXCEPT !.ticks = 0, !.fage = SCHED_TICK_TARG]
      [] r.lage < SCHED_TICK_TARG /\ r.fage \in SCHED_TICK_MAX .. TickWord \div 2 - 1 ->
            [r EXCEPT !.ticks = (@ \div (r.fage - r.lage)) * (SCHED_TICK_TARG - r.lage),
                      !.fage = SCHED_TICK_TARG]
      [] OTHER -> r

sched_pctcpu_update(r, run) ==
    [Forgotten(r) EXCEPT !.ticks = IF run THEN @ + r.lage * Unit ELSE @, !.lage = 0]

Charged(r, runtime) ==
    sched_interact_update(Summed([r EXCEPT !.runtime = (@ + runtime) % Word]))

-----------------------------------------------------------------------------
(* Steps *)

Is(state) == td.state = state

\* ticks goes on: one by one while the thread runs, with a statclock tick every
\* TickGap at least.
Older(n) == [td EXCEPT !.lage = (@ + n) % TickWord, !.fage = (@ + n) % TickWord]

TickRunning == Is("RUNNING") /\ td.lage < TickGap /\ td' = Older(1)

TickWaiting ==
    /\ ~Is("RUNNING")
    /\ \E n \in Naps : td' = [Older(n) EXCEPT !.slept = IF Is("ASLEEP") THEN (@ + n) % TickWord
                                                        ELSE @]

\* sched_clock
Clock == Is("RUNNING") /\ td' = Charged(sched_pctcpu_update(td, TRUE), tickincr)

\* sched_switch, away from the thread and to it; a sleeper notes when.
SwitchOut ==
    /\ Is("RUNNING")
    /\ \E state \in {"RUNQ", "ASLEEP"} :
          td' = [sched_pctcpu_update(td, TRUE) EXCEPT !.state = state, !.slept = 0]

SwitchIn == Is("RUNQ") /\ td' = [sched_pctcpu_update(td, FALSE) EXCEPT !.state = "RUNNING"]

\* sched_wakeup: the shift and the sum drop what does not fit.
Awake(r) ==
    sched_pctcpu_update(
        sched_interact_update(Summed([r EXCEPT !.slptime = (@ + r.slept * Unit) % Word])), FALSE)

sched_wakeup ==
    /\ Is("ASLEEP")
    /\ td' = [IF td.slept = 0 THEN td ELSE Awake(td) EXCEPT !.state = "RUNQ", !.slept = 0]

sched_nice == \E n \in PRIO_MIN .. PRIO_MAX : td' = [td EXCEPT !.nice = n]

\* sched_fork: the parent is charged a tick, the child inherits a shorter
\* history.
sched_fork ==
    /\ Is("RUNNING")
    /\ LET seen == sched_pctcpu_update(td, TRUE)
       IN  \/ td' = Charged(seen, tickincr)
           \/ td' = [sched_interact_fork(seen) EXCEPT !.state = "RUNQ"]

\* sched_exit_thread: a child's run time comes on top.
sched_exit == \E n \in {1, SCHED_SLP_RUN_MAX} : td' = Charged(td, n)

-----------------------------------------------------------------------------

InteractInit ==
    td = [runtime |-> 0, slptime |-> 0, ticks |-> 0, lage |-> 0, fage |-> 0, slept |-> 0,
          nice |-> 0, state |-> "RUNQ", overflowed |-> FALSE]

InteractNext ==
    \/ TickRunning \/ TickWaiting \/ Clock \/ SwitchOut \/ SwitchIn
    \/ sched_wakeup \/ sched_nice \/ sched_fork \/ sched_exit

InteractSpec == InteractInit /\ [][InteractNext]_interactVars

-----------------------------------------------------------------------------
(* Properties *)

\* Every count is what its C type holds, and whenever the priority is computed
\* it is in the range of what the thread was found to be, which the code only
\* asserts (sched_ule.c:1640, 1649).
InteractTypeOK ==
    /\ td.runtime \in 0 .. Word - 1 /\ td.slptime \in 0 .. Word - 1 /\ td.ticks \in Nat
    /\ td.lage \in 0 .. TickWord - 1 /\ td.fage \in 0 .. TickWord - 1
    /\ td.slept \in 0 .. TickWord - 1 /\ td.nice \in PRIO_MIN .. PRIO_MAX
    /\ td.state \in {"RUNNING", "RUNQ", "ASLEEP"} /\ td.overflowed \in BOOLEAN
    /\ sched_priority(td) \in IF Interactive(td) THEN PRI_MIN_INTERACT .. PRI_MAX_INTERACT
                                                ELSE PRI_MIN_BATCH .. PRI_MAX_BATCH

\* However long a thread sleeps or its children ran, the history kept stays at
\* its limit, until a sum does not fit a u_int and is taken for a small one
\* (sched_ule.c:1662).
HistoryBounded ==
    td.overflowed \/ td.runtime + td.slptime <= SCHED_SLP_RUN_MAX + 1

\* No thread has used more than the whole of the window that is remembered, nor
\* is that ever longer than its limit when it is looked at (sched_ule.c:1763).
ShareOfWindow ==
    /\ td.ticks <= ((td.fage - td.lage) % TickWord) * Unit
    /\ (td.fage - td.lage) % TickWord < SCHED_TICK_MAX + TickGap

\* Both: neither record of the thread's past grows without bound.
HistoryKept == HistoryBounded /\ ShareOfWindow
=============================================================================
