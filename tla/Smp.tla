-------------------------------- MODULE Smp ---------------------------------
(***************************************************************************)
(* The processors of asgn2/sched_ule.c among themselves: who is woken for  *)
(* a thread put on its queue, and how threads are moved between queues     *)
(* under two locks.                                                        *)
(*                                                                         *)
(* A queue is a set of threads of one priority; Tdq has what is inside one.*)
(* The processors form one group.  A step is what is done under the lock(s)*)
(* of a tdq, the taking of one lock of a pair, a search of all processors  *)
(* (stale as soon as it is done), or one access without a lock.  Processors*)
(* are numbered in the order of the addresses of their tdqs.               *)
(***************************************************************************)
EXTENDS Integers, FiniteSets

CONSTANTS
    MaxCpus,             \* processors
    Threads,
    NoCpu, Idle,         \* no processor; a processor's idle thread
    steal_thresh,
    CpuSets,             \* the affinities threads have
    Binders              \* the threads that use sched_bind

ASSUME SmpAssumption ==
    /\ MaxCpus \in Nat \ {0} /\ steal_thresh \in Nat
    /\ NoCpu \notin 1 .. MaxCpus /\ Idle \notin Threads
    /\ IsFiniteSet(Threads)
    /\ CpuSets \subseteq SUBSET (1 .. MaxCpus) /\ {} \notin CpuSets
    /\ Binders \subseteq Threads

VARIABLES
    cpus,                \* the processors there are, fixed at boot
    cpuset,              \* td_cpuset: where a thread may run, never changed here
    bound,               \* sched_bind: the processor a thread is pinned to
    lock,                \* the processor that holds the lock of a tdq
    queue, load,         \* the threads queued, tdq_load
    cur,                 \* pc_curthread
    cpu_idle, ipipending,
    ipi,                 \* an IPI_PREEMPT is on its way
    md,                  \* the idle state the MD code shows to cpu_idle_wakeup
    idle,                \* per processor: the idle thread's place and variables
    op                   \* per processor: what it does with interrupts disabled

fixed   == <<cpus, cpuset>>
threads == <<bound, queue, load, cur>>
signals == <<cpu_idle, ipipending, ipi, md>>
vars    == <<fixed, threads, signals, lock, idle, op>>

None == [pc |-> "none"]

Rest(c)           == op[c] = None
At(c, pc)         == op[c].pc = pc
Do(c, record)     == op' = [op EXCEPT ![c] = record]
Held(l)           == lock[l] # NoCpu

-----------------------------------------------------------------------------
(* Which processors qualify: sched_highest, sched_lowest, sched_pickcpu *)

CanMigrate(t)     == bound[t] = NoCpu
CanSched(t, c)    == c \in cpuset[t]

\* tdq_transferable is not 0.
Transferable(c)   == \E t \in queue[c] : CanMigrate(t)

\* cpu_search: the most loaded of mask from which a thread might be taken, ties
\* broken by chance; NoCpu if there is none.
sched_highest(mask, minload) ==
    LET fit == {c \in mask : load[c] >= minload /\ Transferable(c)}
    IN  IF fit = {} THEN {NoCpu} ELSE {c \in fit : \A d \in fit : load[d] <= load[c]}

\* cpu_search: the least loaded of mask; a quarter of a thread's load in favour
\* of prefer, which decides nothing but a tie.  idlers: only those with nothing
\* better than the idle thread.
sched_lowest(mask, idlers, maxload, prefer) ==
    LET fit   == {c \in mask : (idlers => load[c] = 0) /\ load[c] <= maxload}
        least == {c \in fit : \A d \in fit : load[c] <= load[d]}
    IN  CASE fit = {}                          -> {NoCpu}
          [] prefer \in least                  -> {prefer}
          [] fit # {} /\ prefer \notin least   -> least

\* Where a processor that wakes a thread puts it; last is where it ran before,
\* which it may prefer or have forgotten.
sched_pickcpu(t, self, last) ==
    LET mask  == cpuset[t] \cap cpus
        idler == sched_lowest(mask, TRUE, Cardinality(Threads), last)
        pick  == IF idler # {NoCpu} THEN idler
                 ELSE sched_lowest(mask, FALSE, Cardinality(Threads), last)
    IN  CASE ~CanMigrate(t)                                  -> {bound[t]}
          [] CanMigrate(t) /\ last \in mask /\ load[last] = 0 -> {last} \cup pick
          [] OTHER -> {IF self \in mask /\ load[self] = 0 /\ load[c] > 0 THEN self ELSE c :
                          c \in pick}

-----------------------------------------------------------------------------
(* Locks *)

\* Mutant of FirstOf: the locks in the order of the arguments.
FirstOf_asgiven(one, two) == one

FirstOf(one, two) == IF one < two THEN one ELSE two
SecondOf(one, two) == IF FirstOf(one, two) = one THEN two ELSE one

\* tdq_lock_pair(o.one, o.two), then pc o.then.
LockFirst(c) ==
    LET o == op[c]
        l == FirstOf(o.one, o.two)
    IN  /\ At(c, "first") /\ ~Held(l)
        /\ lock' = [lock EXCEPT ![l] = c] /\ Do(c, [o EXCEPT !.pc = "second"])
        /\ UNCHANGED <<fixed, threads, signals, idle>>

LockSecond(c) ==
    LET o == op[c]
        l == SecondOf(o.one, o.two)
    IN  /\ At(c, "second") /\ ~Held(l)
        /\ lock' = [lock EXCEPT ![l] = c] /\ Do(c, [o EXCEPT !.pc = o.then])
        /\ UNCHANGED <<fixed, threads, signals, idle>>

Pair(one, two, then, o) == [o EXCEPT !.pc = "first", !.one = one, !.two = two, !.then = then]

Unlocked(set) == lock' = [l \in cpus |-> IF l \in set THEN NoCpu ELSE lock[l]]

\* All fields an operation uses.
Op(pc) == [pc |-> pc, one |-> NoCpu, two |-> NoCpu, then |-> "none", td |-> Idle,
           target |-> NoCpu, hmask |-> {}, lmask |-> {}, anylow |-> TRUE]

-----------------------------------------------------------------------------
(* Moving threads *)

\* Mutant of Stealable: the affinity is not asked for.
Stealable_any(v, c) == {t \in queue[v] : CanMigrate(t)}

\* What tdq_steal may return: the scan passes over the first thread it meets
\* when there are others, so it may miss the only one that can go.
Stealable(v, c) == {t \in queue[v] : CanMigrate(t) /\ CanSched(t, c)}

MayMiss(v, c) ==
    \/ Stealable(v, c) = {}
    \/ Cardinality(queue[v]) > 1 /\ Stealable(v, c) # queue[v]

\* Mutant of Moved: the load stays with v.
Moved_load(t, v, c) ==
    /\ queue' = [queue EXCEPT ![v] = @ \ {t}, ![c] = @ \cup {t}]
    /\ UNCHANGED load

\* tdq_move: queues and loads with t moved from v to c.
Moved(t, v, c) ==
    /\ queue' = [queue EXCEPT ![v] = @ \ {t}, ![c] = @ \cup {t}]
    /\ load'  = [load EXCEPT ![v] = @ - 1, ![c] = @ + 1]

\* choosethread by c, with lock c, from the threads in q.
Choose(c, q) ==
    \/ q = {} /\ cur' = [cur EXCEPT ![c] = Idle] /\ queue' = [queue EXCEPT ![c] = {}]
    \/ \E t \in q : cur' = [cur EXCEPT ![c] = t] /\ queue' = [queue EXCEPT ![c] = q \ {t}]

-----------------------------------------------------------------------------
(* Running threads and interrupts *)

Off(t) ==
    /\ \A c \in cpus : t \notin queue[c] /\ cur[c] # t
    /\ \A c \in cpus : ~Rest(c) => op[c].td # t

\* The idle thread has interrupts enabled but where the MD code looks for work
\* for the last time.
Interruptible(c) == Rest(c) /\ ~(cur[c] = Idle /\ idle[c].pc = "runnable")

\* Any interrupt ends a halt.
Roused(c) == IF cur[c] = Idle /\ idle[c].pc = "halted"
             THEN [idle EXCEPT ![c].pc = "returned"] ELSE idle

\* sched_add by what runs on c, an interrupt perhaps: the processor is picked,
\* its lock taken, the thread queued.
Wakeup(c, t) ==
    /\ Interruptible(c) /\ Off(t) /\ idle' = Roused(c)
    /\ \E last \in cpus : \E g \in sched_pickcpu(t, c, last) :
          Do(c, [Op("add") EXCEPT !.td = t, !.target = g, !.then = "added"])
    /\ UNCHANGED <<fixed, threads, signals, lock>>

Add(c) ==
    LET o == op[c] IN
    /\ At(c, "add") /\ ~Held(o.target) /\ lock' = [lock EXCEPT ![o.target] = c]
    /\ queue' = [queue EXCEPT ![o.target] = @ \cup {o.td}]
    /\ load' = [load EXCEPT ![o.target] = @ + 1]
    /\ Do(c, [o EXCEPT !.pc = IF o.target = c THEN "added" ELSE "notify", !.td = Idle])
    /\ UNCHANGED <<fixed, bound, cur, signals, idle>>

\* The lock is dropped; the idle thread is preempted for a thread queued here.
Added(c) ==
    /\ At(c, "added") /\ Unlocked({op[c].target})
    /\ Do(c, IF op[c].target = c /\ cur[c] = Idle THEN Op("preempt") ELSE None)
    /\ UNCHANGED <<fixed, threads, signals, idle>>

Preempt(c) ==
    /\ At(c, "preempt") /\ ~Held(c) /\ Choose(c, queue[c]) /\ Do(c, None)
    /\ UNCHANGED <<fixed, bound, load, signals, lock, idle>>

\* sched_switch of a thread that stays runnable, and of one that sleeps while
\* others are queued.
Yield(c) ==
    /\ Rest(c) /\ cur[c] # Idle /\ ~Held(c)
    /\ ~CanMigrate(cur[c]) \/ CanSched(cur[c], c)
    /\ Choose(c, queue[c] \cup {cur[c]})
    /\ UNCHANGED <<fixed, bound, load, signals, lock, idle, op>>

Sleep(c) ==
    /\ Rest(c) /\ cur[c] # Idle /\ ~Held(c) /\ load' = [load EXCEPT ![c] = @ - 1]
    /\ IF load[c] > 1
       THEN Choose(c, queue[c]) /\ UNCHANGED op
       ELSE /\ Do(c, [Op("try") EXCEPT !.td = cur[c]])
            /\ UNCHANGED <<queue, cur>>
    /\ UNCHANGED <<fixed, bound, signals, lock, idle>>

-----------------------------------------------------------------------------
(* tdq_trysteal: the thread that sleeps leaves nothing behind it *)

\* The lock of c is free meanwhile.  The search, and the tests after it.
TrySearch(c) ==
    /\ At(c, "try")
    /\ \E v \in sched_highest(cpus \ {c}, steal_thresh) :
          Do(c, IF load[c] > 0 \/ v = NoCpu THEN [op[c] EXCEPT !.pc = "own"]
                                            ELSE Pair(c, v, "trylocked", op[c]))
    /\ UNCHANGED <<fixed, threads, signals, lock, idle>>

TryOwn(c) ==
    /\ At(c, "own") /\ ~Held(c) /\ Choose(c, queue[c]) /\ Do(c, None)
    /\ UNCHANGED <<fixed, bound, load, signals, lock, idle>>

\* "The data returned by sched_highest() is stale"
StillGood(v) == load[v] >= steal_thresh /\ Transferable(v)

\* tdq_move to a processor with nothing else to run, and the switch to t.
StealAndRun(v, c) ==
    \E t \in Stealable(v, c) :
        /\ cur' = [cur EXCEPT ![c] = t]
        /\ queue' = [queue EXCEPT ![v] = @ \ {t}]
        /\ load' = [load EXCEPT ![v] = @ - 1, ![c] = @ + 1]

\* The lock of v is dropped whatever has been found.
TryLocked(c) ==
    LET v == op[c].two IN
    /\ At(c, "trylocked")
    /\ \/ load[c] = 0 /\ StillGood(v) /\ StealAndRun(v, c)
       \/ /\ load[c] > 0 \/ ~StillGood(v) \/ MayMiss(v, c)
          /\ Choose(c, queue[c]) /\ UNCHANGED load
    /\ Unlocked({c, v}) /\ Do(c, None)
    /\ UNCHANGED <<fixed, bound, signals, idle>>

-----------------------------------------------------------------------------
(* sched_bind and sched_switch_migrate *)

\* A running thread leaves for d; the lock of c is dropped.
Leave(c, d) ==
    /\ load' = [load EXCEPT ![c] = @ - 1]
    /\ Do(c, Pair(d, c, "migrate", [Op("first") EXCEPT !.td = cur[c], !.target = d]))
    /\ UNCHANGED <<fixed, queue, cur, signals, lock, idle>>

Bind(c) ==
    /\ Rest(c) /\ cur[c] \in Binders /\ CanMigrate(cur[c]) /\ ~Held(c)
    /\ \E d \in cpus : /\ bound' = [bound EXCEPT ![cur[c]] = d]
                       /\ IF d # c THEN Leave(c, d)
                                   ELSE UNCHANGED <<fixed, queue, load, cur, signals, lock,
                                                    idle, op>>

Unbind(c) ==
    /\ Rest(c) /\ cur[c] # Idle /\ ~CanMigrate(cur[c])
    /\ bound' = [bound EXCEPT ![cur[c]] = NoCpu]
    /\ UNCHANGED <<fixed, queue, load, cur, signals, lock, idle, op>>

\* A thread that may not run here any more yields.
Expel(c) ==
    /\ Rest(c) /\ cur[c] # Idle /\ ~Held(c) /\ CanMigrate(cur[c]) /\ ~CanSched(cur[c], c)
    /\ \E d \in sched_pickcpu(cur[c], c, c) : Leave(c, d)
    /\ UNCHANGED bound

Migrate(c) ==
    LET o == op[c] IN
    /\ At(c, "migrate")
    /\ queue' = [queue EXCEPT ![o.target] = @ \cup {o.td}]
    /\ load' = [load EXCEPT ![o.target] = @ + 1]
    /\ Do(c, [o EXCEPT !.pc = "notify", !.then = "migrated"])
    /\ UNCHANGED <<fixed, bound, cur, signals, lock, idle>>

Migrated(c) ==
    /\ At(c, "migrated") /\ Choose(c, queue[c])
    /\ Unlocked({c, op[c].target}) /\ Do(c, None)
    /\ UNCHANGED <<fixed, bound, load, signals, idle>>

-----------------------------------------------------------------------------
(* tdq_notify, with the lock of the target *)

Notify(c) ==
    LET o == op[c]
        g == o.target
    IN  /\ At(c, "notify")
        /\ Do(c, [o EXCEPT !.pc = IF ~ipipending[g] /\ cur[g] = Idle /\ cpu_idle[g]
                                  THEN "wake" ELSE o.then])
        /\ UNCHANGED <<fixed, threads, signals, lock, idle>>

\* cpu_idle_wakeup has its own way with a processor that is not in the deeper
\* sleep, and else an IPI is sent.
Wake(c) ==
    LET o == op[c]
        g == o.target
    IN  /\ At(c, "wake") /\ Do(c, [o EXCEPT !.pc = o.then])
        /\ IF md[g] = "sleeping"
           THEN /\ ipipending' = [ipipending EXCEPT ![g] = TRUE]
                /\ ipi' = [ipi EXCEPT ![g] = TRUE] /\ UNCHANGED md
           ELSE md' = [md EXCEPT ![g] = "running"] /\ UNCHANGED <<ipipending, ipi>>
        /\ UNCHANGED <<fixed, threads, cpu_idle, lock, idle>>

\* sched_preempt: the IPI arrives.
Preempted(c) ==
    /\ ipi[c] /\ Interruptible(c) /\ ~Held(c)
    /\ ipi' = [ipi EXCEPT ![c] = FALSE] /\ ipipending' = [ipipending EXCEPT ![c] = FALSE]
    /\ idle' = Roused(c)
    /\ IF cur[c] = Idle /\ queue[c] # {} THEN Choose(c, queue[c]) ELSE UNCHANGED <<queue, cur>>
    /\ UNCHANGED <<fixed, bound, load, cpu_idle, md, lock, op>>

-----------------------------------------------------------------------------
(* sched_balance, in the clock interrupt of the processor that booted *)

Balance(c) ==
    /\ c = 1 /\ Interruptible(c) /\ ~Held(c) /\ idle' = Roused(c)
    /\ Do(c, [Op("high") EXCEPT !.hmask = cpus])
    /\ UNCHANGED <<fixed, threads, signals, lock>>

BalanceHigh(c) ==
    LET o == op[c] IN
    /\ At(c, "high")
    /\ \E h \in sched_highest(o.hmask, 2) :
          Do(c, IF h = NoCpu \/ o.hmask \ {h} = {} THEN None
                ELSE [o EXCEPT !.pc = "low", !.one = h, !.hmask = @ \ {h},
                               !.lmask = o.hmask \ {h}, !.anylow = TRUE])
    /\ UNCHANGED <<fixed, threads, signals, lock, idle>>

BalanceLow(c) ==
    LET o == op[c] IN
    /\ At(c, "low")
    /\ \E l \in sched_lowest(o.lmask, FALSE, load[o.one] - 1, o.one) :
          Do(c, CASE l = NoCpu /\ o.anylow  -> None
                  [] l = NoCpu /\ ~o.anylow -> [o EXCEPT !.pc = "high"]
                  [] OTHER                  -> [Pair(o.one, l, "pair", o) EXCEPT !.target = l])
    /\ UNCHANGED <<fixed, threads, signals, lock, idle>>

\* sched_balance_pair: a thread goes from the higher to the lower, which is
\* notified unless it is this processor; or nothing can.
BalancePair(c) ==
    LET o == op[c]
        h == o.one
        l == o.two
        uneven == Transferable(h) /\ load[h] > load[l]
    IN  /\ At(c, "pair")
        /\ \/ /\ uneven /\ \E t \in Stealable(h, l) : Moved(t, h, l)
              /\ Do(c, [o EXCEPT !.pc = IF l = c THEN "moved" ELSE "notify",
                                 !.then = "moved"])
              /\ UNCHANGED <<bound, cur, lock>>
           \/ /\ ~uneven \/ MayMiss(h, l)
              /\ Unlocked({h, l})
              /\ Do(c, [o EXCEPT !.pc = "low", !.lmask = @ \ {l}, !.anylow = FALSE])
              /\ UNCHANGED threads
        /\ UNCHANGED <<fixed, signals, idle>>

BalanceMoved(c) ==
    LET o == op[c] IN
    /\ At(c, "moved") /\ Unlocked({o.one, o.two})
    /\ Do(c, [o EXCEPT !.pc = "high", !.hmask = @ \ {o.two}])
    /\ UNCHANGED <<fixed, threads, signals, idle>>

-----------------------------------------------------------------------------
(* sched_idletd and tdq_idled *)

IdleAt(c, pc)  == Rest(c) /\ cur[c] = Idle /\ idle[c].pc = pc
IdleGoes(c, r) == idle' = [idle EXCEPT ![c] = r]
Goes(c, pc)    == IdleGoes(c, [pc |-> pc, mask |-> {}])

\* Another thread runs if there is one; when it is done, the loop goes on.
\* Stealing is tried only after a switch since the last time: the counts of
\* switches, which the clock restarts too, may agree or not.
IdleTop(c) ==
    /\ IdleAt(c, "top")
    /\ Goes(c, "rest") \/ IdleGoes(c, [pc |-> "search", mask |-> cpus \ {c}])
    /\ IF load[c] > 0 THEN ~Held(c) /\ Choose(c, queue[c]) ELSE UNCHANGED <<queue, cur>>
    /\ UNCHANGED <<fixed, bound, load, signals, lock, op>>

IdleSearch(c) ==
    /\ IdleAt(c, "search")
    /\ \E v \in sched_highest(idle[c].mask, steal_thresh) :
          CASE load[c] > 0               -> Goes(c, "top") /\ UNCHANGED op
            [] load[c] = 0 /\ v = NoCpu  -> Goes(c, "rest") /\ UNCHANGED op
            [] load[c] = 0 /\ v # NoCpu  -> Do(c, Pair(c, v, "idled", Op("first")))
                                            /\ UNCHANGED idle
    /\ UNCHANGED <<fixed, threads, signals, lock>>

\* With both locks: its own load first; then a stale choice, or a switch in
\* between by the counts, restarts the search; then it steals, or strikes v off.
IdleLocked(c) ==
    LET v == op[c].two
        good == load[c] = 0 /\ StillGood(v)
    IN
    /\ At(c, "idled")
    /\ \/ load[c] > 0 /\ Choose(c, queue[c]) /\ Goes(c, "top") /\ UNCHANGED load
       \/ load[c] = 0 /\ UNCHANGED <<queue, load, cur, idle>>
       \/ good /\ StealAndRun(v, c) /\ Goes(c, "top")
       \/ /\ good /\ MayMiss(v, c)
          /\ IdleGoes(c, [idle[c] EXCEPT !.pc = "search", !.mask = @ \ {v}])
          /\ UNCHANGED <<queue, load, cur>>
    /\ Unlocked({c, v}) /\ Do(c, None)
    /\ UNCHANGED <<fixed, bound, signals>>

\* Mutant of IdleRests: the flag is not raised.
IdleRests_unset(c) ==
    /\ IdleAt(c, "rest")
    /\ Goes(c, "top") \/ (load[c] = 0 /\ Goes(c, "fence"))
    /\ UNCHANGED <<fixed, threads, signals, lock, op>>

\* On load or a switch the loop starts again; the spin, which only looks at the
\* load, is left out.
IdleRests(c) ==
    /\ IdleAt(c, "rest")
    /\ \/ Goes(c, "top") /\ UNCHANGED cpu_idle
       \/ load[c] = 0 /\ Goes(c, "fence") /\ cpu_idle' = [cpu_idle EXCEPT ![c] = TRUE]
    /\ UNCHANGED <<fixed, threads, ipipending, ipi, md, lock, op>>

IdleFence(c) ==
    /\ IdleAt(c, "fence")
    /\ IF load[c] > 0 THEN Goes(c, "top") /\ cpu_idle' = [cpu_idle EXCEPT ![c] = FALSE]
                      ELSE Goes(c, "enter") /\ UNCHANGED cpu_idle
    /\ UNCHANGED <<fixed, threads, ipipending, ipi, md, lock, op>>

\* cpu_idle(): shows the state it will be in, disables interrupts, looks at the
\* load (sched_runnable) and halts.
MdEnter(c) ==
    /\ IdleAt(c, "enter") /\ Goes(c, "runnable")
    /\ \E state \in {"sleeping", "mwait"} : md' = [md EXCEPT ![c] = state]
    /\ UNCHANGED <<fixed, threads, cpu_idle, ipipending, ipi, lock, op>>

MdHalt(c) ==
    /\ IdleAt(c, "runnable") /\ Goes(c, IF load[c] > 0 THEN "returned" ELSE "halted")
    /\ UNCHANGED <<fixed, threads, signals, lock, op>>

\* The line mwait watches is written, or any interrupt comes.
MdResume(c) ==
    /\ IdleAt(c, "halted") /\ Goes(c, "returned")
    /\ UNCHANGED <<fixed, threads, signals, lock, op>>

MdReturn(c) ==
    /\ IdleAt(c, "returned") /\ Goes(c, "up") /\ md' = [md EXCEPT ![c] = "running"]
    /\ UNCHANGED <<fixed, threads, cpu_idle, ipipending, ipi, lock, op>>

IdleUp(c) ==
    /\ IdleAt(c, "up") /\ cpu_idle' = [cpu_idle EXCEPT ![c] = FALSE]
    /\ Goes(c, "top")
    /\ UNCHANGED <<fixed, threads, ipipending, ipi, md, lock, op>>

-----------------------------------------------------------------------------

Init ==
    /\ cpus \in {1 .. n : n \in 1 .. MaxCpus}
    /\ cpuset \in [Threads -> {set \in CpuSets : set \cap cpus # {}}]
    /\ bound = [t \in Threads |-> NoCpu]
    /\ lock = [c \in cpus |-> NoCpu]
    /\ queue = [c \in cpus |-> {}] /\ load = [c \in cpus |-> 0]
    /\ cur = [c \in cpus |-> Idle]
    /\ cpu_idle = [c \in cpus |-> FALSE] /\ ipipending = [c \in cpus |-> FALSE]
    /\ ipi = [c \in cpus |-> FALSE] /\ md = [c \in cpus |-> "running"]
    /\ idle = [c \in cpus |-> [pc |-> "top", mask |-> {}]]
    /\ op = [c \in cpus |-> None]

IdleStep(c) ==
    \/ IdleTop(c) \/ IdleSearch(c) \/ IdleRests(c) \/ IdleFence(c)
    \/ MdEnter(c) \/ MdHalt(c) \/ MdResume(c) \/ MdReturn(c) \/ IdleUp(c)

OpStep(c) ==
    \/ LockFirst(c) \/ LockSecond(c)
    \/ Add(c) \/ Added(c) \/ Preempt(c) \/ Notify(c) \/ Wake(c)
    \/ TrySearch(c) \/ TryOwn(c) \/ TryLocked(c)
    \/ Migrate(c) \/ Migrated(c)
    \/ BalanceHigh(c) \/ BalanceLow(c) \/ BalancePair(c) \/ BalanceMoved(c)
    \/ IdleLocked(c)

Next == \E c \in cpus :
    \/ \E t \in Threads : Wakeup(c, t)
    \/ Yield(c) \/ Sleep(c) \/ Bind(c) \/ Unbind(c) \/ Expel(c)
    \/ Preempted(c) \/ Balance(c)
    \/ IdleStep(c) \/ OpStep(c)

Spec == Init /\ [][Next]_vars

-----------------------------------------------------------------------------
(* Properties *)

TypeOK ==
    /\ cpus \subseteq 1 .. MaxCpus
    /\ cpuset \in [Threads -> SUBSET (1 .. MaxCpus)]
    /\ bound \in [Threads -> cpus \cup {NoCpu}]
    /\ lock \in [cpus -> cpus \cup {NoCpu}]
    /\ queue \in [cpus -> SUBSET Threads] /\ load \in [cpus -> 0 .. Cardinality(Threads)]
    /\ cur \in [cpus -> Threads \cup {Idle}]
    /\ cpu_idle \in [cpus -> BOOLEAN] /\ ipipending \in [cpus -> BOOLEAN]
    /\ ipi \in [cpus -> BOOLEAN] /\ md \in [cpus -> {"running", "mwait", "sleeping"}]
    /\ idle \in [cpus -> [pc : {"top", "search", "rest", "fence", "enter",
                                "runnable", "halted", "returned", "up"},
                          mask : SUBSET cpus]]

\* The thread that runs on c has been taken off the load of c.
Leaving(c) == ~Rest(c) /\ cur[c] # Idle /\ op[c].td = cur[c]

\* A thread is in one place, and the load of a tdq is what is queued on it and
\* what runs, through every hand-over between two tdqs (sched_ule.c:977, 2026).
LoadExact ==
    /\ TypeOK
    /\ \A c \in cpus : load[c] = Cardinality(queue[c])
                                 + (IF cur[c] = Idle \/ Leaving(c) THEN 0 ELSE 1)
    /\ \A t \in Threads :
          Cardinality({c \in cpus : t \in queue[c]} ) +
          Cardinality({c \in cpus : cur[c] = t /\ ~(Leaving(c) /\ \E d \in cpus : t \in queue[d])})
              <= 1

\* The processor whose lock c waits for, if any.
WaitsFor(c) ==
    CASE At(c, "first")                -> lock[FirstOf(op[c].one, op[c].two)]
      [] At(c, "second")               -> lock[SecondOf(op[c].one, op[c].two)]
      [] At(c, "add")                  -> lock[op[c].target]
      [] op[c].pc \in {"own", "preempt"} -> lock[c]
      [] OTHER                         -> NoCpu

\* However many processors steal from, balance and move threads to one another,
\* no set of them waits for each other's locks (sched_ule.c:920, 2034).
NoCircularWait ==
    \A set \in SUBSET cpus :
        set # {} => \E c \in set : WaitsFor(c) \notin set

\* No way out of a loop leaves the other tdq locked (sched_ule.c:1093, 1992).
LocksReturned == \A l \in cpus : Held(l) => ~Rest(lock[l])

\* Both: every lock asked for is obtained in the end, as far as order and release
\* go.
LocksSound == NoCircularWait /\ LocksReturned

\* A processor that is halted with threads queued is about to be woken, by an
\* IPI on its way, a write it watches, or by who has queued the last one and
\* has not yet read its flag (sched_ule.c:1125, 2893).
SleeperTold ==
    \A c \in cpus :
        IdleAt(c, "halted") /\ queue[c] # {} =>
            \/ ipi[c] \/ md[c] = "running"
            \/ \E d \in cpus : op[d].pc \in {"notify", "wake"} /\ op[d].target = c

On(t, c) == t \in queue[c] \/ cur[c] = t

\* A thread only ever comes to a processor it may run on or is bound to, also
\* when it is stolen on a stale load (sched_ule.c:1073).
MovesAllowed ==
    [][\A t \in Threads, c \in cpus :
          (On(t, c))' /\ ~On(t, c) => c \in cpuset[t] \/ bound'[t] = c]_vars
=============================================================================
