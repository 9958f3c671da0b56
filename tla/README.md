# TLA+ models of FreeBSD-OS-edits

The repository holds four operating-systems assignments: a shell (`asgn1`), a
lottery scheduler inside FreeBSD's ULE (`asgn2`), a changed page daemon
(`asgn3`) and a file system on FUSE (`asgn4`). This directory holds TLA+ modules
for its parts, the TLC instances that check them and TLAPS proofs about them.

`PROJECT.json` gives, for each definition that models code, the lines it models;
for each hazard of the code, the properties that are about it.

## Inventory

| Component | Source | State | Operations | Hard part | Modules |
| --- | --- | --- | --- | --- | --- |
| Run queue | `asgn2/kern_switch.c`, `runq.h` | RQ_NQS lists, a status bit each, lottery counters | `runq_add_pri`, `runq_remove(_idx)`, `runq_choose(_from)`, `lotteryq_choose` | bits and lists agree; counters drift | RunQueue |
| Thread queue (tdq) | `asgn2/sched_ule.c` | four run queues, insert and removal index, load, transferable, lowpri, `pc_curthread` | add, remove, choose, switch, throw, preempt, clock, priority change, affinity, steal | other processors act between any two lock sections | Tdq, Batch |
| Priority arithmetic | `sched_ule.c` 1574-1780 | run and sleep time, tick window | `sched_interact_score`, `sched_priority`, `sched_pctcpu_update` | division, shifts, counters that wrap | Interact |
| Priority lending | `sched_ule.c` 1845-1932 | base, lent and user priority, TDF_BORROWING | lend, unlend | order of loans and returns | Lending |
| Idle loop, notification | `sched_ule.c` 1105-1140, 2842-2922 | `tdq_cpu_idle`, `tdq_load`, `tdq_ipipending` | `sched_idletd`, `tdq_notify` | lock-free handshake | Smp |
| Balancing, stealing | `sched_ule.c` 703-1234, 1936-2050 | several tdqs and locks | `sched_balance`, `tdq_idled`, `tdq_trysteal`, `sched_switch_migrate` | lock order, stale choice of victim | Smp |
| Critical sections | `kern_switch.c` 201-255 | `td_critnest`, `td_owepreempt` | enter, exit, interrupt | unlocked test against an interrupt | Critical |
| Page busy lock | `asgn3/vm_page.c` 755-1200, `vm_page.h` | busy word, waiters bit, page lock, sleepers | try, grab, downgrade, release, sleep | compare-and-set against sleeping | PageBusy |
| Page queues | `vm_page.c` 2675-3250, `vm_pageout.c` 260-800, 1141-1560 | queue of each page, queue locks, markers | enqueue, dequeue, activate, launder, scan | locks dropped in a scan | PageQueues |
| Allocation, waiting | `vm_page.c` 1604-2000, 2590-2670, 2835-2984 | free count, `vm_pages_needed`, waiters | alloc, free, wait | lost wakeups | PageDaemon |
| Page daemon, laundry, OOM | `vm_pageout.c` | wanted flags, passes, votes, requests | worker, scan, laundry, vote | timeouts, quorum | PageDaemon, Laundry |
| FUSE file system | `asgn4/hello.c` | image file, bitmap in memory and on disk | create, write, read, truncate, unlink, getattr | crash between writes, stale metadata | HelloFS, FileMap |
| Shell | `asgn1/argshell.c` | processes, pipe ends | redirect, pipe, cd | who waits for whom | ArgShell |
| Not modelled | see the last section | | | | |

The kernel parts interact through calls under the tdq lock (the clock, system
calls and interrupts call into the tdq), through IPIs between processors, and
through sleep channels (page daemon and its waiters). The shell and the file
system are separate programs.

What makes each right: a thread is on exactly the queue its fields name or on
none; load, transferable and status bits count what is there; the idle thread
does not run ahead of waiting work; no processor halts on a wakeup it missed; a
borrowed priority lasts as long as the loan; a page is on the queue its field
names, and is reclaimed only by who has its locks and only when its data is
saved; no sleeper misses its wakeup; votes are counted exactly; block chains are
disjoint and the bitmap marks exactly them.

## Plan

The order was: the scheduler of one processor (RunQueue, Tdq, Batch), the file
system (FileMap, HelloFS), the processors among themselves (Smp) and what
surrounds the tdq (Critical, Lending, Interact), the page modules (PageBusy,
PageQueues, PageDaemon, Laundry), the shell; and for each the proofs that its
invariants allow. All of these exist. What is left:

* a proof of the refinement of `FileMap` with `hello_unlink` for files of several
  blocks, which needs chains that may share a block with a removed file's;
* handlers of the file system interleaved on the shared descriptor and bitmap;
* Smp with several priorities, composed with Tdq queue by queue;
* the masks of valid and dirty blocks inside a page.

## Modules: the scheduler

**RunQueue** (`kern_switch.c`, `runq.h`). A run queue is a record; a C function
that changes one is an operator from the old record to the new. Threads and
their order in each list are kept; the bit words are the set `rq_status`. The
counters are unsigned modulo `Word` (2^64 in the code). `rng` takes the value of
`random()` as a parameter. `lotteryq_choose_traps` is the division by a zero
number of tickets.

**Tdq** (`sched_ule.c`). One processor. `tdq` is `struct tdq`, `td[t]` the fields
of `struct thread` and `struct td_sched` this file reads, `curthread` is
`pc_curthread`. `flags` is what the current thread owes (TDF_NEEDRESCHED,
TDF_SLICEEND, `td_owepreempt`). `window` marks the two places where
`sched_switch` has let go of the tdq lock: `tdq_trysteal` and the hand-over to
another processor. An operator such as `tdq_add(s, t, ...)` maps a record
`[tdq, td]` to the record after the call, so calls nest as in the code; an action
is everything done under one hold of the lock.

| Action | Code |
| --- | --- |
| `SchedAdd` | `sched_add` on this processor, with `sched_setpreempt` |
| `RemoteAdd` | `sched_add`, `tdq_move`, migration by another processor, with `tdq_notify` |
| `MoveIn`, `IdleSteal` | `sched_balance_pair`, `tdq_idled` |
| `StealOut` | `tdq_move` by another processor, with `tdq_steal` and `sched_rem` |
| `Relinquish`, `Ast`, `OwedPreempt`, `IdleSwitch` | `sched_switch` of a thread that stays |
| `SchedPreempt` | the IPI handler |
| `Sleep`, `SwitchMigrate`, `EndWindow` | `sched_switch` of a thread that leaves, in two lock sections |
| `Exit` | `sched_throw` |
| `RunningPriority`, `QueuedWorse`, `QueuedBetter` | `sched_thread_priority` |
| `UserRet` | `sched_userret` |
| `Affinity`, `AffinityRunning`, `Pin` | `sched_affinity`, `sched_pin`, `sched_bind` |
| `SchedClock` | `sched_clock` |

Other processors are the environment: any thread that is not here may be added
at any time with any priority, pin and used ticks, and any thread their
`tdq_steal` would find may leave. The ticks (`UsedTicks`) are fewer than a quantum,
or, for a child of `sched_fork_thread`, up to `sched_slice - sched_slice_min`: a
whole quantum where `sched_slice_min`, the quotient that `sysctl_kern_quantum`
computes, is 0. The quantum itself is a constant; changing `kern.sched.quantum` while
threads run is left out. Whether a sibling's cpuset allows it, what nice
value a process has and what `random()` returns are free choices. The priority
a thread gets is a free choice too; Interact has the arithmetic that computes it.

`panicked` is the NULL dereference of `tdq_choose` (`ExtremeScan`: the scan for a
new largest or smallest ticket count uses `td` as its loop variable) and the
division by zero. After it nothing happens; so the instances with ordinary users
switch deadlock checking off, and the properties they check are about every
state the kernel reaches before it stops.

**Batch** (`EXTENDS Tdq`). Threads that compute and never sleep, and a clock, which
ticks only while no reschedule is owed (`Tick`): the load the calendar queue turns
for. It states what the removal index owes the slot it leaves (`SlotDrained`). A
timeshare thread that computes gets some priority anew (`NewPriority`) as often as
it likes; a realtime one keeps its own.

**Smp** (`sched_ule.c`). The processors among themselves: per processor the owner
of its tdq lock, its queue as a set, its load, what it runs, `tdq_cpu_idle`, the
pending IPI and the state of its halt; `op[c]` is where the function that runs on
`c` is, and its locals. A step is what is done under the lock or locks of a tdq,
the taking of one lock of a pair, a search of all processors (stale as soon as
it is done) or one access without a lock.

| Action | Code |
| --- | --- |
| `Wakeup`, `Add`, `Added`, `Preempt` | `sched_add` to the processor `sched_pickcpu` chose |
| `Notify`, `Wake` | `tdq_notify`, `cpu_idle_wakeup`, `ipi_cpu` |
| `LockFirst`, `LockSecond` | `tdq_lock_pair` |
| `Yield`, `Sleep`, `TrySearch`, `TryOwn`, `TryLocked` | `sched_switch` and `tdq_trysteal` |
| `Bind`, `Unbind`, `Expel`, `Migrate`, `Migrated` | `sched_bind`, `sched_affinity`, `sched_switch_migrate` |
| `Balance*` | `sched_balance`, `sched_balance_group`, `sched_balance_pair` |
| `Idle*`, `Md*` | `sched_idletd`, `tdq_idled`, `cpu_idle` |

All threads have one priority, and the processors form one flat group. Switch
counts, which steer idling and balancing, are free choices; the spinning before
a halt and the lock of a thread that is being handed over are left out. Nothing
is said of progress here: spin locks are not fair.

**Interact** (`sched_ule.c`). One thread's `ts_runtime`, `ts_slptime`,
`ts_ticks` and its times, kept as ages because `ticks` wraps. The actions are
the clock, switches, `sched_wakeup`, `sched_nice`, `sched_fork`, `sched_exit`.
`overflowed` records that a sum of the two times did not fit its `u_int`: a
sleep of about 70 minutes (2^22 ticks of a kilohertz clock, scaled by 2^10)
reaches that, the sum looks small, and the history is not scaled down then.

**Lending** (`sched_ule.c`). The priorities of one thread and the waiters for what
it holds. `Block` is a turnstile's `sched_lend_prio`, `Release` its
`sched_unlend_prio`, `SleepPrio` `sched_prio` in the kernel, `UserPrio` and `Nice`
`sched_user_prio`, `UserLend` `sched_lend_user_prio`, `UserRet` `sched_userret`.
Two things the properties leave room for because the code does them: a waiter
that finds the owner as urgent as itself lends nothing and is not remembered if the
owner's own priority then worsens; and `td_user_pri` may stay better than both
the base and the lent one.

**Critical** (`kern_switch.c`). `at` is where in `critical_exit` the thread is, so
that an interrupt may come between any two accesses to `td_critnest` and
`td_owepreempt`. An interrupt handler is one step: it runs with interrupts
disabled. The test of `kdb_active` is left out.

## Modules: memory

**PageBusy** (`vm_page.c`, `vm_page.h`). `busy` is the word; `pc[t]`, `x[t]` and
`hold[t]` are where a thread is, the value it read and what it owns. Every
compare-and-set is a step of its own that may fail because another thread
changed the word since.

| Actions | Code |
| --- | --- |
| `Grab`, `Lookup`, `XBusy`, `SBusyRead`, `SBusyCas` | `vm_page_grab`, `vm_page_tryxbusy`, `vm_page_trysbusy` |
| `LockForSleep`, `ReadForSleep`, `SetWaiters`, `Msleep`, `Relock` | its wait: `vm_page_busy_sleep` and the retry |
| `Downgrade`, `Dg*` | `vm_page_busy_downgrade` |
| `SUnbusy`, `Su*` | `vm_page_sunbusy` |
| `XUnbusy`, `Xu*`, `CallerLocks`, `CallerUnlocks` | `vm_page_xunbusy` and its locked forms |
| `Flash`, `FlCas`, `Wake` | `vm_page_flash`, the wakeup of all three |

`panicked` is the panic of `vm_page_xbusy` and `vm_page_sbusy`.

**PageQueues** (`vm_page.c`, `vm_pageout.c`). The queues of one domain are
sequences of pages and markers; `pg[p]` has the fields of `struct vm_page`,
whether a mapping has the modified bit, and where its data are. There are three
actors: the page daemon's scan of the inactive and active queues, the laundry
thread, and the user, any thread that is neither. `scan[s]` is where a scan is
and what it keeps in local variables: each place where it drops a queue lock or
waits for a page, an object or a vnode is a step boundary at which the user may
act. `Ops` says what users do.

| Action | Code |
| --- | --- |
| `ScanStart` ... `ScanNext` | the loop over the queue in `vm_pageout_scan` and `vm_pageout_launder`, `vm_pageout_page_lock`, `vm_pageout_fallback_object_lock` |
| `DaemonDecide`, `Active*` | the rest of `vm_pageout_scan` |
| `LaunderDecide`, `VnodeLock` | the rest of `vm_pageout_launder`, `vm_pageout_clean` |
| `Cluster`, `Grow`, `Flush`, `PutReturns`, `Result`, `FlushEnd` | `vm_pageout_cluster`, `vm_pageout_flush` |
| `UserLock`, `UserOp` | the functions of `vm_page.c` that move, wire, hold, busy, advise, free or rename a page |

Indexes of pages in their objects are left out (a cluster may take any page of
the object), and so are the counts of activity (a page seen on the active queue
may be kept or not). The statistics added at `vm_pageout.c` 1141-1187 are left out
too: as committed they do not compile (a `}` at 1176 and a `*/` at 1182 that nothing
opens), and once made to, they read the first page of the inactive queue and
the last of the active one (1151, 1170) without the queue's lock and without asking
whether there is one. `NeverPanics` says nothing of that. A queue lock
that is taken and released within one function is not shown.

**PageDaemon** (`vm_page.c`, `vm_pageout.c`). Pages are counted: free, clean, dirty.
Threads allocate, wait or give up (`Alloc`, `AllocFail`, `Wait`, `GiveUp`), and
advise the daemon with an unlocked test and a later set (`AdviseTest`,
`AdviseSet`), so that advice may come late or be lost. `daemon[d]` is where the
page daemon of a domain is in `vm_pageout_worker`, `vm_pageout_scan` and
`vm_pageout_mightbe_oom` (`Worker*`, `Scan*`, `Oom*`). `Launder` and
`LaunderWaits` stand for the laundry thread, `VictimExits` for the process that is
killed. Time does not pass; a pause may end at once and a timeout may always come.
`vm_pageout_deficit` is any number up to a bound. The thresholds
`vm_page_count_min`, `vm_paging_needed` and `vm_paging_target` are those of
`sys/vmmeter.h`, which is not in the repository. A failed insertion into an
object (`vm_page_insert_after`) is left out.

**Laundry** (`vm_pageout.c`). `vm_laundry_request`, what the daemons lack, the end
of each daemon's scan (`ScanDone`, `Post`) and `vm_pageout_laundry_worker` with its
local variables (`LaundryDecides`, `Launders`, `LaundrySleeps`, `LaundryAnswers`).

## Modules: file system and shell

**FileMap**. What the file system promises its client: a map from names to
contents, of which creating, writing and removing a file change one entry. It is
less than one would ask. `Write` ends the file where its data end, as
`hello_write` sets the size to `offset + size` (`hello.c:383`), so what the file
held after them is gone; and there is no truncate, because `hello_truncate` returns
0 and changes no file. To implement `FileMap` is not to meet the design document:
it says that the bytes that a file should hold by these rules are the ones its
chain holds, and that no call touches another file.

**HelloFS** (`hello.c`). `disk` is `FILE_FS`: its bitmap, and for each block but the
superblock its metadata and data. `bitmap` is the array in memory. A block holds
USABLE_SPACE units where the code has bytes. A handler such as
`hello_write(d, used, ...)` returns the sequence of images the file goes through,
one for each `write()`, and the bitmap left in memory. `Return` takes the last
image; `Killed` takes one before it and reads the bitmap back, as `main` does.

| Action | Code |
| --- | --- |
| `Create` | `hello_create`, with a name that exists, does not fit or finds no block |
| `WriteAny` | `hello_write` at any offset up to the size the metadata gives |
| `Truncate` | `hello_truncate` and the `hello_getattr` that libfuse calls after it |
| `Unlink` | `hello_unlink` |
| `Getattr` | `hello_getattr`; `main` after a kill between two calls |
| `CreateKilled`, `WriteKilled` | the same handlers, killed between two writes |

`Walk` follows `md.next` and `Chain` is where it leads, both functions on numbers
rather than recursive operators, so that proofs can be about them; `WriteBlocks`
is the loop of `hello_write` over whole blocks in the same form, and `enomem` its
-ENOMEM. The specifications differ in the calls they admit, and in what may happen
to one:

| Specification | Calls |
| --- | --- |
| `UnlinkSpec` | all of the table but the last line |
| `KillSpec` | all but `Unlink`; writes may fail, and the daemon may be killed |
| `StoredSpec` | all but `Unlink` and kills; each `hello_write` finds the blocks it needs (`WriteStored`) |
| `OneBlockSpec` | all but kills, on files of one block (`WriteInBlock`, `TruncateStored`), no name too long |

`hello_read`, `hello_open` and `hello_readdir` change nothing but an access time;
`hello_read` is the operator that the refinement mapping is made of.
`hello_truncate` opens the image O_RDONLY, so that none of its writes lands: the
design document's "Write the changes to the metadata" does not happen, and what
it does to the bitmap in memory is undone by `hello_getattr` unless it ran out of
blocks. A call on a chain that loops, or is longer than the buffer it is read
into, is left out (`FitsBuffer` and the guard of `Unlink`). The client makes one
call at a time; `./hello -f` lets the library run handlers in several threads.

**ArgShell** (`argshell.c`). `main` is where the shell is on a line, `todo` the
operators ahead, `child` the process it waits for, `level[k]` and `reader[k]`
the pipe of the k-th pipeline and the process that reads it. The code does some
things that the model keeps: a redirected command runs once for each operator
and once more at the end of the line; the array of the reader's arguments is
never filled in, because its loop starts at an element that is NULL, and that of
the writer has no NULL at its end, so what either executes, if anything, is left
open; every pipeline leaks two descriptors in the shell, until `pipe` fails and
the shell exits. `wait()` is called without an argument; the model takes it to
reap one child. A writer whose output does not fit the pipe blocks when its
reader has failed, and with it the shell: `MaxOutput` is at most `PipeSize`, and
`LineEnds` is about such lines.

## Runs

| Run | Instance | What it shows |
| --- | --- | --- |
| `tdq_root` | 2 root threads, one TDF_NOLOAD, one FIFO, 4 slots, 3 priorities | `TypeOK`, `StatusBitsExact`; `TdqSound`: queues, counts and priorities agree; `IdleOnlyWithoutWork`: no idling while a root thread waits |
| `tdq_drain` | 2 root threads and an ordinary one, 4 slots | `OneSlotApart`; `DrainingSlotClosed`: a draining slot takes no newcomers; `TdqSound` with a lottery and a timeshare queue |
| `tdq_users` | 3 ordinary threads, 1 or 2 tickets, quanta 2 and 1, `sched_slice_min` 0 | draws from the middle of the lottery queue (`TdqSound`); `SliceWithinQuantum`: no thread keeps a full quantum of used ticks but a child charged one, and none more |
| `smp` | 2 processors, 3 threads, one of which may run on one processor | `LoadExact` through every hand-over; `LocksSound`: no circular wait, no lock kept; `SleeperTold`: no halted processor misses its thread; `MovesAllowed` |
| `process`, "interact" | counters of 5 bits, naps of 1 and 15 ticks | `InteractTypeOK`: every count in its type and every priority in its range; `HistoryKept` |
| `process`, "lending" | 5 priorities, 3 of them timeshare | `LentKept`, `LendingExact` |
| `process`, "critical" | sections nested to depth 3 | `PreemptionsMade` |
| `process`, "killed" | 2 files, a long name, 5 blocks; kills, failed writes | `OneEntryPerName`; `EntriesStay`: a file keeps its first block |
| `process`, "shell" | lines with up to two operators, 2 pipes | `NoChildLeft`, `LineEnds`, `ReadersEnd` |
| `page_busy` | 3 threads | `WordSound`: the word matches its holders and sleepers are seen; `GrabNeverPanics`; `SleeperWoken` |
| `page_queues` | one page between two objects, or two pages of one | `QueuesSound`, `ScanOwnsItsPage`, `NothingForgotten`, `NeverPanics`, `FreedWhenSaved` |
| `page_daemon`, "one domain", "two domains" | 3 pages, 2 threads; 1 page, 1 thread | `WaitersHeard`, `VotesExact`, `KillNeedsQuorum`; `WaiterServed` |
| `page_daemon`, "laundry" | 2 page daemons that post | `RequestSeen`, `ShortfallKept`, `ShortageLaundered` |
| `hello`, "keep" | 2 files of up to 3 blocks, store large enough | `StoreSound`: chains apart and marked; `Implements`: the image implements `FileMap`, which has no truncate |
| `hello`, "unlink" | 2 files of one block | with unlink the image still implements `FileMap` |
| `batch_drain` | a realtime and a timeshare thread of root, 4 slots | violated: see below |
| `lottery_panic` | 3 ordinary threads | violated: see below |
| `hello_reuse` | 2 files, 3 blocks, unlink | violated: see below |

`MCProcess`, `MCPageDaemon`, `MCPageQueues` and `MCHello` hold several instances in
one state graph: the variable `instance` is chosen in the initial state and never
changes. In `MCProcess` and `MCPageDaemon` the modules share no variable; those
that are not chosen rest in an initial state, where their invariants hold as well. A
behaviour of such a run is one of the chosen instance, so nothing is proved of a
composition by them. What does compose is written as one module: Tdq on RunQueue,
Batch on Tdq, HelloFS over FileMap.

Bounds, scheduler. A slot, a priority and a thread stand for classes: 4 slots
are enough for an insert index, a removal index behind it, a slot ahead and one
out of reach; the priorities of a run are one for each queue it uses, or the two
ends of the timeshare range. Two threads are enough for one that runs and one
that waits, three for a queue with a middle. `MaxCounted` bounds the lottery's
`total_proc`, which can drift; `Put` is where it acts. `Word` is the width at
which the unsigned ticket counter wraps; with two nice values the drift stays
below it, so the wrap is modelled and proved about, not exercised. `RandMax`
covers every draw the tickets can tell apart. `OneSlotApart` and
`DrainingSlotClosed` need a mixed load: the removal index only stays behind in
slot 0 and only while the lottery queue is not empty (`sched_ule.c:2480` tests
the lottery list of the removal slot, and all lottery threads are in list 0), so
a run with root threads only would never see a draining slot.
`IdleOnlyWithoutWork` leaves out the lottery queue: a draw in `tdq_setlowpri`
discounts a thread that stays queued, and once the counter is 0 queued lottery
threads are not chosen.

Smp: pairs of locks are taken in the order of the addresses, of which two
processors show both orders; a cycle of three would need one pair out of order.
Three threads let one run, one be stolen and one be forbidden to leave.
Interact: 5 bits for the counters, a window and limits of a few ticks; a nap of
15 ticks is longer than the window and half way round the counter, several of them go
round it. Lending: 5 priorities, two of them better than timeshare. Critical:
the test in `critical_exit` tells depth 1 from more, and 3 nests one
more.

Bounds, memory. Three threads on the busy word are a holder, one that sleeps and
one that comes between them. In `page_queues` an operation on one page meets
both scans, and a second page is only needed for what a cluster takes along; the
second object is the one a page is renamed to or comes back in. `OnePage` and
`Clusters` in `MCPageQueues` say what is left out: a page held and wired at
once, a second object that dies, and in the cluster instance the page daemon's
scan, wiring and exclusive busy of the second page once it is valid. In
`page_daemon` the thresholds are the least that differ (0, 1, 2, 3), so each
class of request may fail alone; a daemon loses patience after 2 scans; with two
domains one page and one thread keep the votes and the waits, which are all that
domains share. `WaiterServed` is for one domain: with two a vote is held during
one scan only (`vm_pageout.c:1589` starts the patience anew, so the next scan
takes the vote back at 1577), and whether the votes ever meet is up to timing.

Bounds, file system and shell. A block of two units has an inside and an edge;
three blocks are a first, a middle and a last one, and the middle one is the
only one whose own record is written after it is linked. `Requests` is one and a
half blocks (and two and a half in "killed"), so that writes end at an edge and
inside. "killed" has one value for all data, since its properties look at
entries only. What does not hold is kept apart, not bounded away: with a store
that fills up or a daemon that is killed, hello_write leaves links to blocks
that the bitmap on disk says are free (it returns -ENOMEM at `hello.c:412`
before it saves the bitmap), so another file may take them and two chains may
share a block; with unlink and files of several blocks old names return
(`hello_reuse`), as they do when `hello_create` marks a block for a name and then
finds it too long: the block has the record of the removed file it was last of,
so "unlink" has no long names. A `hello_truncate` that runs out of blocks leaves
every bit set in memory for the next `hello_write` to save, with the same effect:
`TruncateStored` is one that does not. "keep" and "unlink" show that these are what `FileMap` has to
be spared. The shell's lines are
no operator, a redirection, a pipe, a pipe after a redirection, and two pipes, where the second is made with the first
still open.

Symmetry is used in `tdq_users` and `smp`, where all threads but one are alike,
for invariants and one action property. Deadlock checking is off where the
program may really stop: in `tdq_drain`, `tdq_users` and `lottery_panic` (the
kernel traps) and `process` (the shell exits).

### Fairness

* PageBusy: a thread inside a function goes on (weak); a mutex or an object lock
  that is free again and again is obtained (strong, as turnstiles queue); a busy
  page is released in the end (strong, because the release may be put off by the
  thread's other steps). Nobody has to ask for the page. Readers may keep a page
  shared for ever; `SleeperWoken` leaves that case out, since it is what the
  code does.
* PageDaemon: the daemons run and a killed process exits; no timeout and no
  allocation is owed. Laundry: posters finish their scans, the worker runs.
* ArgShell: every process that can run does; the shell's user need not type.
* Tdq, Batch, Interact, Lending, Critical, Smp, PageQueues and HelloFS claim safety
  only.

### Disagreements found

* `batch_drain`: `sched_clock` was given a second test, of the lottery list of
  the removal slot ("remove later", `sched_ule.c:2480`). For every slot but 0 that
  list is empty, so the removal index moves on with threads still in the slot,
  where the comment at `sched_ule.c:523` speaks of a difference "while we wait for
  threads to drain". In the trace a timeshare thread waits in slot 1 while a
  realtime thread computes; the second tick moves the index from 1 to 2. The thread
  is reached when the calendar comes round. Nothing is claimed about how often that
  can happen to the same thread: `sched_clock` gives a timeshare thread that computes
  a new priority at every tick, and with it a slot well ahead of the index.
* `lottery_panic`: the scan for a new extreme leaves `td` NULL and it is read
  next. Two ordinary threads queued at once and a draw are enough, where the
  comment at `sched_ule.c:1383` says that the function returns a thread.
* `hello_reuse`: the record of the last block of a chain is cleared in memory and
  not written. If a removed file owned the block, its name is found again there; the
  design document's notes (last page) say that a continuation block has a NULL name.

## Proofs

Assumptions are those the modules name: `RunQueueAssumption` and `TdqAssumption`
(NULL and the idle thread are not ordinary threads, RQ_NQS divides 256 so that
the unsigned char arithmetic agrees with arithmetic modulo RQ_NQS, every
priority has a slot, the priority ranges are adjacent, `20 + nice` is not
negative, the quantum and its divisor positive), `SmpAssumption`
(finitely many threads, no empty cpuset), `LendingAssumption` (finitely many
priorities, all better than PRI_MAX), `InteractAssumption` (times and limits positive, the
tick counter wide enough for two windows, a running thread looked at within a
window), `CriticalAssumption`, `ShellAssumption`,
`HelloAssumption` (at least one block, no empty buffer), `PageBusyAssumption` (finitely many threads), `PageQueuesAssumption` (finitely
many pages; the markers are not pages, a free lock has no owner),
`PageDaemonAssumption` (thresholds in the order `vm_pageout_init` gives them) and
`LaundryAssumption`. TLC evaluates each in some run.

| Module | Theorem | Establishes |
| --- | --- | --- |
| TdqProofs | `TypeCorrect`, `BitsExact`, `SlotApart` | `[]TypeOK`, `[]StatusBitsExact`, `[]OneSlotApart` |
| TdqProofs | `QueuesAlwaysSound`, `SliceBounded` | `[]TdqSound`, `[]SliceWithinQuantum` |
| TdqProofs | `IdleIsLast`, `SlotCloses` | `IdleOnlyWithoutWork`, `DrainingSlotClosed` |
| SmpProofs | `LoadAlwaysExact`, `LocksAlwaysSound` | `[]LoadExact`, `[]LocksSound` |
| SmpProofs | `SleeperAlwaysTold`, `MovesAlwaysAllowed` | `[]SleeperTold`, `MovesAllowed` |
| ProcessProofs | `PreemptionMade` (Critical) | `[]PreemptionsMade` |
| ProcessProofs | `LendingIsExact`, `LentIsKept` (Lending) | `[]LendingExact`, `LentKept` |
| ProcessProofs | `NoChildIsLeft` (ArgShell) | `[]NoChildLeft` |
| ProcessProofs | `PriorityAlwaysInRange`, `HistoryAlwaysKept` (Interact) | `[]InteractTypeOK`, `[]HistoryKept` |
| HelloFSProofs | `NamesStayApart`, `EntriesAlwaysStay` | of `KillSpec`: `[]OneEntryPerName`, `EntriesStay` |
| HelloFSProofs | `StoreAlwaysSound`, `StoreIsFileMap` | of `StoredSpec`: `[]StoreSound`, `Implements` |
| HelloFSProofs | `RemovalKeepsStore`, `RemovalIsFileMap` | of `OneBlockSpec`: `[]StoreSound`, `Implements` |
| PageBusyProofs | `BusyWordSound`, `GrabIsSafe` | `[]WordSound`, `[]GrabNeverPanics` |
| PageQueuesProofs | `QueuesAlwaysSound`, `ScanAlwaysOwnsItsPage` | `[]QueuesSound`, `[]ScanOwnsItsPage` |
| PageQueuesProofs | `NothingIsForgotten`, `PanicsNever` | `[]NothingForgotten`, `[]NeverPanics` |
| PageQueuesProofs | `OnlySavedIsFreed` | `FreedWhenSaved` |
| MemoryProofs | `VotesAreExact`, `KillIsAgreed`, `WaitersAreHeard` (PageDaemon) | `[]VotesExact`, `KillNeedsQuorum`, `[]WaitersHeard` |
| MemoryProofs | `RequestsSeen`, `ShortfallsKept` (Laundry) | `[]RequestSeen`, `ShortfallKept` |

The bounds of the models (`MaxPages`, `MaxAllocs`, `MaxDeficit`, `MaxCounted`,
`MaxPipes`, `MaxCpus`, `Naps`, `Requests`, `Sizes`) are constants of the theorems: they hold for any of them.
So are the choices of `Ops` in PageQueues: any set of operations.

**LibraryFacts** has what the other modules need of the community modules: the
minimum and maximum of two numbers and of a finite set, and what inserting in a
sequence, appending and removing leave in it (its elements, each still there
once), and products, quotients and remainders by a variable, which the solver
does not decide: their bounds and how they grow. The least element comes from the
well-foundedness of the naturals.

**TdqProofs.** Its first lemmas are about RunQueue: adding, removing and
discounting keep a run queue in `ExactRunQ` (each status bit set exactly when its
list is not empty), and the selections return a thread or NULL. `TypeOK` alone is not inductive: `tdq_choose` returns the head of
the list its status bit names, which is a thread only when the bits are exact;
and the removal index that `runq_remove_idx` moves meets the insert index only
because it was one slot behind. The inductive invariant `IInv` therefore says
that `Here`, the pair of `tdq` and `td`, is in `St`: typed, bits exact, indexes
at most a slot apart. One lemma for each operator of `Tdq` shows that it maps
`St` into `St`; one lemma for each action shows that it keeps `IInv`; `NextIInv`
puts them together.

`TdqSound` needs more. `Steady` says of a record `[tdq, td]` that each queued
thread is where its record says, once, and that the counts follow (`tdq_load`
counts the threads in a queue and the one that runs), and that each slice is in
`UsedTicks`. Operators break it on the
way: between `tdq_runq_rem` and `tdq_load_rem` a count is off by one. A
lemma for each operator therefore says what it changes (which thread enters or
leaves which queue, what the loads become), and those of one action are put
together into a step from a steady record to a steady one. `QInv` adds what the
actions know of `curthread`: it is the one thread that runs, except in the
windows in which `sched_switch` has dropped the lock and has already stopped
counting it. The two action properties follow from the same lemmas, as each says
which threads its action queues.

**SmpProofs.** What `LoadExact` says of a load at rest has to be said of each
moment of a hand-over. `SInv` has the place of each operation (`OpsSound`: what
its local variables mean there), the locks it has at that place (`LocksExact`),
that a thread is in one queue or on one processor unless an operation carries it
(`OnePlace`), and the load less what is carried (`LoadCounts`). `TargetAllowed`
says that a target chosen from stale loads is still one the cpuset allows.
For `SleeperTold`, `HaltedTold` follows the handshake: a processor that has
halted over a thread in its queue has an IPI pending, has left `mwait`, or is the
target of a `tdq_notify` that has not ended; `FlagsFollow` and `HaltsIdle` tie
`tdq_cpu_idle` and `tdq_ipipending` to the places of the idle loop.

**ProcessProofs, Critical.** `CInv` adds to `PreemptionsMade` that `td_critnest`
is the number of sections open, and one more while `critical_exit` has entered
one of its own to switch (`NestingExact`); without that its test for the
outermost section means nothing.

**ProcessProofs, Lending.** `PInv` is the types with `LendingExact`.

**ProcessProofs, ArgShell.** `ShellInv` adds to `NoChildLeft`, which includes the
types, that only the writer of a pipe parts from a reader and has output left,
and that it has a pipe to write to (`RolesFit`); otherwise a write could go to a
pipe that was never made.

**ProcessProofs, Interact.** `InteractInv` says three things of a thread's
history: its counts fit their widths; the ticks counted lie in a window that is
not longer than its limit (`Windowed`); run and sleep time together are within
theirs, unless a u_int has cut their sum (`Bounded`). And a thread that runs has
been looked at within `TickGap` ticks, or its window could outgrow the counter
unseen. Each function of `sched_ule.c` gets a lemma on what it does to a history.
Halving, taking four fifths and scaling the window divide one variable by
another, so the proofs go through the lemmas on quotients, with products hidden
behind names. That the priority is in its range then follows for every history.

**HelloFSProofs.** The handlers loop over blocks, and an induction principle
cannot be instantiated here; but a set of numbers that holds 0 and is closed under
successor is `Nat` by the least element of what it lacks (`EveryNumber`), and
`LoopInduction` does the same for a set of pairs of a turn and the state the loop is
in. So an invariant of the loop of `hello_write` is a set.

* Names. `NamesInv`: a block that carries a name is in use and is the only one
  that carries it (`NamesSound`). No handler but `hello_create` changes a name, in
  any of the images a call goes through, so it survives a kill between any two.
* Links. `LinksInv` adds `LinksSound`: a block that is linked is in use, begins no
  file and is linked once. Chains are then apart and without repetition: two
  positions with the same block have the same block before them, down to a first
  block, which carries a name. It needs a `hello_write` that finds its blocks: one
  that does not leaves links to blocks the bitmap on disk calls free.
* Contents. `FilesInv` adds that a file's size fits its chain (`SizesFit`). For the
  file written, `FilledLoop` says that after k turns the loop is at block k + 1 of
  the chain, which it may just have extended, and that the k blocks before hold the
  first k parts of the buffer; the last block has the rest (`FinishedImage`), so
  the file reads as the buffer did (`ChainHolds`), and the buffer as the old file
  up to the offset and then the request (`BufferIs`). For the others, `KeptLoop`
  says that the blocks of a set closed under links stay as they are. `WriteStep`
  and `CreateStep` are then steps of `FileMap`, and the other calls are stutters.
* Removal. A removed file leaves its record in its block, so that names are not
  unique any more: `OneBlockInv` asks it of blocks in use only (`UsedApart`), with
  no block linked to another and the bitmap in memory that of the image.

**PageBusyProofs.** The word cannot be trusted alone: a compare-and-set succeeds
on a value that was read some steps ago. `BInv` therefore ties each thread's
place to what it owns (`PlacesHold`), what it read to who has the page lock
(`LocalsSound`: whoever read the waiters bit takes the lock before it clears
it), and says that a page which `vm_page_grab` found free stays free under the
object's lock (`WordStays`). `WordMatchesHolders` counts sharers, so a step that
adds or removes one uses the cardinality lemmas of the library.

**PageQueuesProofs.** A scan drops its queue lock, waits for a page, an object or
a vnode and goes on with what it knew. The inductive invariant `IInv` says

* `Memory`: lists, fields and counts agree (`Listed`), the fields of a page fit
  each other (`Sane`: a wired page is on no queue, a modified bit needs a
  mapping, data the store lacks is known to be dirty), and no page on its
  way to the store is mapped (`Writing`), or the write would lose what a mapping
  adds to it;
* `Locks`, `Scans`: types, and the places each of the two scans may be in;
* `Place(s)`: which marker of scan `s` is in its queue (`Marked`), what it will
  look at next (`At`: in its queue, or nothing), and what it has claimed
  (`Claims`: it owns the locks of the page and of its object, and the page is
  not busy, held or wired; once decided it is dirty or unmapped);
* `UserClaims`: the same for the caller of a function of `vm_page.c`;
* `Busying`: the pages of a cluster are of the locked object, unmapped, and
  shared busy from the flush to the result;
* that no assertion has failed.

A lemma for each function of `vm_page.c` says that it leaves every other page
alone and every list sound (`Moved`), and what the fields of its page become. A
lemma for each action then has two halves: the actor's own place after the step,
and what the step leaves of the others (`Acts`, `Keeps`, `OthersKept`): an actor
changes only locks that are free or its own and pages whose lock it has or
takes, so the claim of another stays; a page that moves moves no marker
(`ListsKept`). What a scan will look at next stays in its queue while it holds
the queue lock; when it drops the lock it goes on from its marker.
`FreedWhenSaved` is a conclusion of the same step lemmas (`Freed`).

**MemoryProofs, PageDaemon.** `DInv` keeps the votes exact by the place of each
daemon in `vm_pageout_mightbe_oom`: between the store to `vmd_oom` and the atomic
add or subtract a vote and its flag disagree (`PlacesVote`, `VotesCounted`). That
the killer has a quorum is then an argument on cardinalities: as many votes as
there are other domains, none of them its own, are all of theirs. Waiters are
heard because the flag is set before the sleep and under the mutex that a daemon
takes before it sleeps (`WaitersAnnounced`, `DaemonHearsWaiters`).

**MemoryProofs, Laundry.** `LInv` is the types, with the requests (`Awaited`) that
the worker may not sleep on; a target never goes below 0 because no step launders
more than it.

Every invariant and action property that a passing run checks is proved, and the
refinement under the specifications above. Only model-checked:

* `SleeperWoken`, `WaiterServed`, `ShortageLaundered`, `LineEnds` and `ReadersEnd`:
  liveness under fairness is beyond the prover;
* what the three violated runs show.

## Not modelled

* Valid and dirty bits of a page (`vm_page.c` 3428-3789): masks of blocks inside
  a page; the other modules have one bit for each. Contiguous allocation and
  reclamation and `vm_page_grab_pages`: the physical map and the buddy allocator
  are not in the repository, and the latter repeats for a run of pages what
  PageBusy has for one.
* Boot and tunables of the page modules, the file system's log of times,
  benchmarks, makefiles, `shell.l` (generated lexer) and the declarations of
  `proc.h`: no state of their own that the parts above depend on.
* Of the scheduler: KTR tracing and printing, the thread lock hand-over inside
  `thread_lock_block`, nested hardware topology, spinning before a halt, the
  times at which balancing happens, `runq_choose_fuzz` and `runq_check`, which
  this scheduler does not use. `sys_getuid` stores its result in `td_retval` of
  the thread being queued (`sched_ule.c:479`): the values of system calls are
  not modelled.
* Of the page daemon: which process is killed, swapping out whole processes, the
  rates of background laundering.
* Of the file system: handlers in several threads at once, and files of the
  largest size, whose last block overruns the buffer it is read into
  (`hello.c:361`).

## Running

`tlc -workers 2 -config MCTdqRoot.cfg MCTdq.tla` and so on, with the module and
cfg of each run in `PROJECT.json`; each takes from half a minute to three.
`tlapm TdqProofs.tla` and so on for the proofs, a quarter of a minute to ten
minutes each. All but PageBusyProofs use LibraryFacts.
