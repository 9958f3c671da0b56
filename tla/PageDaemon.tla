----------------------------- MODULE PageDaemon -----------------------------
(***************************************************************************)
(* Free memory, the threads that allocate and wait for it (asgn3/vm_page.c)*)
(* and who gets it back: a page daemon per domain and their vote on        *)
(* killing a process (asgn3/vm_pageout.c).  The laundry thread is only     *)
(* someone who launders here; Laundry has the rest of it.                  *)
(*                                                                         *)
(* Pages are counted, not told apart.  A step is what is done under        *)
(* vm_page_queue_free_mtx, or one access to a flag that is read and        *)
(* written without it.  Time does not pass: every pause may end at once,   *)
(* every timeout may come.                                                 *)
(***************************************************************************)
EXTENDS Integers, FiniteSets, FiniteSetsExt

CONSTANTS
    Threads,             \* that allocate
    MaxDomains,
    MaxPages,            \* bound on the pages of the machine in play
    MaxAllocs,           \* bound on the pages a thread allocates or dirties
    MaxDeficit,          \* bound on vm_pageout_deficit
    v_interrupt_free_min, v_pageout_free_min, v_free_reserved, v_free_min,
    v_free_target, vm_pageout_wakeup_thresh,
    vm_pageout_oom_seq,
    Classes              \* the request classes threads use

ASSUME PageDaemonAssumption ==
    /\ IsFiniteSet(Threads) /\ MaxDomains \in Nat \ {0}
    /\ MaxPages \in Nat /\ MaxAllocs \in Nat /\ MaxDeficit \in Nat
    /\ v_interrupt_free_min \in Nat /\ v_pageout_free_min \in Nat
    /\ v_free_reserved \in Nat /\ v_free_min \in Nat /\ v_free_target \in Nat
    /\ v_interrupt_free_min <= v_free_reserved /\ v_pageout_free_min <= v_free_reserved
    /\ v_free_reserved < v_free_min /\ v_free_min < v_free_target
    /\ vm_pageout_wakeup_thresh \in v_free_min .. v_free_target
    /\ vm_pageout_oom_seq \in Nat \ {0}
    /\ Classes \subseteq {"NORMAL", "SYSTEM", "INTERRUPT"}

VARIABLES
    vm_ndomains,         \* fixed at boot
    free,                \* v_free_count
    clean, dirty,        \* pages in use that a scan may free, or must launder first
    vm_pageout_wanted, vm_pages_needed, vm_pageout_pages_needed,
    vm_pageout_oom_vote,
    thread,              \* per thread: where it is and what it may still take
    daemon,              \* per domain: vm_pageout_worker and vm_pageout_scan
    pager,               \* the laundry thread: "runs" or "waits" for a page
    killed               \* processes told to die that still have their pages

memory == <<free, clean, dirty>>
flags  == <<vm_pageout_wanted, vm_pages_needed, vm_pageout_pages_needed>>
vars   == <<vm_ndomains, memory, flags, vm_pageout_oom_vote, thread, daemon, pager,
            killed>>

AllDomains == 0 .. MaxDomains - 1
Domains    == 0 .. vm_ndomains - 1

vm_page_count_min(n)  == n < v_free_min
vm_paging_needed(n)   == n < vm_pageout_wakeup_thresh
vm_paging_target      == v_free_target - free

-----------------------------------------------------------------------------
(* Who sleeps where, and wakeup() on each channel *)

Woken(t) == IF thread[t].pc = "asleep" THEN [thread[t] EXCEPT !.pc = "run"] ELSE thread[t]

WakeWaiters == thread' = [t \in Threads |-> Woken(t)]

\* mtx_sleep returns 0: the scan is to reclaim.
WakeDaemons ==
    daemon' = [d \in AllDomains |->
                  IF daemon[d].pc = "asleep"
                  THEN [daemon[d] EXCEPT !.pc = "scan", !.pass = TRUE] ELSE daemon[d]]

\* A page daemon has vm_page_queue_free_mtx from its tests to its sleep.
MtxFree == \A d \in Domains : daemon[d].pc # "tosleep"

\* vm_page_free_phys and vm_page_free_wakeup: n pages come back.
FreePages(n) ==
    LET enough == vm_pages_needed /\ ~vm_page_count_min(free + n)
    IN  /\ free' = free + n
        /\ vm_pageout_pages_needed' =
              (vm_pageout_pages_needed /\ free + n < v_pageout_free_min)
        /\ vm_pages_needed' = (vm_pages_needed /\ ~enough)
        /\ IF enough THEN WakeWaiters ELSE UNCHANGED thread

\* The laundry thread is woken with vm_pageout_pages_needed.
PagerWoken == pager' = IF vm_pageout_pages_needed' THEN pager ELSE "runs"

-----------------------------------------------------------------------------
(* Threads: vm_page_alloc_after and what follows a failure *)

Allocatable(class) ==
    \/ free > v_free_reserved
    \/ class = "SYSTEM" /\ free > v_interrupt_free_min
    \/ class = "INTERRUPT" /\ free > 0

At(t, pc)         == thread[t].pc = pc
Go(t, pc)         == thread' = [thread EXCEPT ![t].pc = pc]
Advise(t, ret)    == thread' = [thread EXCEPT ![t] = [@ EXCEPT !.pc = "advise", !.ret = ret]]

\* The page may be written to at once or not.
Alloc(t) ==
    /\ At(t, "run") /\ thread[t].allocs > 0 /\ MtxFree
    /\ \E class \in Classes : Allocatable(class)
    /\ free' = free - 1
    /\ \/ dirty' = dirty + 1 /\ UNCHANGED clean
       \/ clean' = clean + 1 /\ UNCHANGED dirty
    /\ thread' = [thread EXCEPT ![t] =
           [pc |-> IF vm_paging_needed(free - 1) THEN "advise" ELSE "run",
            ret |-> "run", allocs |-> @.allocs - 1]]
    /\ UNCHANGED <<vm_ndomains, flags, vm_pageout_oom_vote,
                   daemon, pager, killed>>

\* Mutant of PagedaemonWait: trusts vm_pageout_wanted alone.
PagedaemonWait_wanted(t) ==
    /\ IF ~vm_pageout_wanted THEN vm_pageout_wanted' = TRUE /\ WakeDaemons
                             ELSE UNCHANGED <<vm_pageout_wanted, daemon>>
    /\ vm_pages_needed' = TRUE
    /\ Go(t, "asleep")

\* pagedaemon_wait, with the mutex: an advisory wakeup may have been lost, so
\* only a waiter before this one is relied on.
PagedaemonWait(t) ==
    /\ IF ~vm_pageout_wanted \/ ~vm_pages_needed
       THEN vm_pageout_wanted' = TRUE /\ WakeDaemons
       ELSE UNCHANGED <<vm_pageout_wanted, daemon>>
    /\ vm_pages_needed' = TRUE
    /\ Go(t, "asleep")

\* vm_page_alloc_fail: waits (and tries again), or gives up with an advisory
\* wakeup.
AllocFail(t) ==
    /\ At(t, "run") /\ thread[t].allocs > 0 /\ MtxFree
    /\ \E class \in Classes : ~Allocatable(class)
    /\ \/ PagedaemonWait(t)
       \/ Advise(t, "null") /\ UNCHANGED <<vm_pageout_wanted, vm_pages_needed, daemon>>
    /\ UNCHANGED <<vm_ndomains, memory, vm_pageout_pages_needed, vm_pageout_oom_vote, pager, killed>>

\* vm_wait and vm_waitpfault, called after vm_page_alloc has returned NULL, or
\* not.
Wait(t) ==
    /\ At(t, "null") /\ MtxFree /\ PagedaemonWait(t)
    /\ UNCHANGED <<vm_ndomains, memory, vm_pageout_pages_needed,
                   vm_pageout_oom_vote, pager, killed>>

GiveUp(t) ==
    /\ At(t, "null") /\ Go(t, "run")
    /\ UNCHANGED <<vm_ndomains, memory, flags, vm_pageout_oom_vote,
                   daemon, pager, killed>>

\* pagedaemon_wakeup, which has no lock: the test, then the flag and
\* the wakeup.
AdviseTest(t) ==
    /\ At(t, "advise") /\ Go(t, IF vm_pageout_wanted THEN thread[t].ret ELSE "set")
    /\ UNCHANGED <<vm_ndomains, memory, flags, vm_pageout_oom_vote,
                   daemon, pager, killed>>

AdviseSet(t) ==
    /\ At(t, "set") /\ Go(t, thread[t].ret)
    /\ vm_pageout_wanted' = TRUE /\ WakeDaemons
    /\ UNCHANGED <<vm_ndomains, memory, vm_pages_needed, vm_pageout_pages_needed,
                   vm_pageout_oom_vote,
                   pager, killed>>

\* A store to a page that is clean.
Store(t) ==
    /\ At(t, "run") /\ thread[t].allocs > 0 /\ clean > 0
    /\ clean' = clean - 1 /\ dirty' = dirty + 1
    /\ thread' = [thread EXCEPT ![t].allocs = @ - 1]
    /\ UNCHANGED <<vm_ndomains, free, flags, vm_pageout_oom_vote,
                   daemon, pager, killed>>

\* Pages freed by who used them: c clean ones and e dirty ones.
Release(c, e) ==
    /\ MtxFree /\ c <= clean /\ e <= dirty /\ c + e > 0
    /\ FreePages(c + e) /\ PagerWoken
    /\ clean' = clean - c /\ dirty' = dirty - e
    /\ UNCHANGED <<vm_ndomains, vm_pageout_wanted, vm_pageout_oom_vote, daemon>>

UserFrees == (Release(1, 0) \/ Release(0, 1)) /\ UNCHANGED killed

\* A killed process, which may be all there is, is gone with its pages.
VictimExits ==
    /\ killed /\ killed' = FALSE
    /\ \E c \in 0 .. clean, e \in 0 .. dirty : Release(c, e)

-----------------------------------------------------------------------------
(* A page daemon: vm_pageout_worker *)

Step(d, pc)   == daemon[d].pc = pc
Become(d, r)  == daemon' = [daemon EXCEPT ![d] = r]
Rest(d, pc)   == Become(d, [daemon[d] EXCEPT !.pc = pc])

\* Mutant of WorkerTop: does not look at the waiters before it sleeps.
WorkerTop_deaf(d) ==
    LET D      == daemon[d]
        enough == vm_pages_needed /\ ~vm_page_count_min(free)
        wanted == vm_pageout_wanted /\ ~D.target_met
    IN  /\ Step(d, "top") /\ MtxFree
        /\ vm_pages_needed' = (vm_pages_needed /\ ~enough)
        /\ IF enough THEN WakeWaiters ELSE UNCHANGED thread
        /\ vm_pageout_wanted' = wanted
        /\ Become(d, [D EXCEPT !.pc   = IF wanted THEN "scan" ELSE "tosleep",
                               !.pass = wanted, !.target_met = FALSE])
        /\ UNCHANGED <<vm_ndomains, memory, vm_pageout_pages_needed,
                       vm_pageout_oom_vote, pager, killed>>

\* With the mutex: waiters are woken if there is enough; vm_pageout_wanted is
\* cleared if the target was met; the next scan is decided on.
WorkerTop(d) ==
    LET D      == daemon[d]
        enough == vm_pages_needed /\ ~vm_page_count_min(free)
        needed == vm_pages_needed /\ ~enough
        wanted == vm_pageout_wanted /\ ~D.target_met
    IN  /\ Step(d, "top") /\ MtxFree
        /\ vm_pages_needed' = needed
        /\ IF enough THEN WakeWaiters ELSE UNCHANGED thread
        /\ vm_pageout_wanted' = wanted
        /\ Become(d, [D EXCEPT !.pc   = IF wanted \/ needed THEN "scan" ELSE "tosleep",
                               !.pass = wanted \/ needed, !.target_met = FALSE])
        /\ UNCHANGED <<vm_ndomains, memory, vm_pageout_pages_needed,
                       vm_pageout_oom_vote, pager, killed>>

\* mtx_sleep, and its timeout of a second, after which the scan is of level 0.
WorkerSleep(d) ==
    /\ Step(d, "tosleep") /\ Rest(d, "asleep")
    /\ UNCHANGED <<vm_ndomains, memory, flags, vm_pageout_oom_vote,
                   thread, pager, killed>>

WorkerTimeout(d) ==
    /\ Step(d, "asleep") /\ Become(d, [daemon[d] EXCEPT !.pc = "scan", !.pass = FALSE])
    /\ UNCHANGED <<vm_ndomains, memory, flags, vm_pageout_oom_vote,
                   thread, pager, killed>>

\* vm_pageout_scan: what is short, with whatever deficit the threads that
\* failed have added up since the last scan.
ScanStart(d) ==
    /\ Step(d, "scan")
    /\ \E deficit \in 0 .. MaxDeficit :
          Become(d, [daemon[d] EXCEPT !.pc = "free", !.pass = FALSE, !.freed = FALSE,
                         !.short = IF daemon[d].pass THEN vm_paging_target + deficit ELSE 0])
    /\ UNCHANGED <<vm_ndomains, memory, flags, vm_pageout_oom_vote,
                   thread, pager, killed>>

\* A clean page of the inactive queue is freed.
ScanFrees(d) ==
    /\ Step(d, "free") /\ MtxFree /\ daemon[d].short > 0 /\ clean > 0
    /\ FreePages(1) /\ PagerWoken /\ clean' = clean - 1
    /\ Become(d, [daemon[d] EXCEPT !.short = @ - 1, !.freed = TRUE])
    /\ UNCHANGED <<vm_ndomains, dirty, vm_pageout_wanted,
                   vm_pageout_oom_vote, killed>>

\* The end of the inactive queue.  From here on page_shortage is positive or
\* it is not.
ScanEnd(d) ==
    /\ Step(d, "free") /\ (daemon[d].short <= 0 \/ clean = 0)
    /\ Become(d, [daemon[d] EXCEPT !.short = Min({1, Max({0, @})}), !.pc = "oom"])
    /\ UNCHANGED <<vm_ndomains, memory, flags, vm_pageout_oom_vote, thread, pager, killed>>

-----------------------------------------------------------------------------
(* vm_pageout_mightbe_oom *)

\* Scans in a row that freed nothing of what was short.
OomSeq(d) ==
    IF daemon[d].short > 0 /\ ~daemon[d].freed THEN daemon[d].seq + 1 ELSE 0

Elsewhere == <<vm_ndomains, memory, flags, pager>>

\* Mutant of OomPatience: the vote is kept, the count of voters is not.
OomPatience_kept(d) ==
    /\ Step(d, "oom") /\ OomSeq(d) < vm_pageout_oom_seq
    /\ Become(d, [daemon[d] EXCEPT !.pc  = IF daemon[d].oom THEN "retract" ELSE "done",
                                   !.seq = OomSeq(d)])
    /\ UNCHANGED <<Elsewhere, vm_pageout_oom_vote, thread, killed>>

\* Not yet: a vote cast before is taken back.
OomPatience(d) ==
    /\ Step(d, "oom") /\ OomSeq(d) < vm_pageout_oom_seq
    /\ Become(d, [daemon[d] EXCEPT !.pc  = IF daemon[d].oom THEN "retract" ELSE "done",
                                   !.seq = OomSeq(d), !.oom = FALSE])
    /\ UNCHANGED <<Elsewhere, vm_pageout_oom_vote, thread, killed>>

\* The patience is at its end: a vote, unless it has been cast.
OomCandidate(d) ==
    /\ Step(d, "oom") /\ OomSeq(d) >= vm_pageout_oom_seq
    /\ Become(d, [daemon[d] EXCEPT !.pc  = IF daemon[d].oom THEN "done" ELSE "vote",
                                   !.seq = 0, !.oom = TRUE])
    /\ UNCHANGED <<Elsewhere, vm_pageout_oom_vote, thread, killed>>

\* Mutant of OomVote: counts the voters from 1.
OomVote_soon(d) ==
    /\ Step(d, "vote") /\ vm_pageout_oom_vote' = vm_pageout_oom_vote + 1
    /\ Rest(d, IF vm_pageout_oom_vote + 1 = vm_ndomains - 1 THEN "kill" ELSE "done")
    /\ UNCHANGED <<Elsewhere, thread, killed>>

\* atomic_fetchadd_int: the last of the quorum kills.
OomVote(d) ==
    /\ Step(d, "vote") /\ vm_pageout_oom_vote' = vm_pageout_oom_vote + 1
    /\ Rest(d, IF vm_pageout_oom_vote = vm_ndomains - 1 THEN "kill" ELSE "done")
    /\ UNCHANGED <<Elsewhere, thread, killed>>

\* vm_pageout_oom: the largest process that may be killed, if there is any, and
\* a wakeup for all who wait for memory; then the vote is recalled.
OomKill(d) ==
    /\ Step(d, "kill") /\ Become(d, [daemon[d] EXCEPT !.pc = "retract", !.oom = FALSE])
    /\ IF ~killed /\ clean + dirty > 0 THEN killed' = TRUE /\ WakeWaiters
                                       ELSE UNCHANGED <<killed, thread>>
    /\ UNCHANGED <<Elsewhere, vm_pageout_oom_vote>>

\* atomic_subtract_int
OomRetract(d) ==
    /\ Step(d, "retract") /\ Rest(d, "done")
    /\ vm_pageout_oom_vote' = vm_pageout_oom_vote - 1
    /\ UNCHANGED <<Elsewhere, thread, killed>>

\* The scan returns.
ScanReturns(d) ==
    /\ Step(d, "done")
    /\ Become(d, [daemon[d] EXCEPT !.pc = "top", !.target_met = daemon[d].short <= 0,
                                   !.short = 0, !.freed = FALSE])
    /\ UNCHANGED <<Elsewhere, vm_pageout_oom_vote, thread, killed>>

-----------------------------------------------------------------------------
(* The laundry thread, as far as memory goes *)

\* Some of what was dirty is clean.
Launder ==
    /\ pager = "runs"
    /\ \E n \in 1 .. dirty : dirty' = dirty - n /\ clean' = clean + n
    /\ UNCHANGED <<vm_ndomains, free, flags, vm_pageout_oom_vote, thread, daemon, pager, killed>>

\* The pager needs a page for it and there is none even for the page daemon's
\* process (_vm_wait).
LaunderWaits ==
    /\ pager = "runs" /\ dirty > 0 /\ MtxFree /\ ~Allocatable("SYSTEM")
    /\ vm_pageout_pages_needed' = TRUE /\ pager' = "waits"
    /\ UNCHANGED <<vm_ndomains, memory, vm_pageout_wanted, vm_pages_needed,
                   vm_pageout_oom_vote, thread, daemon, killed>>

-----------------------------------------------------------------------------

\* Any memory a machine that has run for long may have; the rest of it is
\* wired.
Init ==
    /\ vm_ndomains \in 1 .. MaxDomains
    /\ free \in 0 .. MaxPages /\ clean \in 0 .. MaxPages /\ dirty \in 0 .. MaxPages
    /\ free + clean + dirty \in 1 .. MaxPages
    /\ vm_pageout_wanted = FALSE /\ vm_pages_needed = FALSE
    /\ vm_pageout_pages_needed = FALSE
    /\ vm_pageout_oom_vote = 0 /\ killed = FALSE
    /\ \E allocs \in [Threads -> 0 .. MaxAllocs] :
          thread = [t \in Threads |-> [pc |-> "run", ret |-> "run", allocs |-> allocs[t]]]
    /\ daemon = [d \in AllDomains |-> [pc |-> "top", pass |-> FALSE, target_met |-> TRUE,
                                       short |-> 0, freed |-> FALSE, seq |-> 0, oom |-> FALSE]]
    /\ pager = "runs"

ThreadStep(t) ==
    \/ Alloc(t) \/ AllocFail(t) \/ Wait(t) \/ GiveUp(t) \/ Store(t)
    \/ AdviseTest(t) \/ AdviseSet(t)

DaemonStep(d) ==
    \/ WorkerTop(d) \/ WorkerSleep(d) \/ ScanStart(d) \/ ScanFrees(d) \/ ScanEnd(d)
    \/ OomPatience(d) \/ OomCandidate(d) \/ OomVote(d) \/ OomKill(d)
    \/ OomRetract(d) \/ ScanReturns(d)

Next ==
    \/ \E t \in Threads : ThreadStep(t)
    \/ \E d \in Domains : DaemonStep(d) \/ WorkerTimeout(d)
    \/ Launder \/ LaunderWaits \/ UserFrees \/ VictimExits

\* The daemons and a process told to die get to run; threads and users of
\* memory may stop at any point, and the daemons need no timeout.
Fairness ==
    /\ \A d \in AllDomains : WF_vars(d \in Domains /\ DaemonStep(d))
    /\ WF_vars(VictimExits)

Spec == Init /\ [][Next]_vars /\ Fairness

-----------------------------------------------------------------------------
(* Properties *)

Shorts == -MaxPages .. v_free_target + MaxDeficit

TypeOK ==
    /\ vm_ndomains \in 1 .. MaxDomains
    /\ free \in 0 .. MaxPages /\ clean \in 0 .. MaxPages /\ dirty \in 0 .. MaxPages
    /\ vm_pageout_wanted \in BOOLEAN /\ vm_pages_needed \in BOOLEAN
    /\ vm_pageout_pages_needed \in BOOLEAN
    /\ vm_pageout_oom_vote \in Int /\ killed \in BOOLEAN
    /\ thread \in [Threads ->
           [pc : {"run", "advise", "set", "null", "asleep"},
            ret : {"run", "null"}, allocs : 0 .. MaxAllocs]]
    /\ daemon \in [AllDomains ->
           [pc : {"top", "tosleep", "asleep", "scan", "free", "oom", "vote",
                  "kill", "retract", "done"},
            pass : BOOLEAN, target_met : BOOLEAN, short : Shorts, freed : BOOLEAN,
            seq : 0 .. vm_pageout_oom_seq, oom : BOOLEAN]]
    /\ pager \in {"runs", "waits"}

\* Whoever sleeps for pages has left the flag that gets it woken: a free that
\* reaches the mark, a loop of a daemon or a kill finds it (vm_page.c:2843,
\* 2853; vm_pageout.c:1823).
WaitersAnnounced ==
    /\ (\E t \in Threads : At(t, "asleep")) => vm_pages_needed
    /\ pager = "waits" => vm_pageout_pages_needed

\* While a thread waits no page daemon sleeps, although it may have been told
\* only by a flag an advisory wakeup had set before (vm_pageout.c:2000).
DaemonHearsWaiters ==
    vm_pages_needed => \A d \in Domains : ~Step(d, "asleep") /\ ~Step(d, "tosleep")

\* Both: nobody sleeps for pages unheard.
WaitersHeard == WaitersAnnounced /\ DaemonHearsWaiters

\* The votes counted are those of the domains that have cast one and have not
\* taken it back, so the count returns to 0 and never passes vm_ndomains
\* (vm_pageout.c:1577, 1595, 1613).
VotesExact ==
    /\ TypeOK
    /\ vm_pageout_oom_vote =
        Cardinality({d \in Domains : (daemon[d].oom /\ ~Step(d, "vote")) \/ Step(d, "retract")})

\* A page daemon sets out to kill only when every other has lost its patience
\* too and has not taken its vote back for good; two may do so at once only if
\* one of them lost it anew meanwhile (vm_pageout.c:1563 "premature").
KillNeedsQuorum ==
    [][\A d \in Domains : ~Step(d, "kill") /\ daemon'[d].pc = "kill" =>
          \A e \in Domains \ {d} :
              (daemon[e].oom /\ ~Step(e, "vote")) \/ Step(e, "retract")]_vars

\* With one domain: who waits for memory gets it in the end, whether the store
\* takes dirty pages or only a kill helps (vm_pageout.c:1810, 1390).
WaiterServed ==
    vm_ndomains = 1 =>
        \A t \in Threads : At(t, "asleep") ~> (~At(t, "asleep") /\ ~vm_page_count_min(free))
=============================================================================
