---------------------------- MODULE MemoryProofs ----------------------------
(***************************************************************************)
(* Proofs about the page daemons: the vote on killing a process and the    *)
(* waiters for memory, for any number of domains, threads and pages; the   *)
(* laundry thread's requests, for any number of daemons, targets and rates.*)
(***************************************************************************)
EXTENDS PageDaemon, Laundry, LibraryFacts, FiniteSetTheorems

ThreadStates ==
    [pc : {"run", "advise", "set", "null", "asleep"}, ret : {"run", "null"},
     allocs : 0 .. MaxAllocs]

DaemonStates ==
    [pc : {"top", "tosleep", "asleep", "scan", "free", "oom", "vote",
           "kill", "retract", "done"},
     pass : BOOLEAN, target_met : BOOLEAN, short : Shorts, freed : BOOLEAN,
     seq : 0 .. vm_pageout_oom_seq, oom : BOOLEAN]

\* Pages are neither made nor lost.
PagesTyped ==
    /\ free \in Nat /\ clean \in Nat /\ dirty \in Nat
    /\ free + clean + dirty <= MaxPages

FlagsTyped ==
    /\ vm_ndomains \in 1 .. MaxDomains
    /\ vm_pageout_wanted \in BOOLEAN /\ vm_pages_needed \in BOOLEAN
    /\ vm_pageout_pages_needed \in BOOLEAN
    /\ vm_pageout_oom_vote \in Int /\ killed \in BOOLEAN
    /\ pager \in {"runs", "waits"}

ThreadsTyped == thread \in [Threads -> ThreadStates]
DaemonsTyped == daemon \in [AllDomains -> DaemonStates]

Voted(r) == (r.oom /\ r.pc # "vote") \/ r.pc = "retract"
Voters   == {d \in Domains : Voted(daemon[d])}

\* Where a domain is in vm_pageout_mightbe_oom tells its vm_oom flag.
PlacesVote ==
    \A d \in Domains :
        /\ daemon[d].pc \in {"vote", "kill"} => daemon[d].oom
        /\ daemon[d].pc = "retract" => ~daemon[d].oom

VotesCounted == vm_pageout_oom_vote = Cardinality(Voters)

DInv ==
    /\ PagesTyped /\ FlagsTyped /\ ThreadsTyped /\ DaemonsTyped
    /\ WaitersAnnounced /\ DaemonHearsWaiters /\ PlacesVote /\ VotesCounted

-----------------------------------------------------------------------------

(* One page daemon moves, or all that sleep are woken *)

LEMMA Bounds ==
    /\ 0 \in Shorts /\ 1 \in Shorts /\ Shorts \subseteq Int
    /\ 0 \in 0 .. vm_pageout_oom_seq
BY PageDaemonAssumption DEF Shorts

LEMMA DaemonMoves ==
    ASSUME DInv, NEW d \in Domains, NEW r \in DaemonStates, Become(d, r),
           vm_ndomains' = vm_ndomains
    PROVE  /\ DaemonsTyped' /\ Domains' = Domains /\ daemon'[d] = r
           /\ \A e \in Domains \ {d} : daemon'[e] = daemon[e]
<1>1. Domains \subseteq AllDomains
      BY PageDaemonAssumption DEF DInv, FlagsTyped, Domains, AllDomains
<1>2. daemon' = [daemon EXCEPT ![d] = r]
      BY DEF Become
<1>3. Domains' = Domains
      BY DEF Domains
<1>. QED  BY <1>1, <1>2, <1>3 DEF DInv, DaemonsTyped

LEMMA VotersFinite ==
    ASSUME DInv
    PROVE  /\ IsFiniteSet(Domains) /\ Cardinality(Domains) = vm_ndomains
           /\ IsFiniteSet(Voters) /\ Cardinality(Voters) \in Nat
<1>1. vm_ndomains \in Nat /\ vm_ndomains > 0
      BY PageDaemonAssumption DEF DInv, FlagsTyped
<1>2. IsFiniteSet(Domains) /\ Cardinality(Domains) = vm_ndomains
      BY <1>1, FS_Interval DEF Domains
<1>3. IsFiniteSet(Voters)
      BY <1>2, FS_Subset DEF Voters
<1>. QED  BY <1>2, <1>3, FS_CardinalityType

LEMMA SameVotes ==
    ASSUME DInv, Domains' = Domains, vm_pageout_oom_vote' = vm_pageout_oom_vote,
           \A e \in Domains : Voted(daemon'[e]) <=> Voted(daemon[e])
    PROVE  VotesCounted'
<1>1. Voters' = Voters
      BY Zenon DEF Voters
<1>. QED  BY <1>1, Zenon DEF DInv, VotesCounted

\* The votes and what a daemon may do next do not change.
LEMMA DaemonSteps ==
    ASSUME DInv, NEW d \in Domains, NEW r \in DaemonStates, Become(d, r),
           vm_ndomains' = vm_ndomains, vm_pageout_oom_vote' = vm_pageout_oom_vote,
           Voted(r) <=> Voted(daemon[d]),
           r.pc \in {"vote", "kill"} => r.oom,
           r.pc = "retract" => ~r.oom,
           r.pc \notin {"asleep", "tosleep"} \/ ~vm_pages_needed',
           vm_pages_needed' => vm_pages_needed
    PROVE  DaemonsTyped' /\ DaemonHearsWaiters' /\ PlacesVote' /\ VotesCounted'
<1>1. /\ DaemonsTyped' /\ Domains' = Domains /\ daemon'[d] = r
      /\ \A e \in Domains \ {d} : daemon'[e] = daemon[e]
      BY DaemonMoves
<1>2. DaemonHearsWaiters'
      BY <1>1 DEF DInv, DaemonHearsWaiters, Step
<1>3. PlacesVote'
      BY <1>1, Zenon DEF DInv, PlacesVote
<1>4. \A e \in Domains : Voted(daemon'[e]) <=> Voted(daemon[e])
      BY <1>1, Zenon
<1>. QED  BY <1>1, <1>2, <1>3, <1>4, SameVotes

LEMMA DaemonHere ==
    ASSUME DInv, NEW d \in Domains
    PROVE  /\ d \in AllDomains /\ daemon[d] \in DaemonStates
           /\ daemon[d].short \in Shorts /\ daemon[d].seq \in 0 .. vm_pageout_oom_seq
           /\ daemon[d].oom \in BOOLEAN /\ daemon[d].freed \in BOOLEAN
           /\ daemon[d].pass \in BOOLEAN /\ daemon[d].target_met \in BOOLEAN
<1>1. d \in AllDomains
      BY PageDaemonAssumption DEF DInv, FlagsTyped, Domains, AllDomains
<1>2. daemon[d] \in DaemonStates
      BY <1>1 DEF DInv, DaemonsTyped
<1>. QED  BY <1>1, <1>2 DEF DaemonStates

LEMMA DaemonsWake ==
    ASSUME DInv, WakeDaemons, vm_ndomains' = vm_ndomains,
           vm_pageout_oom_vote' = vm_pageout_oom_vote
    PROVE  /\ DaemonsTyped' /\ PlacesVote' /\ VotesCounted'
           /\ \A d \in Domains : ~Step(d, "tosleep") =>
                  daemon'[d].pc \notin {"asleep", "tosleep"}
           /\ Domains' = Domains
<1> DEFINE woken(r) == [r EXCEPT !.pc = "scan", !.pass = TRUE]
<1>1. Domains' = Domains
      BY DEF Domains
<1>2. \A d \in AllDomains : daemon'[d] =
          IF daemon[d].pc = "asleep" THEN woken(daemon[d]) ELSE daemon[d]
      BY Zenon DEF WakeDaemons
<1>3. ASSUME NEW r \in DaemonStates
      PROVE  woken(r) \in DaemonStates /\ woken(r).pc = "scan" /\ woken(r).oom = r.oom
  <2>1. woken(r) \in DaemonStates
        BY Zenon DEF DaemonStates
  <2>2. woken(r).pc = "scan" /\ woken(r).oom = r.oom
        BY DEF DaemonStates
  <2>. QED  BY <2>1, <2>2
<1>. HIDE DEF woken
<1>4. ASSUME NEW d \in AllDomains
      PROVE  /\ daemon'[d] \in DaemonStates
             /\ daemon'[d].oom = daemon[d].oom /\ daemon'[d].pc # "asleep"
             /\ daemon'[d].pc = daemon[d].pc \/ (daemon[d].pc = "asleep" /\ daemon'[d].pc = "scan")
  <2>1. daemon[d] \in DaemonStates
        BY DEF DInv, DaemonsTyped
  <2>. QED  BY <1>2, <1>3, <2>1, Zenon
<1>5. DaemonsTyped'
  <2>1. daemon' = [d \in AllDomains |-> daemon'[d]]
        BY Zenon DEF WakeDaemons
  <2>. QED  BY <1>4, <2>1, Zenon DEF DaemonsTyped
<1>6. Domains \subseteq AllDomains
      BY PageDaemonAssumption DEF DInv, FlagsTyped, Domains, AllDomains
<1>7. PlacesVote'
      BY <1>1, <1>4, <1>6 DEF DInv, PlacesVote
<1>8. \A e \in Domains : Voted(daemon'[e]) <=> Voted(daemon[e])
      BY <1>4, <1>6 DEF Voted
<1>9. VotesCounted'
      BY <1>1, <1>8, SameVotes
<1>. QED  BY <1>1, <1>4, <1>5, <1>6, <1>7, <1>9 DEF Step

-----------------------------------------------------------------------------

LEMMA AllocKeeps ==
    ASSUME DInv, NEW t \in Threads, Alloc(t)
    PROVE  DInv'
<1>. USE PageDaemonAssumption DEF Alloc, MtxFree, Allocatable, Step, At, vm_paging_needed, DInv, memory, flags
<1>1. PagesTyped'
      BY DEF PagesTyped, ThreadsTyped, ThreadStates
<1>2. FlagsTyped'
      BY DEF FlagsTyped
<1>3. ThreadsTyped'
      BY DEF ThreadsTyped, ThreadStates
<1>4. DaemonsTyped'
      BY DEF DaemonsTyped, DaemonStates, Domains, AllDomains, FlagsTyped
<1>5. WaitersAnnounced'
      BY DEF WaitersAnnounced, At, ThreadsTyped, ThreadStates, FlagsTyped
<1>6. DaemonHearsWaiters'
      BY DEF DaemonHearsWaiters, Step, Domains, AllDomains, DaemonsTyped, FlagsTyped
<1>7. PlacesVote'
      BY DEF PlacesVote, Domains, AllDomains, DaemonsTyped, FlagsTyped
<1>8. VotesCounted'
      BY DEF VotesCounted, Voters, Voted, Domains, AllDomains, DaemonsTyped, FlagsTyped
<1>. QED  BY <1>1, <1>2, <1>3, <1>4, <1>5, <1>6, <1>7, <1>8

LEMMA AllocFailKeeps ==
    ASSUME DInv, NEW t \in Threads, AllocFail(t)
    PROVE  DInv'
<1>. USE PageDaemonAssumption DEF DInv
<1>1. PagesTyped'
      BY DEF AllocFail, MtxFree, PagedaemonWait, Advise, Go, Step, At, PagesTyped, ThreadsTyped, ThreadStates, memory, flags
<1>2. FlagsTyped'
      BY DEF AllocFail, MtxFree, PagedaemonWait, Advise, Go, Step, At, FlagsTyped, memory, flags
<1>3. ThreadsTyped'
  <2> DEFINE waits == [thread[t] EXCEPT !.pc = "asleep"]
             tells == [thread[t] EXCEPT !.pc = "advise", !.ret = "null"]
  <2>1. thread[t] \in ThreadStates
        BY DEF ThreadsTyped
  <2>2. waits \in ThreadStates /\ tells \in ThreadStates
        BY <2>1, Zenon DEF ThreadStates
  <2>3. \/ thread' = [thread EXCEPT ![t].pc = "asleep"]
        \/ thread' = [thread EXCEPT ![t] = tells]
        BY Zenon DEF AllocFail, PagedaemonWait, Advise, Go
  <2>4. thread' = [thread EXCEPT ![t] = waits] \/ thread' = [thread EXCEPT ![t] = tells]
        BY <2>3
  <2>. HIDE DEF waits, tells
  <2>. QED  BY <2>2, <2>4 DEF ThreadsTyped
<1>4. WaitersAnnounced'
  <2>1. thread[t].pc = "run" /\ UNCHANGED <<vm_pageout_pages_needed, pager>>
        BY Zenon DEF AllocFail, At
  <2>2. CASE PagedaemonWait(t)
        BY <2>1, <2>2 DEF WaitersAnnounced, At, PagedaemonWait
  <2>3. CASE Advise(t, "null") /\ UNCHANGED vm_pages_needed
    <3>1. \A u \in Threads : thread'[u].pc = "asleep" => thread[u].pc = "asleep"
          BY <2>1, <2>3 DEF Advise, ThreadsTyped, ThreadStates
    <3>. QED  BY <2>1, <2>3, <3>1 DEF WaitersAnnounced, At
  <2>. QED  BY <2>2, <2>3, Zenon DEF AllocFail
<1>5. vm_ndomains' = vm_ndomains /\ vm_pageout_oom_vote' = vm_pageout_oom_vote
      BY DEF AllocFail
<1>6. \A d \in Domains : ~Step(d, "tosleep")
      BY Zenon DEF AllocFail, MtxFree, Step
<1>7. ASSUME WakeDaemons
      PROVE  DaemonsTyped' /\ DaemonHearsWaiters' /\ PlacesVote' /\ VotesCounted'
  <2>1. /\ DaemonsTyped' /\ PlacesVote' /\ VotesCounted' /\ Domains' = Domains
        /\ \A d \in Domains : daemon'[d].pc \notin {"asleep", "tosleep"}
        BY <1>5, <1>6, <1>7, DaemonsWake
  <2>2. DaemonHearsWaiters'
    <3>1. \A d \in Domains : ~(daemon'[d].pc = "asleep") /\ ~(daemon'[d].pc = "tosleep")
          BY <2>1
    <3>. QED  BY <2>1, <3>1, Zenon DEF DaemonHearsWaiters, Step
  <2>. QED  BY <2>1, <2>2
<1>8. ASSUME UNCHANGED daemon, vm_pages_needed' = vm_pages_needed
      PROVE  DaemonsTyped' /\ DaemonHearsWaiters' /\ PlacesVote' /\ VotesCounted'
  <2>1. Domains' = Domains
        BY <1>5 DEF Domains
  <2>2. VotesCounted'
        BY <1>5, <1>8, <2>1, SameVotes
  <2>. QED  BY <1>8, <2>1, <2>2, Zenon DEF DaemonsTyped, DaemonHearsWaiters, Step, PlacesVote
<1>9. DaemonsTyped' /\ DaemonHearsWaiters' /\ PlacesVote' /\ VotesCounted'
  <2>1. WakeDaemons \/ (UNCHANGED daemon /\ vm_pages_needed' = vm_pages_needed)
        BY Zenon DEF AllocFail, PagedaemonWait, FlagsTyped
  <2>. QED  BY <1>7, <1>8, <2>1
<1>. QED  BY <1>1, <1>2, <1>3, <1>4, <1>9

LEMMA WaitKeeps ==
    ASSUME DInv, NEW t \in Threads, Wait(t)
    PROVE  DInv'
<1>. USE PageDaemonAssumption DEF DInv
<1>1. PagesTyped'
      BY DEF Wait, MtxFree, PagedaemonWait, Go, Step, At, PagesTyped, ThreadsTyped, ThreadStates, memory, flags
<1>2. FlagsTyped'
      BY DEF Wait, MtxFree, PagedaemonWait, Go, Step, At, FlagsTyped, memory, flags
<1>3. ThreadsTyped'
      BY DEF Wait, MtxFree, PagedaemonWait, Go, Step, At, ThreadsTyped, ThreadStates, memory, flags
<1>4. WaitersAnnounced'
      BY DEF Wait, MtxFree, PagedaemonWait, Go, Step, At, WaitersAnnounced, At, ThreadsTyped, ThreadStates, FlagsTyped, memory, flags
<1>5. vm_ndomains' = vm_ndomains /\ vm_pageout_oom_vote' = vm_pageout_oom_vote
      BY DEF Wait
<1>6. \A d \in Domains : ~Step(d, "tosleep")
      BY Zenon DEF Wait, MtxFree, Step
<1>7. ASSUME WakeDaemons
      PROVE  DaemonsTyped' /\ DaemonHearsWaiters' /\ PlacesVote' /\ VotesCounted'
  <2>1. /\ DaemonsTyped' /\ PlacesVote' /\ VotesCounted' /\ Domains' = Domains
        /\ \A d \in Domains : daemon'[d].pc \notin {"asleep", "tosleep"}
        BY <1>5, <1>6, <1>7, DaemonsWake
  <2>2. DaemonHearsWaiters'
    <3>1. \A d \in Domains : ~(daemon'[d].pc = "asleep") /\ ~(daemon'[d].pc = "tosleep")
          BY <2>1
    <3>. QED  BY <2>1, <3>1, Zenon DEF DaemonHearsWaiters, Step
  <2>. QED  BY <2>1, <2>2
<1>8. ASSUME UNCHANGED daemon, vm_pages_needed' = vm_pages_needed
      PROVE  DaemonsTyped' /\ DaemonHearsWaiters' /\ PlacesVote' /\ VotesCounted'
  <2>1. Domains' = Domains
        BY <1>5 DEF Domains
  <2>2. VotesCounted'
        BY <1>5, <1>8, <2>1, SameVotes
  <2>. QED  BY <1>8, <2>1, <2>2, Zenon DEF DaemonsTyped, DaemonHearsWaiters, Step, PlacesVote
<1>9. DaemonsTyped' /\ DaemonHearsWaiters' /\ PlacesVote' /\ VotesCounted'
  <2>1. WakeDaemons \/ (UNCHANGED daemon /\ vm_pages_needed' = vm_pages_needed)
        BY Zenon DEF Wait, PagedaemonWait, FlagsTyped
  <2>. QED  BY <1>7, <1>8, <2>1
<1>. QED  BY <1>1, <1>2, <1>3, <1>4, <1>9

LEMMA GiveUpKeeps ==
    ASSUME DInv, NEW t \in Threads, GiveUp(t)
    PROVE  DInv'
<1>. USE PageDaemonAssumption DEF GiveUp, Go, At, DInv, memory, flags
<1>1. PagesTyped'
      BY DEF PagesTyped, ThreadsTyped, ThreadStates
<1>2. FlagsTyped'
      BY DEF FlagsTyped
<1>3. ThreadsTyped'
      BY DEF ThreadsTyped, ThreadStates
<1>4. DaemonsTyped'
      BY DEF DaemonsTyped, DaemonStates, Domains, AllDomains, FlagsTyped
<1>5. WaitersAnnounced'
      BY DEF WaitersAnnounced, At, ThreadsTyped, ThreadStates, FlagsTyped
<1>6. DaemonHearsWaiters'
      BY DEF DaemonHearsWaiters, Step, Domains, AllDomains, DaemonsTyped, FlagsTyped
<1>7. PlacesVote'
      BY DEF PlacesVote, Domains, AllDomains, DaemonsTyped, FlagsTyped
<1>8. VotesCounted'
      BY DEF VotesCounted, Voters, Voted, Domains, AllDomains, DaemonsTyped, FlagsTyped
<1>. QED  BY <1>1, <1>2, <1>3, <1>4, <1>5, <1>6, <1>7, <1>8

LEMMA StoreKeeps ==
    ASSUME DInv, NEW t \in Threads, Store(t)
    PROVE  DInv'
<1>. USE PageDaemonAssumption DEF Store, At, DInv, memory, flags
<1>1. PagesTyped'
      BY DEF PagesTyped, ThreadsTyped, ThreadStates
<1>2. FlagsTyped'
      BY DEF FlagsTyped
<1>3. ThreadsTyped'
      BY DEF ThreadsTyped, ThreadStates
<1>4. DaemonsTyped'
      BY DEF DaemonsTyped, DaemonStates, Domains, AllDomains, FlagsTyped
<1>5. WaitersAnnounced'
      BY DEF WaitersAnnounced, At, ThreadsTyped, ThreadStates, FlagsTyped
<1>6. DaemonHearsWaiters'
      BY DEF DaemonHearsWaiters, Step, Domains, AllDomains, DaemonsTyped, FlagsTyped
<1>7. PlacesVote'
      BY DEF PlacesVote, Domains, AllDomains, DaemonsTyped, FlagsTyped
<1>8. VotesCounted'
      BY DEF VotesCounted, Voters, Voted, Domains, AllDomains, DaemonsTyped, FlagsTyped
<1>. QED  BY <1>1, <1>2, <1>3, <1>4, <1>5, <1>6, <1>7, <1>8

LEMMA AdviseTestKeeps ==
    ASSUME DInv, NEW t \in Threads, AdviseTest(t)
    PROVE  DInv'
<1>. USE PageDaemonAssumption DEF AdviseTest, Go, At, DInv, memory, flags
<1>1. PagesTyped'
      BY DEF PagesTyped, ThreadsTyped, ThreadStates
<1>2. FlagsTyped'
      BY DEF FlagsTyped
<1>3. ThreadsTyped'
      BY DEF ThreadsTyped, ThreadStates
<1>4. DaemonsTyped'
      BY DEF DaemonsTyped, DaemonStates, Domains, AllDomains, FlagsTyped
<1>5. WaitersAnnounced'
      BY DEF WaitersAnnounced, At, ThreadsTyped, ThreadStates, FlagsTyped
<1>6. DaemonHearsWaiters'
      BY DEF DaemonHearsWaiters, Step, Domains, AllDomains, DaemonsTyped, FlagsTyped
<1>7. PlacesVote'
      BY DEF PlacesVote, Domains, AllDomains, DaemonsTyped, FlagsTyped
<1>8. VotesCounted'
      BY DEF VotesCounted, Voters, Voted, Domains, AllDomains, DaemonsTyped, FlagsTyped
<1>. QED  BY <1>1, <1>2, <1>3, <1>4, <1>5, <1>6, <1>7, <1>8

LEMMA AdviseSetKeeps ==
    ASSUME DInv, NEW t \in Threads, AdviseSet(t)
    PROVE  DInv'
<1>. USE PageDaemonAssumption DEF DInv
<1>1. PagesTyped'
      BY DEF AdviseSet, Go, At, PagesTyped, ThreadsTyped, ThreadStates, memory, flags
<1>2. FlagsTyped'
      BY DEF AdviseSet, Go, At, FlagsTyped, memory, flags
<1>3. ThreadsTyped'
      BY DEF AdviseSet, Go, At, ThreadsTyped, ThreadStates, memory, flags
<1>4. WaitersAnnounced'
      BY DEF AdviseSet, Go, At, WaitersAnnounced, At, ThreadsTyped, ThreadStates, FlagsTyped, memory, flags
<1>5. vm_ndomains' = vm_ndomains /\ vm_pageout_oom_vote' = vm_pageout_oom_vote
      BY DEF AdviseSet
<1>6. vm_pages_needed' = vm_pages_needed /\ WakeDaemons
      BY Zenon DEF AdviseSet
<1>7. DaemonsTyped' /\ PlacesVote' /\ VotesCounted'
      BY <1>5, <1>6, DaemonsWake
<1>8. DaemonHearsWaiters'
  <2>1. /\ Domains' = Domains
        /\ \A d \in Domains : ~Step(d, "tosleep") =>
                daemon'[d].pc \notin {"asleep", "tosleep"}
        BY <1>5, <1>6, DaemonsWake
  <2>. QED  BY <1>6, <2>1 DEF DaemonHearsWaiters, Step
<1>9. DaemonsTyped' /\ DaemonHearsWaiters' /\ PlacesVote' /\ VotesCounted'
      BY <1>7, <1>8
<1>. QED  BY <1>1, <1>2, <1>3, <1>4, <1>9

LEMMA ReleaseKeeps ==
    ASSUME DInv, NEW c \in Nat, NEW e \in Nat, Release(c, e), killed' \in BOOLEAN
    PROVE  DInv'
<1>. USE PageDaemonAssumption DEF Release, MtxFree, FreePages, PagerWoken, WakeWaiters, Woken, vm_page_count_min, DInv, memory, flags
<1>1. PagesTyped'
      BY DEF PagesTyped, ThreadsTyped, ThreadStates
<1>2. FlagsTyped'
      BY DEF FlagsTyped
<1>3. ThreadsTyped'
      BY DEF ThreadsTyped, ThreadStates
<1>4. DaemonsTyped'
      BY DEF DaemonsTyped, DaemonStates, Domains, AllDomains, FlagsTyped
<1>5. WaitersAnnounced'
      BY DEF WaitersAnnounced, At, ThreadsTyped, ThreadStates, FlagsTyped
<1>6. DaemonHearsWaiters'
      BY DEF DaemonHearsWaiters, Step, Domains, AllDomains, DaemonsTyped, FlagsTyped
<1>7. PlacesVote'
      BY DEF PlacesVote, Domains, AllDomains, DaemonsTyped, FlagsTyped
<1>8. VotesCounted'
      BY DEF VotesCounted, Voters, Voted, Domains, AllDomains, DaemonsTyped, FlagsTyped
<1>. QED  BY <1>1, <1>2, <1>3, <1>4, <1>5, <1>6, <1>7, <1>8

LEMMA WorkerTopKeeps ==
    ASSUME DInv, NEW d \in Domains, WorkerTop(d)
    PROVE  DInv'
<1>. USE PageDaemonAssumption DEF DInv
<1>1. PagesTyped'
      BY DEF WorkerTop, memory, PagesTyped
<1>2. FlagsTyped'
      BY DEF WorkerTop, FlagsTyped
<1>3. ThreadsTyped'
      BY DEF WorkerTop, WakeWaiters, Woken, ThreadsTyped, ThreadStates
<1>4. WaitersAnnounced'
      BY DEF WorkerTop, WakeWaiters, Woken, WaitersAnnounced, At, ThreadsTyped, ThreadStates, FlagsTyped
<1> DEFINE wanted == vm_pageout_wanted /\ ~daemon[d].target_met
           goes   == wanted \/ vm_pages_needed'
           r == [daemon[d] EXCEPT !.pc = IF goes THEN "scan" ELSE "tosleep",
                                  !.pass = goes, !.target_met = FALSE]
<1>5. daemon[d] \in DaemonStates /\ daemon[d].oom \in BOOLEAN
      BY DaemonHere
<1>6. /\ daemon[d].pc = "top" /\ Become(d, r) /\ vm_ndomains' = vm_ndomains
      /\ vm_pageout_oom_vote' = vm_pageout_oom_vote
      /\ vm_pages_needed' => vm_pages_needed
      BY Zenon DEF WorkerTop, Step
<1>7. r \in DaemonStates
  <2>1. goes \in BOOLEAN
        OBVIOUS
  <2>2. (IF goes THEN "scan" ELSE "tosleep") \in {"scan", "tosleep"}
        OBVIOUS
  <2>. QED  BY <1>5, <2>1, <2>2, Zenon DEF DaemonStates
<1>8. /\ r.pc = IF goes THEN "scan" ELSE "tosleep"
      /\ r.oom = daemon[d].oom
      BY <1>5 DEF DaemonStates
<1>. HIDE DEF r
<1>9. DaemonsTyped' /\ DaemonHearsWaiters' /\ PlacesVote' /\ VotesCounted'
  <2>1. r.pc \in {"scan", "tosleep"} /\ (r.pc = "tosleep" => ~vm_pages_needed')
        BY <1>8
  <2>. QED  BY <1>5, <1>6, <1>7, <1>8, <2>1, DaemonSteps DEF Voted
<1>. QED  BY <1>1, <1>2, <1>3, <1>4, <1>9

LEMMA WorkerSleepKeeps ==
    ASSUME DInv, NEW d \in Domains, WorkerSleep(d)
    PROVE  DInv'
<1>. USE PageDaemonAssumption DEF DInv
<1>1. PagesTyped'
      BY DEF WorkerSleep, Rest, Become, Step, PagesTyped, ThreadsTyped, ThreadStates, memory, flags
<1>2. FlagsTyped'
      BY DEF WorkerSleep, Rest, Become, Step, FlagsTyped, memory, flags
<1>3. ThreadsTyped'
      BY DEF WorkerSleep, Rest, Become, Step, ThreadsTyped, ThreadStates, memory, flags
<1>4. WaitersAnnounced'
      BY DEF WorkerSleep, Rest, Become, Step, WaitersAnnounced, At, ThreadsTyped, ThreadStates, FlagsTyped, memory, flags
<1> DEFINE r == [daemon[d] EXCEPT !.pc = "asleep"]
<1>5. /\ daemon[d] \in DaemonStates /\ daemon[d].short \in Shorts
      /\ daemon[d].seq \in 0 .. vm_pageout_oom_seq /\ daemon[d].oom \in BOOLEAN
      BY DaemonHere
<1>6. /\ daemon[d].pc = "tosleep" /\ Become(d, r) /\ vm_ndomains' = vm_ndomains
      /\ vm_pageout_oom_vote' = vm_pageout_oom_vote
      BY Zenon DEF WorkerSleep, Step, Rest, Elsewhere
<1>7. r \in DaemonStates
      BY <1>5, Bounds, Zenon DEF DaemonStates
<1>8. r.pc = "asleep" /\ r.oom = daemon[d].oom
      BY <1>5, <1>6 DEF DaemonStates
<1>. HIDE DEF r
<1>9. DaemonsTyped' /\ DaemonHearsWaiters' /\ PlacesVote' /\ VotesCounted'
      BY <1>5, <1>6, <1>7, <1>8, DaemonSteps DEF Voted, WorkerSleep, flags, DaemonHearsWaiters, Step
<1>. QED  BY <1>1, <1>2, <1>3, <1>4, <1>9

LEMMA WorkerTimeoutKeeps ==
    ASSUME DInv, NEW d \in Domains, WorkerTimeout(d)
    PROVE  DInv'
<1>. USE PageDaemonAssumption DEF DInv
<1>1. PagesTyped'
      BY DEF WorkerTimeout, Become, Step, PagesTyped, ThreadsTyped, ThreadStates, memory, flags
<1>2. FlagsTyped'
      BY DEF WorkerTimeout, Become, Step, FlagsTyped, memory, flags
<1>3. ThreadsTyped'
      BY DEF WorkerTimeout, Become, Step, ThreadsTyped, ThreadStates, memory, flags
<1>4. WaitersAnnounced'
      BY DEF WorkerTimeout, Become, Step, WaitersAnnounced, At, ThreadsTyped, ThreadStates, FlagsTyped, memory, flags
<1> DEFINE r == [daemon[d] EXCEPT !.pc = "scan", !.pass = FALSE]
<1>5. /\ daemon[d] \in DaemonStates /\ daemon[d].short \in Shorts
      /\ daemon[d].seq \in 0 .. vm_pageout_oom_seq /\ daemon[d].oom \in BOOLEAN
      BY DaemonHere
<1>6. /\ daemon[d].pc = "asleep" /\ Become(d, r) /\ vm_ndomains' = vm_ndomains
      /\ vm_pageout_oom_vote' = vm_pageout_oom_vote
      BY Zenon DEF WorkerTimeout, Step, Rest, Elsewhere
<1>7. r \in DaemonStates
      BY <1>5, Bounds, Zenon DEF DaemonStates
<1>8. r.pc = "scan" /\ r.oom = daemon[d].oom
      BY <1>5, <1>6 DEF DaemonStates
<1>. HIDE DEF r
<1>9. DaemonsTyped' /\ DaemonHearsWaiters' /\ PlacesVote' /\ VotesCounted'
      BY <1>5, <1>6, <1>7, <1>8, DaemonSteps DEF Voted, WorkerTimeout, flags
<1>. QED  BY <1>1, <1>2, <1>3, <1>4, <1>9

LEMMA ScanStartKeeps ==
    ASSUME DInv, NEW d \in Domains, ScanStart(d)
    PROVE  DInv'
<1>. USE PageDaemonAssumption DEF DInv
<1>1. PagesTyped'
      BY DEF ScanStart, Become, Step, vm_paging_target, Shorts, PagesTyped, ThreadsTyped, ThreadStates, memory, flags
<1>2. FlagsTyped'
      BY DEF ScanStart, Become, Step, vm_paging_target, Shorts, FlagsTyped, memory, flags
<1>3. ThreadsTyped'
      BY DEF ScanStart, Become, Step, vm_paging_target, Shorts, ThreadsTyped, ThreadStates, memory, flags
<1>4. WaitersAnnounced'
      BY DEF ScanStart, Become, Step, vm_paging_target, Shorts, WaitersAnnounced, At, ThreadsTyped, ThreadStates, FlagsTyped, memory, flags
<1>0. PICK deficit \in 0 .. MaxDeficit :
          Become(d, [daemon[d] EXCEPT !.pc = "free", !.pass = FALSE, !.freed = FALSE,
                !.short = IF daemon[d].pass THEN vm_paging_target + deficit ELSE 0])
      BY Zenon DEF ScanStart
<1> DEFINE r == [daemon[d] EXCEPT !.pc = "free", !.pass = FALSE, !.freed = FALSE,
                !.short = IF daemon[d].pass THEN vm_paging_target + deficit ELSE 0]
<1>5. /\ daemon[d] \in DaemonStates /\ daemon[d].short \in Shorts
      /\ daemon[d].seq \in 0 .. vm_pageout_oom_seq /\ daemon[d].oom \in BOOLEAN
      BY DaemonHere
<1>6. /\ daemon[d].pc = "scan" /\ Become(d, r) /\ vm_ndomains' = vm_ndomains
      /\ vm_pageout_oom_vote' = vm_pageout_oom_vote
      BY <1>0, Zenon DEF ScanStart, Step
<1>7. r \in DaemonStates
  <2>1. (IF daemon[d].pass THEN vm_paging_target + deficit ELSE 0) \in Shorts
        BY DEF Shorts, vm_paging_target, PagesTyped
  <2>. QED  BY <1>5, <2>1, Zenon DEF DaemonStates
<1>8. r.pc = "free" /\ r.oom = daemon[d].oom
      BY <1>5, <1>6 DEF DaemonStates
<1>. HIDE DEF r
<1>9. DaemonsTyped' /\ DaemonHearsWaiters' /\ PlacesVote' /\ VotesCounted'
      BY <1>5, <1>6, <1>7, <1>8, DaemonSteps DEF Voted, ScanStart, flags
<1>. QED  BY <1>1, <1>2, <1>3, <1>4, <1>9

LEMMA ScanFreesKeeps ==
    ASSUME DInv, NEW d \in Domains, ScanFrees(d)
    PROVE  DInv'
<1>. USE PageDaemonAssumption DEF DInv
<1>1. PagesTyped'
      BY DEF ScanFrees, MtxFree, FreePages, PagerWoken, WakeWaiters, Woken, vm_page_count_min, Become, Step, Shorts, PagesTyped, ThreadsTyped, ThreadStates, memory, flags
<1>2. FlagsTyped'
      BY DEF ScanFrees, MtxFree, FreePages, PagerWoken, WakeWaiters, Woken, vm_page_count_min, Become, Step, Shorts, FlagsTyped, memory, flags
<1>3. ThreadsTyped'
      BY DEF ScanFrees, MtxFree, FreePages, PagerWoken, WakeWaiters, Woken, vm_page_count_min, Become, Step, Shorts, ThreadsTyped, ThreadStates, memory, flags
<1>4. WaitersAnnounced'
      BY DEF ScanFrees, MtxFree, FreePages, PagerWoken, WakeWaiters, Woken, vm_page_count_min, Become, Step, Shorts, WaitersAnnounced, At, ThreadsTyped, ThreadStates, FlagsTyped, memory, flags
<1> DEFINE r == [daemon[d] EXCEPT !.short = @ - 1, !.freed = TRUE]
<1>5. /\ daemon[d] \in DaemonStates /\ daemon[d].short \in Shorts
      /\ daemon[d].seq \in 0 .. vm_pageout_oom_seq /\ daemon[d].oom \in BOOLEAN
      BY DaemonHere
<1>6. /\ daemon[d].pc = "free" /\ Become(d, r) /\ vm_ndomains' = vm_ndomains
      /\ vm_pageout_oom_vote' = vm_pageout_oom_vote
      BY Zenon DEF ScanFrees, Step, Rest, Elsewhere
<1>7. r \in DaemonStates
  <2>1. daemon[d].short - 1 \in Shorts
        BY <1>5 DEF Shorts, ScanFrees
  <2>. QED  BY <1>5, <2>1, Zenon DEF DaemonStates
<1>8. r.pc = "free" /\ r.oom = daemon[d].oom
      BY <1>5, <1>6 DEF DaemonStates
<1>. HIDE DEF r
<1>9. DaemonsTyped' /\ DaemonHearsWaiters' /\ PlacesVote' /\ VotesCounted'
      BY <1>5, <1>6, <1>7, <1>8, DaemonSteps DEF Voted, ScanFrees, FreePages, FlagsTyped
<1>. QED  BY <1>1, <1>2, <1>3, <1>4, <1>9

LEMMA ScanEndKeeps ==
    ASSUME DInv, NEW d \in Domains, ScanEnd(d)
    PROVE  DInv'
<1>. USE PageDaemonAssumption DEF DInv
<1>1. PagesTyped'
      BY DEF ScanEnd, Become, Step, Shorts, PagesTyped, ThreadsTyped, ThreadStates, memory, flags
<1>2. FlagsTyped'
      BY DEF ScanEnd, Become, Step, Shorts, FlagsTyped, memory, flags
<1>3. ThreadsTyped'
      BY DEF ScanEnd, Become, Step, Shorts, ThreadsTyped, ThreadStates, memory, flags
<1>4. WaitersAnnounced'
      BY DEF ScanEnd, Become, Step, Shorts, WaitersAnnounced, At, ThreadsTyped, ThreadStates, FlagsTyped, memory, flags
<1> DEFINE r == [daemon[d] EXCEPT !.short = Min({1, Max({0, daemon[d].short})}), !.pc = "oom"]
<1>5. /\ daemon[d] \in DaemonStates /\ daemon[d].short \in Shorts
      /\ daemon[d].seq \in 0 .. vm_pageout_oom_seq /\ daemon[d].oom \in BOOLEAN
      BY DaemonHere
<1>6. /\ daemon[d].pc = "free" /\ Become(d, r) /\ vm_ndomains' = vm_ndomains
      /\ vm_pageout_oom_vote' = vm_pageout_oom_vote
      BY Zenon DEF ScanEnd, Step, Rest, Elsewhere
<1>7. r \in DaemonStates
  <2>1. daemon[d].short \in Int
        BY <1>5, Bounds
  <2>2. Max({0, daemon[d].short}) \in Int
    <3>1. Max({0, daemon[d].short}) = IF 0 >= daemon[d].short THEN 0 ELSE daemon[d].short
          BY <2>1, 0 \in Int, MaxOfTwo, Zenon
    <3>. QED  BY <2>1, <3>1
  <2>3. Min({1, Max({0, daemon[d].short})}) \in {0, 1}
        BY <2>1, <2>2, MaxOfTwo, MinOfTwo
  <2>4. Min({1, Max({0, daemon[d].short})}) \in Shorts
        BY <2>3, Bounds
  <2>. QED  BY <1>5, <2>4, Zenon DEF DaemonStates
<1>8. r.pc = "oom" /\ r.oom = daemon[d].oom
      BY <1>5, <1>6 DEF DaemonStates
<1>. HIDE DEF r
<1>9. DaemonsTyped' /\ DaemonHearsWaiters' /\ PlacesVote' /\ VotesCounted'
      BY <1>5, <1>6, <1>7, <1>8, DaemonSteps DEF Voted, ScanEnd, flags
<1>. QED  BY <1>1, <1>2, <1>3, <1>4, <1>9

LEMMA OomPatienceKeeps ==
    ASSUME DInv, NEW d \in Domains, OomPatience(d)
    PROVE  DInv'
<1>. USE PageDaemonAssumption DEF DInv
<1>1. PagesTyped'
      BY DEF OomPatience, Become, Step, OomSeq, Elsewhere, PagesTyped, ThreadsTyped, ThreadStates, memory, flags
<1>2. FlagsTyped'
      BY DEF OomPatience, Become, Step, OomSeq, Elsewhere, FlagsTyped, memory, flags
<1>3. ThreadsTyped'
      BY DEF OomPatience, Become, Step, OomSeq, Elsewhere, ThreadsTyped, ThreadStates, memory, flags
<1>4. WaitersAnnounced'
      BY DEF OomPatience, Become, Step, OomSeq, Elsewhere, WaitersAnnounced, At, ThreadsTyped, ThreadStates, FlagsTyped, memory, flags
<1> DEFINE r == [daemon[d] EXCEPT !.pc  = IF daemon[d].oom THEN "retract" ELSE "done",
                                     !.seq = OomSeq(d), !.oom = FALSE]
<1>5. /\ daemon[d] \in DaemonStates /\ daemon[d].short \in Shorts
      /\ daemon[d].seq \in 0 .. vm_pageout_oom_seq /\ daemon[d].oom \in BOOLEAN
      BY DaemonHere
<1>6. /\ daemon[d].pc = "oom" /\ Become(d, r) /\ vm_ndomains' = vm_ndomains
      /\ vm_pageout_oom_vote' = vm_pageout_oom_vote
      BY Zenon DEF OomPatience, Step, Rest, Elsewhere
<1>7. r \in DaemonStates
  <2>1. OomSeq(d) \in 0 .. vm_pageout_oom_seq
        BY <1>5 DEF OomPatience, OomSeq
  <2>2. (IF daemon[d].oom THEN "retract" ELSE "done") \in {"retract", "done"}
        OBVIOUS
  <2>. QED  BY <1>5, <2>1, <2>2, Zenon DEF DaemonStates
<1>8. r.pc = (IF daemon[d].oom THEN "retract" ELSE "done") /\ r.oom = FALSE
      BY <1>5, <1>6 DEF DaemonStates
<1>. HIDE DEF r
<1>9. DaemonsTyped' /\ DaemonHearsWaiters' /\ PlacesVote' /\ VotesCounted'
      BY <1>5, <1>6, <1>7, <1>8, DaemonSteps DEF Voted, OomPatience, Elsewhere, flags
<1>. QED  BY <1>1, <1>2, <1>3, <1>4, <1>9

LEMMA OomCandidateKeeps ==
    ASSUME DInv, NEW d \in Domains, OomCandidate(d)
    PROVE  DInv'
<1>. USE PageDaemonAssumption DEF DInv
<1>1. PagesTyped'
      BY DEF OomCandidate, Become, Step, OomSeq, Elsewhere, PagesTyped, ThreadsTyped, ThreadStates, memory, flags
<1>2. FlagsTyped'
      BY DEF OomCandidate, Become, Step, OomSeq, Elsewhere, FlagsTyped, memory, flags
<1>3. ThreadsTyped'
      BY DEF OomCandidate, Become, Step, OomSeq, Elsewhere, ThreadsTyped, ThreadStates, memory, flags
<1>4. WaitersAnnounced'
      BY DEF OomCandidate, Become, Step, OomSeq, Elsewhere, WaitersAnnounced, At, ThreadsTyped, ThreadStates, FlagsTyped, memory, flags
<1> DEFINE r == [daemon[d] EXCEPT !.pc  = IF daemon[d].oom THEN "done" ELSE "vote",
                                     !.seq = 0, !.oom = TRUE]
<1>5. /\ daemon[d] \in DaemonStates /\ daemon[d].short \in Shorts
      /\ daemon[d].seq \in 0 .. vm_pageout_oom_seq /\ daemon[d].oom \in BOOLEAN
      BY DaemonHere
<1>6. /\ daemon[d].pc = "oom" /\ Become(d, r) /\ vm_ndomains' = vm_ndomains
      /\ vm_pageout_oom_vote' = vm_pageout_oom_vote
      BY Zenon DEF OomCandidate, Step, Rest, Elsewhere
<1>7. r \in DaemonStates
  <2>1. (IF daemon[d].oom THEN "done" ELSE "vote") \in {"vote", "done"}
        OBVIOUS
  <2>. QED  BY <1>5, <2>1, Bounds, Zenon DEF DaemonStates
<1>8. r.pc = (IF daemon[d].oom THEN "done" ELSE "vote") /\ r.oom = TRUE
      BY <1>5, <1>6 DEF DaemonStates
<1>. HIDE DEF r
<1>9. DaemonsTyped' /\ DaemonHearsWaiters' /\ PlacesVote' /\ VotesCounted'
      BY <1>5, <1>6, <1>7, <1>8, DaemonSteps DEF Voted, OomCandidate, Elsewhere, flags
<1>. QED  BY <1>1, <1>2, <1>3, <1>4, <1>9

LEMMA OomVoteKeeps ==
    ASSUME DInv, NEW d \in Domains, OomVote(d)
    PROVE  DInv'
<1>. USE PageDaemonAssumption DEF DInv
<1>1. PagesTyped'
      BY DEF OomVote, Rest, Become, Step, Elsewhere, PagesTyped, ThreadsTyped, ThreadStates, memory, flags
<1>2. FlagsTyped'
      BY DEF OomVote, Rest, Become, Step, Elsewhere, FlagsTyped, memory, flags
<1>3. ThreadsTyped'
      BY DEF OomVote, Rest, Become, Step, Elsewhere, ThreadsTyped, ThreadStates, memory, flags
<1>4. WaitersAnnounced'
      BY DEF OomVote, Rest, Become, Step, Elsewhere, WaitersAnnounced, At, ThreadsTyped, ThreadStates, FlagsTyped, memory, flags
<1> DEFINE r == [daemon[d] EXCEPT
                !.pc = IF vm_pageout_oom_vote = vm_ndomains - 1 THEN "kill" ELSE "done"]
<1>5. /\ daemon[d] \in DaemonStates /\ daemon[d].short \in Shorts
      /\ daemon[d].seq \in 0 .. vm_pageout_oom_seq /\ daemon[d].oom \in BOOLEAN
      BY DaemonHere
<1>6. /\ daemon[d].pc = "vote" /\ Become(d, r) /\ vm_ndomains' = vm_ndomains
      BY Zenon DEF OomVote, Step, Rest, Elsewhere
<1>7. r \in DaemonStates
  <2>1. (IF vm_pageout_oom_vote = vm_ndomains - 1 THEN "kill" ELSE "done") \in {"kill", "done"}
        OBVIOUS
  <2>. QED  BY <1>5, <2>1, Zenon DEF DaemonStates
<1>8. r.pc \in {"kill", "done"} /\ r.oom = daemon[d].oom
      BY <1>5, <1>6 DEF DaemonStates
<1>. HIDE DEF r
<1>9. /\ DaemonsTyped' /\ Domains' = Domains /\ daemon'[d] = r
      /\ \A e \in Domains \ {d} : daemon'[e] = daemon[e]
      BY <1>6, <1>7, DaemonMoves
<1>10. DaemonHearsWaiters'
      BY <1>8, <1>9 DEF DaemonHearsWaiters, Step, OomVote, Elsewhere, flags
<1>11. daemon[d].oom
      BY <1>6, Zenon DEF PlacesVote
<1>12. PlacesVote'
      BY <1>8, <1>9, <1>11, Zenon DEF PlacesVote
<1>13. VotesCounted'
  <2>1. ~Voted(daemon[d]) /\ Voted(r)
        BY <1>6, <1>8, <1>11 DEF Voted, PlacesVote
  <2>2. Voters' = Voters \cup {d} /\ d \notin Voters
        BY <1>9, <2>1 DEF Voters
  <2>3. Cardinality(Voters \cup {d}) = Cardinality(Voters) + 1
        BY <2>2, VotersFinite, FS_AddElement
  <2>. QED  BY <2>2, <2>3 DEF VotesCounted, OomVote
<1>. QED  BY <1>1, <1>2, <1>3, <1>4, <1>9, <1>10, <1>12, <1>13

LEMMA OomKillKeeps ==
    ASSUME DInv, NEW d \in Domains, OomKill(d)
    PROVE  DInv'
<1>. USE PageDaemonAssumption DEF DInv
<1>1. PagesTyped'
      BY DEF OomKill, Become, Step, Elsewhere, WakeWaiters, Woken, PagesTyped, ThreadsTyped, ThreadStates, memory, flags
<1>2. FlagsTyped'
      BY DEF OomKill, Become, Step, Elsewhere, WakeWaiters, Woken, FlagsTyped, memory, flags
<1>3. ThreadsTyped'
      BY DEF OomKill, Become, Step, Elsewhere, WakeWaiters, Woken, ThreadsTyped, ThreadStates, memory, flags
<1>4. WaitersAnnounced'
      BY DEF OomKill, Become, Step, Elsewhere, WakeWaiters, Woken, WaitersAnnounced, At, ThreadsTyped, ThreadStates, FlagsTyped, memory, flags
<1> DEFINE r == [daemon[d] EXCEPT !.pc = "retract", !.oom = FALSE]
<1>5. /\ daemon[d] \in DaemonStates /\ daemon[d].short \in Shorts
      /\ daemon[d].seq \in 0 .. vm_pageout_oom_seq /\ daemon[d].oom \in BOOLEAN
      BY DaemonHere
<1>6. /\ daemon[d].pc = "kill" /\ Become(d, r) /\ vm_ndomains' = vm_ndomains
      /\ vm_pageout_oom_vote' = vm_pageout_oom_vote
      BY Zenon DEF OomKill, Step, Rest, Elsewhere
<1>7. r \in DaemonStates
      BY <1>5, Bounds, Zenon DEF DaemonStates
<1>8. r.pc = "retract" /\ r.oom = FALSE
      BY <1>5, <1>6 DEF DaemonStates
<1>. HIDE DEF r
<1>9. DaemonsTyped' /\ DaemonHearsWaiters' /\ PlacesVote' /\ VotesCounted'
      BY <1>5, <1>6, <1>7, <1>8, DaemonSteps DEF Voted, PlacesVote, OomKill, Elsewhere, flags
<1>. QED  BY <1>1, <1>2, <1>3, <1>4, <1>9

LEMMA OomRetractKeeps ==
    ASSUME DInv, NEW d \in Domains, OomRetract(d)
    PROVE  DInv'
<1>. USE PageDaemonAssumption DEF DInv
<1>1. PagesTyped'
      BY DEF OomRetract, Rest, Become, Step, Elsewhere, PagesTyped, ThreadsTyped, ThreadStates, memory, flags
<1>2. FlagsTyped'
      BY DEF OomRetract, Rest, Become, Step, Elsewhere, FlagsTyped, memory, flags
<1>3. ThreadsTyped'
      BY DEF OomRetract, Rest, Become, Step, Elsewhere, ThreadsTyped, ThreadStates, memory, flags
<1>4. WaitersAnnounced'
      BY DEF OomRetract, Rest, Become, Step, Elsewhere, WaitersAnnounced, At, ThreadsTyped, ThreadStates, FlagsTyped, memory, flags
<1> DEFINE r == [daemon[d] EXCEPT !.pc = "done"]
<1>5. /\ daemon[d] \in DaemonStates /\ daemon[d].short \in Shorts
      /\ daemon[d].seq \in 0 .. vm_pageout_oom_seq /\ daemon[d].oom \in BOOLEAN
      BY DaemonHere
<1>6. /\ daemon[d].pc = "retract" /\ Become(d, r) /\ vm_ndomains' = vm_ndomains
      BY Zenon DEF OomRetract, Step, Rest, Elsewhere
<1>7. r \in DaemonStates
      BY <1>5, Bounds, Zenon DEF DaemonStates
<1>8. r.pc = "done" /\ r.oom = daemon[d].oom
      BY <1>5, <1>6 DEF DaemonStates
<1>. HIDE DEF r
<1>9. /\ DaemonsTyped' /\ Domains' = Domains /\ daemon'[d] = r
      /\ \A e \in Domains \ {d} : daemon'[e] = daemon[e]
      BY <1>6, <1>7, DaemonMoves
<1>10. DaemonHearsWaiters'
      BY <1>8, <1>9 DEF DaemonHearsWaiters, Step, OomRetract, Elsewhere, flags
<1>11. ~daemon[d].oom
      BY <1>6, Zenon DEF PlacesVote
<1>12. PlacesVote'
      BY <1>8, <1>9, Zenon DEF PlacesVote
<1>13. VotesCounted'
  <2>1. Voted(daemon[d]) /\ ~Voted(r)
        BY <1>6, <1>8, <1>11 DEF Voted
  <2>2. Voters' = Voters \ {d} /\ d \in Voters
        BY <1>9, <2>1 DEF Voters
  <2>3. Cardinality(Voters \ {d}) = Cardinality(Voters) - 1
        BY <2>2, VotersFinite, FS_RemoveElement
  <2>. QED  BY <2>2, <2>3 DEF VotesCounted, OomRetract
<1>. QED  BY <1>1, <1>2, <1>3, <1>4, <1>9, <1>10, <1>12, <1>13

LEMMA ScanReturnsKeeps ==
    ASSUME DInv, NEW d \in Domains, ScanReturns(d)
    PROVE  DInv'
<1>. USE PageDaemonAssumption DEF DInv
<1>1. PagesTyped'
      BY DEF ScanReturns, Become, Step, Elsewhere, Shorts, PagesTyped, ThreadsTyped, ThreadStates, memory, flags
<1>2. FlagsTyped'
      BY DEF ScanReturns, Become, Step, Elsewhere, Shorts, FlagsTyped, memory, flags
<1>3. ThreadsTyped'
      BY DEF ScanReturns, Become, Step, Elsewhere, Shorts, ThreadsTyped, ThreadStates, memory, flags
<1>4. WaitersAnnounced'
      BY DEF ScanReturns, Become, Step, Elsewhere, Shorts, WaitersAnnounced, At, ThreadsTyped, ThreadStates, FlagsTyped, memory, flags
<1> DEFINE r == [daemon[d] EXCEPT !.pc = "top", !.target_met = daemon[d].short <= 0,
                                     !.short = 0, !.freed = FALSE]
<1>5. /\ daemon[d] \in DaemonStates /\ daemon[d].short \in Shorts
      /\ daemon[d].seq \in 0 .. vm_pageout_oom_seq /\ daemon[d].oom \in BOOLEAN
      BY DaemonHere
<1>6. /\ daemon[d].pc = "done" /\ Become(d, r) /\ vm_ndomains' = vm_ndomains
      /\ vm_pageout_oom_vote' = vm_pageout_oom_vote
      BY Zenon DEF ScanReturns, Step, Rest, Elsewhere
<1>7. r \in DaemonStates
  <2>1. (daemon[d].short <= 0) \in BOOLEAN
        OBVIOUS
  <2>. QED  BY <1>5, <2>1, Bounds, Zenon DEF DaemonStates
<1>8. r.pc = "top" /\ r.oom = daemon[d].oom
      BY <1>5, <1>6 DEF DaemonStates
<1>. HIDE DEF r
<1>9. DaemonsTyped' /\ DaemonHearsWaiters' /\ PlacesVote' /\ VotesCounted'
      BY <1>5, <1>6, <1>7, <1>8, DaemonSteps DEF Voted, ScanReturns, Elsewhere, flags
<1>. QED  BY <1>1, <1>2, <1>3, <1>4, <1>9

LEMMA LaunderKeeps ==
    ASSUME DInv, Launder
    PROVE  DInv'
<1>. USE PageDaemonAssumption DEF Launder, DInv, memory, flags
<1>1. PagesTyped'
      BY DEF PagesTyped, ThreadsTyped, ThreadStates
<1>2. FlagsTyped'
      BY DEF FlagsTyped
<1>3. ThreadsTyped'
      BY DEF ThreadsTyped, ThreadStates
<1>4. DaemonsTyped'
      BY DEF DaemonsTyped, DaemonStates, Domains, AllDomains, FlagsTyped
<1>5. WaitersAnnounced'
      BY DEF WaitersAnnounced, At, ThreadsTyped, ThreadStates, FlagsTyped
<1>6. DaemonHearsWaiters'
      BY DEF DaemonHearsWaiters, Step, Domains, AllDomains, DaemonsTyped, FlagsTyped
<1>7. PlacesVote'
      BY DEF PlacesVote, Domains, AllDomains, DaemonsTyped, FlagsTyped
<1>8. VotesCounted'
      BY DEF VotesCounted, Voters, Voted, Domains, AllDomains, DaemonsTyped, FlagsTyped
<1>. QED  BY <1>1, <1>2, <1>3, <1>4, <1>5, <1>6, <1>7, <1>8

LEMMA LaunderWaitsKeeps ==
    ASSUME DInv, LaunderWaits
    PROVE  DInv'
<1>. USE PageDaemonAssumption DEF LaunderWaits, DInv, memory, flags
<1>1. PagesTyped'
      BY DEF PagesTyped, ThreadsTyped, ThreadStates
<1>2. FlagsTyped'
      BY DEF FlagsTyped
<1>3. ThreadsTyped'
      BY DEF ThreadsTyped, ThreadStates
<1>4. DaemonsTyped'
      BY DEF DaemonsTyped, DaemonStates, Domains, AllDomains, FlagsTyped
<1>5. WaitersAnnounced'
      BY DEF WaitersAnnounced, At, ThreadsTyped, ThreadStates, FlagsTyped
<1>6. DaemonHearsWaiters'
      BY DEF DaemonHearsWaiters, Step, Domains, AllDomains, DaemonsTyped, FlagsTyped
<1>7. PlacesVote'
      BY DEF PlacesVote, Domains, AllDomains, DaemonsTyped, FlagsTyped
<1>8. VotesCounted'
      BY DEF VotesCounted, Voters, Voted, Domains, AllDomains, DaemonsTyped, FlagsTyped
<1>. QED  BY <1>1, <1>2, <1>3, <1>4, <1>5, <1>6, <1>7, <1>8

-----------------------------------------------------------------------------
(* All together *)

LEMMA DaemonInit == Init => DInv
<1>. SUFFICES ASSUME Init PROVE DInv
    OBVIOUS
<1>. USE PageDaemonAssumption DEF Init
<1>1. PagesTyped
      BY DEF PagesTyped
<1>2. FlagsTyped
  <2>1. vm_pageout_oom_vote \in Int
        OBVIOUS
  <2>2. vm_ndomains \in 1 .. MaxDomains
        OBVIOUS
  <2>. QED  BY <2>1, <2>2, Zenon DEF FlagsTyped
<1>3. ThreadsTyped
      BY DEF ThreadsTyped, ThreadStates
<1>4. DaemonsTyped
      BY Bounds DEF DaemonsTyped, DaemonStates
<1>5. \A d \in Domains : daemon[d].pc = "top" /\ daemon[d].oom = FALSE
      BY DEF Domains, AllDomains
<1>6. WaitersAnnounced
  <2>1. \A t \in Threads : thread[t].pc = "run"
        OBVIOUS
  <2>2. pager = "runs"
        OBVIOUS
  <2>. QED  BY <2>1, <2>2 DEF WaitersAnnounced, At
<1>7. DaemonHearsWaiters
  <2>1. vm_pages_needed = FALSE
        OBVIOUS
  <2>. QED  BY <2>1, Zenon DEF DaemonHearsWaiters
<1>8. PlacesVote
      BY <1>5 DEF PlacesVote
<1>9. Voters = {}
      BY <1>5 DEF Voters, Voted
<1>10. VotesCounted
      BY <1>9, FS_EmptySet DEF VotesCounted
<1>. QED  BY <1>1, <1>2, <1>3, <1>4, <1>6, <1>7, <1>8, <1>10, Zenon DEF DInv

LEMMA FreesKeep ==
    ASSUME DInv, UserFrees \/ VictimExits
    PROVE  DInv'
<1>1. killed \in BOOLEAN /\ 0 \in Nat /\ 1 \in Nat /\ clean \in Nat /\ dirty \in Nat
      BY DEF DInv, FlagsTyped, PagesTyped
<1>2. 0 .. clean \subseteq Nat /\ 0 .. dirty \subseteq Nat
      BY <1>1
<1>3. CASE UserFrees
      BY <1>1, <1>3, ReleaseKeeps, Zenon DEF UserFrees
<1>4. CASE VictimExits
  <2>1. killed' \in BOOLEAN
        BY <1>4 DEF VictimExits
  <2>. QED  BY <1>2, <1>4, <2>1, ReleaseKeeps, Zenon DEF VictimExits
<1>. QED  BY <1>3, <1>4

LEMMA DaemonNext == DInv /\ [Next]_vars => DInv'
<1>. SUFFICES ASSUME DInv, [Next]_vars PROVE DInv'
    OBVIOUS
<1>1. CASE UNCHANGED vars
  <2>1. UNCHANGED <<vm_ndomains, free, clean, dirty, vm_pageout_wanted, vm_pages_needed,
                    vm_pageout_pages_needed, vm_pageout_oom_vote, thread, daemon, pager, killed>>
        BY <1>1, Zenon DEF vars, memory, flags
  <2>2. Domains' = Domains
        BY <2>1, Zenon DEF Domains
  <2>3. VotesCounted'
        BY <2>1, <2>2, SameVotes, Zenon
  <2>. QED  BY <2>1, <2>2, <2>3, Zenon DEF DInv, PagesTyped, FlagsTyped, ThreadsTyped, DaemonsTyped,
               WaitersAnnounced, DaemonHearsWaiters, PlacesVote, At, Step
<1>2. ASSUME NEW t \in Threads, ThreadStep(t) PROVE DInv'
      BY <1>2, AllocKeeps, AllocFailKeeps, WaitKeeps, GiveUpKeeps, StoreKeeps, AdviseTestKeeps,
         AdviseSetKeeps, Zenon DEF ThreadStep
<1>3. ASSUME NEW d \in Domains, DaemonStep(d) \/ WorkerTimeout(d) PROVE DInv'
      BY <1>3, WorkerTopKeeps, WorkerSleepKeeps, WorkerTimeoutKeeps, ScanStartKeeps,
         ScanFreesKeeps, ScanEndKeeps, OomPatienceKeeps, OomCandidateKeeps, OomVoteKeeps,
         OomKillKeeps, OomRetractKeeps, ScanReturnsKeeps, Zenon DEF DaemonStep
<1>4. CASE Launder \/ LaunderWaits
      BY <1>4, LaunderKeeps, LaunderWaitsKeeps
<1>. QED  BY <1>1, <1>2, <1>3, <1>4, FreesKeep, Zenon DEF Next

\* Nothing but the last vote sends a page daemon to kill.
LEMMA OnlyVotesKill ==
    ASSUME DInv, Next, NEW d \in Domains, daemon[d].pc # "kill", daemon'[d].pc = "kill"
    PROVE  OomVote(d)
<1>. DEFINE kills(e) == daemon'[e].pc = "kill" /\ daemon[e].pc # "kill"
<1>1. d \in AllDomains /\ daemon[d] \in DaemonStates
      BY DaemonHere
<1>2. ASSUME WakeDaemons \/ UNCHANGED daemon PROVE FALSE
      BY <1>1, <1>2 DEF WakeDaemons, DaemonStates
<1>3. ASSUME NEW t \in Threads, ThreadStep(t) PROVE WakeDaemons \/ UNCHANGED daemon
      BY <1>3, Zenon DEF ThreadStep, Alloc, AllocFail, Wait, GiveUp, Store, AdviseTest, AdviseSet,
         PagedaemonWait
<1>4. ASSUME Launder \/ LaunderWaits \/ UserFrees \/ VictimExits PROVE UNCHANGED daemon
      BY <1>4, Zenon DEF Launder, LaunderWaits, UserFrees, VictimExits, Release
<1>5. ASSUME NEW e \in Domains, DaemonStep(e) \/ WorkerTimeout(e) PROVE OomVote(d)
  <2>1. e \in AllDomains /\ daemon[e] \in DaemonStates
        BY DaemonHere
  <2>2. ASSUME NEW r, Become(e, r), r.pc # "kill" PROVE FALSE
        BY <1>1, <2>2 DEF Become, DInv, DaemonsTyped
  <2>3. ASSUME OomVote(e), e # d PROVE FALSE
    <3>1. \E r : Become(e, r)
          BY <2>3, Zenon DEF OomVote, Rest
    <3>. QED  BY <1>1, <2>3, <3>1 DEF Become, DInv, DaemonsTyped
  <2>4. ~WorkerTop(e)
        BY <2>1, <2>2 DEF WorkerTop, DaemonStates
  <2>5. ~WorkerSleep(e) /\ ~WorkerTimeout(e) /\ ~ScanStart(e)
        BY <2>1, <2>2 DEF WorkerSleep, WorkerTimeout, ScanStart, Rest, DaemonStates
  <2>6. ~ScanFrees(e) /\ ~ScanEnd(e) /\ ~ScanReturns(e)
        BY <2>1, <2>2 DEF ScanFrees, ScanEnd, ScanReturns, Step, DaemonStates
  <2>7. ~OomPatience(e) /\ ~OomCandidate(e)
        BY <2>1, <2>2 DEF OomPatience, OomCandidate, DaemonStates
  <2>8. ~OomKill(e) /\ ~OomRetract(e)
        BY <2>1, <2>2 DEF OomKill, OomRetract, Rest, DaemonStates
  <2>. QED  BY <1>5, <2>3, <2>4, <2>5, <2>6, <2>7, <2>8, Zenon DEF DaemonStep
<1>. QED  BY <1>2, <1>3, <1>4, <1>5, Zenon DEF Next

\* A set of votes that lacks one domain's and has as many as there are others
\* has all of theirs.
LEMMA QuorumAgrees ==
    ASSUME DInv, Next, NEW d \in Domains, daemon[d].pc # "kill", daemon'[d].pc = "kill"
    PROVE  \A e \in Domains \ {d} : Voted(daemon[e])
<1>1. OomVote(d) /\ daemon[d].pc = "vote"
      BY OnlyVotesKill DEF OomVote, Step
<1>2. vm_pageout_oom_vote = vm_ndomains - 1
  <2>1. d \in AllDomains
        BY DaemonHere
  <2>. QED  BY <1>1, <2>1 DEF OomVote, Rest, Become, DInv, DaemonsTyped, DaemonStates
<1>3. Voters \subseteq Domains \ {d}
      BY <1>1 DEF Voters, Voted
<1>4. Cardinality(Voters) = vm_ndomains - 1
      BY <1>2 DEF DInv, VotesCounted
<1>5. IsFiniteSet(Domains \ {d}) /\ Cardinality(Domains \ {d}) = vm_ndomains - 1
      BY VotersFinite, FS_RemoveElement
<1>6. Voters = Domains \ {d}
      BY <1>3, <1>4, <1>5, FS_Subset
<1>. QED  BY <1>6 DEF Voters

-----------------------------------------------------------------------------

\* The count of the votes is that of the domains that have one out, whoever
\* loses or finds patience meanwhile (vm_pageout.c:1577, 1595, 1613).
THEOREM VotesAreExact == Spec => []VotesExact
<1>1. ASSUME DInv PROVE VotesExact
  <2>1. TypeOK
    <3>1. free \in 0 .. MaxPages /\ clean \in 0 .. MaxPages /\ dirty \in 0 .. MaxPages
          BY <1>1, PageDaemonAssumption DEF DInv, PagesTyped
    <3>. QED  BY <1>1, <3>1, Zenon DEF DInv, FlagsTyped, ThreadsTyped, DaemonsTyped,
              ThreadStates, DaemonStates, TypeOK
  <2>2. Voters = {d \in Domains : (daemon[d].oom /\ ~Step(d, "vote")) \/ Step(d, "retract")}
        BY Zenon DEF Voters, Voted, Step
  <2>. QED  BY <1>1, <2>1, <2>2, Zenon DEF DInv, VotesCounted, VotesExact
<1>. QED  BY <1>1, DaemonInit, DaemonNext, PTL DEF Spec

\* A page daemon sets out to kill only when every other domain has voted for it
\* (vm_pageout.c:1563, 1595).
THEOREM KillIsAgreed == Spec => KillNeedsQuorum
<1>1. DInv /\ [Next]_vars =>
          [\A d \in Domains : ~Step(d, "kill") /\ daemon'[d].pc = "kill" =>
              \A e \in Domains \ {d} :
                  (daemon[e].oom /\ ~Step(e, "vote")) \/ Step(e, "retract")]_vars
      BY QuorumAgrees, Zenon DEF Step, Voted
<1>. QED  BY <1>1, DaemonInit, DaemonNext, PTL DEF Spec, KillNeedsQuorum

\* Whoever sleeps for pages has left the flag that gets it woken, and no page
\* daemon sleeps meanwhile (vm_page.c:2843, 2853; vm_pageout.c:1823, 2000).
THEOREM WaitersAreHeard == Spec => []WaitersHeard
<1>1. DInv => WaitersHeard
      BY DEF DInv, WaitersHeard
<1>. QED  BY <1>1, DaemonInit, DaemonNext, PTL DEF Spec

-----------------------------------------------------------------------------
(* Laundry                                                                 *)

Workers ==
    [pc : {"decide", "launder", "check", "asleep", "answer"},
     target : Nat, shortfall : Nat, launder : Nat, in_shortfall : BOOLEAN,
     cycle : 0 .. LaunderCycles]

Typed ==
    /\ vm_laundry_request \in {"IDLE", "BACKGROUND", "SHORTFALL"}
    /\ shortage \in 0 .. MaxTarget
    /\ poster \in [Posters -> {"scans", "missed", "met"}]
    /\ worker \in Workers

\* The laundry thread goes to sleep on an idle request with the lock that every
\* post takes, and a post wakes it.
Awaited == worker.pc = "asleep" => vm_laundry_request = "IDLE"

LInv == Typed /\ Awaited

-----------------------------------------------------------------------------
(* A turn of the loop *)

LEMMA TurnTyped ==
    ASSUME NEW w \in Workers, NEW n \in Nat, NEW v \in Turn(w, n)
    PROVE  v \in Workers /\ v.pc # "asleep"
BY DEF Turn, Workers

\* A share of the target is taken by a cycle that is not 0.
LEMMA ShortfallTurnTyped ==
    ASSUME NEW w \in Workers, w.cycle # 0, NEW v \in ShortfallTurn(w)
    PROVE  v \in Workers /\ v.pc # "asleep"
<1> DEFINE u == [w EXCEPT !.cycle = @ - 1, !.shortfall = 0]
<1>1. u \in Workers
  <2>1. w.cycle - 1 \in 0 .. LaunderCycles
        BY LaundryAssumption DEF Workers
  <2>. QED  BY <2>1, Zenon DEF Workers
<1>2. w.target \div w.cycle \in Nat
      BY LaundryAssumption DEF Workers
<1>3. v \in Turn(u, w.target \div w.cycle)
      BY DEF ShortfallTurn
<1>. QED  BY <1>1, <1>2, <1>3, TurnTyped

LEMMA BackgroundTurnTyped ==
    ASSUME NEW w \in Workers, NEW v \in BackgroundTurn(w)
    PROVE  v \in Workers /\ v.pc # "asleep"
<1>1. PICK target \in IF w.target = 0 THEN {0, BackgroundTarget} ELSE {0, w.target} :
          v \in Turn([w EXCEPT !.target = target], Min({BackgroundRate, target}))
      BY DEF BackgroundTurn
<1>2. target \in Nat
      BY LaundryAssumption DEF Workers
<1>3. Min({BackgroundRate, target}) \in Nat
      BY <1>2, MinOfTwo, LaundryAssumption
<1>4. [w EXCEPT !.target = target] \in Workers
      BY <1>2 DEF Workers
<1>. QED  BY <1>1, <1>3, <1>4, TurnTyped

LEMMA TurnsTyped ==
    ASSUME Typed, NEW v \in Turns
    PROVE  v \in Workers /\ v.pc # "asleep"
<1> DEFINE begun == [worker EXCEPT !.in_shortfall = TRUE, !.cycle = LaunderCycles,
                                   !.target = worker.shortfall]
           ended == [worker EXCEPT !.in_shortfall = FALSE, !.cycle = 0, !.target = 0]
<1>1. worker \in Workers
      BY DEF Typed
<1>2. worker.shortfall \in Nat
      BY <1>1 DEF Workers
<1>3. 0 \in 0 .. LaunderCycles /\ LaunderCycles \in 0 .. LaunderCycles /\ 0 \in Nat
      BY LaundryAssumption
<1>4. begun \in Workers /\ ended \in Workers
      BY <1>1, <1>2, <1>3, Zenon DEF Workers
<1>5. begun.cycle # 0
      BY <1>1, LaundryAssumption DEF Workers
<1>6. CASE worker.shortfall > 0
  <2>1. ~(worker.shortfall <= 0)
        BY <1>6, <1>2
  <2>2. v \in ShortfallTurn(begun)
        BY <1>6, <2>1, Zenon DEF Turns
  <2>. QED  BY <2>2, <1>4, <1>5, ShortfallTurnTyped
<1>7. CASE worker.shortfall <= 0 /\ ~worker.in_shortfall
  <2>1. ~(worker.shortfall > 0)
        BY <1>7, <1>2
  <2>2. v \in BackgroundTurn(worker)
        BY <1>7, <2>1 DEF Turns
  <2>. QED  BY <2>2, <1>1, BackgroundTurnTyped
<1>8. CASE worker.shortfall <= 0 /\ worker.in_shortfall /\ (worker.cycle = 0 \/ shortage <= 0)
  <2>1. ~(worker.shortfall > 0)
        BY <1>8, <1>2
  <2>2. v \in BackgroundTurn(ended)
        BY <1>8, <2>1 DEF Turns
  <2>. QED  BY <2>2, <1>4, BackgroundTurnTyped
<1>9. CASE worker.shortfall <= 0 /\ worker.in_shortfall /\ ~(worker.cycle = 0 \/ shortage <= 0)
  <2>1. ~(worker.shortfall > 0)
        BY <1>9, <1>2
  <2>2. v \in ShortfallTurn(worker)
        BY <1>9, <2>1 DEF Turns
  <2>. QED  BY <2>2, <1>9, <1>1, ShortfallTurnTyped
<1>10. worker.shortfall > 0 \/ worker.shortfall <= 0
      BY <1>2
<1>. QED  BY <1>6, <1>7, <1>8, <1>9, <1>10

-----------------------------------------------------------------------------
(* The inductive invariant *)

LEMMA LaundryInitInv == LaundryInit => LInv
BY LaundryAssumption DEF LaundryInit, LInv, Typed, Awaited, Workers

LEMMA LaundryNextInv == LInv /\ [LaundryNext]_laundryVars => LInv'
<1> SUFFICES ASSUME LInv, [LaundryNext]_laundryVars PROVE LInv'
    OBVIOUS
<1> USE DEF LInv, Awaited
<1>1. ASSUME NEW p \in Posters, ScanDone(p) PROVE LInv'
      BY <1>1 DEF ScanDone, Typed
<1>2. ASSUME NEW p \in Posters, Post(p) PROVE LInv'
  <2>1. Posted(p) \in {"IDLE", "BACKGROUND", "SHORTFALL"}
        BY DEF Posted
  <2>2. worker'.pc # "asleep" /\ worker' \in Workers
        BY <1>2 DEF Post, Typed, Workers
  <2>. QED  BY <1>2, <2>1, <2>2 DEF Post, Typed
<1>3. CASE LaundryDecides
      BY <1>3, TurnsTyped DEF LaundryDecides, Typed
<1>4. CASE Launders
  <2>1. PICK n \in 0 .. worker.launder + 1 :
            worker' = [worker EXCEPT !.pc = "check", !.launder = 0, !.target = @ - Min({n, @})]
        BY <1>4 DEF Launders
  <2>2. n \in Nat /\ worker.target \in Nat
        BY DEF Typed, Workers
  <2>3. worker.target - Min({n, worker.target}) \in Nat
        BY <2>2, MinOfTwo
  <2>4. worker' \in Workers /\ worker'.pc = "check"
        BY <2>1, <2>3 DEF Typed, Workers
  <2>. QED  BY <1>4, <2>4 DEF Launders, Typed
<1>5. CASE LaundrySleeps
      BY <1>5 DEF LaundrySleeps, NothingToDo, Typed, Workers
<1>6. CASE LaundryAnswers
  <2>1. shortage \in Nat
        BY LaundryAssumption DEF Typed
  <2>2. worker' \in Workers /\ worker'.pc = "decide"
        BY <1>6, <2>1 DEF LaundryAnswers, Typed, Workers
  <2>. QED  BY <1>6, <2>2 DEF LaundryAnswers, Typed
<1>7. CASE ShortageChanges
      BY <1>7 DEF ShortageChanges, Typed
<1>8. CASE UNCHANGED laundryVars
      BY <1>8 DEF laundryVars, Typed
<1>. QED  BY <1>1, <1>2, <1>3, <1>4, <1>5, <1>6, <1>7, <1>8 DEF LaundryNext, WorkerStep

LEMMA LaundryInvHolds == LaundrySpec => []LInv
BY LaundryInitInv, LaundryNextInv, PTL DEF LaundrySpec

-----------------------------------------------------------------------------

\* The laundry thread never sleeps on a request, and every target and share of
\* one stays a natural number (vm_pageout.c:1058, 1370, 989).
THEOREM RequestsSeen == LaundrySpec => []RequestSeen
<1>1. LInv => RequestSeen
      BY DEF LInv, Typed, Awaited, Workers, RequestSeen, LaundryTypeOK
<1>. QED  BY <1>1, LaundryInvHolds, PTL

\* No step of any page daemon or of the laundry thread turns a request for a
\* shortfall into one for background laundering (vm_pageout.c:1377).
THEOREM ShortfallsKept == LaundrySpec => ShortfallKept
<1> DEFINE Kept == vm_laundry_request = "SHORTFALL" => vm_laundry_request' # "BACKGROUND"
<1>1. [LaundryNext]_laundryVars => [Kept]_laundryVars
  <2> SUFFICES ASSUME LaundryNext, vm_laundry_request = "SHORTFALL"
               PROVE  vm_laundry_request' # "BACKGROUND"
      OBVIOUS
  <2>1. ASSUME NEW p \in Posters, ScanDone(p) \/ Post(p)
        PROVE  vm_laundry_request' # "BACKGROUND"
        BY <2>1 DEF ScanDone, Post, Posted
  <2>2. CASE WorkerStep
        BY <2>2 DEF WorkerStep, LaundryDecides, Launders, LaundrySleeps, LaundryAnswers
  <2>3. CASE ShortageChanges
        BY <2>3 DEF ShortageChanges
  <2>. QED  BY <2>1, <2>2, <2>3 DEF LaundryNext
<1>. QED  BY <1>1, PTL DEF LaundrySpec, ShortfallKept
=============================================================================
