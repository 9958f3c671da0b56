--------------------------- MODULE ProcessProofs ----------------------------
(***************************************************************************)
(* Proofs about one process and its threads: sections, lent priorities and *)
(* the shell's children.                                                   *)
(***************************************************************************)
EXTENDS Critical, Lending, ArgShell, Interact, LibraryFacts

(* Critical: an owed preemption is made when the last section is left and  *)
(* not before, for any depth of nesting.                                   *)

\* td_critnest counts the sections the thread has entered, and the one that
\* critical_exit raises again while it waits for the thread lock.
CountsTyped == critnest \in Nat /\ depth \in Nat

FlagsTyped ==
    /\ owepreempt \in BOOLEAN /\ switched \in BOOLEAN /\ better \in BOOLEAN
    /\ at \in {"runs", "read", "lock"}

NestingExact ==
    /\ critnest = depth + (IF at = "lock" THEN 1 ELSE 0)
    /\ at # "runs" => depth = 0

CInv == CountsTyped /\ FlagsTyped /\ NestingExact /\ PreemptionsMade

LEMMA CriticalInitInv == CriticalInit => CInv
<1> SUFFICES ASSUME CriticalInit PROVE CInv
    OBVIOUS
<1> USE DEF CriticalInit
<1>1. CountsTyped /\ FlagsTyped
      BY DEF CountsTyped, FlagsTyped
<1>2. NestingExact
      BY DEF NestingExact
<1>3. PreemptionsMade
      BY Zenon DEF PreemptionsMade, OwedIsPaid, SectionsUnbroken
<1>. QED  BY <1>1, <1>2, <1>3 DEF CInv

LEMMA CriticalNextInv == CInv /\ [CriticalNext]_criticalVars => CInv'
<1> SUFFICES ASSUME CInv, [CriticalNext]_criticalVars PROVE CInv'
    OBVIOUS
<1> USE DEF CInv
<1>1. CASE critical_enter
  <2> USE <1>1 DEF critical_enter
  <2>1. CountsTyped'
        BY DEF CountsTyped, NestingExact
  <2>2. FlagsTyped'
        BY Zenon DEF FlagsTyped
  <2>3. NestingExact'
        BY DEF CountsTyped, NestingExact
  <2>4. PreemptionsMade'
        BY DEF CountsTyped, FlagsTyped, NestingExact, PreemptionsMade, OwedIsPaid, SectionsUnbroken
  <2>. QED  BY <2>1, <2>2, <2>3, <2>4
<1>2. CASE ExitInner
  <2> USE <1>2 DEF ExitInner
  <2>1. CountsTyped'
        BY DEF CountsTyped, NestingExact
  <2>2. FlagsTyped'
        BY Zenon DEF FlagsTyped
  <2>3. NestingExact'
        BY DEF CountsTyped, NestingExact
  <2>4. PreemptionsMade'
        BY DEF CountsTyped, FlagsTyped, NestingExact, PreemptionsMade, OwedIsPaid, SectionsUnbroken
  <2>. QED  BY <2>1, <2>2, <2>3, <2>4
<1>3. CASE ExitOuter
  <2> USE <1>3 DEF ExitOuter
  <2>1. CountsTyped'
        BY DEF CountsTyped, NestingExact
  <2>2. FlagsTyped'
        BY Zenon DEF FlagsTyped
  <2>3. NestingExact'
        BY DEF CountsTyped, NestingExact
  <2>4. PreemptionsMade'
        BY DEF CountsTyped, FlagsTyped, NestingExact, PreemptionsMade, OwedIsPaid, SectionsUnbroken
  <2>. QED  BY <2>1, <2>2, <2>3, <2>4
<1>4. CASE ExitRead
  <2> USE <1>4 DEF ExitRead
  <2>1. CountsTyped'
        BY DEF CountsTyped, NestingExact
  <2>2. FlagsTyped'
        BY Zenon DEF FlagsTyped
  <2>3. NestingExact'
        BY DEF CountsTyped, NestingExact
  <2>4. PreemptionsMade'
        BY DEF CountsTyped, FlagsTyped, NestingExact, PreemptionsMade, OwedIsPaid, SectionsUnbroken
  <2>. QED  BY <2>1, <2>2, <2>3, <2>4
<1>5. CASE ExitSwitch
  <2> USE <1>5 DEF ExitSwitch, Switch
  <2>1. CountsTyped'
        BY DEF CountsTyped, NestingExact
  <2>2. FlagsTyped'
        BY Zenon DEF FlagsTyped
  <2>3. NestingExact'
        BY DEF CountsTyped, NestingExact
  <2>4. PreemptionsMade'
        BY DEF CountsTyped, FlagsTyped, NestingExact, PreemptionsMade, OwedIsPaid, SectionsUnbroken
  <2>. QED  BY <2>1, <2>2, <2>3, <2>4
<1>6. CASE Yields
  <2> USE <1>6 DEF Yields, Switch
  <2>1. CountsTyped'
        BY DEF CountsTyped, NestingExact
  <2>2. FlagsTyped'
        BY Zenon DEF FlagsTyped
  <2>3. NestingExact'
        BY DEF CountsTyped, NestingExact
  <2>4. PreemptionsMade'
        BY DEF CountsTyped, FlagsTyped, NestingExact, PreemptionsMade, OwedIsPaid, SectionsUnbroken
  <2>. QED  BY <2>1, <2>2, <2>3, <2>4
<1>7. CASE InterruptWakes
  <2> USE <1>7 DEF InterruptWakes, LeaveHandler
  <2>1. CountsTyped'
        BY DEF CountsTyped, NestingExact
  <2>2. FlagsTyped'
        BY Zenon DEF FlagsTyped
  <2>3. NestingExact'
        BY DEF CountsTyped, NestingExact
  <2>4. PreemptionsMade'
        BY DEF CountsTyped, FlagsTyped, NestingExact, PreemptionsMade, OwedIsPaid, SectionsUnbroken
  <2>. QED  BY <2>1, <2>2, <2>3, <2>4
<1>8. CASE RemoteWakes
  <2> USE <1>8 DEF RemoteWakes
  <2>1. CountsTyped'
        BY DEF CountsTyped, NestingExact
  <2>2. FlagsTyped'
        BY Zenon DEF FlagsTyped
  <2>3. NestingExact'
        BY DEF CountsTyped, NestingExact
  <2>4. PreemptionsMade'
        BY DEF CountsTyped, FlagsTyped, NestingExact, PreemptionsMade, OwedIsPaid, SectionsUnbroken
  <2>. QED  BY <2>1, <2>2, <2>3, <2>4
<1>9. CASE PreemptIpi
  <2> USE <1>9 DEF PreemptIpi, Switch
  <2>1. CountsTyped'
        BY DEF CountsTyped, NestingExact
  <2>2. FlagsTyped'
        BY Zenon DEF FlagsTyped
  <2>3. NestingExact'
        BY DEF CountsTyped, NestingExact
  <2>4. MayPreempt => depth = 0 /\ at # "lock"
        BY DEF MayPreempt, CountsTyped, NestingExact
  <2>5. ~MayPreempt => depth # 0 \/ at = "lock"
        BY DEF MayPreempt, CountsTyped, NestingExact
  <2>6. PreemptionsMade'
        BY <2>4, <2>5, Zenon DEF PreemptionsMade, OwedIsPaid, SectionsUnbroken
  <2>. QED  BY <2>1, <2>2, <2>3, <2>6
<1>10. CASE UNCHANGED criticalVars
  <2> USE <1>10 DEF criticalVars
  <2>1. CountsTyped'
        BY DEF CountsTyped, NestingExact
  <2>2. FlagsTyped'
        BY Zenon DEF FlagsTyped
  <2>3. NestingExact'
        BY DEF CountsTyped, NestingExact
  <2>4. PreemptionsMade'
        BY DEF CountsTyped, FlagsTyped, NestingExact, PreemptionsMade, OwedIsPaid, SectionsUnbroken
  <2>. QED  BY <2>1, <2>2, <2>3, <2>4
<1>. QED  BY <1>1, <1>2, <1>3, <1>4, <1>5, <1>6, <1>7, <1>8, <1>9, <1>10 DEF CriticalNext

\* What an interrupt owes in any nesting of sections is paid when the last one
\* is left, and the thread is never switched out inside one (kern_switch.c:
\* 211-251, sched_ule.c:2403).
THEOREM PreemptionMade == CriticalSpec => []PreemptionsMade
<1>1. CInv => PreemptionsMade
      BY DEF CInv
<1>. QED  BY CriticalInitInv, CriticalNextInv, <1>1, PTL DEF CriticalSpec

-----------------------------------------------------------------------------
(* Lending: for any priorities and any number of waiters                   *)

Prios == Pris \cup {PRI_MAX}

Priorities ==
    [priority : Prios, base_pri : Prios, user_pri : Prios, base_user_pri : Prios,
     lend_user_pri : Prios, borrowing : BOOLEAN]

Typed == pri \in Priorities /\ waiters \subseteq Pris

\* A record of priorities in which what is lent in user space is not lost.
Kept(r) == r \in Priorities /\ r.user_pri <= Min({r.lend_user_pri, r.base_user_pri})

PInv == Typed /\ LendingExact

LEMMA PriosNat == Prios \subseteq Nat /\ \A p \in Prios : p <= PRI_MAX
BY LendingAssumption DEF Prios

LEMMA BestIsLeast ==
    ASSUME NEW S \in SUBSET Pris
    PROVE  Best(S) \in Prios /\ \A p \in S : Best(S) <= p
<1>1. S \cup {PRI_MAX} \in SUBSET Nat /\ S \cup {PRI_MAX} # {}
      BY PriosNat DEF Prios
<1>2. Best(S) \in S \cup {PRI_MAX} /\ \A p \in S \cup {PRI_MAX} : Best(S) <= p
      BY <1>1, MinIsLeast DEF Best
<1>. QED  BY <1>2 DEF Prios

LEMMA NothingLent == Best({}) = PRI_MAX
<1>1. PRI_MAX \in Int
      BY LendingAssumption
<1>2. Min({PRI_MAX, PRI_MAX}) = PRI_MAX
      BY <1>1, MinOfTwo
<1>3. {} \cup {PRI_MAX} = {PRI_MAX, PRI_MAX}
      OBVIOUS
<1>. QED  BY <1>2, <1>3 DEF Best

LEMMA MinOfPrios ==
    ASSUME NEW a \in Prios, NEW b \in Prios
    PROVE  Min({a, b}) \in Prios /\ Min({a, b}) <= a /\ Min({a, b}) <= b
BY PriosNat, MinOfTwo

-----------------------------------------------------------------------------
(* What each function of the scheduler preserves *)

LEMMA LendPrio ==
    ASSUME NEW r, Kept(r), NEW p \in Prios
    PROVE  LET s == sched_lend_prio(r, p)
           IN  Kept(s) /\ s.priority = p
BY DEF sched_lend_prio, Kept, Priorities

\* Nothing stays borrowed when nothing is lent any more, and what is still lent
\* is kept.
LEMMA UnlendPrio ==
    ASSUME NEW r, Kept(r), NEW p \in Prios
    PROVE  LET s == sched_unlend_prio(r, p)
           IN  Kept(s) /\ s.priority <= p /\ (p = PRI_MAX => ~s.borrowing)
<1> DEFINE base == IF r.base_pri \in Timeshare THEN r.user_pri ELSE r.base_pri
           s == sched_unlend_prio(r, p)
<1>1. base \in Prios /\ base \in Nat /\ p \in Nat /\ base <= PRI_MAX
      BY PriosNat DEF Kept, Priorities
<1>2. CASE p >= base
  <2>1. s = [r EXCEPT !.borrowing = FALSE, !.priority = base]
        BY <1>2 DEF sched_unlend_prio
  <2>. QED  BY <2>1, <1>1, <1>2 DEF Kept, Priorities
<1>3. CASE ~(p >= base)
  <2>1. s = sched_lend_prio(r, p)
        BY <1>3 DEF sched_unlend_prio
  <2>. QED  BY <2>1, <1>1, <1>3, LendPrio
<1>. QED  BY <1>2, <1>3

LEMMA PrioritiesOf ==
    ASSUME NEW r \in Priorities
    PROVE  /\ r.priority \in Prios /\ r.base_pri \in Prios /\ r.user_pri \in Prios
           /\ r.base_user_pri \in Prios /\ r.lend_user_pri \in Prios
           /\ r.borrowing \in BOOLEAN
BY DEF Priorities

\* A borrowed priority is not lowered, and is borrowed on.
LEMMA OwnPrio ==
    ASSUME NEW r, Kept(r), NEW p \in Prios
    PROVE  LET s == sched_prio(r, p)
           IN  /\ Kept(s) /\ s.borrowing = r.borrowing
               /\ r.borrowing => s.priority <= r.priority
<1> DEFINE v == IF r.borrowing /\ r.priority < p THEN r.priority ELSE p
           s == sched_prio(r, p)
<1>1. r \in Priorities /\ r.priority \in Prios /\ r.borrowing \in BOOLEAN
      BY PrioritiesOf DEF Kept
<1>2. r.priority \in Nat /\ p \in Nat
      BY <1>1, PriosNat
<1>3. v \in Prios
      BY <1>1
<1>4. r.borrowing => v <= r.priority
      BY <1>2
<1>5. s = [r EXCEPT !.base_pri = p, !.priority = v]
      BY <1>1 DEF sched_prio, Priorities
<1>. HIDE DEF v, s
<1>6. s \in Priorities
      BY <1>1, <1>3, <1>5 DEF Priorities
<1>7. /\ s.borrowing = r.borrowing /\ s.priority = v
      /\ s.user_pri = r.user_pri /\ s.lend_user_pri = r.lend_user_pri
      /\ s.base_user_pri = r.base_user_pri
      BY <1>1, <1>5 DEF Priorities
<1>8. Kept(s)
      BY <1>6, <1>7 DEF Kept
<1>. QED  BY <1>4, <1>7, <1>8, Zenon DEF s

LEMMA OwnUserPrio ==
    ASSUME NEW r, Kept(r), NEW p \in Prios
    PROVE  LET s == sched_user_prio(r, p)
           IN  Kept(s) /\ s.borrowing = r.borrowing /\ s.priority = r.priority
<1> DEFINE lent == r.lend_user_pri
           u == IF lent <= p THEN r.user_pri ELSE p
           s == sched_user_prio(r, p)
<1>1. r \in Priorities /\ r.user_pri \in Prios /\ lent \in Prios
      /\ r.base_user_pri \in Prios
      BY PrioritiesOf DEF Kept
<1>2. r.user_pri \in Nat /\ lent \in Nat /\ p \in Nat /\ r.base_user_pri \in Nat
      BY <1>1, PriosNat
<1>3. Min({lent, r.base_user_pri}) <= lent /\ Min({lent, r.base_user_pri}) \in Nat
      BY <1>1, MinOfPrios, PriosNat
<1>4. r.user_pri <= Min({lent, r.base_user_pri})
      BY DEF Kept
<1>. HIDE DEF lent
<1>5. r.user_pri <= lent
      BY <1>2, <1>3, <1>4
<1>6. Min({lent, p}) = IF lent <= p THEN lent ELSE p
      BY <1>2, MinOfTwo
<1>7. u \in Prios /\ u <= Min({lent, p})
      BY <1>1, <1>2, <1>5, <1>6
<1>8. s = [r EXCEPT !.base_user_pri = p, !.user_pri = u]
      BY <1>1 DEF sched_user_prio, Priorities, lent
<1>. HIDE DEF u, s
<1>9. s \in Priorities
      BY <1>1, <1>7, <1>8 DEF Priorities
<1>10. /\ s.borrowing = r.borrowing /\ s.priority = r.priority
       /\ s.user_pri = u /\ s.lend_user_pri = lent /\ s.base_user_pri = p
      BY <1>1, <1>8 DEF Priorities, lent
<1>11. Kept(s)
      BY <1>7, <1>9, <1>10 DEF Kept
<1>. QED  BY <1>10, <1>11, Zenon DEF s

LEMMA LendUserPrio ==
    ASSUME NEW r, Kept(r), NEW p \in Prios
    PROVE  LET s == sched_lend_user_prio(r, p)
           IN  /\ Kept(s) /\ s.borrowing = r.borrowing
               /\ r.borrowing => s.priority <= r.priority
<1> DEFINE u == Min({p, r.base_user_pri})
           lent == [r EXCEPT !.lend_user_pri = p, !.user_pri = u]
           s == sched_lend_user_prio(r, p)
<1>1. r \in Priorities /\ r.base_user_pri \in Prios /\ r.priority \in Prios
      BY PrioritiesOf DEF Kept
<1>2. u \in Prios
      BY <1>1, MinOfPrios
<1>3. u \in Nat /\ r.priority \in Nat
      BY <1>1, <1>2, PriosNat
<1>4. s = IF lent.priority > lent.user_pri THEN sched_prio(lent, lent.user_pri) ELSE lent
      BY DEF sched_lend_user_prio
<1>. HIDE DEF u, s
<1>5. lent \in Priorities
      BY <1>1, <1>2 DEF Priorities
<1>6. /\ lent.borrowing = r.borrowing /\ lent.priority = r.priority
      /\ lent.user_pri = u /\ lent.lend_user_pri = p
      /\ lent.base_user_pri = r.base_user_pri
      BY <1>1 DEF Priorities
<1>. HIDE DEF lent
<1>7. Min({lent.lend_user_pri, lent.base_user_pri}) = u
      BY <1>6 DEF u
<1>8. Kept(lent)
      BY <1>3, <1>5, <1>6, <1>7 DEF Kept
<1>9. CASE lent.priority > lent.user_pri
  <2>1. s = sched_prio(lent, u)
        BY <1>4, <1>6, <1>9
  <2>2. Kept(s) /\ s.borrowing = lent.borrowing
        /\ (lent.borrowing => s.priority <= lent.priority)
        BY <1>2, <1>8, <2>1, OwnPrio
  <2>. QED  BY <1>6, <2>2, Zenon DEF s
<1>10. CASE ~(lent.priority > lent.user_pri)
  <2>1. s = lent
        BY <1>4, <1>10
  <2>2. s.priority <= r.priority
        BY <1>3, <1>6, <2>1
  <2>3. Kept(s) /\ s.borrowing = r.borrowing
        BY <1>6, <1>8, <2>1, Zenon
  <2>. QED  BY <2>2, <2>3, Zenon DEF s
<1>. QED  BY <1>9, <1>10

-----------------------------------------------------------------------------
(* The inductive invariant *)

LEMMA LendingInitially == LendingInit => PInv
<1>. SUFFICES ASSUME LendingInit PROVE PInv
      OBVIOUS
<1>1. PICK p \in Timeshare :
          pri = [priority |-> p, base_pri |-> p, user_pri |-> p, base_user_pri |-> p,
                 lend_user_pri |-> PRI_MAX, borrowing |-> FALSE]
      BY DEF LendingInit
<1>2. p \in Prios /\ PRI_MAX \in Prios /\ p \in Nat /\ PRI_MAX \in Nat /\ p <= PRI_MAX
      BY LendingAssumption, PriosNat DEF Prios
<1>3. Min({PRI_MAX, p}) = p
      BY <1>2, MinOfTwo
<1>4. pri.lend_user_pri = PRI_MAX /\ pri.base_user_pri = p /\ pri.user_pri = p
      /\ ~pri.borrowing
      BY <1>1
<1>5. pri \in Priorities
      BY <1>1, <1>2 DEF Priorities
<1>6. UserLendKept
      BY <1>2, <1>3, <1>4 DEF UserLendKept
<1>. QED  BY <1>4, <1>5, <1>6 DEF LendingInit, PInv, Typed, LendingExact, BorrowingEnds

\* Whoever stops waiting, what is left is lent on.
LEMMA ReleaseKeeps ==
    ASSUME PInv, Release
    PROVE  PInv' /\ pri'.priority <= Best(waiters')
<1>1. Kept(pri) /\ waiters \subseteq Pris
      BY Zenon DEF PInv, Typed, LendingExact, UserLendKept, Kept
<1>2. PICK left \in SUBSET waiters : waiters' = left /\ pri' = sched_unlend_prio(pri, Best(left))
      BY Zenon DEF Release
<1>3. left \in SUBSET Pris /\ Best(left) \in Prios
      BY <1>1, BestIsLeast
<1>4. /\ Kept(pri') /\ pri'.priority <= Best(left)
      /\ (Best(left) = PRI_MAX => ~pri'.borrowing)
      BY <1>1, <1>2, <1>3, UnlendPrio, Zenon
<1>5. waiters' = {} => ~pri'.borrowing
      BY <1>2, <1>4, NothingLent, Zenon
<1>. QED  BY <1>2, <1>3, <1>4, <1>5, Zenon
          DEF PInv, Typed, LendingExact, BorrowingEnds, UserLendKept, Kept

\* Every other step of the thread.
LEMMA OthersKeep ==
    ASSUME PInv, waiters' = waiters, Kept(pri'),
           waiters = {} => (pri'.borrowing = pri.borrowing \/ ~pri'.borrowing)
    PROVE  PInv'
BY Zenon DEF PInv, Typed, LendingExact, BorrowingEnds, UserLendKept, Kept

\* What a step does to what is borrowed, and that the invariant holds after it.
StepKeeps ==
    /\ PInv'
    /\ (pri.borrowing /\ waiters \subseteq waiters') =>
            (pri'.borrowing /\ pri'.priority <= pri.priority)

LEMMA BlockKeeps ==
    ASSUME PInv, NEW p \in Pris, Block(p)
    PROVE  StepKeeps /\ ~(waiters' \subseteq waiters)
<1>1. Kept(pri) /\ waiters \subseteq Pris /\ pri \in Priorities
      BY Zenon DEF PInv, Typed, LendingExact, UserLendKept, Kept
<1>2. p \in Prios /\ pri.priority \in Prios
      BY <1>1, PrioritiesOf DEF Prios
<1>3. p \in Nat /\ pri.priority \in Nat
      BY <1>2, PriosNat
<1>4. waiters' = waiters \cup {p} /\ p \notin waiters
      BY DEF Block
<1>5. CASE p < pri.priority
  <2>1. pri' = sched_lend_prio(pri, p)
        BY <1>5 DEF Block
  <2>2. Kept(pri') /\ pri'.priority = p
        BY <1>1, <1>2, <2>1, LendPrio
  <2>3. pri'.borrowing
        BY <1>1, <2>1 DEF sched_lend_prio, Priorities
  <2>4. pri'.priority <= pri.priority
        BY <1>3, <1>5, <2>2
  <2>. QED  BY <1>1, <1>4, <2>2, <2>3, <2>4, Zenon
            DEF StepKeeps, PInv, Typed, LendingExact, BorrowingEnds, UserLendKept, Kept
<1>6. CASE ~(p < pri.priority)
  <2>1. pri' = pri
        BY <1>6 DEF Block
  <2>2. pri'.priority <= pri.priority
        BY <1>3, <2>1
  <2>3. waiters' # {}
        BY <1>4
  <2>. QED  BY <1>1, <1>4, <2>1, <2>2, <2>3, Zenon
            DEF StepKeeps, PInv, Typed, LendingExact, BorrowingEnds, UserLendKept, Kept
<1>. QED  BY <1>5, <1>6

LEMMA SleepPrioKeeps ==
    ASSUME PInv, NEW p \in Pris, SleepPrio(p)
    PROVE  StepKeeps
<1>1. Kept(pri) /\ p \in Prios
      BY Zenon DEF PInv, Typed, LendingExact, UserLendKept, Kept, Prios
<1>2. pri' = sched_prio(pri, p) /\ waiters' = waiters
      BY DEF SleepPrio
<1>3. Kept(pri') /\ pri'.borrowing = pri.borrowing
      /\ (pri.borrowing => pri'.priority <= pri.priority)
      BY <1>1, <1>2, OwnPrio, Zenon
<1>4. PInv'
      BY <1>2, <1>3, OthersKeep, Zenon
<1>. QED  BY <1>3, <1>4, Zenon DEF StepKeeps

LEMMA UserPrioKeeps ==
    ASSUME PInv, NEW p \in Pris, UserPrio(p)
    PROVE  StepKeeps
<1>1. Kept(pri) /\ p \in Prios /\ pri \in Priorities
      BY Zenon DEF PInv, Typed, LendingExact, UserLendKept, Kept, Prios
<1>2. pri' = sched_user_prio(pri, p) /\ waiters' = waiters
      BY DEF UserPrio
<1>3. Kept(pri') /\ pri'.borrowing = pri.borrowing /\ pri'.priority = pri.priority
      BY <1>1, <1>2, OwnUserPrio, Zenon
<1>4. pri.priority \in Nat
      BY <1>1, PrioritiesOf, PriosNat
<1>5. pri.priority <= pri.priority
      BY <1>4
<1>6. PInv'
      BY <1>2, <1>3, OthersKeep, Zenon
<1>. QED  BY <1>3, <1>5, <1>6, Zenon DEF StepKeeps

LEMMA NiceKeeps ==
    ASSUME PInv, NEW p \in Pris, Nice(p)
    PROVE  StepKeeps
<1> DEFINE own == sched_user_prio(pri, p)
<1>1. Kept(pri) /\ p \in Prios
      BY Zenon DEF PInv, Typed, LendingExact, UserLendKept, Kept, Prios
<1>2. pri' = sched_prio(own, p) /\ waiters' = waiters
      BY Zenon DEF Nice
<1>3. Kept(own) /\ own.borrowing = pri.borrowing /\ own.priority = pri.priority
      BY <1>1, OwnUserPrio, Zenon
<1>. HIDE DEF own
<1>4. Kept(pri') /\ pri'.borrowing = own.borrowing
      /\ (own.borrowing => pri'.priority <= own.priority)
      BY <1>1, <1>2, <1>3, OwnPrio, Zenon
<1>5. pri.borrowing => pri'.priority <= pri.priority
      BY <1>3, <1>4, Zenon
<1>6. PInv'
      BY <1>2, <1>3, <1>4, OthersKeep, Zenon
<1>. QED  BY <1>3, <1>4, <1>5, <1>6, Zenon DEF StepKeeps

LEMMA UserLendKeeps ==
    ASSUME PInv, NEW p \in Prios, UserLend(p)
    PROVE  StepKeeps
<1>1. Kept(pri)
      BY Zenon DEF PInv, Typed, LendingExact, UserLendKept, Kept
<1>2. pri' = sched_lend_user_prio(pri, p) /\ waiters' = waiters
      BY Zenon DEF UserLend
<1>3. Kept(pri') /\ pri'.borrowing = pri.borrowing
      /\ (pri.borrowing => pri'.priority <= pri.priority)
      BY <1>1, <1>2, LendUserPrio, Zenon
<1>4. PInv'
      BY <1>2, <1>3, OthersKeep, Zenon
<1>. QED  BY <1>3, <1>4, Zenon DEF StepKeeps

\* On the way out nobody waits, so nothing is borrowed.
LEMMA UserRetKeeps ==
    ASSUME PInv, UserRet
    PROVE  StepKeeps
<1> DEFINE u == pri.user_pri
           out == [pri EXCEPT !.priority = u, !.base_pri = u]
<1>1. Kept(pri) /\ pri \in Priorities /\ waiters' = waiters /\ ~pri.borrowing
      BY Zenon DEF PInv, Typed, LendingExact, BorrowingEnds, UserLendKept, Kept, UserRet
<1>2. u \in Prios
      BY <1>1, PrioritiesOf
<1>3. pri' = pri \/ pri' = out
      BY Zenon DEF UserRet
<1>. HIDE DEF u
<1>4. Kept(out) /\ out.borrowing = pri.borrowing
      BY <1>1, <1>2 DEF Kept, Priorities
<1>. HIDE DEF out
<1>5. Kept(pri') /\ pri'.borrowing = pri.borrowing
      BY <1>1, <1>3, <1>4, Zenon
<1>6. PInv'
      BY <1>1, <1>5, OthersKeep, Zenon
<1>. QED  BY <1>1, <1>6, Zenon DEF StepKeeps

LEMMA LendingStep ==
    ASSUME PInv, [LendingNext]_lendingVars
    PROVE  /\ PInv'
           /\ pri.borrowing /\ waiters \subseteq waiters' =>
                   pri'.borrowing /\ pri'.priority <= pri.priority
           /\ waiters' \subseteq waiters /\ waiters' # waiters =>
                   pri'.priority <= Best(waiters')
<1>1. CASE Release
  <2>1. PInv' /\ pri'.priority <= Best(waiters') /\ ~(waiters \subseteq waiters')
    <3>1. ~(waiters \subseteq waiters')
          BY <1>1, Zenon DEF Release
    <3>. QED  BY <1>1, <3>1, ReleaseKeeps, Zenon
  <2>. QED  BY <2>1, Zenon
<1>2. CASE \E p \in Pris : Block(p)
      BY <1>2, BlockKeeps, Zenon DEF StepKeeps
<1>3. ASSUME NEW p \in Pris, SleepPrio(p) \/ UserPrio(p) \/ Nice(p) PROVE StepKeeps
      BY <1>3, SleepPrioKeeps, UserPrioKeeps, NiceKeeps, Zenon
<1>4. ASSUME NEW p \in Prios, UserLend(p) PROVE StepKeeps
      BY <1>4, UserLendKeeps
<1>5. UserRet => StepKeeps
      BY UserRetKeeps
<1>6. ASSUME Trap \/ UNCHANGED lendingVars PROVE StepKeeps
  <2>1. pri' = pri /\ waiters' = waiters
        BY <1>6, Zenon DEF Trap, lendingVars
  <2>2. pri.priority \in Nat
        BY PrioritiesOf, PriosNat DEF PInv, Typed
  <2>3. pri.priority <= pri.priority
        BY <2>2
  <2>4. pri'.priority <= pri.priority
        BY <2>1, <2>3, Zenon
  <2>5. PInv'
        BY <2>1, Zenon DEF PInv, Typed, LendingExact, BorrowingEnds, UserLendKept
  <2>. QED  BY <2>1, <2>4, <2>5, Zenon DEF StepKeeps
<1>. QED
  <2>1. Pris \subseteq Prios /\ PRI_MAX \in Prios
        BY DEF Prios
  <2>2. CASE waiters' = waiters /\ StepKeeps
        BY <2>2, Zenon DEF StepKeeps
  <2>3. ASSUME NEW p \in Prios, SleepPrio(p) \/ UserPrio(p) \/ Nice(p) \/ UserLend(p)
        PROVE  waiters' = waiters
        BY <2>3, Zenon DEF SleepPrio, UserPrio, Nice, UserLend
  <2>4. (UserRet \/ Trap \/ UNCHANGED lendingVars) => waiters' = waiters
        BY Zenon DEF UserRet, Trap, lendingVars
  <2>. QED  BY <1>1, <1>2, <1>3, <1>4, <1>5, <1>6, <2>1, <2>2, <2>3, <2>4, Zenon
            DEF LendingNext

-----------------------------------------------------------------------------

\* Nothing is borrowed when nobody waits any more, and what is lent in user
\* space is never lost, whatever the thread and the others do and in whatever
\* order (sched_ule.c:1820-1990, 2431).
THEOREM LendingIsExact == LendingSpec => []LendingExact
<1>1. LendingInit => PInv
      BY LendingInitially
<1>2. PInv /\ [LendingNext]_lendingVars => PInv'
      BY LendingStep
<1>3. PInv => LendingExact
      BY DEF PInv
<1>. QED  BY <1>1, <1>2, <1>3, PTL DEF LendingSpec

\* A borrowed priority is never lowered by the thread's own, and a release leaves
\* the thread as urgent as whoever still waits for it (sched_ule.c:1833, 1869).
THEOREM LentIsKept == LendingSpec => LentKept
<1>1. LendingInit => PInv
      BY LendingInitially
<1>2. PInv /\ [LendingNext]_lendingVars => PInv'
      BY LendingStep
<1>3. PInv /\ [LendingNext]_lendingVars =>
          [/\ pri.borrowing /\ waiters \subseteq waiters' =>
                  pri'.borrowing /\ pri'.priority <= pri.priority
           /\ waiters' \subseteq waiters /\ waiters' # waiters =>
                  pri'.priority <= Best(waiters')]_lendingVars
      BY LendingStep, Zenon
<1>. QED  BY <1>1, <1>2, <1>3, PTL DEF LendingSpec, LentKept
-----------------------------------------------------------------------------
(* ArgShell: whatever fork, open and execvp fail, the shell prompts and    *)
(* forks with no child left.                                               *)

\* Only the writer of a pipe parts from a reader and has something to write,
\* and it has a pipe to write it to.
RolesFit ==
    /\ child.role = "writer" => npipes \in Pipes
    /\ child.state = "parted" \/ child.left # 0 => child.role = "writer"

ShellInv == NoChildLeft /\ RolesFit

\* The types, but for those of the line and of the pipes.
ShellTyped ==
    /\ main \in {"prompt", "scan", "wait", "waitlast", "exited"} /\ npipes \in 0 .. MaxPipes
    /\ child \in [role : {"none", "command", "writer"},
                  state : {"none", "forked", "parted", "runs", "zombie"}, left : 0 .. MaxOutput]
    /\ main \in {"prompt", "scan"} => child = NoChild
    /\ RolesFit

LinesTyped == todo \in Seq({"<", ">", ">>", "|"})

PipesTyped ==
    level \in [Pipes -> 0 .. PipeSize] /\ reader \in [Pipes -> {"none", "forked", "runs", "ended"}]

LEMMA ShellParts == ShellInv <=> ShellTyped /\ LinesTyped /\ PipesTyped
BY Zenon DEF ShellInv, NoChildLeft, ShellTypeOK, ShellTyped, LinesTyped, PipesTyped

LEMMA ShellStarts == ShellInit => ShellInv
<1> SUFFICES ASSUME ShellInit PROVE ShellTyped /\ LinesTyped /\ PipesTyped
    BY ShellParts
<1>1. LinesTyped
      BY DEF ShellInit, LinesTyped
<1>2. ShellTyped /\ PipesTyped
      BY ShellAssumption DEF ShellInit, ShellTyped, PipesTyped, RolesFit, NoChild, Pipes
<1>. QED  BY <1>1, <1>2

\* Whoever takes the next operator of the line leaves a line.
LEMMA LineKept ==
    ASSUME LinesTyped, [ShellNext]_shellVars PROVE LinesTyped'
<1>1. todo # <<>> => Tail(todo) \in Seq({"<", ">", ">>", "|"})
      BY DEF LinesTyped
<1>2. todo' = todo \/ todo' \in Lines \/ (todo # <<>> /\ todo' = Tail(todo))
      BY Zenon
      DEF ShellNext, MainStep, ChildStep, ReaderStep, ReadLine, Redirect, pipeCommand,
          defaultCommand, Exits, Wait, ChildStarts, WriterWrites, ChildEnds, ReaderStarts,
          ReaderReads, ReaderEnds, ReaderLeaves, ReaderEnded, shellVars
<1>. QED  BY <1>1, <1>2, ShellAssumption DEF LinesTyped

\* A child, and the steps of it, by the set of its states.
Children ==
    [role : {"none", "command", "writer"},
     state : {"none", "forked", "parted", "runs", "zombie"}, left : 0 .. MaxOutput]

LEMMA ChildChanges ==
    ASSUME NEW c \in Children
    PROVE  /\ c.left \in 0 .. MaxOutput
           /\ Failed(c) \in Children /\ Failed(c).role = c.role /\ Failed(c).left = c.left
           /\ Failed(c).state = "zombie"
           /\ Started(c) \in Children /\ Started(c).role = c.role /\ Started(c).left = c.left
           /\ Started(c).state = "runs"
           /\ \A n \in 0 .. MaxOutput :
                 LET d == [c EXCEPT !.left = n]
                 IN  d \in Children /\ d.role = c.role /\ d.state = c.state /\ d.left = n
           /\ \A n \in 0 .. MaxOutput :
                 LET d == [Started(c) EXCEPT !.left = n]
                 IN  d \in Children /\ d.role = c.role /\ d.state = "runs" /\ d.left = n
BY DEF Children, Failed, Started

LEMMA ChildForked ==
    ASSUME NEW role \in {"command", "writer"}
    PROVE  LET c == [role |-> role, state |-> "forked", left |-> 0]
           IN  /\ c \in Children /\ c.role = role /\ c.state = "forked" /\ c.left = 0
BY ShellAssumption DEF Children

LEMMA NoChildType ==
    NoChild \in Children /\ NoChild.role = "none" /\ NoChild.state = "none" /\ NoChild.left = 0
BY ShellAssumption DEF Children, NoChild

LEMMA ShellKept == ShellInv /\ [ShellNext]_shellVars => ShellInv'
<1> SUFFICES ASSUME ShellTyped, PipesTyped, [ShellNext]_shellVars
             PROVE  ShellTyped' /\ PipesTyped'
    BY ShellParts, LineKept DEF ShellTyped, LinesTyped, PipesTyped, ShellInv, NoChildLeft,
       ShellTypeOK, RolesFit
<1>0. /\ child \in Children /\ MaxPipes \in Nat /\ PipeSize \in Nat /\ MaxOutput \in Nat
      /\ npipes \in 0 .. MaxPipes
      BY ShellAssumption DEF ShellTyped, Children
<1> USE DEF ShellTyped, PipesTyped, RolesFit, Pipes
<1>1. CASE ReadLine
      BY <1>1 DEF ReadLine
<1>2. CASE Redirect
      BY <1>0, <1>2, ChildForked DEF Redirect, Redirected, Fork, Children
<1>3. CASE pipeCommand
      BY <1>0, <1>3, ChildForked DEF pipeCommand, MakePipe, Fork, Exits, Children
<1>4. CASE defaultCommand
      BY <1>0, <1>4, ChildForked DEF defaultCommand, Fork, Exits, Children
<1>5. CASE Wait
      BY <1>0, <1>5, NoChildType DEF Wait, Waited, Children
<1>6. CASE ChildStarts
  <2>1. npipes' = npipes /\ main' = main /\ level' = level
        BY <1>6 DEF ChildStarts
  <2>2. main \notin {"prompt", "scan"}
        BY <1>6, NoChildType DEF ChildStarts
  <2>3. /\ child' \in Children /\ child'.role = child.role
        /\ child'.state = "parted" \/ child'.left # 0 => child.role = "writer"
    <3>1. CASE child' \in {Started(child), Failed(child)}
          BY <1>0, <1>6, <3>1, ChildChanges DEF ChildStarts
    <3>2. CASE child.role = "writer" /\ child' = [child EXCEPT !.state = "parted"]
          BY <1>0, <3>2 DEF Children
    <3>3. CASE child.state = "parted" /\ \E n \in 0 .. MaxOutput : child' = [Started(child) EXCEPT !.left = n]
          BY <1>0, <3>3, ChildChanges
    <3>. QED  BY <1>6, <3>1, <3>2, <3>3 DEF ChildStarts
  <2>4. reader' \in [Pipes -> {"none", "forked", "runs", "ended"}]
        BY <1>6 DEF ChildStarts
  <2>. QED  BY <1>0, <2>1, <2>2, <2>3, <2>4 DEF Children
<1>7. CASE WriterWrites
  <2>1. npipes' = npipes /\ main' = main /\ reader' = reader
        BY <1>7 DEF WriterWrites
  <2>2. /\ child.role = "writer" /\ npipes \in 1 .. MaxPipes
        /\ child.left - 1 \in 0 .. MaxOutput
        BY <1>0, <1>7, ChildChanges DEF WriterWrites
  <2>3. child' \in Children /\ child'.role = "writer"
        BY <1>0, <1>7, <2>2 DEF WriterWrites, Children
  <2>4. level' \in [Pipes -> 0 .. PipeSize]
    <3>1. level[npipes] + 1 \in 0 .. PipeSize
          BY <1>0, <1>7, <2>2 DEF WriterWrites
    <3>. QED  BY <1>7, <3>1 DEF WriterWrites
  <2>5. main \notin {"prompt", "scan"}
        BY <2>2, NoChildType
  <2>. QED  BY <1>0, <2>1, <2>2, <2>3, <2>4, <2>5 DEF Children
<1>8. CASE ChildEnds
      BY <1>0, <1>8, ChildChanges, NoChildType DEF ChildEnds, Children
<1>9. ASSUME NEW k \in Pipes, ReaderStep(k) \/ ReaderLeaves(k) PROVE ShellTyped' /\ PipesTyped'
  <2>1. ShellTyped'
        BY <1>9 DEF ReaderStep, ReaderStarts, ReaderReads, ReaderEnds, ReaderLeaves, ReaderEnded
  <2>2. CASE ReaderReads(k)
    <3>1. level[k] - 1 \in 0 .. PipeSize
          BY <1>0, <1>9, <2>2 DEF ReaderReads
    <3>. QED  BY <1>9, <2>1, <2>2, <3>1 DEF ReaderReads
  <2>. QED
        BY <1>9, <2>1, <2>2 DEF ReaderStep, ReaderStarts, ReaderEnds, ReaderLeaves, ReaderEnded
<1>10. CASE UNCHANGED shellVars
      BY <1>10 DEF shellVars
<1>. QED
      BY <1>1, <1>2, <1>3, <1>4, <1>5, <1>6, <1>7, <1>8, <1>9, <1>10
      DEF ShellNext, MainStep, ChildStep

\* "waits for child to finish" (argshell.c:37, 77, 118, 158), for any lines, any
\* number of pipes and any output: the shell asks for a line, and forks, only
\* when it has no child left, alive or not reaped.
THEOREM NoChildIsLeft == ShellSpec => []NoChildLeft
<1>1. ShellInv => NoChildLeft
      BY DEF ShellInv
<1>. QED
      BY <1>1, ShellStarts, ShellKept, PTL DEF ShellSpec

-----------------------------------------------------------------------------
(* Interact: quotients and remainders *)

\* Two ages grow by the same: their difference stays.
LEMMA AgesApart ==
    ASSUME NEW m \in Nat \ {0}, NEW a \in Int, NEW b \in Int, NEW n \in Int
    PROVE  (((a + n) % m) - ((b + n) % m)) % m = (a - b) % m
<1> DEFINE x == (a + n) % m
           y == (b + n) % m
           z == (a - b) % m
           i == (a + n) \div m
           j == (b + n) \div m
           k == (a - b) \div m
<1>1. a + n \in Int /\ b + n \in Int /\ a - b \in Int
      OBVIOUS
<1>2. i \in Int /\ x \in Int /\ a + n = i * m + x
      BY <1>1, Remainder
<1>3. j \in Int /\ y \in Int /\ b + n = j * m + y
      BY <1>1, Remainder
<1>4. k \in Int /\ z \in 0 .. m - 1 /\ a - b = k * m + z
      BY <1>1, Remainder
<1> HIDE DEF x, y, z, i, j, k
<1> DEFINE e == k - i + j
<1>5. e \in Int /\ e * m = k * m - i * m + j * m
      BY <1>2, <1>3, <1>4
<1> HIDE DEF e
<1>6. x - y = e * m + z
      BY <1>2, <1>3, <1>4, <1>5
<1>7. (x - y) % m = z
      BY <1>4, <1>5, <1>6, RemainderIs
<1>. QED  BY <1>7, Zenon DEF x, y, z
-----------------------------------------------------------------------------
(* Interact: the priority *)

Histories ==
    [runtime : 0 .. Word - 1, slptime : 0 .. Word - 1, ticks : Nat,
     lage : 0 .. TickWord - 1, fage : 0 .. TickWord - 1, slept : 0 .. TickWord - 1,
     nice : PRIO_MIN .. PRIO_MAX, state : {"RUNNING", "RUNQ", "ASLEEP"},
     overflowed : BOOLEAN]

LEMMA InteractNumbers ==
    /\ Word \in Nat \ {0} /\ TickWord \in Nat \ {0} /\ Unit \in Nat \ {0} /\ hz \in Nat \ {0}
    /\ tickincr \in Nat \ {0} /\ SCHED_TICK_SECS \in Nat \ {0}
    /\ SCHED_SLP_RUN_MAX \in Nat \ {0} /\ SCHED_SLP_RUN_FORK \in Nat \ {0}
    /\ SCHED_INTERACT_HALF \in Nat \ {0} /\ sched_interact \in Nat \ {0}
    /\ TickGap \in Nat \ {0} /\ PRIO_MAX \in Nat
    /\ PRI_MIN_TIMESHARE \in Nat /\ PRI_MAX_TIMESHARE \in Nat /\ Naps \subseteq Nat
BY InteractAssumption

LEMMA ScoreIsInteger == ASSUME NEW r \in Histories PROVE sched_interact_score(r) \in Int
<1> DEFINE a == r.runtime \div SCHED_INTERACT_HALF
           b == r.slptime \div SCHED_INTERACT_HALF
           x == r.slptime \div Max({1, a})
           y == r.runtime \div Max({1, b})
<1>1. r.runtime \in Nat /\ r.slptime \in Nat
      BY InteractNumbers DEF Histories
<1>2. a \in Nat /\ b \in Nat
      BY <1>1, InteractNumbers, Quotient
<1> HIDE DEF a, b
<1>3. Max({1, a}) \in Nat \ {0} /\ Max({1, b}) \in Nat \ {0}
      BY <1>2, MaxOfTwo
<1>4. x \in Nat /\ y \in Nat
      BY <1>1, <1>3, Quotient
<1>5. sched_interact_score(r) =
        CASE sched_interact <= SCHED_INTERACT_HALF /\ r.runtime >= r.slptime ->
                SCHED_INTERACT_HALF
          [] sched_interact > SCHED_INTERACT_HALF /\ r.runtime > r.slptime ->
                2 * SCHED_INTERACT_HALF - x
          [] r.slptime > r.runtime -> y
          [] OTHER -> IF r.runtime # 0 THEN SCHED_INTERACT_HALF ELSE 0
      BY Zenon DEF sched_interact_score, x, y, a, b
<1> HIDE DEF x, y
<1>. QED  BY <1>1, <1>4, <1>5, InteractNumbers

LEMMA TicksPartBounded ==
    ASSUME NEW r \in Histories
    PROVE  TicksPart(r) \in 0 .. SCHED_PRI_RANGE - 1
<1> DEFINE R == SCHED_PRI_RANGE
           total == Max({(r.fage - r.lage) % TickWord, hz})
           n == (total + R - 1) \div R
           m == (n * R) \div R
           t == r.ticks \div Unit
<1>1. R \in Nat \ {0}
  <2>1. SCHED_PRI_RANGE \in Int
    <3>1. PRI_TIMESHARE_RANGE \in Int /\ SCHED_PRI_NRESV \in Int
          BY InteractNumbers DEF PRI_TIMESHARE_RANGE, SCHED_PRI_NRESV, PRIO_MIN
    <3>2. PRI_INTERACT_RANGE \in Int /\ SCHED_PRI_NHALF \in Int
          BY <3>1 DEF PRI_INTERACT_RANGE, SCHED_PRI_NHALF
    <3>. QED  BY <3>2, InteractNumbers
              DEF SCHED_PRI_RANGE, SCHED_PRI_MAX, SCHED_PRI_MIN, PRI_MAX_BATCH, PRI_MIN_BATCH
  <2>. QED  BY <2>1, InteractAssumption
<1>2. r.fage - r.lage \in Int /\ r.ticks \in Nat
      BY InteractNumbers DEF Histories
<1>3. (r.fage - r.lage) % TickWord \in Nat
      BY <1>2, InteractNumbers, Remainder
<1>4. total \in Nat \ {0}
      BY <1>3, InteractNumbers, MaxOfTwo
<1>5. t \in Nat
      BY <1>2, InteractNumbers, Quotient
<1>6. SCHED_PRI_TICKS(r) = t \div m
      BY DEF SCHED_PRI_TICKS
<1> HIDE DEF R, total, t
<1>7. n \in Nat \ {0}
  <2>1. total + R - 1 \in Nat /\ total + R - 1 >= R
        BY <1>1, <1>4
  <2>2. n \in Nat /\ total + R - 1 < n * R + R
        BY <1>1, <2>1, Quotient
  <2>3. n # 0
        BY <1>1, <2>1, <2>2
  <2>. QED  BY <2>2, <2>3
<1> HIDE DEF n
<1>8. m = n
  <2>1. n * R \in Nat
        BY <1>1, <1>7
  <2>2. m \in Nat /\ m * R <= n * R /\ n * R < m * R + R
        BY <1>1, <2>1, Quotient
  <2> HIDE DEF m
  <2>3. m <= n
    <3>1. SUFFICES ASSUME n + 1 <= m PROVE FALSE
          BY <1>7, <2>2
    <3>2. (n + 1) * R <= m * R /\ (n + 1) * R = n * R + R
          BY <1>1, <1>7, <2>2, <3>1, TimesGrows
    <3>. QED  BY <1>1, <2>1, <2>2, <3>2
  <2>4. n <= m
    <3>1. SUFFICES ASSUME m + 1 <= n PROVE FALSE
          BY <1>7, <2>2
    <3>2. (m + 1) * R <= n * R /\ (m + 1) * R = m * R + R
          BY <1>1, <1>7, <2>2, <3>1, TimesGrows
    <3>. QED  BY <1>1, <2>1, <2>2, <3>2
  <2>. QED  BY <1>7, <2>2, <2>3, <2>4
<1>9. SCHED_PRI_TICKS(r) \in Nat
      BY <1>5, <1>6, <1>7, <1>8, Quotient
<1>10. SCHED_PRI_RANGE - 1 \in Nat
      BY <1>1 DEF R
<1>. QED  BY <1>9, <1>10, MinOfTwo DEF TicksPart

\* The ranges of priorities, as the macros of sched_ule.c cut them.
LEMMA PriorityRanges ==
    LET range == PRI_MAX_INTERACT - PRI_MIN_INTERACT + 1
    IN  /\ PRI_MIN_INTERACT \in Int /\ PRI_MAX_INTERACT \in Int
        /\ PRI_MIN_BATCH \in Int /\ PRI_MAX_BATCH \in Int
        /\ SCHED_PRI_MIN = PRI_MIN_BATCH + PRIO_MAX
        /\ SCHED_PRI_MIN + SCHED_PRI_RANGE - 1 = PRI_MAX_BATCH - PRIO_MAX
        /\ range \in Nat /\ range >= sched_interact /\ SCHED_PRI_RANGE \in Int
<1>1. PRI_TIMESHARE_RANGE \in Int /\ SCHED_PRI_NRESV = 2 * PRIO_MAX
      BY InteractNumbers DEF PRI_TIMESHARE_RANGE, SCHED_PRI_NRESV, PRIO_MIN
<1>2. PRI_INTERACT_RANGE \in Int /\ SCHED_PRI_NHALF = PRIO_MAX
      BY <1>1, InteractNumbers DEF PRI_INTERACT_RANGE, SCHED_PRI_NHALF
<1>3. PRI_INTERACT_RANGE >= sched_interact
      BY InteractAssumption
<1>. QED  BY <1>2, <1>3, InteractNumbers
          DEF SCHED_PRI_RANGE, SCHED_PRI_MAX, SCHED_PRI_MIN, PRI_MAX_BATCH, PRI_MIN_BATCH,
              PRI_MIN_INTERACT, PRI_MAX_INTERACT

LEMMA PriorityInRange ==
    ASSUME NEW r \in Histories
    PROVE  sched_priority(r) \in IF Interactive(r) THEN PRI_MIN_INTERACT .. PRI_MAX_INTERACT
                                                   ELSE PRI_MIN_BATCH .. PRI_MAX_BATCH
<1> DEFINE range == PRI_MAX_INTERACT - PRI_MIN_INTERACT + 1
           score == Max({0, sched_interact_score(r) + r.nice})
           step == range \div sched_interact
<1>1. r.nice \in Int /\ -PRIO_MAX <= r.nice /\ r.nice <= PRIO_MAX
      BY InteractNumbers DEF Histories, PRIO_MIN
<1>2. score \in Nat
  <2>1. sched_interact_score(r) + r.nice \in Int
        BY <1>1, ScoreIsInteger
  <2>. QED  BY <2>1, MaxOfTwo
<1>3. range \in Nat /\ range >= sched_interact
      BY PriorityRanges
<1>4. CASE Interactive(r)
  <2>1. sched_priority(r) = PRI_MIN_INTERACT + step * score /\ score < sched_interact
        BY <1>4 DEF sched_priority, Interactive
  <2>2. step \in Nat /\ step * sched_interact <= range /\ range < step * sched_interact + sched_interact
        BY <1>3, InteractNumbers, Quotient
  <2> HIDE DEF step, score, range
  <2>3. step # 0
        BY <1>3, <2>2, InteractNumbers
  <2>4. step * (score + 1) <= step * sched_interact
        BY <1>2, <2>1, <2>2, InteractNumbers, TimesGrows
  <2>5. step * (score + 1) = step * score + step /\ step * score \in Nat
        BY <1>2, <2>2
  <2>6. step * score <= range - 1
        BY <1>3, <2>2, <2>3, <2>4, <2>5, InteractNumbers
  <2>7. PRI_MIN_INTERACT + range - 1 = PRI_MAX_INTERACT
        BY PriorityRanges DEF range
  <2>8. PRI_MIN_INTERACT \in Int /\ PRI_MAX_INTERACT \in Int
        BY PriorityRanges
  <2>9. step * score \in Nat
        BY <2>5
  <2> DEFINE z == step * score
  <2> HIDE DEF z
  <2>10. sched_priority(r) = PRI_MIN_INTERACT + z /\ z \in Nat /\ z <= range - 1
        BY <2>1, <2>6, <2>9 DEF z
  <2>. QED  BY <1>3, <1>4, <2>7, <2>8, <2>10
<1>5. CASE ~Interactive(r)
  <2>1. sched_priority(r) = SCHED_PRI_MIN + TicksPart(r) + r.nice
        BY <1>5 DEF sched_priority
  <2>2. TicksPart(r) \in 0 .. SCHED_PRI_RANGE - 1
        BY TicksPartBounded
  <2>. QED  BY <1>1, <1>5, <2>1, <2>2, PriorityRanges, InteractNumbers
<1>. QED  BY <1>4, <1>5
-----------------------------------------------------------------------------
(* Interact: the window of ticks that is remembered *)

Window(r) == (r.fage - r.lage) % TickWord

\* What is remembered is part of a window that has not been over for long.
Windowed(r) == Window(r) < SCHED_TICK_MAX /\ r.ticks <= Window(r) * Unit

\* The rest of what a thread remembers.
Same(r, u) ==
    /\ u.runtime = r.runtime /\ u.slptime = r.slptime /\ u.overflowed = r.overflowed
    /\ u.slept = r.slept /\ u.nice = r.nice /\ u.state = r.state

LEMMA TickNumbers ==
    /\ SCHED_TICK_TARG \in Nat /\ SCHED_TICK_MAX \in Nat /\ SCHED_TICK_TARG < SCHED_TICK_MAX
    /\ TickGap < SCHED_TICK_TARG /\ 2 * (SCHED_TICK_MAX + SCHED_TICK_TARG) < TickWord
<1>1. hz * SCHED_TICK_SECS \in Nat
      BY InteractNumbers
<1>. QED  BY <1>1, InteractAssumption, InteractNumbers DEF SCHED_TICK_TARG, SCHED_TICK_MAX

\* The window begins n ticks ago, with t of them run; the window is looked at.
Begun(r, t, n) == [r EXCEPT !.ticks = t, !.fage = n]
Looked(r, t)   == [r EXCEPT !.ticks = t, !.lage = 0]

LEMMA SetWindow ==
    ASSUME NEW r \in Histories, NEW t \in Nat, NEW n \in 0 .. TickWord - 1
    PROVE  LET u == Begun(r, t, n)
           IN  u \in Histories /\ Same(r, u) /\ u.ticks = t /\ u.fage = n /\ u.lage = r.lage
BY DEF Histories, Same, Begun

LEMMA SetTicks ==
    ASSUME NEW r \in Histories, NEW t \in Nat
    PROVE  LET u == Looked(r, t)
           IN  u \in Histories /\ Same(r, u) /\ u.ticks = t /\ u.fage = r.fage /\ u.lage = 0
<1>1. 0 \in 0 .. TickWord - 1
      BY InteractNumbers
<1>. QED  BY <1>1 DEF Histories, Same, Looked

\* As long as ts_ltick is not too old, neither difference has wrapped.
LEMMA WindowIs ==
    ASSUME NEW r \in Histories, Windowed(r), r.lage < SCHED_TICK_TARG
    PROVE  r.fage = r.lage + Window(r) /\ Window(r) \in Nat
<1> DEFINE w == Window(r)
           d == r.fage - r.lage
           k == d \div TickWord
<1>1. r.fage \in 0 .. TickWord - 1 /\ r.lage \in 0 .. TickWord - 1
      BY DEF Histories
<1>2. d \in Int /\ r.fage = r.lage + d
      BY <1>1, InteractNumbers
<1>3. w = d % TickWord /\ w < SCHED_TICK_MAX
      BY DEF Window, Windowed
<1> HIDE DEF d, w
<1>4. k \in Int /\ w \in Nat /\ d = k * TickWord + w
      BY <1>2, <1>3, InteractNumbers, Remainder
<1> HIDE DEF k
<1> DEFINE e == r.lage + w
<1>5. e \in 0 .. TickWord - 1
      BY <1>1, <1>3, <1>4, TickNumbers, InteractNumbers
<1>6. r.fage = k * TickWord + e
      BY <1>1, <1>2, <1>4, InteractNumbers
<1> HIDE DEF e
<1>7. r.fage % TickWord = e
      BY <1>4, <1>5, <1>6, RemainderIs, InteractNumbers
<1>8. r.fage % TickWord = r.fage
      BY <1>1, InteractNumbers, SmallRemainder
<1>. QED  BY <1>1, <1>4, <1>7, <1>8 DEF w, e

\* A part of the window that ended r.lage ticks ago, on the scale of the part
\* of it that is kept.
LEMMA CutShort ==
    ASSUME NEW ticks \in Nat, NEW w \in Nat \ {0}, ticks <= w * Unit, NEW n \in Nat
    PROVE  (ticks \div w) * n \in Nat /\ (ticks \div w) * n <= Unit * n
<1> DEFINE q == ticks \div w
<1>1. q \in Nat /\ q * w <= ticks
      BY Quotient
<1> HIDE DEF q
<1>2. Unit \in Nat /\ w * Unit = Unit * w
      BY InteractNumbers
<1>3. q <= Unit
  <2>1. SUFFICES ASSUME Unit + 1 <= q PROVE FALSE
        BY <1>1, <1>2
  <2>2. (Unit + 1) * w <= q * w /\ (Unit + 1) * w = Unit * w + w
        BY <1>1, <1>2, <2>1, TimesGrows
  <2> DEFINE x == Unit * w
             y == q * w
             z == (Unit + 1) * w
  <2>3. x \in Nat /\ y \in Nat
        BY <1>1, <1>2
  <2>4. z <= y /\ z = x + w /\ y <= ticks /\ ticks <= x
        BY <1>1, <1>2, <2>2
  <2> HIDE DEF x, y, z
  <2>. QED  BY <2>3, <2>4
<1>4. q * n <= Unit * n /\ q * n \in Nat
      BY <1>1, <1>2, <1>3, TimesGrows
<1>. QED  BY <1>4 DEF q

LEMMA ForgottenKeeps ==
    ASSUME NEW r \in Histories, Windowed(r), NEW u, u = Forgotten(r)
    PROVE  /\ u \in Histories /\ Same(r, u)
           /\ u.fage < SCHED_TICK_MAX
           /\ r.lage >= SCHED_TICK_TARG => u.ticks = 0
           /\ r.lage < SCHED_TICK_TARG =>
                 r.lage <= u.fage /\ u.ticks <= (u.fage - r.lage) * Unit
<1>1. /\ r.fage \in 0 .. TickWord - 1 /\ r.lage \in 0 .. TickWord - 1 /\ r.ticks \in Nat
      /\ TickWord \in Nat /\ Unit \in Nat
      BY InteractNumbers DEF Histories
<1>2. SCHED_TICK_TARG \in 0 .. TickWord - 1
      BY TickNumbers, InteractNumbers
<1>3. CASE r.lage >= SCHED_TICK_TARG
  <2>1. u = Begun(r, 0, SCHED_TICK_TARG)
        BY <1>1, <1>2, <1>3 DEF Forgotten, Begun
  <2>2. 0 \in Nat
        OBVIOUS
  <2>3. u \in Histories /\ Same(r, u) /\ u.ticks = 0 /\ u.fage = SCHED_TICK_TARG
        BY <1>2, <2>1, <2>2, SetWindow
  <2>. QED  BY <1>1, <1>3, <2>3, TickNumbers
<1>4. CASE r.lage < SCHED_TICK_TARG
  <2> DEFINE w == Window(r)
             n == SCHED_TICK_TARG - r.lage
  <2>1. w \in Nat /\ r.fage = r.lage + w /\ w < SCHED_TICK_MAX /\ r.ticks <= w * Unit
        BY <1>4, WindowIs DEF Windowed
  <2>2. n \in Nat /\ r.lage + n = SCHED_TICK_TARG
        BY <1>1, <1>4, TickNumbers
  <2> HIDE DEF w
  <2>3. CASE r.fage \in SCHED_TICK_MAX .. TickWord \div 2 - 1
    <3> DEFINE t == (r.ticks \div w) * n
    <3>1. w # 0 /\ r.fage - r.lage = w
          BY <1>1, <1>4, <2>1, <2>3, TickNumbers
    <3>2. u = Begun(r, t, SCHED_TICK_TARG)
      <4>1. t = (r.ticks \div (r.fage - r.lage)) * (SCHED_TICK_TARG - r.lage)
            BY <3>1
      <4>2. ~(r.lage >= SCHED_TICK_TARG)
            BY <1>1, <1>4, TickNumbers
      <4> HIDE DEF t
      <4>. QED  BY <1>4, <2>3, <4>1, <4>2 DEF Forgotten, Begun
    <3>3. t \in Nat /\ t <= Unit * n
          BY <1>1, <2>1, <2>2, <3>1, CutShort
    <3>4. Unit * n = n * Unit
          BY <1>1, <2>2
    <3> HIDE DEF t
    <3>5. /\ u \in Histories /\ Same(r, u) /\ u.fage = SCHED_TICK_TARG /\ u.ticks = t
          BY <1>2, <3>2, <3>3, SetWindow
    <3>6. u.fage - r.lage = n
          BY <3>5
    <3>. QED  BY <1>1, <1>4, <3>3, <3>4, <3>5, <3>6, TickNumbers
  <2>4. CASE r.fage \notin SCHED_TICK_MAX .. TickWord \div 2 - 1
    <3>1. u = r
          BY <1>1, <1>4, <2>4, TickNumbers DEF Forgotten
    <3>2. TickWord \div 2 \in Int /\ SCHED_TICK_MAX + SCHED_TICK_TARG <= TickWord \div 2
          BY <1>1, TickNumbers
    <3>3. r.fage < SCHED_TICK_MAX
          BY <1>1, <1>4, <2>1, <2>4, <3>2, TickNumbers
    <3>4. r.fage - r.lage = w /\ r.lage <= r.fage
          BY <1>1, <2>1
    <3>5. ~(r.lage >= SCHED_TICK_TARG)
          BY <1>1, <1>4, TickNumbers
    <3>6. Same(r, r)
          BY DEF Same
    <3>. QED  BY <2>1, <3>1, <3>3, <3>4, <3>5, <3>6
  <2>. QED  BY <2>3, <2>4
<1>. QED  BY <1>1, <1>3, <1>4, TickNumbers

\* sched_pctcpu_update: of a thread that runs ts_ltick is not old.
LEMMA UpdateKeeps ==
    ASSUME NEW r \in Histories, Windowed(r), NEW run \in BOOLEAN,
           run => r.lage < SCHED_TICK_TARG,
           NEW u, u = sched_pctcpu_update(r, run)
    PROVE  u \in Histories /\ Windowed(u) /\ Same(r, u) /\ u.lage = 0
<1> DEFINE f == Forgotten(r)
           t == IF run THEN f.ticks + r.lage * Unit ELSE f.ticks
<1>1. /\ f \in Histories /\ Same(r, f)
      /\ f.fage < SCHED_TICK_MAX
      /\ r.lage >= SCHED_TICK_TARG => f.ticks = 0
      /\ r.lage < SCHED_TICK_TARG => r.lage <= f.fage /\ f.ticks <= (f.fage - r.lage) * Unit
      BY ForgottenKeeps
<1>2. u = Looked(f, t)
      BY DEF sched_pctcpu_update, Looked
<1> HIDE DEF f
<1>3. /\ f.ticks \in Nat /\ f.fage \in Nat /\ r.lage \in Nat /\ Unit \in Nat /\ TickWord \in Nat \ {0}
      /\ f.fage \in 0 .. TickWord - 1
      BY <1>1, InteractNumbers DEF Histories
<1>4. t \in Nat /\ t <= f.fage * Unit
  <2> DEFINE x == r.lage * Unit
             y == (f.fage - r.lage) * Unit
             z == f.fage * Unit
  <2>1. x \in Nat /\ z \in Nat
        BY <1>3
  <2>2. r.lage <= f.fage => y = z - x /\ y \in Nat
        BY <1>3
  <2>3. t = IF run THEN f.ticks + x ELSE f.ticks
        OBVIOUS
  <2>4. r.lage < SCHED_TICK_TARG => r.lage <= f.fage /\ f.ticks <= y
        BY <1>1
  <2> HIDE DEF x, y, z, t
  <2>5. t \in Nat /\ t <= z
        BY <1>1, <1>3, <2>1, <2>2, <2>3, <2>4, TickNumbers
  <2>. QED  BY <2>5 DEF z
<1> HIDE DEF t
<1>5. u \in Histories /\ Same(f, u) /\ u.lage = 0 /\ u.fage = f.fage /\ u.ticks = t
  <2>1. f \in Histories /\ t \in Nat
        BY <1>1, <1>4
  <2>. QED  BY <1>2, <2>1, SetTicks
<1>6. Window(u) = f.fage
  <2>1. u.fage - u.lage = f.fage
        BY <1>3, <1>5
  <2>. QED  BY <1>3, <2>1, SmallRemainder DEF Window
<1>. QED  BY <1>1, <1>4, <1>5, <1>6 DEF Windowed, Same
-----------------------------------------------------------------------------
(* Interact: how long a thread has run and slept *)

\* sched_interact_update holds the sum of the two down to its limit, as long as
\* the sum has fitted.
Bounded(r) == r.overflowed \/ r.runtime + r.slptime <= SCHED_SLP_RUN_MAX + 1
Fitted(r)  == r.overflowed \/ r.runtime + r.slptime < Word

SameWindow(r, u) ==
    /\ u.ticks = r.ticks /\ u.lage = r.lage /\ u.fage = r.fage
    /\ u.slept = r.slept /\ u.nice = r.nice /\ u.state = r.state

\* Another history of running and sleeping, with the same window.
Lived(r, a, b) == [r EXCEPT !.runtime = a, !.slptime = b]

LEMMA SetLife ==
    ASSUME NEW r \in Histories, NEW a \in 0 .. Word - 1, NEW b \in 0 .. Word - 1
    PROVE  LET u == Lived(r, a, b)
           IN  /\ u \in Histories /\ SameWindow(r, u) /\ u.overflowed = r.overflowed
               /\ u.runtime = a /\ u.slptime = b
BY DEF Histories, SameWindow, Lived

LEMMA ScaledKeeps ==
    ASSUME NEW r \in Histories, NEW num \in Nat, NEW div \in Nat \ {0}, num <= div,
           NEW u, u = Scaled(r, num, div)
    PROVE  /\ u \in Histories /\ SameWindow(r, u) /\ u.overflowed = r.overflowed
           /\ u.runtime = (r.runtime \div div) * num /\ u.slptime = (r.slptime \div div) * num
           /\ u.runtime <= r.runtime /\ u.slptime <= r.slptime
<1>1. ASSUME NEW x \in 0 .. Word - 1
      PROVE  (x \div div) * num \in 0 .. Word - 1 /\ (x \div div) * num <= x
  <2> DEFINE q == x \div div
  <2>1. x \in Nat
        BY InteractNumbers
  <2>2. q \in Nat /\ q * div <= x
        BY <2>1, Quotient
  <2> HIDE DEF q
  <2>3. q * num <= q * div /\ q * num \in Nat /\ q * div \in Nat
        BY <2>2, TimesGrows
  <2> DEFINE y == q * num
             z == q * div
  <2>4. y \in Nat /\ z \in Nat /\ y <= z /\ z <= x
        BY <2>2, <2>3
  <2> HIDE DEF y, z
  <2>5. y \in 0 .. Word - 1 /\ y <= x
        BY <2>4, InteractNumbers
  <2>. QED  BY <2>5 DEF y, q
<1> DEFINE a == (r.runtime \div div) * num
           b == (r.slptime \div div) * num
<1>2. a \in 0 .. Word - 1 /\ b \in 0 .. Word - 1 /\ a <= r.runtime /\ b <= r.slptime
      BY <1>1 DEF Histories
<1>3. u = Lived(r, a, b)
      BY DEF Scaled, Lived
<1> HIDE DEF a, b
<1>4. /\ u \in Histories /\ SameWindow(r, u) /\ u.overflowed = r.overflowed
      /\ u.runtime = a /\ u.slptime = b
      BY <1>2, <1>3, SetLife
<1>. QED  BY <1>2, <1>4 DEF a, b

LEMMA InteractUpdateKeeps ==
    ASSUME NEW r \in Histories, Fitted(r), NEW u, u = sched_interact_update(r)
    PROVE  u \in Histories /\ SameWindow(r, u) /\ u.overflowed = r.overflowed /\ Bounded(u)
<1> DEFINE sum == (r.runtime + r.slptime) % Word
           M == SCHED_SLP_RUN_MAX
           ran == r.runtime > r.slptime
           fifth == M \div 5
<1>1. /\ r.runtime \in 0 .. Word - 1 /\ r.slptime \in 0 .. Word - 1 /\ M \in Nat \ {0}
      /\ r.overflowed \in BOOLEAN /\ Word \in Nat \ {0}
      BY InteractNumbers DEF Histories
<1>2. sum \in 0 .. Word - 1
  <2>1. r.runtime + r.slptime \in Int
        BY <1>1
  <2>. QED  BY <1>1, <2>1, Remainder
<1>3. ~r.overflowed => sum = r.runtime + r.slptime
  <2>1. ~r.overflowed => r.runtime + r.slptime \in 0 .. Word - 1
        BY <1>1 DEF Fitted
  <2>. QED  BY <1>1, <2>1, SmallRemainder
<1>4. fifth \in Nat /\ 5 * fifth <= M
  <2>1. fifth \in Nat /\ fifth * 5 <= M
        BY <1>1, Quotient
  <2>. QED  BY <2>1
<1> DEFINE a == IF ran THEN M ELSE 1
           b == IF ran THEN 1 ELSE M
<1>5. \/ sum < M /\ u = r
      \/ sum > M * 2 /\ u = Lived(r, a, b)
      \/ sum >= M /\ sum <= M * 2 /\ sum > fifth * 6 /\ u = Scaled(r, 1, 2)
      \/ sum >= M /\ sum <= M * 2 /\ sum <= fifth * 6 /\ u = Scaled(r, 4, 5)
  <2>1. u = CASE sum < M -> r
              [] sum > M * 2 -> Lived(r, a, b)
              [] sum \in fifth * 6 + 1 .. M * 2 /\ sum >= M -> Scaled(r, 1, 2)
              [] OTHER -> Scaled(r, 4, 5)
        BY Zenon DEF sched_interact_update, Lived
  <2> HIDE DEF sum, M, a, b, fifth
  <2>. QED  BY <1>1, <1>2, <1>4, <2>1
<1> HIDE DEF sum, fifth, ran
<1>6. CASE sum < M /\ u = r
      BY <1>1, <1>3, <1>6 DEF Bounded, SameWindow
<1>7. CASE sum > M * 2 /\ u = Lived(r, a, b)
  <2>1. a \in 0 .. Word - 1 /\ b \in 0 .. Word - 1 /\ a + b = M + 1
        BY <1>1, <1>2, <1>7
  <2> HIDE DEF a, b
  <2>2. /\ u \in Histories /\ SameWindow(r, u) /\ u.overflowed = r.overflowed
        /\ u.runtime = a /\ u.slptime = b
        BY <1>7, <2>1, SetLife
  <2>. QED  BY <2>1, <2>2 DEF Bounded
<1> DEFINE x == r.runtime \div 2
           y == r.slptime \div 2
           v == r.runtime \div 5
           w == r.slptime \div 5
<1>8. CASE sum >= M /\ sum <= M * 2 /\ u = Scaled(r, 1, 2)
  <2>1. /\ u \in Histories /\ SameWindow(r, u) /\ u.overflowed = r.overflowed
        /\ u.runtime = x * 1 /\ u.slptime = y * 1
        BY <1>8, ScaledKeeps
  <2>2. x \in Nat /\ y \in Nat /\ x * 2 <= r.runtime /\ y * 2 <= r.slptime
        BY <1>1, Quotient
  <2> HIDE DEF x, y
  <2>. QED  BY <1>1, <1>3, <1>8, <2>1, <2>2 DEF Bounded
<1>9. CASE sum >= M /\ sum <= fifth * 6 /\ u = Scaled(r, 4, 5)
  <2>1. /\ u \in Histories /\ SameWindow(r, u) /\ u.overflowed = r.overflowed
        /\ u.runtime = v * 4 /\ u.slptime = w * 4
    <3> DEFINE num == 4
               div == 5
    <3>1. /\ r \in Histories /\ u = Scaled(r, num, div)
          /\ num \in Nat /\ div \in Nat \ {0} /\ num <= div
          BY <1>9
    <3>2. (r.runtime \div div) * num = v * 4 /\ (r.slptime \div div) * num = w * 4
          OBVIOUS
    <3> HIDE DEF num, div, v, w
    <3>3. /\ u \in Histories /\ SameWindow(r, u) /\ u.overflowed = r.overflowed
          /\ u.runtime = (r.runtime \div div) * num /\ u.slptime = (r.slptime \div div) * num
          BY ONLY <3>1, ScaledKeeps
    <3>. QED  BY <3>2, <3>3
  <2>2. v \in Nat /\ w \in Nat /\ v * 5 <= r.runtime /\ w * 5 <= r.slptime
    <3>1. r.runtime \in Nat /\ r.slptime \in Nat /\ 5 \in Nat \ {0}
          BY <1>1
    <3>. QED  BY <3>1, Quotient
  <2> HIDE DEF v, w
  <2>. QED  BY <1>1, <1>3, <1>4, <1>9, <2>1, <2>2 DEF Bounded
<1>. QED  BY <1>5, <1>6, <1>7, <1>8, <1>9

LEMMA ForkKeeps ==
    ASSUME NEW r \in Histories, Bounded(r), NEW u, u = sched_interact_fork(r)
    PROVE  u \in Histories /\ SameWindow(r, u) /\ u.overflowed = r.overflowed /\ Bounded(u)
<1> DEFINE sum   == (r.runtime + r.slptime) % Word
           ratio == sum \div SCHED_SLP_RUN_FORK
<1>1. /\ r.runtime \in 0 .. Word - 1 /\ r.slptime \in 0 .. Word - 1
      /\ r.overflowed \in BOOLEAN /\ Word \in Nat \ {0}
      /\ SCHED_SLP_RUN_FORK \in Nat \ {0} /\ SCHED_SLP_RUN_MAX \in Nat
      BY InteractNumbers DEF Histories
<1>2. sum \in Nat
  <2>1. r.runtime + r.slptime \in Int
        BY <1>1
  <2>. QED  BY <1>1, <2>1, Remainder
<1>3. ratio \in Nat /\ sum < ratio * SCHED_SLP_RUN_FORK + SCHED_SLP_RUN_FORK
      BY <1>1, <1>2, Quotient
<1>4. \/ u = r
      \/ sum > SCHED_SLP_RUN_FORK /\ u = Scaled(r, 1, ratio)
      BY Zenon DEF sched_interact_fork
<1> HIDE DEF sum, ratio
<1>5. CASE u = r
      BY <1>5 DEF SameWindow
<1>6. CASE sum > SCHED_SLP_RUN_FORK /\ u = Scaled(r, 1, ratio)
  <2>1. ratio # 0
        BY <1>1, <1>2, <1>3, <1>6
  <2>2. ratio \in Nat \ {0} /\ 1 <= ratio
        BY <1>3, <2>1
  <2>3. /\ u \in Histories /\ SameWindow(r, u) /\ u.overflowed = r.overflowed
        /\ u.runtime <= r.runtime /\ u.slptime <= r.slptime
        BY <1>6, <2>2, ScaledKeeps
  <2>4. u.runtime \in Int /\ u.slptime \in Int
        BY <1>1, <2>3 DEF Histories
  <2>. QED  BY <1>1, <2>3, <2>4 DEF Bounded
<1>. QED  BY <1>4, <1>5, <1>6
LEMMA SummedKeeps ==
    ASSUME NEW r \in Histories, NEW u, u = Summed(r)
    PROVE  u \in Histories /\ SameWindow(r, u) /\ Fitted(u)
<1>1. /\ u \in Histories /\ SameWindow(r, u) /\ u.runtime = r.runtime /\ u.slptime = r.slptime
      /\ u.overflowed = (r.overflowed \/ r.runtime + r.slptime >= Word)
      BY DEF Histories, SameWindow, Summed
<1>2. r.runtime \in Int /\ r.slptime \in Int /\ Word \in Int
      BY InteractNumbers DEF Histories
<1>3. \/ u.overflowed
      \/ ~r.overflowed /\ ~(r.runtime + r.slptime >= Word)
      BY <1>1, Zenon
<1>. QED  BY <1>1, <1>2, <1>3 DEF Fitted

\* However much a thread has run or slept when its history is brought up to date.
LEMMA LivedOn ==
    ASSUME NEW r \in Histories, NEW a \in Int, NEW b \in Int,
           NEW u, u = sched_interact_update(Summed(Lived(r, a % Word, b % Word)))
    PROVE  u \in Histories /\ SameWindow(r, u) /\ Bounded(u)
<1> DEFINE x == a % Word
           y == b % Word
           l == Lived(r, x, y)
           s == Summed(l)
<1>1. x \in 0 .. Word - 1 /\ y \in 0 .. Word - 1
  <2>1. ASSUME NEW c \in Int PROVE c % Word \in 0 .. Word - 1
        BY InteractNumbers, Remainder
  <2>. QED  BY <2>1
<1> HIDE DEF x, y
<1>2. l \in Histories /\ SameWindow(r, l)
      BY <1>1, SetLife
<1> HIDE DEF l
<1>3. s \in Histories /\ SameWindow(l, s) /\ Fitted(s)
      BY <1>2, SummedKeeps
<1>4. u = sched_interact_update(s)
      BY Zenon DEF s, l, x, y
<1> HIDE DEF s
<1>5. u \in Histories /\ SameWindow(s, u) /\ Bounded(u)
      BY <1>3, <1>4, InteractUpdateKeeps
<1>. QED  BY <1>2, <1>3, <1>5 DEF SameWindow

\* A count that has fitted before.
LEMMA ChargedKeeps ==
    ASSUME NEW r \in Histories, NEW n \in Nat, NEW u, u = Charged(r, n)
    PROVE  u \in Histories /\ SameWindow(r, u) /\ Bounded(u)
<1>1. /\ r.runtime \in 0 .. Word - 1 /\ r.slptime \in 0 .. Word - 1 /\ Word \in Nat \ {0}
      BY InteractNumbers DEF Histories
<1>2. r.slptime % Word = r.slptime /\ r.runtime + n \in Int /\ r.slptime \in Int
      BY <1>1, SmallRemainder
<1> DEFINE x == (r.runtime + n) % Word
<1>3. u = sched_interact_update(Summed([r EXCEPT !.runtime = x]))
      BY DEF Charged
<1> HIDE DEF x
<1>4. [r EXCEPT !.runtime = x] = Lived(r, x, r.slptime)
      BY DEF Histories, Lived
<1>5. u = sched_interact_update(Summed(Lived(r, (r.runtime + n) % Word, r.slptime % Word)))
      BY <1>2, <1>3, <1>4, Zenon DEF x
<1>. QED  BY <1>2, <1>5, LivedOn

-----------------------------------------------------------------------------
(* Interact: the invariant, and every step *)

Sound(r) == r \in Histories /\ Windowed(r) /\ Bounded(r)

\* A thread that runs is looked at every TickGap ticks.
InteractInv == Sound(td) /\ (td.state = "RUNNING" => td.lage <= TickGap)

LEMMA KeptThrough ==
    ASSUME NEW r, NEW u
    PROVE  /\ SameWindow(r, u) => (Windowed(r) <=> Windowed(u))
           /\ Same(r, u) => (Bounded(r) <=> Bounded(u))
BY DEF SameWindow, Same, Windowed, Window, Bounded

\* A step that only moves the thread.
Moved(r, state, slept) == [r EXCEPT !.state = state, !.slept = slept]

LEMMA MovedKeeps ==
    ASSUME NEW r, Sound(r), NEW state \in {"RUNNING", "RUNQ", "ASLEEP"},
           NEW slept \in 0 .. TickWord - 1, NEW u, u = Moved(r, state, slept)
    PROVE  Sound(u) /\ u.state = state /\ u.lage = r.lage
<1>1. /\ u \in Histories /\ u.state = state /\ u.lage = r.lage /\ u.fage = r.fage
      /\ u.ticks = r.ticks /\ u.runtime = r.runtime /\ u.slptime = r.slptime
      /\ u.overflowed = r.overflowed
      BY DEF Sound, Histories, Moved
<1>. QED  BY <1>1 DEF Sound, Windowed, Window, Bounded

\* ticks goes on by n.
Aged(r, n) == [r EXCEPT !.lage = (@ + n) % TickWord, !.fage = (@ + n) % TickWord]

LEMMA AgedKeeps ==
    ASSUME NEW r, Sound(r), NEW n \in Nat, NEW u, u = Aged(r, n)
    PROVE  /\ Sound(u) /\ u.state = r.state /\ u.slept = r.slept
           /\ u.lage = (r.lage + n) % TickWord
<1> DEFINE x == (r.lage + n) % TickWord
           y == (r.fage + n) % TickWord
<1>1. r \in Histories /\ r.lage \in Int /\ r.fage \in Int
      BY InteractNumbers DEF Sound, Histories
<1>2. r.lage + n \in Int /\ r.fage + n \in Int
      BY <1>1
<1>3. x \in 0 .. TickWord - 1 /\ y \in 0 .. TickWord - 1
  <2>1. ASSUME NEW c \in Int PROVE c % TickWord \in 0 .. TickWord - 1
        BY InteractNumbers, Remainder
  <2>. QED  BY <1>2, <2>1
<1>4. (y - x) % TickWord = (r.fage - r.lage) % TickWord
  <2> DEFINE m == TickWord
             a == r.fage
             b == r.lage
  <2>1. m \in Nat \ {0} /\ a \in Int /\ b \in Int /\ n \in Int
        BY <1>1, InteractNumbers
  <2> HIDE DEF m, a, b
  <2>2. (((a + n) % m) - ((b + n) % m)) % m = (a - b) % m
        BY <2>1, AgesApart
  <2>. QED  BY <2>2, Zenon DEF m, a, b
<1>5. u = [r EXCEPT !.lage = x, !.fage = y]
      BY DEF Aged
<1>6. u.lage = x => u.lage = (r.lage + n) % TickWord
      OBVIOUS
<1> HIDE DEF x, y
<1>7. /\ u \in Histories /\ u.state = r.state /\ u.slept = r.slept /\ u.lage = x /\ u.fage = y
      /\ u.ticks = r.ticks /\ u.runtime = r.runtime /\ u.slptime = r.slptime
      /\ u.overflowed = r.overflowed
      BY <1>1, <1>3, <1>5 DEF Histories
<1>8. Window(u) = Window(r)
      BY <1>4, <1>7 DEF Window
<1>. QED  BY <1>6, <1>7, <1>8 DEF Sound, Windowed, Bounded
LEMMA InteractInitKept == InteractInit => InteractInv
<1> SUFFICES ASSUME InteractInit PROVE InteractInv
    OBVIOUS
<1>1. PRIO_MIN <= 0 /\ PRIO_MIN \in Int
      BY InteractNumbers DEF PRIO_MIN
<1>2. td \in Histories
      BY <1>1, InteractNumbers DEF InteractInit, Histories
<1>3. td.lage = 0 /\ td.fage = 0 /\ td.ticks = 0 /\ td.runtime = 0 /\ td.slptime = 0
      BY DEF InteractInit
<1>4. Window(td) = 0
      BY <1>3, InteractNumbers, SmallRemainder DEF Window
<1>5. Windowed(td)
      BY <1>3, <1>4, TickNumbers, InteractNumbers DEF Windowed
<1>6. Bounded(td)
      BY <1>3, InteractNumbers DEF Bounded
<1>. QED  BY <1>2, <1>3, <1>5, <1>6, InteractNumbers DEF InteractInv, Sound

\* What each step finds.
LEMMA InteractFields ==
    ASSUME InteractInv
    PROVE  /\ Sound(td) /\ td \in Histories /\ Windowed(td) /\ Bounded(td)
           /\ td.lage \in 0 .. TickWord - 1 /\ td.slept \in 0 .. TickWord - 1
           /\ td.state \in {"RUNNING", "RUNQ", "ASLEEP"}
           /\ td.state = "RUNNING" => td.lage <= TickGap /\ td.lage < SCHED_TICK_TARG
<1>1. Sound(td) /\ td \in Histories
      BY DEF InteractInv, Sound
<1>2. td.lage \in 0 .. TickWord - 1
      BY <1>1 DEF Histories
<1>. QED  BY <1>1, <1>2, TickNumbers, InteractNumbers DEF InteractInv, Sound, Histories

\* sched_pctcpu_update, of a thread that runs and of one that does not.
LEMMA SeenKept ==
    ASSUME InteractInv, NEW run \in BOOLEAN, run => td.state = "RUNNING",
           NEW u, u = sched_pctcpu_update(td, run)
    PROVE  Sound(u) /\ u.lage = 0 /\ u.state = td.state /\ u.slept = td.slept
<1>1. /\ td \in Histories /\ Windowed(td) /\ Bounded(td)
      /\ td.state = "RUNNING" => td.lage < SCHED_TICK_TARG
      BY InteractFields
<1>2. u \in Histories /\ Windowed(u) /\ Same(td, u) /\ u.lage = 0
      BY <1>1, UpdateKeeps
<1>3. Bounded(u)
      BY <1>1, <1>2, KeptThrough
<1>. QED  BY <1>2, <1>3 DEF Sound, Same

LEMMA ChargedKept ==
    ASSUME NEW r, Sound(r), NEW n \in Nat, NEW u, u = Charged(r, n)
    PROVE  Sound(u) /\ u.lage = r.lage /\ u.state = r.state
<1>1. r \in Histories /\ Windowed(r)
      BY DEF Sound
<1>2. u \in Histories /\ SameWindow(r, u) /\ Bounded(u)
      BY <1>1, ChargedKeeps
<1>3. Windowed(u)
      BY <1>1, <1>2, KeptThrough
<1>. QED  BY <1>2, <1>3 DEF Sound, SameWindow

\* Nothing but td is a variable.
LEMMA InteractInvNext ==
    ASSUME NEW u, u = td', Sound(u), u.state = "RUNNING" => u.lage <= TickGap
    PROVE  InteractInv'
BY DEF InteractInv, Sound, Windowed, Window, Bounded, Histories

LEMMA TickRunningKept == ASSUME InteractInv, TickRunning PROVE InteractInv'
<1> DEFINE u == td'
<1>1. td.state = "RUNNING" /\ td.lage < TickGap
      BY DEF TickRunning, Is
<1>2. u = Aged(td, 1)
      BY DEF TickRunning, Older, Aged
<1> HIDE DEF u
<1>3. Sound(u) /\ u.lage = (td.lage + 1) % TickWord
  <2>1. Sound(td) /\ 1 \in Nat
        BY InteractFields
  <2>. QED  BY <1>2, <2>1, AgedKeeps
<1>4. td.lage + 1 \in 0 .. TickWord - 1 /\ td.lage + 1 <= TickGap
      BY <1>1, InteractFields, InteractNumbers, TickNumbers
<1>5. u.lage <= TickGap
      BY <1>3, <1>4, InteractNumbers, SmallRemainder
<1>. QED  BY <1>3, <1>5, InteractInvNext DEF u
LEMMA TickWaitingKept == ASSUME InteractInv, TickWaiting PROVE InteractInv'
<1>1. td.state # "RUNNING"
      BY DEF TickWaiting, Is
<1>2. PICK n \in Naps :
         td' = [Older(n) EXCEPT !.slept = IF Is("ASLEEP") THEN (@ + n) % TickWord ELSE @]
      BY DEF TickWaiting
<1> DEFINE u == td'
           a == Aged(td, n)
           x == IF Is("ASLEEP") THEN (a.slept + n) % TickWord ELSE a.slept
<1>3. n \in Nat /\ Sound(td) /\ td.state \in {"RUNNING", "RUNQ", "ASLEEP"}
      BY InteractNumbers, InteractFields
<1>4. a = Older(n)
      BY Zenon DEF Aged, Older
<1>5. u = [a EXCEPT !.slept = x]
      BY <1>2, <1>4
<1>6. x = IF Is("ASLEEP") THEN (a.slept + n) % TickWord ELSE a.slept
      OBVIOUS
<1> HIDE DEF a, x, u
<1>7. Sound(a) /\ a.state = td.state
      BY <1>3, AgedKeeps DEF a
<1>8. a \in Histories /\ a.slept \in 0 .. TickWord - 1 /\ a.slept \in Int
      BY <1>7, InteractNumbers DEF Sound, Histories
<1>9. (a.slept + n) % TickWord \in 0 .. TickWord - 1
  <2>1. a.slept + n \in Int
        BY <1>3, <1>8
  <2>. QED  BY <2>1, InteractNumbers, Remainder
<1>10. x \in 0 .. TickWord - 1
      BY <1>6, <1>8, <1>9
<1>11. u = Moved(a, a.state, x)
      BY <1>5, <1>8 DEF Histories, Moved
<1>12. Sound(u) /\ u.state = td.state
  <2> DEFINE st == a.state
  <2>1. st \in {"RUNNING", "RUNQ", "ASLEEP"} /\ st = td.state
        BY <1>3, <1>7
  <2>2. u = Moved(a, st, x)
        BY <1>11
  <2> HIDE DEF st
  <2>3. /\ Sound(a) /\ st \in {"RUNNING", "RUNQ", "ASLEEP"} /\ x \in 0 .. TickWord - 1
        /\ u = Moved(a, st, x)
        BY <1>7, <1>10, <2>1, <2>2
  <2>4. Sound(u) /\ u.state = st
        BY ONLY <2>3, MovedKeeps, SMTT(20)
  <2>. QED  BY <2>1, <2>4
<1>. QED  BY <1>1, <1>12, InteractInvNext DEF u

LEMMA ClockKept == ASSUME InteractInv, Clock PROVE InteractInv'
<1> DEFINE v == sched_pctcpu_update(td, TRUE)
           u == Charged(v, tickincr)
<1>1. td.state = "RUNNING" /\ td' = u
      BY DEF Clock, Is
<1>2. Sound(v) /\ v.lage = 0
      BY <1>1, SeenKept
<1> HIDE DEF v
<1>3. Sound(u) /\ u.lage = 0
      BY <1>2, ChargedKept, InteractNumbers
<1> HIDE DEF u
<1>. QED  BY <1>1, <1>3, InteractInvNext, InteractNumbers

LEMMA SwitchOutKept == ASSUME InteractInv, SwitchOut PROVE InteractInv'
<1> DEFINE v == sched_pctcpu_update(td, TRUE)
<1>1. td.state = "RUNNING"
      BY DEF SwitchOut, Is
<1>2. PICK state \in {"RUNQ", "ASLEEP"} : td' = Moved(v, state, 0)
      BY Zenon DEF SwitchOut, Moved
<1>3. Sound(v) /\ v.lage = 0 /\ 0 \in 0 .. TickWord - 1
  <2>1. Sound(v) /\ v.lage = 0
        BY <1>1, SeenKept
  <2>2. 0 \in 0 .. TickWord - 1
        BY InteractNumbers
  <2> HIDE DEF v
  <2>. QED  BY <2>1, <2>2
<1> HIDE DEF v
<1> DEFINE u == Moved(v, state, 0)
<1>4. Sound(u) /\ u.lage = 0
      BY <1>3, MovedKeeps, SMTT(20)
<1> HIDE DEF u
<1>5. td' = u
      BY <1>2 DEF u
<1>. QED  BY <1>4, <1>5, InteractInvNext, InteractNumbers

LEMMA SwitchInKept == ASSUME InteractInv, SwitchIn PROVE InteractInv'
<1> DEFINE v == sched_pctcpu_update(td, FALSE)
           u == Moved(v, "RUNNING", v.slept)
<1>1. td' = [v EXCEPT !.state = "RUNNING"]
      BY DEF SwitchIn
<1>2. Sound(v) /\ v.lage = 0
      BY SeenKept
<1> HIDE DEF v
<1>3. v \in Histories /\ v.slept \in 0 .. TickWord - 1
      BY <1>2 DEF Sound, Histories
<1>4. td' = u
      BY <1>1, <1>3 DEF Histories, Moved
<1>5. Sound(u) /\ u.lage = 0
      BY <1>2, <1>3, MovedKeeps
<1> HIDE DEF u
<1>. QED  BY <1>4, <1>5, InteractInvNext, InteractNumbers
LEMMA WakeupKept == ASSUME InteractInv, sched_wakeup PROVE InteractInv'
<1> DEFINE v == IF td.slept = 0 THEN td ELSE Awake(td)
           u == Moved(v, "RUNQ", 0)
<1>1. td' = u
      BY DEF sched_wakeup, Moved
<1>3. Sound(v)
  <2>1. CASE td.slept = 0
        BY <2>1, InteractFields
  <2>2. CASE td.slept # 0
    <3> DEFINE b == td.slptime + td.slept * Unit
               s == sched_interact_update(Summed([td EXCEPT !.slptime = b % Word]))
    <3>1. /\ td \in Histories /\ td.runtime \in 0 .. Word - 1 /\ td.slptime \in Nat
          /\ td.slept \in Nat /\ Word \in Nat \ {0} /\ Unit \in Nat
          BY InteractFields, InteractNumbers DEF Histories
    <3>2. b \in Int /\ td.runtime \in Int /\ td.runtime % Word = td.runtime
      <4>1. td.slept * Unit \in Int
            BY <3>1
      <4>. QED  BY <3>1, <4>1, SmallRemainder
    <3>3. v = sched_pctcpu_update(s, FALSE)
          BY <2>2 DEF Awake
    <3> HIDE DEF b, v
    <3> DEFINE y == b % Word
               l == [td EXCEPT !.slptime = y]
    <3>4. l = Lived(td, td.runtime, y)
          BY <3>1 DEF Histories, Lived
    <3>5. s = sched_interact_update(Summed(Lived(td, td.runtime % Word, b % Word)))
          BY <3>2, <3>4, Zenon
    <3> HIDE DEF s
    <3>6. s \in Histories /\ SameWindow(td, s) /\ Bounded(s)
          BY <3>1, <3>2, <3>5, LivedOn
    <3>7. Windowed(s)
          BY <3>6, InteractFields, KeptThrough
    <3>8. v \in Histories /\ Windowed(v) /\ Same(s, v)
          BY <3>3, <3>6, <3>7, UpdateKeeps
    <3>9. Bounded(v)
          BY <3>6, <3>8, KeptThrough
    <3>. QED  BY <3>8, <3>9 DEF Sound
  <2>. QED  BY <2>1, <2>2
<1> HIDE DEF v
<1>4. 0 \in 0 .. TickWord - 1
      BY InteractNumbers
<1>5. Sound(u) /\ u.state = "RUNQ"
      BY <1>3, <1>4, MovedKeeps
<1> HIDE DEF u
<1>. QED  BY <1>1, <1>5, InteractInvNext

LEMMA NiceKept == ASSUME InteractInv, sched_nice PROVE InteractInv'
<1>1. PICK n \in PRIO_MIN .. PRIO_MAX : td' = [td EXCEPT !.nice = n]
      BY DEF sched_nice
<1> DEFINE u == td'
<1>2. u = [td EXCEPT !.nice = n]
      BY <1>1
<1> HIDE DEF u
<1>3. td \in Histories /\ Windowed(td) /\ Bounded(td)
      BY InteractFields
<1>4. /\ u \in Histories /\ u.state = td.state /\ u.lage = td.lage /\ u.fage = td.fage
      /\ u.ticks = td.ticks /\ u.runtime = td.runtime /\ u.slptime = td.slptime
      /\ u.overflowed = td.overflowed
      BY <1>1, <1>2, <1>3 DEF Histories
<1>5. Sound(u)
      BY <1>3, <1>4 DEF Sound, Windowed, Window, Bounded
<1>. QED  BY <1>4, <1>5, InteractFields, InteractInvNext DEF u

LEMMA SchedForkKept == ASSUME InteractInv, sched_fork PROVE InteractInv'
<1> DEFINE v == sched_pctcpu_update(td, TRUE)
           c == sched_interact_fork(v)
<1>1. td.state = "RUNNING"
      BY DEF sched_fork, Is
<1>2. \/ td' = Charged(v, tickincr)
      \/ td' = [c EXCEPT !.state = "RUNQ"]
      BY Zenon DEF sched_fork
<1>3. Sound(v) /\ v.lage = 0
      BY <1>1, SeenKept
<1> HIDE DEF v
<1>4. CASE td' = Charged(v, tickincr)
  <2> DEFINE u == Charged(v, tickincr)
  <2>1. Sound(u) /\ u.lage = 0
        BY <1>3, ChargedKept, InteractNumbers
  <2> HIDE DEF u
  <2>2. td' = u
        BY <1>4 DEF u
  <2>. QED  BY <2>1, <2>2, InteractInvNext, InteractNumbers
<1>5. CASE td' = [c EXCEPT !.state = "RUNQ"]
  <2> DEFINE u == Moved(c, "RUNQ", c.slept)
  <2>1. v \in Histories /\ Windowed(v) /\ Bounded(v)
        BY <1>3 DEF Sound
  <2>2. c \in Histories /\ SameWindow(v, c) /\ Bounded(c)
        BY <2>1, ForkKeeps
  <2> HIDE DEF c
  <2>3. Windowed(c) /\ c.slept \in 0 .. TickWord - 1
        BY <2>1, <2>2, KeptThrough DEF Histories
  <2>4. Sound(c)
        BY <2>2, <2>3 DEF Sound
  <2>5. td' = u
        BY <1>5, <2>2 DEF Histories, Moved
  <2>6. Sound(u) /\ u.state = "RUNQ"
        BY <2>3, <2>4, MovedKeeps
  <2> HIDE DEF u
  <2>. QED  BY <2>5, <2>6, InteractInvNext
<1>. QED  BY <1>2, <1>4, <1>5

LEMMA ExitKept == ASSUME InteractInv, sched_exit PROVE InteractInv'
<1>1. PICK n \in {1, SCHED_SLP_RUN_MAX} : td' = Charged(td, n)
      BY DEF sched_exit
<1> DEFINE u == Charged(td, n)
<1>2. n \in Nat /\ Sound(td)
      BY InteractNumbers, InteractFields
<1>3. Sound(u) /\ u.lage = td.lage /\ u.state = td.state
      BY <1>2, ChargedKept
<1> HIDE DEF u
<1>4. td' = u
      BY <1>1 DEF u
<1>. QED  BY <1>3, <1>4, InteractFields, InteractInvNext
\* Every count of sched_ule.c's history of a thread stays what its C type holds,
\* and sched_priority never leaves the range it is asserted to be in
\* (sched_ule.c:1640, 1649), nor does the history outgrow its limits: proved
\* from one invariant, that the window has not been over for long, that the two
\* sums fit unless they were cut by the u_int, and that a running thread has
\* been looked at in the last TickGap ticks.
LEMMA HistoryInvariant == InteractSpec => []InteractInv
<1>1. ASSUME InteractInv, [InteractNext]_interactVars PROVE InteractInv'
  <2>1. CASE UNCHANGED interactVars
        BY <1>1, <2>1, InteractFields, InteractInvNext DEF interactVars
  <2>2. CASE InteractNext
        BY <1>1, <2>2, TickRunningKept, TickWaitingKept, ClockKept, SwitchOutKept, SwitchInKept,
           WakeupKept, NiceKept, SchedForkKept, ExitKept, Zenon DEF InteractNext
  <2>. QED  BY <1>1, <2>1, <2>2
<1>. QED  BY <1>1, InteractInitKept, PTL DEF InteractSpec

LEMMA InteractInvTypes == InteractInv => InteractTypeOK
<1> SUFFICES ASSUME InteractInv PROVE InteractTypeOK
    OBVIOUS
<1>1. td \in Histories
      BY InteractFields
<1>2. sched_priority(td) \in IF Interactive(td) THEN PRI_MIN_INTERACT .. PRI_MAX_INTERACT
                                                ELSE PRI_MIN_BATCH .. PRI_MAX_BATCH
      BY <1>1, PriorityInRange
<1>. QED  BY <1>1, <1>2 DEF InteractTypeOK, Histories

LEMMA InteractInvKept == InteractInv => HistoryKept
<1> SUFFICES ASSUME InteractInv PROVE HistoryKept
    OBVIOUS
<1>1. td \in Histories /\ Windowed(td) /\ Bounded(td)
      BY InteractFields
<1>2. Window(td) \in Int
  <2>1. td.fage - td.lage \in Int
        BY <1>1, InteractNumbers DEF Histories
  <2>. QED  BY <2>1, InteractNumbers, Remainder DEF Window
<1>3. HistoryBounded
      BY <1>1 DEF Bounded, HistoryBounded
<1>4. Window(td) < SCHED_TICK_MAX + TickGap
      BY <1>1, <1>2, TickNumbers, InteractNumbers DEF Windowed
<1>5. td.ticks <= Window(td) * Unit
      BY <1>1 DEF Windowed
<1>. QED  BY <1>3, <1>4, <1>5 DEF HistoryKept, ShareOfWindow, Window

\* Of any thread, however it runs, sleeps, is niced, forks or collects its
\* children's time, the counts keep their types and the priority computed from
\* them is in the interactive or the batch range, as sched_priority
\* (sched_ule.c:1628) only asserts.
THEOREM PriorityAlwaysInRange == InteractSpec => []InteractTypeOK
BY HistoryInvariant, InteractInvTypes, PTL

\* The sum of the run and sleep time never exceeds its limit unless a u_int has
\* cut it (sched_ule.c:1662), and the ticks counted never exceed the window, nor
\* that its limit (sched_ule.c:1763).
THEOREM HistoryAlwaysKept == InteractSpec => []HistoryKept
BY HistoryInvariant, InteractInvKept, PTL
=============================================================================
