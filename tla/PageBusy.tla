------------------------------- MODULE PageBusy -----------------------------
(***************************************************************************)
(* The busy word of one page (asgn3/vm_page.c and vm_page.h): a reader and *)
(* writer lock in a word, without the identity of its owners, whose slow   *)
(* paths take the page lock.  Threads grab the page under its object's     *)
(* lock, sleep on it, and release or downgrade it without that lock.       *)
(*                                                                         *)
(* A step is one atomic access to the word, or one operation on a lock.    *)
(***************************************************************************)
EXTENDS Naturals, FiniteSets, TLC

CONSTANTS Threads, NoThread

ASSUME PageBusyAssumption == IsFiniteSet(Threads) /\ NoThread \notin Threads

VARIABLES
    busy,       \* m->busy_lock: sharers, VPB_BIT_EXCLUSIVE, VPB_BIT_WAITERS
    pagelock,   \* owner of vm_page_lockptr(m)
    objlock,    \* owner of the object's lock
    pc,         \* per thread: where it is
    want,       \* per thread: what its vm_page_grab asks for
    x,          \* per thread: the local x, a value of the word
    hold,       \* per thread: the busy state it owns
    panicked

vars == <<busy, pagelock, objlock, pc, want, x, hold, panicked>>

\* VPB_BIT_SHARED is set exactly when VPB_BIT_EXCLUSIVE is not.
Word == [sharers : Nat, excl : BOOLEAN, waiters : BOOLEAN]

UNBUSIED         == [sharers |-> 0, excl |-> FALSE, waiters |-> FALSE]
SINGLE_EXCLUSIVER == [sharers |-> 0, excl |-> TRUE, waiters |-> FALSE]
SHARERS_WORD(n)  == [sharers |-> n, excl |-> FALSE, waiters |-> FALSE]

\* Where a thread is outside the functions: without and with the page lock,
\* which a caller may hold already.
Home(t) == IF pagelock = t THEN "locked" ELSE "out"

Grabbing == {"lookup", "xbusy", "sbusy", "scas"}         \* with the object lock
Sleeping == {"busysleep", "setwaiters", "msleep"}        \* with the page lock
Waking   == {"wake", "wakeheld"}                         \* likewise
PageLocked == {"locked", "flcas", "dgcasheld", "xustore", "xustoreheld"}
Places ==
    {"out", "sleeplock", "asleep", "relock", "dgread", "dglock", "dgcas",
     "suread", "sulock", "sucas", "xulock"}
    \cup Grabbing \cup Sleeping \cup Waking \cup PageLocked

Init ==
    /\ busy = UNBUSIED /\ pagelock = NoThread /\ objlock = NoThread
    /\ pc = [t \in Threads |-> "out"] /\ want = [t \in Threads |-> "x"]
    /\ x = [t \in Threads |-> UNBUSIED] /\ hold = [t \in Threads |-> "none"]
    /\ panicked = FALSE

Go(t, from, to) == /\ ~panicked /\ pc[t] = from /\ pc' = [pc EXCEPT ![t] = to]

LockPage(t)   == pagelock = NoThread /\ pagelock' = t
UnlockPage(t) == pagelock = t /\ pagelock' = NoThread

\* The caller is done with the object; a local that is dead is UNBUSIED.
Leave(t)  == objlock' = NoThread /\ want' = [want EXCEPT ![t] = "x"]
Read(t)   == x' = [x EXCEPT ![t] = busy]
Forget(t) == x' = [x EXCEPT ![t] = UNBUSIED]

-----------------------------------------------------------------------------
(* vm_page_grab and vm_page_busy_sleep *)

\* A caller takes the object lock and grabs the page: exclusive busy, shared
\* busy (with VM_ALLOC_IGN_SBUSY), or neither and only wired.
Grab(t, kind) ==
    /\ Go(t, "out", "lookup") /\ hold[t] = "none"
    /\ objlock = NoThread /\ objlock' = t
    /\ want' = [want EXCEPT ![t] = kind]
    /\ UNCHANGED <<busy, pagelock, x, hold, panicked>>

\* Mutant of MustSleep: never looks at the sharers.
MustSleep_xonly(kind) == busy.excl

MustSleep(kind) == IF kind = "s" THEN busy.excl ELSE busy # UNBUSIED

\* A busy page sends the caller to sleep, or back with VM_ALLOC_NOWAIT.
Lookup(t) ==
    /\ UNCHANGED <<busy, pagelock, x, hold, panicked>>
    /\ \/ MustSleep(want[t]) /\ Go(t, "lookup", "sleeplock") /\ UNCHANGED <<objlock, want>>
       \/ MustSleep(want[t]) /\ Go(t, "lookup", "out") /\ Leave(t)
       \/ ~MustSleep(want[t]) /\ want[t] = "wire" /\ Go(t, "lookup", "out") /\ Leave(t)
       \/ /\ ~MustSleep(want[t]) /\ want[t] # "wire" /\ UNCHANGED <<objlock, want>>
          /\ Go(t, "lookup", IF want[t] = "x" THEN "xbusy" ELSE "sbusy")

\* vm_page_lock, then the object is unlocked.
LockForSleep(t) ==
    /\ Go(t, "sleeplock", "busysleep") /\ LockPage(t) /\ objlock' = NoThread
    /\ UNCHANGED <<busy, want, x, hold, panicked>>

\* vm_page_busy_sleep; nonshared is what grabbing shared asks for.
ReadForSleep(t) ==
    LET awake == busy = UNBUSIED \/ (want[t] = "s" /\ ~busy.excl)
    IN  /\ UNCHANGED <<busy, objlock, want, hold, panicked>>
        /\ \/ awake /\ Go(t, "busysleep", "relock") /\ UnlockPage(t) /\ UNCHANGED x
           \/ /\ ~awake /\ busy.waiters
              /\ Go(t, "busysleep", "msleep") /\ UNCHANGED <<pagelock, x>>
           \/ /\ ~awake /\ ~busy.waiters
              /\ Go(t, "busysleep", "setwaiters") /\ Read(t) /\ UNCHANGED pagelock

\* Mutant of SetWaiters: sleeps although the word has changed.
SetWaiters_store(t) ==
    /\ Go(t, "setwaiters", "msleep")
    /\ busy' = IF busy = x[t] THEN [busy EXCEPT !.waiters = TRUE] ELSE busy
    /\ Forget(t) /\ UNCHANGED <<pagelock, objlock, want, hold, panicked>>

SetWaiters(t) ==
    /\ Forget(t) /\ UNCHANGED <<objlock, want, hold, panicked>>
    /\ \/ /\ busy = x[t] /\ busy' = [busy EXCEPT !.waiters = TRUE]
          /\ Go(t, "setwaiters", "msleep") /\ UNCHANGED pagelock
       \/ /\ busy # x[t] /\ Go(t, "setwaiters", "relock") /\ UnlockPage(t)
          /\ UNCHANGED busy

Msleep(t) ==
    /\ Go(t, "msleep", "asleep") /\ UnlockPage(t)
    /\ UNCHANGED <<busy, objlock, want, x, hold, panicked>>

\* Awake again: the object is locked and the page looked up again.
Relock(t) ==
    /\ Go(t, "relock", "lookup") /\ objlock = NoThread /\ objlock' = t
    /\ UNCHANGED <<busy, pagelock, want, x, hold, panicked>>

\* vm_page_xbusy: a failed compare-and-set is a panic.  The caller unlocks
\* the object when it has the page.
XBusy(t) ==
    /\ Go(t, "xbusy", "out") /\ Leave(t) /\ UNCHANGED <<pagelock, x>>
    /\ panicked' = (busy # UNBUSIED)
    /\ IF panicked' THEN UNCHANGED <<busy, hold>>
                    ELSE busy' = SINGLE_EXCLUSIVER /\ hold' = [hold EXCEPT ![t] = "x"]

\* vm_page_sbusy over vm_page_trysbusy.
SBusyRead(t) ==
    /\ Go(t, "sbusy", "scas") /\ Read(t) /\ panicked' = busy.excl
    /\ UNCHANGED <<busy, pagelock, objlock, want, hold>>

SBusyCas(t) ==
    /\ Forget(t) /\ UNCHANGED <<pagelock, panicked>>
    /\ \/ /\ busy = x[t] /\ busy' = [busy EXCEPT !.sharers = @ + 1]
          /\ Go(t, "scas", "out") /\ Leave(t)
          /\ hold' = [hold EXCEPT ![t] = "s"]
       \/ /\ busy # x[t] /\ Go(t, "scas", "sbusy")
          /\ UNCHANGED <<busy, objlock, want, hold>>

-----------------------------------------------------------------------------
(* Release, downgrade and flash.  A caller that had the page lock keeps it: *)
(* the places that end in "held" are those of such a caller.                *)

\* A caller that needs the page lock for other fields of the page.
CallerLocks(t) ==
    /\ Go(t, "out", "locked") /\ LockPage(t)
    /\ UNCHANGED <<busy, objlock, want, x, hold, panicked>>

CallerUnlocks(t) ==
    /\ Go(t, "locked", "out") /\ UnlockPage(t)
    /\ UNCHANGED <<busy, objlock, want, x, hold, panicked>>

\* Mutant of Wake: forgets the sleepers.
Wake_none(t) ==
    /\ \/ Go(t, "wake", "out") /\ UnlockPage(t)
       \/ Go(t, "wakeheld", "locked") /\ UNCHANGED pagelock
    /\ UNCHANGED <<busy, objlock, want, x, hold, panicked>>

\* wakeup(m), and the page lock is released if the function took it.
Wake(t) ==
    LET awake(to) == [u \in Threads |-> CASE u = t            -> to
                                          [] pc[u] = "asleep" -> "relock"
                                          [] OTHER            -> pc[u]]
    IN  /\ ~panicked
        /\ \/ pc[t] = "wake" /\ pc' = awake("out") /\ UnlockPage(t)
           \/ pc[t] = "wakeheld" /\ pc' = awake("locked") /\ UNCHANGED pagelock
        /\ UNCHANGED <<busy, objlock, want, x, hold, panicked>>

\* vm_page_busy_downgrade
Downgrade(t) ==
    /\ Go(t, Home(t), "dgread") /\ hold[t] = "x"
    /\ UNCHANGED <<busy, pagelock, objlock, want, x, hold, panicked>>

DgRead(t) ==
    /\ x' = [x EXCEPT ![t] = [SINGLE_EXCLUSIVER EXCEPT !.waiters = busy.waiters]]
    /\ Go(t, "dgread", CASE pagelock = t                   -> "dgcasheld"
                         [] pagelock # t /\ busy.waiters   -> "dglock"
                         [] OTHER                          -> "dgcas")
    /\ UNCHANGED <<busy, pagelock, objlock, want, hold, panicked>>

DgLock(t) ==
    /\ Go(t, "dglock", "dgcas") /\ LockPage(t)
    /\ UNCHANGED <<busy, objlock, want, x, hold, panicked>>

DgCas(t) ==
    /\ Forget(t) /\ UNCHANGED <<objlock, want, panicked>>
    /\ \/ /\ busy = x[t] /\ busy' = SHARERS_WORD(1)
          /\ hold' = [hold EXCEPT ![t] = "s"] /\ UNCHANGED pagelock
          /\ \/ Go(t, "dgcas", IF x[t].waiters THEN "wake" ELSE "out")
             \/ Go(t, "dgcasheld", IF x[t].waiters THEN "wakeheld" ELSE "locked")
       \/ /\ busy # x[t] /\ UNCHANGED <<busy, hold>>
          /\ \/ /\ Go(t, "dgcas", "dgread")
                /\ pagelock' = IF x[t].waiters THEN NoThread ELSE pagelock
             \/ Go(t, "dgcasheld", "dgread") /\ UNCHANGED pagelock

\* vm_page_sunbusy, never called with the page lock.
SUnbusy(t) ==
    /\ Go(t, "out", "suread") /\ hold[t] = "s"
    /\ UNCHANGED <<busy, pagelock, objlock, want, x, hold, panicked>>

SuRead(t) ==
    /\ Read(t)
    /\ Go(t, "suread", IF busy.sharers <= 1 /\ busy.waiters THEN "sulock" ELSE "sucas")
    /\ UNCHANGED <<busy, pagelock, objlock, want, hold, panicked>>

SuLock(t) ==
    /\ Go(t, "sulock", "sucas") /\ LockPage(t)
    /\ UNCHANGED <<busy, objlock, want, x, hold, panicked>>

\* With the page lock the last sharer clears the waiters bit too.
SuCas(t) ==
    /\ Forget(t) /\ UNCHANGED <<objlock, want, panicked>>
    /\ \/ /\ busy = x[t] /\ hold' = [hold EXCEPT ![t] = "none"] /\ UNCHANGED pagelock
          /\ busy' = IF busy.sharers > 1 THEN [busy EXCEPT !.sharers = @ - 1] ELSE UNBUSIED
          /\ Go(t, "sucas", IF pagelock = t THEN "wake" ELSE "out")
       \/ /\ busy # x[t] /\ Go(t, "sucas", "suread") /\ UNCHANGED <<busy, hold>>
          /\ pagelock' = IF pagelock = t THEN NoThread ELSE pagelock

\* vm_page_xunbusy, vm_page_xunbusy_maybelocked: the fast path, or the lock.
XUnbusy(t) ==
    /\ hold[t] = "x" /\ pc[t] = Home(t)
    /\ UNCHANGED <<pagelock, objlock, want, x, panicked>>
    /\ \/ /\ busy = SINGLE_EXCLUSIVER /\ busy' = UNBUSIED
          /\ hold' = [hold EXCEPT ![t] = "none"] /\ Go(t, Home(t), Home(t))
       \/ /\ busy # SINGLE_EXCLUSIVER /\ UNCHANGED <<busy, hold>>
          /\ Go(t, Home(t), IF pagelock = t THEN "xustoreheld" ELSE "xulock")

XuLock(t) ==
    /\ Go(t, "xulock", "xustore") /\ LockPage(t)
    /\ UNCHANGED <<busy, objlock, want, x, hold, panicked>>

\* vm_page_xunbusy_locked: a plain store.
XuStore(t) ==
    /\ busy' = UNBUSIED /\ hold' = [hold EXCEPT ![t] = "none"]
    /\ Go(t, "xustore", "wake") \/ Go(t, "xustoreheld", "wakeheld")
    /\ UNCHANGED <<pagelock, objlock, want, x, panicked>>

\* vm_page_flash, by any thread with the page lock.
Flash(t) ==
    /\ busy.waiters /\ Go(t, "locked", "flcas") /\ Read(t)
    /\ UNCHANGED <<busy, pagelock, objlock, want, hold, panicked>>

FlCas(t) ==
    /\ Forget(t) /\ UNCHANGED <<pagelock, objlock, want, hold, panicked>>
    /\ \/ /\ busy = x[t] /\ busy' = [busy EXCEPT !.waiters = FALSE]
          /\ Go(t, "flcas", "wakeheld")
       \/ busy # x[t] /\ Go(t, "flcas", "locked") /\ UNCHANGED busy

-----------------------------------------------------------------------------

\* What a thread does on its own once it is inside a function.
Inside(t) ==
    \/ Lookup(t) \/ ReadForSleep(t) \/ SetWaiters(t) \/ Msleep(t)
    \/ XBusy(t) \/ SBusyRead(t) \/ SBusyCas(t)
    \/ Wake(t) \/ DgRead(t) \/ DgCas(t) \/ SuRead(t) \/ SuCas(t)
    \/ XuStore(t) \/ FlCas(t) \/ CallerUnlocks(t)

Acquire(t) == LockForSleep(t) \/ DgLock(t) \/ SuLock(t) \/ XuLock(t)

Calls(t) ==
    \/ \E kind \in {"x", "s", "wire"} : Grab(t, kind)
    \/ CallerLocks(t) \/ Downgrade(t) \/ SUnbusy(t) \/ XUnbusy(t) \/ Flash(t)

Next == \E t \in Threads : Inside(t) \/ Acquire(t) \/ Relock(t) \/ Calls(t)

\* Every thread goes on inside the functions, a mutex is not withheld from a
\* thread forever, and a caller releases in the end what it has busied.
Fairness ==
    \A t \in Threads :
        /\ WF_vars(Inside(t)) /\ SF_vars(Acquire(t)) /\ SF_vars(Relock(t))
        /\ SF_vars(SUnbusy(t) \/ XUnbusy(t))

Spec == Init /\ [][Next]_vars /\ Fairness

-----------------------------------------------------------------------------
(* Properties *)

\* Types, and the lock assertions of the functions: vm_page_busy_sleep and
\* vm_page_xunbusy_locked run with the page lock, vm_page_grab with the
\* object's (vm_page.c:854, 899, 3262).
TypeOK ==
    /\ busy \in Word /\ panicked \in BOOLEAN
    /\ pagelock \in Threads \cup {NoThread} /\ objlock \in Threads \cup {NoThread}
    /\ pc \in [Threads -> Places] /\ want \in [Threads -> {"x", "s", "wire"}]
    /\ x \in [Threads -> Word] /\ hold \in [Threads -> {"none", "s", "x"}]
    /\ \A t \in Threads :
          /\ pc[t] \in Sleeping \cup Waking \cup PageLocked => pagelock = t
          /\ pc[t] \in Grabbing \cup {"sleeplock"} => objlock = t

\* The word says who has the page: its sharers are counted exactly and it is
\* exclusive when one thread, and no other, has it exclusively
\* (vm_page.c:763, 796, 881 retry until nobody else changed the word).
WordMatchesHolders ==
    /\ busy.sharers = Cardinality({t \in Threads : hold[t] = "s"})
    /\ busy.excl <=> \E t \in Threads : hold[t] = "x"
    /\ \A t, u \in Threads : hold[t] = "x" /\ hold[u] # "none" => t = u
    /\ busy.waiters => busy.excl \/ busy.sharers > 0

\* A thread sleeps only while the waiters bit will make the next release take
\* the page lock, or while the thread that has it is about to wake everybody
\* (vm_page.c:857 sets the bit before msleep drops the lock).
SleepersSeen ==
    (\E t \in Threads : pc[t] = "asleep") =>
        busy.waiters \/ (pagelock # NoThread /\ pc[pagelock] \in Waking)

\* All of these: what the word tells is so.
WordSound == TypeOK /\ WordMatchesHolders /\ SleepersSeen

\* A page that was free under the object lock is still free when vm_page_grab
\* busies it: nobody busies a page without that lock (vm_page.h:575, 562).
GrabNeverPanics == ~panicked

\* A sleeper is woken, unless ever new sharers keep the page busy: releasing
\* one of several sharers wakes nobody (vm_page.c:806).
SleeperWoken ==
    []<><<\E t \in Threads : SBusyCas(t)>>_vars
    \/ \A t \in Threads : pc[t] = "asleep" ~> pc[t] # "asleep"
=============================================================================
