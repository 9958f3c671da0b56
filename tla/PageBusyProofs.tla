--------------------------- MODULE PageBusyProofs ---------------------------
(***************************************************************************)
(* The busy word of a page is sound, and vm_page_grab never panics, for any*)
(* number of threads.                                                      *)
(***************************************************************************)
EXTENDS PageBusy, FiniteSetTheorems, TLAPS

Sharers == {t \in Threads : hold[t] = "s"}

\* Where a thread has the page busied exclusively, shared, or not at all, and
\* where it may have the page lock.
Exclusive == {"dgread", "dglock", "dgcas", "dgcasheld", "xulock", "xustore", "xustoreheld"}
Shared    == {"suread", "sulock", "sucas"}
Without   == Grabbing \cup Sleeping \cup {"asleep", "relock", "sleeplock"}
MayLock   == Sleeping \cup Waking \cup PageLocked \cup {"dgread", "dgcas", "sucas"}

PlacesHold ==
    \A t \in Threads :
        /\ pc[t] \in Exclusive => hold[t] = "x"
        /\ pc[t] \in Shared => hold[t] = "s"
        /\ pc[t] \in Without => hold[t] = "none"
        /\ pagelock = t => pc[t] \in MayLock

\* The release of the last sharer, with somebody waiting.
Last(w) == w.sharers <= 1 /\ w.waiters

\* What a thread has read decides whether it has the page lock.
LocalsSound ==
    \A t \in Threads :
        /\ pc[t] = "setwaiters" => x[t] # UNBUSIED /\ ~x[t].waiters
        /\ pc[t] = "scas" => ~x[t].excl
        /\ pc[t] = "dglock" => x[t].waiters
        /\ pc[t] = "dgcas" => (x[t].waiters <=> pagelock = t)
        /\ pc[t] = "sulock" => Last(x[t])
        /\ pc[t] = "sucas" => (Last(x[t]) <=> pagelock = t)

\* What stays true of the word while a thread has one of the locks.
WordStays ==
    \A t \in Threads :
        /\ pc[t] = "xbusy" => busy = UNBUSIED
        /\ pc[t] \in {"sbusy", "scas"} => ~busy.excl
        /\ pc[t] = "msleep" => busy.waiters

BInv ==
    /\ TypeOK /\ WordMatchesHolders /\ SleepersSeen
    /\ PlacesHold /\ LocalsSound /\ WordStays /\ ~panicked

LEMMA BusyInit == Init => BInv
<1>. SUFFICES ASSUME Init PROVE BInv
    OBVIOUS
<1>. USE DEF Init
<1>1. TypeOK
      BY DEF TypeOK, Word, UNBUSIED, Places, Sleeping, Waking, PageLocked, Grabbing
<1>2. Cardinality(Sharers) = 0
      BY FS_EmptySet DEF Sharers
<1>3. WordMatchesHolders
      BY <1>2 DEF WordMatchesHolders, Sharers, UNBUSIED
<1>4. SleepersSeen /\ PlacesHold /\ LocalsSound /\ WordStays
      BY PageBusyAssumption DEF SleepersSeen, PlacesHold, LocalsSound, WordStays, Exclusive, Shared, Without,
            MayLock, Sleeping, Waking, PageLocked, Grabbing
<1>. QED  BY <1>1, <1>3, <1>4 DEF BInv

-----------------------------------------------------------------------------
(* Words and holders *)

LEMMA WordFields ==
    ASSUME NEW w \in Word
    PROVE  w.sharers \in Nat /\ w.excl \in BOOLEAN /\ w.waiters \in BOOLEAN
BY DEF Word

LEMMA SameWord ==
    ASSUME NEW v \in Word, NEW w \in Word,
           v.sharers = w.sharers, v.excl = w.excl, v.waiters = w.waiters
    PROVE  v = w
BY DEF Word

LEMMA WordsAre ==
    /\ UNBUSIED \in Word /\ UNBUSIED.sharers = 0
    /\ UNBUSIED.excl = FALSE /\ UNBUSIED.waiters = FALSE
    /\ SINGLE_EXCLUSIVER \in Word /\ SINGLE_EXCLUSIVER.sharers = 0
    /\ SINGLE_EXCLUSIVER.excl = TRUE /\ SINGLE_EXCLUSIVER.waiters = FALSE
    /\ SHARERS_WORD(1) \in Word /\ SHARERS_WORD(1).sharers = 1
    /\ SHARERS_WORD(1).excl = FALSE /\ SHARERS_WORD(1).waiters = FALSE
BY DEF UNBUSIED, SINGLE_EXCLUSIVER, SHARERS_WORD, Word

LEMMA BitSet ==
    ASSUME NEW w \in Word, NEW b \in BOOLEAN
    PROVE  LET v == [w EXCEPT !.waiters = b]
           IN  v \in Word /\ v.sharers = w.sharers /\ v.excl = w.excl /\ v.waiters = b
BY DEF Word

LEMMA SharersSet ==
    ASSUME NEW w \in Word, NEW n \in Nat
    PROVE  LET v == [w EXCEPT !.sharers = n]
           IN  v \in Word /\ v.sharers = n /\ v.excl = w.excl /\ v.waiters = w.waiters
BY DEF Word

LEMMA SharersCounted ==
    /\ IsFiniteSet(Sharers) /\ Cardinality(Sharers) \in Nat
    /\ Cardinality(Sharers) = 0 => Sharers = {}
    /\ \A t \in Threads :
          /\ t \notin Sharers => Cardinality(Sharers \cup {t}) = Cardinality(Sharers) + 1
          /\ t \in Sharers => /\ Cardinality(Sharers) > 0
                              /\ Cardinality(Sharers \ {t}) = Cardinality(Sharers) - 1
<1>1. IsFiniteSet(Sharers)
      BY PageBusyAssumption, FS_Subset DEF Sharers
<1>2. Cardinality(Sharers) \in Nat /\ (Cardinality(Sharers) = 0 => Sharers = {})
      BY <1>1, FS_CardinalityType, FS_EmptySet
<1>3. ASSUME NEW t \in Threads, t \notin Sharers
      PROVE  Cardinality(Sharers \cup {t}) = Cardinality(Sharers) + 1
      BY <1>1, <1>3, FS_AddElement
<1>4. ASSUME NEW t \in Threads, t \in Sharers
      PROVE  /\ Cardinality(Sharers) > 0
             /\ Cardinality(Sharers \ {t}) = Cardinality(Sharers) - 1
  <2>1. Cardinality(Sharers \ {t}) = Cardinality(Sharers) - 1
        BY <1>1, <1>4, FS_RemoveElement
  <2>2. Cardinality(Sharers) # 0
        BY <1>2, <1>4
  <2>. QED  BY <1>2, <2>1, <2>2
<1>. QED  BY <1>1, <1>2, <1>3, <1>4

\* A word that nobody has means that nobody has the page.
LEMMA NobodyHolds ==
    ASSUME TypeOK, WordMatchesHolders, busy.sharers = 0, ~busy.excl
    PROVE  \A u \in Threads : hold[u] = "none"
<1>1. Sharers = {}
      BY SharersCounted DEF WordMatchesHolders, Sharers
<1>2. \A u \in Threads : hold[u] # "x" /\ hold[u] # "s"
      BY <1>1 DEF WordMatchesHolders, Sharers
<1>. QED  BY <1>2 DEF TypeOK

\* What busy.excl and the holders have to do with each other.
LEMMA HoldersTell ==
    ASSUME TypeOK, WordMatchesHolders, NEW t \in Threads
    PROVE  /\ busy \in Word /\ x[t] \in Word
           /\ hold[t] = "x" => /\ busy.excl = TRUE /\ busy.sharers = 0 /\ Sharers = {}
                               /\ \A u \in Threads \ {t} : hold[u] = "none"
           /\ hold[t] = "s" => /\ busy.excl = FALSE /\ busy.sharers > 0
                               /\ \A u \in Threads : hold[u] # "x"
<1>1. busy \in Word /\ x[t] \in Word
      BY DEF TypeOK
<1>2. busy.excl \in BOOLEAN /\ busy.sharers \in Nat
      BY <1>1, WordFields
<1>3. ASSUME hold[t] = "x"
      PROVE  /\ busy.excl = TRUE /\ busy.sharers = 0 /\ Sharers = {}
             /\ \A u \in Threads \ {t} : hold[u] = "none"
  <2>1. \A u \in Threads \ {t} : hold[u] = "none"
        BY <1>3, Zenon DEF WordMatchesHolders
  <2>2. Sharers = {}
        BY <1>3, <2>1 DEF Sharers
  <2>3. busy.sharers = 0
        BY <2>2, FS_EmptySet, Zenon DEF WordMatchesHolders, Sharers
  <2>4. busy.excl = TRUE
        BY <1>2, <1>3, Zenon DEF WordMatchesHolders
  <2>. QED  BY <2>1, <2>2, <2>3, <2>4, Zenon
<1>4. ASSUME hold[t] = "s"
      PROVE  /\ busy.excl = FALSE /\ busy.sharers > 0
             /\ \A u \in Threads : hold[u] # "x"
  <2>1. \A u \in Threads : hold[u] # "x"
        BY <1>4 DEF WordMatchesHolders
  <2>2. busy.excl = FALSE
        BY <1>2, <2>1, Zenon DEF WordMatchesHolders
  <2>3. t \in Sharers
        BY <1>4 DEF Sharers
  <2>4. busy.sharers > 0
        BY <2>3, SharersCounted DEF WordMatchesHolders, Sharers
  <2>. QED  BY <2>1, <2>2, <2>4, Zenon
<1>. QED  BY <1>1, <1>3, <1>4, Zenon

\* The only holder gives up the page.
LEMMA ReleasedExclusive ==
    ASSUME TypeOK, WordMatchesHolders, NEW t \in Threads, hold[t] = "x",
           hold' = [hold EXCEPT ![t] = "none"],
           busy'.sharers = 0, busy'.excl = FALSE, busy'.waiters = FALSE
    PROVE  WordMatchesHolders'
<1>1. \A u \in Threads \ {t} : hold[u] = "none"
      BY HoldersTell
<1>2. \A u \in Threads : hold'[u] = "none"
      BY <1>1 DEF TypeOK
<1>3. {u \in Threads : hold'[u] = "s"} = {}
      BY <1>2
<1>. QED  BY <1>2, <1>3, FS_EmptySet DEF WordMatchesHolders

LEMMA GrabKeeps ==
    ASSUME BInv, NEW t \in Threads, NEW kind \in {"x", "s", "wire"}, Grab(t, kind)
    PROVE  BInv'
<1>. USE PageBusyAssumption DEF Grab, Go, BInv
<1>1. TypeOK'
      BY DEF TypeOK, Places, Sleeping, Waking, PageLocked, Grabbing
<1>2. WordMatchesHolders'
      BY DEF WordMatchesHolders
<1>3. SleepersSeen'
      BY DEF SleepersSeen, WordStays, TypeOK, Waking
<1>4. PlacesHold'
      BY DEF PlacesHold, TypeOK, Exclusive, Shared, Without,
            MayLock, Sleeping, Waking, PageLocked, Grabbing
<1>5. LocalsSound'
      BY DEF LocalsSound, TypeOK
<1>6. WordStays'
      BY DEF WordStays, TypeOK
<1>. QED  BY <1>1, <1>2, <1>3, <1>4, <1>5, <1>6

LEMMA LookupKeeps ==
    ASSUME BInv, NEW t \in Threads, Lookup(t)
    PROVE  BInv'
<1>. USE PageBusyAssumption DEF Lookup, Leave, MustSleep, Go, BInv
<1>1. TypeOK'
      BY DEF TypeOK, Places, Sleeping, Waking, PageLocked, Grabbing
<1>2. WordMatchesHolders'
      BY DEF WordMatchesHolders
<1>3. SleepersSeen'
      BY DEF SleepersSeen, WordStays, TypeOK, Waking
<1>4. PlacesHold'
      BY DEF PlacesHold, TypeOK, Exclusive, Shared, Without,
            MayLock, Sleeping, Waking, PageLocked, Grabbing
<1>5. LocalsSound'
      BY DEF LocalsSound, TypeOK
<1>6. WordStays'
      BY DEF WordStays, TypeOK
<1>. QED  BY <1>1, <1>2, <1>3, <1>4, <1>5, <1>6

LEMMA LockForSleepKeeps ==
    ASSUME BInv, NEW t \in Threads, LockForSleep(t)
    PROVE  BInv'
<1>. USE PageBusyAssumption DEF LockForSleep, LockPage, Go, BInv
<1>1. TypeOK'
      BY DEF TypeOK, Places, Sleeping, Waking, PageLocked, Grabbing
<1>2. WordMatchesHolders'
      BY DEF WordMatchesHolders
<1>3. SleepersSeen'
      BY DEF SleepersSeen, WordStays, TypeOK, Waking
<1>4. PlacesHold'
      BY DEF PlacesHold, TypeOK, Exclusive, Shared, Without,
            MayLock, Sleeping, Waking, PageLocked, Grabbing
<1>5. LocalsSound'
      BY DEF LocalsSound, TypeOK
<1>6. WordStays'
      BY DEF WordStays, TypeOK
<1>. QED  BY <1>1, <1>2, <1>3, <1>4, <1>5, <1>6

LEMMA ReadForSleepKeeps ==
    ASSUME BInv, NEW t \in Threads, ReadForSleep(t)
    PROVE  BInv'
<1>. USE PageBusyAssumption DEF ReadForSleep, UnlockPage, Read, Go, BInv
<1>1. TypeOK'
      BY DEF TypeOK, Places, Sleeping, Waking, PageLocked, Grabbing
<1>2. WordMatchesHolders'
      BY DEF WordMatchesHolders
<1>3. SleepersSeen'
      BY DEF SleepersSeen, WordStays, TypeOK, Waking
<1>4. PlacesHold'
      BY DEF PlacesHold, TypeOK, Exclusive, Shared, Without,
            MayLock, Sleeping, Waking, PageLocked, Grabbing
<1>5. LocalsSound'
      BY DEF LocalsSound, TypeOK
<1>6. WordStays'
      BY DEF WordStays, TypeOK
<1>. QED  BY <1>1, <1>2, <1>3, <1>4, <1>5, <1>6

LEMMA SetWaitersKeeps ==
    ASSUME BInv, NEW t \in Threads, SetWaiters(t)
    PROVE  BInv'
<1>. USE PageBusyAssumption DEF Go, BInv
<1>1. busy \in Word /\ x[t] \in Word /\ pc[t] = "setwaiters" /\ pagelock = t
      BY DEF TypeOK, SetWaiters, Sleeping
<1>2. x[t] # UNBUSIED /\ ~x[t].waiters
      BY <1>1 DEF LocalsSound
<1>3. ASSUME busy = x[t] PROVE busy.excl \/ busy.sharers > 0
      BY <1>1, <1>2, <1>3, SameWord, WordFields, WordsAre
<1>4. /\ busy' \in Word /\ busy'.sharers = busy.sharers /\ busy'.excl = busy.excl
      /\ busy'.waiters = busy.waiters \/ busy'.waiters = TRUE
      /\ pc'[t] = "msleep" => busy'.waiters
      /\ busy = x[t] \/ busy' = busy
      BY <1>1, BitSet DEF SetWaiters, TypeOK
<1>5. TypeOK'
  <2>1. CASE busy = x[t]
        BY <1>1, <1>4, <2>1
           DEF SetWaiters, Forget, TypeOK, UNBUSIED, Word, Places, Sleeping, Waking, PageLocked, Grabbing
  <2>2. CASE busy # x[t]
        BY <1>1, <1>4, <2>2
           DEF SetWaiters, Forget, UnlockPage, TypeOK, UNBUSIED, Word, Places, Sleeping, Waking,
               PageLocked, Grabbing
  <2>. QED  BY <2>1, <2>2
<1>6. WordMatchesHolders'
      BY <1>1, <1>3, <1>4, WordFields DEF WordMatchesHolders, SetWaiters
<1>7. SleepersSeen'
      BY <1>1, <1>4 DEF SleepersSeen, TypeOK, Waking, SetWaiters, UnlockPage
<1>8. PlacesHold'
      BY DEF PlacesHold, TypeOK, SetWaiters, UnlockPage, Exclusive, Shared, Without,
            MayLock, Sleeping, Waking, PageLocked, Grabbing
<1>9. LocalsSound'
      BY DEF LocalsSound, TypeOK, SetWaiters, Forget, UnlockPage
<1>10. WordStays'
      BY <1>1, <1>2, <1>4 DEF WordStays, TypeOK, SetWaiters
<1>. QED  BY <1>5, <1>6, <1>7, <1>8, <1>9, <1>10 DEF SetWaiters

LEMMA MsleepKeeps ==
    ASSUME BInv, NEW t \in Threads, Msleep(t)
    PROVE  BInv'
<1>. USE PageBusyAssumption DEF Msleep, UnlockPage, Go, BInv
<1>1. TypeOK'
      BY DEF TypeOK, Places, Sleeping, Waking, PageLocked, Grabbing
<1>2. WordMatchesHolders'
      BY DEF WordMatchesHolders
<1>3. SleepersSeen'
      BY DEF SleepersSeen, WordStays, TypeOK, Waking
<1>4. PlacesHold'
      BY DEF PlacesHold, TypeOK, Exclusive, Shared, Without,
            MayLock, Sleeping, Waking, PageLocked, Grabbing
<1>5. LocalsSound'
      BY DEF LocalsSound, TypeOK
<1>6. WordStays'
      BY DEF WordStays, TypeOK
<1>. QED  BY <1>1, <1>2, <1>3, <1>4, <1>5, <1>6

LEMMA RelockKeeps ==
    ASSUME BInv, NEW t \in Threads, Relock(t)
    PROVE  BInv'
<1>. USE PageBusyAssumption DEF Relock, Go, BInv
<1>1. TypeOK'
      BY DEF TypeOK, Places, Sleeping, Waking, PageLocked, Grabbing
<1>2. WordMatchesHolders'
      BY DEF WordMatchesHolders
<1>3. SleepersSeen'
      BY DEF SleepersSeen, WordStays, TypeOK, Waking
<1>4. PlacesHold'
      BY DEF PlacesHold, TypeOK, Exclusive, Shared, Without,
            MayLock, Sleeping, Waking, PageLocked, Grabbing
<1>5. LocalsSound'
      BY DEF LocalsSound, TypeOK
<1>6. WordStays'
      BY DEF WordStays, TypeOK
<1>. QED  BY <1>1, <1>2, <1>3, <1>4, <1>5, <1>6

LEMMA XBusyKeeps ==
    ASSUME BInv, NEW t \in Threads, XBusy(t)
    PROVE  BInv'
<1>. USE PageBusyAssumption DEF Go, BInv
<1>1. busy = UNBUSIED /\ pc[t] = "xbusy" /\ objlock = t
      BY DEF XBusy, WordStays, TypeOK, Grabbing
<1>2. \A u \in Threads : hold[u] = "none"
      BY <1>1, NobodyHolds, WordsAre
<1>3. /\ busy' \in Word /\ busy'.sharers = 0 /\ busy'.excl = TRUE /\ busy'.waiters = FALSE
      /\ hold' = [hold EXCEPT ![t] = "x"] /\ panicked' = FALSE
      BY <1>1, WordsAre, Zenon DEF XBusy
<1>4. hold' \in [Threads -> {"none", "s", "x"}] /\ hold'[t] = "x"
      /\ \A u \in Threads \ {t} : hold'[u] = "none"
      BY <1>2, <1>3 DEF TypeOK
<1>5. {u \in Threads : hold'[u] = "s"} = {}
      BY <1>4
<1>6. TypeOK'
  <2>1. pc' = [pc EXCEPT ![t] = "out"] /\ objlock' = NoThread
        BY DEF XBusy, Leave
  <2>2. \A u \in Threads : pc[u] \in Grabbing \cup {"sleeplock"} => u = t
        BY <1>1 DEF TypeOK
  <2>3. \A u \in Threads :
            pc'[u] \in Grabbing \cup {"sleeplock"} => FALSE
        BY <2>1, <2>2 DEF TypeOK, Grabbing
  <2>. QED  BY <1>3, <1>4, <2>1, <2>3 DEF XBusy, Leave, TypeOK, Places, Sleeping, Waking, PageLocked, Grabbing
<1>7. WordMatchesHolders'
      BY <1>3, <1>4, <1>5, FS_EmptySet DEF WordMatchesHolders
<1>8. SleepersSeen'
      BY <1>1, WordsAre DEF SleepersSeen, TypeOK, Waking, XBusy
<1>9. PlacesHold'
      BY <1>3 DEF PlacesHold, TypeOK, XBusy, Exclusive, Shared, Without,
            MayLock, Sleeping, Waking, PageLocked, Grabbing
<1>10. LocalsSound'
      BY DEF LocalsSound, TypeOK, XBusy
<1>11. WordStays'
  <2>1. \A u \in Threads : pc[u] \in {"xbusy", "sbusy", "scas"} => u = t
        BY <1>1 DEF TypeOK, Grabbing
  <2>2. \A u \in Threads : pc[u] # "msleep"
        BY <1>1, WordsAre DEF WordStays
  <2>3. pc' = [pc EXCEPT ![t] = "out"]
        BY DEF XBusy
  <2>. QED  BY <2>1, <2>2, <2>3 DEF WordStays, TypeOK
<1>. QED  BY <1>3, <1>6, <1>7, <1>8, <1>9, <1>10, <1>11

LEMMA SBusyReadKeeps ==
    ASSUME BInv, NEW t \in Threads, SBusyRead(t)
    PROVE  BInv'
<1>. USE PageBusyAssumption DEF Go, BInv
<1>1. busy \in Word /\ ~busy.excl
      BY DEF SBusyRead, WordStays, TypeOK
<1>2. panicked' = FALSE
      BY <1>1, WordFields, Zenon DEF SBusyRead
<1>3. x' = [x EXCEPT ![t] = busy] /\ pc' = [pc EXCEPT ![t] = "scas"]
      /\ UNCHANGED <<busy, pagelock, objlock, want, hold>>
      BY DEF SBusyRead, Read
<1>4. pc[t] = "sbusy"
      BY DEF SBusyRead
<1>5. TypeOK'
      BY <1>1, <1>2, <1>3, <1>4 DEF TypeOK, Places, Sleeping, Waking, PageLocked, Grabbing
<1>6. WordMatchesHolders'
      BY <1>3 DEF WordMatchesHolders
<1>7. SleepersSeen'
      BY <1>3, <1>4 DEF SleepersSeen, TypeOK, Waking
<1>8. PlacesHold'
      BY <1>3, <1>4 DEF PlacesHold, TypeOK, Exclusive, Shared, Without,
            MayLock, Sleeping, Waking, PageLocked, Grabbing
<1>9. LocalsSound'
      BY <1>1, <1>3, <1>4 DEF LocalsSound, TypeOK
<1>10. WordStays'
      BY <1>1, <1>3, <1>4 DEF WordStays, TypeOK
<1>. QED  BY <1>2, <1>5, <1>6, <1>7, <1>8, <1>9, <1>10

LEMMA SBusyCasKeeps ==
    ASSUME BInv, NEW t \in Threads, SBusyCas(t)
    PROVE  BInv'
<1>. USE PageBusyAssumption DEF Go, BInv
<1>1. /\ busy \in Word /\ x[t] \in Word /\ ~busy.excl /\ pc[t] = "scas" /\ objlock = t
      /\ hold[t] = "none"
      BY DEF SBusyCas, WordStays, TypeOK, Grabbing, PlacesHold, Without
<1>2. busy.sharers \in Nat
      BY <1>1, WordFields
<1>3. x' = [x EXCEPT ![t] = UNBUSIED] /\ UNCHANGED <<pagelock, panicked>> /\ UNBUSIED \in Word
      BY WordsAre DEF SBusyCas, Forget
<1>4. CASE busy # x[t]
  <2>1. UNCHANGED <<busy, objlock, want, hold>> /\ pc' = [pc EXCEPT ![t] = "sbusy"]
        BY <1>4 DEF SBusyCas
  <2>2. TypeOK'
        BY <1>1, <1>3, <2>1 DEF TypeOK, Places, Sleeping, Waking, PageLocked, Grabbing
  <2>3. WordMatchesHolders' /\ SleepersSeen'
        BY <1>1, <1>3, <2>1 DEF WordMatchesHolders, SleepersSeen, TypeOK, Waking
  <2>4. PlacesHold'
        BY <1>1, <1>3, <2>1 DEF PlacesHold, TypeOK, Exclusive, Shared, Without,
            MayLock, Sleeping, Waking, PageLocked, Grabbing
  <2>5. LocalsSound' /\ WordStays'
        BY <1>1, <1>3, <2>1 DEF LocalsSound, WordStays, TypeOK
  <2>. QED  BY <1>3, <2>2, <2>3, <2>4, <2>5
<1>5. CASE busy = x[t]
  <2>1. /\ pc' = [pc EXCEPT ![t] = "out"] /\ hold' = [hold EXCEPT ![t] = "s"]
        /\ objlock' = NoThread /\ want' = [want EXCEPT ![t] = "x"]
        /\ busy' = [busy EXCEPT !.sharers = busy.sharers + 1]
        BY <1>1, <1>5 DEF SBusyCas, Leave
  <2>2. /\ busy' \in Word /\ busy'.sharers = busy.sharers + 1
        /\ busy'.excl = busy.excl /\ busy'.waiters = busy.waiters
        BY <1>1, <1>2, <2>1, SharersSet
  <2>3. \A u \in Threads : pc[u] \in Grabbing \cup {"sleeplock"} => u = t
        BY <1>1 DEF TypeOK
  <2>4. \A u \in Threads : ~(pc'[u] \in Grabbing \cup {"sleeplock"})
        BY <2>1, <2>3 DEF TypeOK, Grabbing
  <2>5. TypeOK'
        BY <1>1, <1>3, <2>1, <2>2, <2>4 DEF TypeOK, Places, Sleeping, Waking, PageLocked, Grabbing
  <2>6. {u \in Threads : hold'[u] = "s"} = Sharers \cup {t} /\ t \notin Sharers
        BY <1>1, <2>1 DEF Sharers, TypeOK
  <2>7. busy'.sharers = Cardinality({u \in Threads : hold'[u] = "s"})
        BY <2>2, <2>6, SharersCounted DEF WordMatchesHolders, Sharers
  <2>8. \A u \in Threads : hold[u] # "x" /\ hold'[u] # "x"
        BY <1>1, <2>1 DEF WordMatchesHolders, TypeOK
  <2>9. WordMatchesHolders'
        BY <1>1, <1>2, <2>2, <2>7, <2>8 DEF WordMatchesHolders
  <2>10. SleepersSeen'
        BY <1>1, <1>3, <2>1, <2>2 DEF SleepersSeen, TypeOK, Waking
  <2>11. PlacesHold'
        BY <1>1, <1>3, <2>1 DEF PlacesHold, TypeOK, Exclusive, Shared, Without,
            MayLock, Sleeping, Waking, PageLocked, Grabbing
  <2>12. LocalsSound'
        BY <1>1, <1>3, <2>1 DEF LocalsSound, TypeOK
  <2>13. WordStays'
        BY <1>1, <2>1, <2>2, <2>3, <2>4 DEF WordStays, TypeOK, Grabbing
  <2>. QED  BY <1>3, <2>5, <2>9, <2>10, <2>11, <2>12, <2>13
<1>. QED  BY <1>4, <1>5

LEMMA CallerLocksKeeps ==
    ASSUME BInv, NEW t \in Threads, CallerLocks(t)
    PROVE  BInv'
<1>. USE PageBusyAssumption DEF CallerLocks, LockPage, Go, BInv
<1>1. TypeOK'
      BY DEF TypeOK, Places, Sleeping, Waking, PageLocked, Grabbing
<1>2. WordMatchesHolders'
      BY DEF WordMatchesHolders
<1>3. SleepersSeen'
      BY DEF SleepersSeen, WordStays, TypeOK, Waking
<1>4. PlacesHold'
      BY DEF PlacesHold, TypeOK, Exclusive, Shared, Without,
            MayLock, Sleeping, Waking, PageLocked, Grabbing
<1>5. LocalsSound'
      BY DEF LocalsSound, TypeOK
<1>6. WordStays'
      BY DEF WordStays, TypeOK
<1>. QED  BY <1>1, <1>2, <1>3, <1>4, <1>5, <1>6

LEMMA CallerUnlocksKeeps ==
    ASSUME BInv, NEW t \in Threads, CallerUnlocks(t)
    PROVE  BInv'
<1>. USE PageBusyAssumption DEF CallerUnlocks, UnlockPage, Go, BInv
<1>1. TypeOK'
      BY DEF TypeOK, Places, Sleeping, Waking, PageLocked, Grabbing
<1>2. WordMatchesHolders'
      BY DEF WordMatchesHolders
<1>3. SleepersSeen'
      BY DEF SleepersSeen, WordStays, TypeOK, Waking
<1>4. PlacesHold'
      BY DEF PlacesHold, TypeOK, Exclusive, Shared, Without,
            MayLock, Sleeping, Waking, PageLocked, Grabbing
<1>5. LocalsSound'
      BY DEF LocalsSound, TypeOK
<1>6. WordStays'
      BY DEF WordStays, TypeOK
<1>. QED  BY <1>1, <1>2, <1>3, <1>4, <1>5, <1>6

LEMMA WakeKeeps ==
    ASSUME BInv, NEW t \in Threads, Wake(t)
    PROVE  BInv'
<1>. USE PageBusyAssumption DEF Wake, UnlockPage, Go, BInv
<1>1. TypeOK'
      BY DEF TypeOK, Places, Sleeping, Waking, PageLocked, Grabbing
<1>2. WordMatchesHolders'
      BY DEF WordMatchesHolders
<1>3. SleepersSeen'
      BY DEF SleepersSeen, WordStays, TypeOK, Waking
<1>4. PlacesHold'
      BY DEF PlacesHold, TypeOK, Exclusive, Shared, Without,
            MayLock, Sleeping, Waking, PageLocked, Grabbing
<1>5. LocalsSound'
      BY DEF LocalsSound, TypeOK
<1>6. WordStays'
      BY DEF WordStays, TypeOK
<1>. QED  BY <1>1, <1>2, <1>3, <1>4, <1>5, <1>6

LEMMA DowngradeKeeps ==
    ASSUME BInv, NEW t \in Threads, Downgrade(t)
    PROVE  BInv'
<1>. USE PageBusyAssumption DEF Downgrade, Home, Go, BInv
<1>1. TypeOK'
      BY DEF TypeOK, Places, Sleeping, Waking, PageLocked, Grabbing
<1>2. WordMatchesHolders'
      BY DEF WordMatchesHolders
<1>3. SleepersSeen'
      BY DEF SleepersSeen, WordStays, TypeOK, Waking
<1>4. PlacesHold'
      BY DEF PlacesHold, TypeOK, Exclusive, Shared, Without,
            MayLock, Sleeping, Waking, PageLocked, Grabbing
<1>5. LocalsSound'
      BY DEF LocalsSound, TypeOK
<1>6. WordStays'
      BY DEF WordStays, TypeOK
<1>. QED  BY <1>1, <1>2, <1>3, <1>4, <1>5, <1>6

LEMMA DgReadKeeps ==
    ASSUME BInv, NEW t \in Threads, DgRead(t)
    PROVE  BInv'
<1>. USE PageBusyAssumption DEF Go, BInv
<1> DEFINE read == [SINGLE_EXCLUSIVER EXCEPT !.waiters = busy.waiters]
<1>1. busy \in Word /\ pc[t] = "dgread"
      BY DEF DgRead, TypeOK
<1>2. read \in Word /\ read.waiters = busy.waiters
      BY <1>1, WordFields, WordsAre, BitSet
<1>3. /\ x' = [x EXCEPT ![t] = read]
      /\ pc' = [pc EXCEPT ![t] = pc'[t]]
      /\ UNCHANGED <<busy, pagelock, objlock, want, hold, panicked>>
      BY DEF DgRead, TypeOK
<1>4. \/ pagelock = t /\ pc'[t] = "dgcasheld"
      \/ pagelock # t /\ busy.waiters /\ pc'[t] = "dglock"
      \/ pagelock # t /\ ~busy.waiters /\ pc'[t] = "dgcas"
      BY DEF DgRead, TypeOK
<1>. HIDE DEF read
<1>5. TypeOK'
      BY <1>1, <1>2, <1>3, <1>4 DEF TypeOK, Places, Sleeping, Waking, PageLocked, Grabbing
<1>6. WordMatchesHolders'
      BY <1>3 DEF WordMatchesHolders
<1>7. SleepersSeen'
      BY <1>1, <1>3, <1>4 DEF SleepersSeen, TypeOK, Waking
<1>8. PlacesHold'
      BY <1>1, <1>3, <1>4 DEF PlacesHold, TypeOK, Exclusive, Shared, Without,
            MayLock, Sleeping, Waking, PageLocked, Grabbing
<1>9. LocalsSound'
      BY <1>1, <1>2, <1>3, <1>4 DEF LocalsSound, TypeOK
<1>10. WordStays'
      BY <1>1, <1>3, <1>4 DEF WordStays, TypeOK
<1>. QED  BY <1>3, <1>5, <1>6, <1>7, <1>8, <1>9, <1>10

LEMMA DgLockKeeps ==
    ASSUME BInv, NEW t \in Threads, DgLock(t)
    PROVE  BInv'
<1>. USE PageBusyAssumption DEF DgLock, LockPage, Go, BInv
<1>1. TypeOK'
      BY DEF TypeOK, Places, Sleeping, Waking, PageLocked, Grabbing
<1>2. WordMatchesHolders'
      BY DEF WordMatchesHolders
<1>3. SleepersSeen'
      BY DEF SleepersSeen, WordStays, TypeOK, Waking
<1>4. PlacesHold'
      BY DEF PlacesHold, TypeOK, Exclusive, Shared, Without,
            MayLock, Sleeping, Waking, PageLocked, Grabbing
<1>5. LocalsSound'
      BY DEF LocalsSound, TypeOK
<1>6. WordStays'
      BY DEF WordStays, TypeOK
<1>. QED  BY <1>1, <1>2, <1>3, <1>4, <1>5, <1>6

LEMMA DgCasKeeps ==
    ASSUME BInv, NEW t \in Threads, DgCas(t)
    PROVE  BInv'
<1>. USE PageBusyAssumption DEF Go, BInv
<1>1. /\ \/ pc[t] = "dgcasheld" /\ pagelock = t
         \/ pc[t] = "dgcas" /\ (x[t].waiters <=> pagelock = t)
      /\ hold[t] = "x"
  <2>1. pc[t] \in {"dgcas", "dgcasheld"}
        BY Zenon DEF DgCas
  <2>2. hold[t] = "x"
        BY <2>1 DEF PlacesHold, Exclusive
  <2>3. pc[t] = "dgcasheld" => pagelock = t
        BY DEF TypeOK, PageLocked
  <2>4. pc[t] = "dgcas" => (x[t].waiters <=> pagelock = t)
        BY Zenon DEF LocalsSound
  <2>. QED  BY <2>1, <2>2, <2>3, <2>4
<1>2. busy.excl /\ busy \in Word
      BY <1>1, HoldersTell
<1>3. /\ x' = [x EXCEPT ![t] = UNBUSIED] /\ UNBUSIED \in Word
      /\ UNCHANGED <<objlock, want, panicked>>
      /\ pc' = [pc EXCEPT ![t] = pc'[t]]
      BY WordsAre DEF DgCas, Forget, TypeOK
<1>4. CASE busy = x[t]
  <2>1. /\ busy' = SHARERS_WORD(1) /\ SHARERS_WORD(1) \in Word
        /\ hold' = [hold EXCEPT ![t] = "s"] /\ pagelock' = pagelock
        /\ busy.waiters => pagelock = t /\ pc'[t] \in Waking
        /\ ~busy.waiters /\ pagelock # t => pc'[t] = "out"
        /\ ~busy.waiters /\ pagelock = t => pc'[t] = "locked"
        BY <1>1, <1>4, WordsAre DEF DgCas, TypeOK, Waking
  <2>2. pc'[t] \in Waking \cup {"out", "locked"} /\ (pc'[t] # "out" => pagelock = t)
        BY <2>1 DEF Waking
  <2>3. TypeOK'
        BY <1>3, <2>1, <2>2 DEF TypeOK, Places, Sleeping, Waking, PageLocked, Grabbing
  <2>4. WordMatchesHolders'
    <3>1. \A u \in Threads \ {t} : hold[u] = "none"
          BY <1>1, HoldersTell
    <3>2. {u \in Threads : hold'[u] = "s"} = {t} /\ \A u \in Threads : hold'[u] # "x"
          BY <2>1, <3>1 DEF TypeOK
    <3>3. Cardinality({t}) = 1
          BY FS_Singleton
    <3>. QED  BY <2>1, <3>2, <3>3, WordsAre DEF WordMatchesHolders
  <2>5. SleepersSeen'
        BY <1>1, <1>3, <2>1, <2>2 DEF SleepersSeen, TypeOK, Waking
  <2>6. PlacesHold'
        BY <1>1, <1>3, <2>1, <2>2 DEF PlacesHold, TypeOK, Exclusive, Shared, Without,
            MayLock, Sleeping, Waking, PageLocked, Grabbing
  <2>7. LocalsSound'
        BY <1>1, <1>3, <2>1, <2>2 DEF LocalsSound, TypeOK, Waking
  <2>8. WordStays'
    <3>1. \A u \in Threads : pc[u] = "msleep" => ~busy.waiters /\ busy.waiters
          BY <1>1, <2>1 DEF WordStays, TypeOK, Sleeping
    <3>2. \A u \in Threads : pc[u] # "xbusy"
          BY <1>2, WordsAre DEF WordStays
    <3>3. \A u \in Threads : pc'[u] = pc[u] \/ pc'[u] \in Waking \cup {"out", "locked"}
          BY <1>3, <2>2 DEF TypeOK
    <3>. QED  BY <2>1, <3>1, <3>2, <3>3, WordsAre DEF WordStays, Waking
  <2>. QED  BY <1>3, <2>3, <2>4, <2>5, <2>6, <2>7, <2>8
<1>5. CASE busy # x[t]
  <2>1. /\ UNCHANGED <<busy, hold>> /\ pc'[t] = "dgread"
        /\ pagelock' = pagelock \/ (pagelock = t /\ pagelock' = NoThread)
        BY <1>1, <1>5 DEF DgCas, TypeOK
  <2>2. TypeOK'
        BY <1>1, <1>3, <2>1 DEF TypeOK, Places, Sleeping, Waking, PageLocked, Grabbing
  <2>3. WordMatchesHolders'
        BY <2>1 DEF WordMatchesHolders
  <2>4. SleepersSeen'
        BY <1>1, <1>3, <2>1 DEF SleepersSeen, TypeOK, Waking
  <2>5. PlacesHold'
        BY <1>1, <1>3, <2>1 DEF PlacesHold, TypeOK, Exclusive, Shared, Without,
            MayLock, Sleeping, Waking, PageLocked, Grabbing
  <2>6. LocalsSound'
        BY <1>1, <1>3, <2>1 DEF LocalsSound, TypeOK
  <2>7. WordStays'
        BY <1>1, <1>3, <2>1 DEF WordStays, TypeOK
  <2>. QED  BY <1>3, <2>2, <2>3, <2>4, <2>5, <2>6, <2>7
<1>. QED  BY <1>4, <1>5

LEMMA SUnbusyKeeps ==
    ASSUME BInv, NEW t \in Threads, SUnbusy(t)
    PROVE  BInv'
<1>. USE PageBusyAssumption DEF SUnbusy, Go, BInv
<1>1. TypeOK'
      BY DEF TypeOK, Places, Sleeping, Waking, PageLocked, Grabbing
<1>2. WordMatchesHolders'
      BY DEF WordMatchesHolders
<1>3. SleepersSeen'
      BY DEF SleepersSeen, WordStays, TypeOK, Waking
<1>4. PlacesHold'
      BY DEF PlacesHold, TypeOK, Exclusive, Shared, Without,
            MayLock, Sleeping, Waking, PageLocked, Grabbing
<1>5. LocalsSound'
      BY DEF LocalsSound, TypeOK
<1>6. WordStays'
      BY DEF WordStays, TypeOK
<1>. QED  BY <1>1, <1>2, <1>3, <1>4, <1>5, <1>6

LEMMA SuReadKeeps ==
    ASSUME BInv, NEW t \in Threads, SuRead(t)
    PROVE  BInv'
<1>. USE PageBusyAssumption DEF Go, BInv
<1>1. busy \in Word /\ pc[t] = "suread" /\ pagelock \in Threads \cup {NoThread}
      BY DEF SuRead, TypeOK
<1>2. /\ x' = [x EXCEPT ![t] = busy]
      /\ pc' = [pc EXCEPT ![t] = pc'[t]]
      /\ UNCHANGED <<busy, pagelock, objlock, want, hold, panicked>>
      BY DEF SuRead, Read, TypeOK
<1>3. \/ Last(busy) /\ pc'[t] = "sulock"
      \/ ~Last(busy) /\ pc'[t] = "sucas"
      BY DEF SuRead, TypeOK, Last
<1>4. pagelock # t
      BY <1>1 DEF PlacesHold, MayLock, Sleeping, Waking, PageLocked
<1>5. TypeOK'
      BY <1>1, <1>2, <1>3 DEF TypeOK, Places, Sleeping, Waking, PageLocked, Grabbing
<1>6. WordMatchesHolders'
      BY <1>2 DEF WordMatchesHolders
<1>7. SleepersSeen'
      BY <1>1, <1>2, <1>3 DEF SleepersSeen, TypeOK, Waking
<1>8. PlacesHold'
      BY <1>1, <1>2, <1>3 DEF PlacesHold, TypeOK, Exclusive, Shared, Without,
            MayLock, Sleeping, Waking, PageLocked, Grabbing
<1>9. LocalsSound'
  <2>1. x'[t] = busy /\ \A u \in Threads \ {t} : x'[u] = x[u] /\ pc'[u] = pc[u]
        BY <1>1, <1>2 DEF TypeOK
  <2>. QED  BY <1>2, <1>3, <1>4, <2>1 DEF LocalsSound
<1>10. WordStays'
      BY <1>1, <1>2, <1>3 DEF WordStays, TypeOK
<1>. QED  BY <1>2, <1>5, <1>6, <1>7, <1>8, <1>9, <1>10

LEMMA SuLockKeeps ==
    ASSUME BInv, NEW t \in Threads, SuLock(t)
    PROVE  BInv'
<1>. USE PageBusyAssumption DEF SuLock, LockPage, Go, BInv
<1>1. TypeOK'
      BY DEF TypeOK, Places, Sleeping, Waking, PageLocked, Grabbing
<1>2. WordMatchesHolders'
      BY DEF WordMatchesHolders
<1>3. SleepersSeen'
      BY DEF SleepersSeen, WordStays, TypeOK, Waking
<1>4. PlacesHold'
      BY DEF PlacesHold, TypeOK, Exclusive, Shared, Without,
            MayLock, Sleeping, Waking, PageLocked, Grabbing
<1>5. LocalsSound'
      BY DEF LocalsSound, TypeOK
<1>6. WordStays'
      BY DEF WordStays, TypeOK
<1>. QED  BY <1>1, <1>2, <1>3, <1>4, <1>5, <1>6

LEMMA SuCasKeeps ==
    ASSUME BInv, NEW t \in Threads, SuCas(t)
    PROVE  BInv'
<1>. USE PageBusyAssumption DEF Go, BInv
<1>1. /\ pc[t] = "sucas" /\ (Last(x[t]) <=> pagelock = t) /\ hold[t] = "s"
      BY DEF SuCas, TypeOK, PlacesHold, LocalsSound, Shared
<1>2. /\ busy \in Word /\ ~busy.excl /\ busy.sharers \in Nat /\ busy.sharers > 0
      /\ busy.waiters \in BOOLEAN
      BY <1>1, HoldersTell, WordFields
<1>3. /\ x' = [x EXCEPT ![t] = UNBUSIED] /\ UNBUSIED \in Word
      /\ UNCHANGED <<objlock, want, panicked>>
      /\ pc' = [pc EXCEPT ![t] = pc'[t]]
      BY WordsAre DEF SuCas, Forget, TypeOK
<1>4. CASE busy = x[t]
  <2>1. /\ hold' = [hold EXCEPT ![t] = "none"] /\ pagelock' = pagelock
        /\ busy' = IF busy.sharers > 1 THEN [busy EXCEPT !.sharers = busy.sharers - 1]
                                       ELSE UNBUSIED
        /\ pc'[t] = IF pagelock = t THEN "wake" ELSE "out"
        BY <1>1, <1>4 DEF SuCas, TypeOK
  <2>2. /\ busy' \in Word /\ busy'.sharers = busy.sharers - 1 /\ ~busy'.excl
        /\ busy.waiters /\ ~busy'.waiters => pagelock = t
        /\ busy'.waiters => busy'.sharers > 0
    <3>1. CASE busy.sharers > 1
      <4>1. busy.sharers - 1 \in Nat
            BY <1>2, <3>1
      <4>. QED  BY <1>2, <2>1, <3>1, <4>1, SharersSet
    <3>2. CASE ~(busy.sharers > 1)
      <4>1. busy.sharers = 1
            BY <1>2, <3>2
      <4>. QED  BY <1>1, <1>4, <2>1, <4>1, WordsAre DEF Last
    <3>. QED  BY <3>1, <3>2
  <2>3. TypeOK'
        BY <1>1, <1>3, <2>1, <2>2 DEF TypeOK, Places, Sleeping, Waking, PageLocked, Grabbing
  <2>4. WordMatchesHolders'
    <3>1. {u \in Threads : hold'[u] = "s"} = Sharers \ {t} /\ t \in Sharers
          BY <1>1, <2>1 DEF Sharers, TypeOK
    <3>2. busy'.sharers = Cardinality({u \in Threads : hold'[u] = "s"})
          BY <2>2, <3>1, SharersCounted DEF WordMatchesHolders, Sharers
    <3>3. \A u \in Threads : hold[u] # "x" /\ hold'[u] # "x"
          BY <1>2, <2>1 DEF WordMatchesHolders, TypeOK
    <3>. QED  BY <2>2, <3>2, <3>3 DEF WordMatchesHolders
  <2>5. SleepersSeen'
        BY <1>1, <1>3, <2>1, <2>2 DEF SleepersSeen, TypeOK, Waking
  <2>6. PlacesHold'
        BY <1>1, <1>3, <2>1, <2>2 DEF PlacesHold, TypeOK, Exclusive, Shared, Without,
            MayLock, Sleeping, Waking, PageLocked, Grabbing
  <2>7. LocalsSound'
        BY <1>1, <1>3, <2>1, <2>2 DEF LocalsSound, TypeOK
  <2>8. WordStays'
    <3>1. \A u \in Threads : pc[u] = "msleep" => busy'.waiters
          BY <1>1, <2>2 DEF WordStays, TypeOK, Sleeping
    <3>2. \A u \in Threads : pc[u] # "xbusy"
          BY <1>2, WordsAre DEF WordStays
    <3>3. \A u \in Threads : pc'[u] = pc[u] \/ pc'[u] \in {"wake", "out"}
          BY <1>3, <2>1 DEF TypeOK
    <3>. QED  BY <2>2, <3>1, <3>2, <3>3 DEF WordStays
  <2>. QED  BY <1>3, <2>3, <2>4, <2>5, <2>6, <2>7, <2>8
<1>5. CASE busy # x[t]
  <2>1. /\ UNCHANGED <<busy, hold>> /\ pc'[t] = "suread"
        /\ pagelock' = IF pagelock = t THEN NoThread ELSE pagelock
        BY <1>1, <1>5 DEF SuCas, TypeOK
  <2>2. TypeOK'
        BY <1>1, <1>3, <2>1 DEF TypeOK, Places, Sleeping, Waking, PageLocked, Grabbing
  <2>3. WordMatchesHolders'
        BY <2>1 DEF WordMatchesHolders
  <2>4. SleepersSeen'
        BY <1>1, <1>3, <2>1 DEF SleepersSeen, TypeOK, Waking
  <2>5. PlacesHold'
        BY <1>1, <1>3, <2>1 DEF PlacesHold, TypeOK, Exclusive, Shared, Without,
            MayLock, Sleeping, Waking, PageLocked, Grabbing
  <2>6. LocalsSound'
        BY <1>1, <1>3, <2>1 DEF LocalsSound, TypeOK
  <2>7. WordStays'
        BY <1>1, <1>3, <2>1 DEF WordStays, TypeOK
  <2>. QED  BY <1>3, <2>2, <2>3, <2>4, <2>5, <2>6, <2>7
<1>. QED  BY <1>4, <1>5

LEMMA XUnbusyKeeps ==
    ASSUME BInv, NEW t \in Threads, XUnbusy(t)
    PROVE  BInv'
<1>. USE PageBusyAssumption DEF Go, BInv
<1>1. /\ hold[t] = "x"
      /\ (pagelock = t /\ pc[t] = "locked") \/ (pagelock # t /\ pc[t] = "out")
      /\ UNCHANGED <<pagelock, objlock, want, x, panicked>>
      BY Zenon DEF XUnbusy, Home
<1>2. CASE busy = SINGLE_EXCLUSIVER
  <2>1. /\ busy' = UNBUSIED /\ UNBUSIED \in Word /\ hold' = [hold EXCEPT ![t] = "none"]
        /\ pc' = pc /\ ~busy.waiters
        BY <1>2, WordsAre DEF XUnbusy, Home, TypeOK
  <2>2. TypeOK'
        BY <1>1, <2>1 DEF TypeOK
  <2>3. WordMatchesHolders'
        BY <1>1, <2>1, ReleasedExclusive, WordsAre
  <2>4. SleepersSeen'
        BY <1>1, <2>1 DEF SleepersSeen
  <2>5. PlacesHold'
        BY <1>1, <2>1 DEF PlacesHold, TypeOK, Exclusive, Shared
  <2>6. LocalsSound'
        BY <1>1, <2>1 DEF LocalsSound
  <2>7. WordStays'
        BY <1>1, <2>1, WordsAre DEF WordStays
  <2>. QED  BY <1>1, <2>2, <2>3, <2>4, <2>5, <2>6, <2>7
<1>3. CASE busy # SINGLE_EXCLUSIVER
  <2>1. /\ UNCHANGED <<busy, hold>>
        /\ pc' = [pc EXCEPT ![t] = IF pagelock = t THEN "xustoreheld" ELSE "xulock"]
        BY <1>3 DEF XUnbusy
  <2>2. TypeOK'
        BY <1>1, <2>1 DEF TypeOK, Places, Sleeping, Waking, PageLocked, Grabbing
  <2>3. WordMatchesHolders'
        BY <2>1 DEF WordMatchesHolders
  <2>4. SleepersSeen'
        BY <1>1, <2>1 DEF SleepersSeen, TypeOK, Waking
  <2>5. PlacesHold'
        BY <1>1, <2>1 DEF PlacesHold, TypeOK, Exclusive, Shared, Without,
            MayLock, Sleeping, Waking, PageLocked, Grabbing
  <2>6. LocalsSound'
        BY <1>1, <2>1 DEF LocalsSound, TypeOK
  <2>7. WordStays'
        BY <1>1, <2>1 DEF WordStays, TypeOK
  <2>. QED  BY <1>1, <2>2, <2>3, <2>4, <2>5, <2>6, <2>7
<1>. QED  BY <1>2, <1>3

LEMMA XuLockKeeps ==
    ASSUME BInv, NEW t \in Threads, XuLock(t)
    PROVE  BInv'
<1>. USE PageBusyAssumption DEF XuLock, LockPage, Go, BInv
<1>1. TypeOK'
      BY DEF TypeOK, Places, Sleeping, Waking, PageLocked, Grabbing
<1>2. WordMatchesHolders'
      BY DEF WordMatchesHolders
<1>3. SleepersSeen'
      BY DEF SleepersSeen, WordStays, TypeOK, Waking
<1>4. PlacesHold'
      BY DEF PlacesHold, TypeOK, Exclusive, Shared, Without,
            MayLock, Sleeping, Waking, PageLocked, Grabbing
<1>5. LocalsSound'
      BY DEF LocalsSound, TypeOK
<1>6. WordStays'
      BY DEF WordStays, TypeOK
<1>. QED  BY <1>1, <1>2, <1>3, <1>4, <1>5, <1>6

LEMMA XuStoreKeeps ==
    ASSUME BInv, NEW t \in Threads, XuStore(t)
    PROVE  BInv'
<1>. USE PageBusyAssumption DEF Go, BInv
<1>1. /\ pc[t] \in {"xustore", "xustoreheld"} /\ pagelock = t /\ hold[t] = "x"
      BY DEF XuStore, TypeOK, PageLocked, PlacesHold, Exclusive
<1>2. /\ busy' = UNBUSIED /\ UNBUSIED \in Word
      /\ hold' = [hold EXCEPT ![t] = "none"]
      /\ pc' = [pc EXCEPT ![t] = pc'[t]] /\ pc'[t] \in Waking
      /\ UNCHANGED <<pagelock, objlock, want, x, panicked>>
      BY WordsAre DEF XuStore, TypeOK, Waking
<1>3. TypeOK'
      BY <1>1, <1>2 DEF TypeOK, Places, Sleeping, Waking, PageLocked, Grabbing
<1>4. WordMatchesHolders'
      BY <1>1, <1>2, ReleasedExclusive, WordsAre
<1>5. SleepersSeen'
      BY <1>1, <1>2 DEF SleepersSeen, TypeOK
<1>6. PlacesHold'
      BY <1>1, <1>2 DEF PlacesHold, TypeOK, Exclusive, Shared, Without,
            MayLock, Sleeping, Waking, PageLocked, Grabbing
<1>7. LocalsSound'
      BY <1>1, <1>2 DEF LocalsSound, TypeOK, Waking
<1>8. WordStays'
  <2>1. \A u \in Threads : pc[u] # "msleep"
        BY <1>1 DEF TypeOK, Sleeping
  <2>2. \A u \in Threads : pc'[u] = pc[u] \/ pc'[u] \in Waking
        BY <1>2 DEF TypeOK
  <2>. QED  BY <1>2, <2>1, <2>2, WordsAre DEF WordStays, Waking
<1>. QED  BY <1>2, <1>3, <1>4, <1>5, <1>6, <1>7, <1>8

LEMMA FlashKeeps ==
    ASSUME BInv, NEW t \in Threads, Flash(t)
    PROVE  BInv'
<1>. USE PageBusyAssumption DEF Flash, Read, Go, BInv
<1>1. TypeOK'
      BY DEF TypeOK, Places, Sleeping, Waking, PageLocked, Grabbing
<1>2. WordMatchesHolders'
      BY DEF WordMatchesHolders
<1>3. SleepersSeen'
      BY DEF SleepersSeen, WordStays, TypeOK, Waking
<1>4. PlacesHold'
      BY DEF PlacesHold, TypeOK, Exclusive, Shared, Without,
            MayLock, Sleeping, Waking, PageLocked, Grabbing
<1>5. LocalsSound'
      BY DEF LocalsSound, TypeOK
<1>6. WordStays'
      BY DEF WordStays, TypeOK
<1>. QED  BY <1>1, <1>2, <1>3, <1>4, <1>5, <1>6

LEMMA FlCasKeeps ==
    ASSUME BInv, NEW t \in Threads, FlCas(t)
    PROVE  BInv'
<1>. USE PageBusyAssumption DEF Go, BInv
<1>1. busy \in Word /\ pc[t] = "flcas" /\ pagelock = t
      BY DEF FlCas, TypeOK, PageLocked
<1>2. /\ x' = [x EXCEPT ![t] = UNBUSIED] /\ UNBUSIED \in Word
      /\ pc' = [pc EXCEPT ![t] = pc'[t]]
      /\ UNCHANGED <<pagelock, objlock, want, hold, panicked>>
      BY WordsAre DEF FlCas, Forget, TypeOK
<1>3. \/ pc'[t] = "wakeheld" /\ busy' = [busy EXCEPT !.waiters = FALSE]
      \/ pc'[t] = "locked" /\ busy' = busy
      BY DEF FlCas, TypeOK
<1>4. /\ busy' \in Word /\ busy'.sharers = busy.sharers /\ busy'.excl = busy.excl
      /\ busy' = busy \/ busy'.waiters = FALSE
      BY <1>1, <1>3, BitSet
<1>5. busy = UNBUSIED => busy' = UNBUSIED
  <2>1. busy' = busy \/ busy' = [busy EXCEPT !.waiters = FALSE]
        BY <1>3
  <2>. QED  BY <2>1 DEF UNBUSIED
<1>6. TypeOK'
      BY <1>1, <1>2, <1>3, <1>4 DEF TypeOK, Places, Sleeping, Waking, PageLocked, Grabbing
<1>7. WordMatchesHolders'
      BY <1>2, <1>4 DEF WordMatchesHolders
<1>8. SleepersSeen'
      BY <1>1, <1>2, <1>3, <1>4 DEF SleepersSeen, TypeOK, Waking
<1>9. PlacesHold'
      BY <1>1, <1>2, <1>3 DEF PlacesHold, TypeOK, Exclusive, Shared, Without,
            MayLock, Sleeping, Waking, PageLocked, Grabbing
<1>10. LocalsSound'
      BY <1>1, <1>2, <1>3 DEF LocalsSound, TypeOK
<1>11. WordStays'
  <2>1. \A u \in Threads : pc[u] # "msleep"
        BY <1>1 DEF TypeOK, Sleeping
  <2>2. \A u \in Threads : pc'[u] = pc[u] \/ pc'[u] \in {"wakeheld", "locked"}
        BY <1>2, <1>3 DEF TypeOK
  <2>. QED  BY <1>4, <1>5, <2>1, <2>2 DEF WordStays
<1>. QED  BY <1>2, <1>6, <1>7, <1>8, <1>9, <1>10, <1>11

-----------------------------------------------------------------------------

LEMMA BusyNext == BInv /\ [Next]_vars => BInv'
<1>. SUFFICES ASSUME BInv, [Next]_vars PROVE BInv'
    OBVIOUS
<1>1. CASE UNCHANGED vars
      BY <1>1 DEF vars, BInv, TypeOK, WordMatchesHolders, SleepersSeen, PlacesHold,
            LocalsSound, WordStays
<1>2. ASSUME NEW t \in Threads, Inside(t) PROVE BInv'
      BY <1>2, LookupKeeps, ReadForSleepKeeps, SetWaitersKeeps, MsleepKeeps, XBusyKeeps,
         SBusyReadKeeps, SBusyCasKeeps, WakeKeeps, DgReadKeeps, DgCasKeeps, SuReadKeeps,
         SuCasKeeps, XuStoreKeeps, FlCasKeeps, CallerUnlocksKeeps, Zenon DEF Inside
<1>3. ASSUME NEW t \in Threads, Acquire(t) \/ Relock(t) PROVE BInv'
      BY <1>3, LockForSleepKeeps, DgLockKeeps, SuLockKeeps, XuLockKeeps, RelockKeeps, Zenon
         DEF Acquire
<1>4. ASSUME NEW t \in Threads, Calls(t) PROVE BInv'
      BY <1>4, GrabKeeps, CallerLocksKeeps, DowngradeKeeps, SUnbusyKeeps, XUnbusyKeeps,
         FlashKeeps, Zenon DEF Calls
<1>. QED  BY <1>1, <1>2, <1>3, <1>4, Zenon DEF Next

\* Whoever takes and gives back the page in whatever order, the word counts its
\* sharers and knows its owner, and whoever sleeps is seen by the next release
\* (vm_page.c:763, 796, 857, 881).
THEOREM BusyWordSound == Spec => []WordSound
<1>1. BInv => WordSound
      BY DEF BInv, WordSound
<1>. QED  BY <1>1, BusyInit, BusyNext, PTL DEF Spec

\* A page found free under the object lock is still free when it is busied, so
\* vm_page_grab never panics (vm_page.h:562, 575).
THEOREM GrabIsSafe == Spec => []GrabNeverPanics
<1>1. BInv => GrabNeverPanics
      BY DEF BInv, GrabNeverPanics
<1>. QED  BY <1>1, BusyInit, BusyNext, PTL DEF Spec
=============================================================================
