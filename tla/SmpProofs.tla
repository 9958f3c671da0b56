----------------------------- MODULE SmpProofs ------------------------------
(***************************************************************************)
(* Locks, loads and sleeping processors, for any number of processors,     *)
(* threads and affinities.                                                 *)
(***************************************************************************)
EXTENDS Smp, LibraryFacts, FiniteSetTheorems

\* The place an operation is on its way to, while it takes two locks or tells
\* another processor of a thread.
Goal(r) == IF r.pc \in {"first", "second", "notify", "wake"} THEN r.then ELSE r.pc

\* It has the thread that ran on its processor, in no queue yet; or in the queue
\* of another processor, whose lock it still has.
Carries(r) == Goal(r) \in {"try", "own", "trylocked", "migrate"}
Hands(r)   == Goal(r) = "migrated"
Paired(r)  == Goal(r) \in {"trylocked", "idled", "migrate", "migrated", "pair", "moved"}

\* The locks it has.
Holds(r) ==
    CASE r.pc = "second"                              -> {FirstOf(r.one, r.two)}
      [] Paired(r) /\ r.pc \notin {"first", "second"} -> {r.one, r.two}
      [] Goal(r) = "added"                            -> {r.target}
      [] OTHER                                        -> {}

OpRecords ==
    [pc : {"add", "added", "preempt", "try", "own", "first", "second", "trylocked", "migrate",
           "migrated", "notify", "wake", "high", "low", "pair", "moved", "idled"},
     one : cpus \cup {NoCpu}, two : cpus \cup {NoCpu},
     then : {"none", "added", "trylocked", "migrate", "migrated", "pair", "moved", "idled"},
     td : Threads \cup {Idle}, target : cpus \cup {NoCpu},
     hmask : SUBSET cpus, lmask : SUBSET cpus, anylow : BOOLEAN]

\* What the place of an operation tells of its variables.
OpSound(c, r) ==
    /\ r.pc \in {"first", "second"} => r.then \in {"trylocked", "idled", "migrate", "pair"}
    /\ r.pc \in {"notify", "wake"} => r.then \in {"added", "migrated", "moved"} /\ r.target # c
    /\ Paired(r) => r.one \in cpus /\ r.two \in cpus /\ r.one # r.two
    /\ Goal(r) \in {"trylocked", "idled"} => r.one = c
    /\ Goal(r) \in {"migrate", "migrated"} => r.two = c /\ r.target = r.one
    /\ Goal(r) \in {"pair", "moved"} => r.target = r.two
    /\ Goal(r) = "added" => r.target \in cpus
    /\ r.pc = "add" => r.td \in Threads /\ r.target \in cpus /\ r.then = "added"
    /\ r.pc = "low" \/ Goal(r) = "pair" => r.one \in cpus /\ r.one \notin r.lmask
    /\ Carries(r) \/ Hands(r) => r.td = cur[c] /\ cur[c] # Idle
    /\ ~Carries(r) /\ ~Hands(r) /\ r.pc \notin {"none", "add"} => r.td = Idle
    /\ Goal(r) \in {"idled", "preempt"} => cur[c] = Idle
    /\ Goal(r) = "idled" => idle[c].pc = "search"

Fixed ==
    /\ cpus \subseteq 1 .. MaxCpus /\ 1 \in cpus
    /\ cpuset \in [Threads -> SUBSET (1 .. MaxCpus)]
    /\ \A t \in Threads : cpuset[t] \cap cpus # {}

PlacesTyped ==
    /\ bound \in [Threads -> cpus \cup {NoCpu}]
    /\ queue \in [cpus -> SUBSET Threads] /\ load \in [cpus -> Nat]
    /\ cur \in [cpus -> Threads \cup {Idle}]

SignalsTyped ==
    /\ cpu_idle \in [cpus -> BOOLEAN] /\ ipipending \in [cpus -> BOOLEAN]
    /\ ipi \in [cpus -> BOOLEAN] /\ md \in [cpus -> {"running", "mwait", "sleeping"}]

IdleStates == [pc : {"top", "search", "rest", "fence", "enter", "runnable", "halted",
                     "returned", "up"},
               mask : SUBSET cpus]
IdleTyped  == idle \in [cpus -> IdleStates]
LockTyped  == lock \in [cpus -> cpus \cup {NoCpu}]
OpsTyped   == op \in [cpus -> OpRecords \cup {None}]
OpsSound   == \A c \in cpus : OpSound(c, op[c])
LocksExact == \A c, l \in cpus : lock[l] = c <=> l \in Holds(op[c])

\* Every thread is in one place.
QueuesApart  == \A c, d \in cpus : \A t \in queue[c] : t \in queue[d] => c = d
OneRuns      == \A c, d \in cpus : cur[c] = cur[d] /\ cur[c] # Idle => c = d
RunsUnqueued == \A c, d \in cpus : cur[c] \in queue[d] => Hands(op[c]) /\ op[c].target = d
ComesAlone   ==
    \A c, d \in cpus : op[c].pc = "add" =>
        /\ op[c].td \notin queue[d] /\ op[c].td # cur[d]
        /\ op[d].pc = "add" /\ op[d].td = op[c].td => c = d
HandedQueued == \A c \in cpus : Hands(op[c]) => op[c].td \in queue[op[c].target]

OnePlace == QueuesApart /\ OneRuns /\ RunsUnqueued /\ ComesAlone /\ HandedQueued

Allowed(t, c) == c \in cpuset[t] \/ bound[t] = c

TargetAllowed ==
    \A c \in cpus : op[c].pc = "add" \/ Goal(op[c]) = "migrate" => Allowed(op[c].td, op[c].target)

Runs(c) == IF cur[c] = Idle \/ Carries(op[c]) \/ Hands(op[c]) THEN 0 ELSE 1
LoadCounts == \A c \in cpus : load[c] = Cardinality(queue[c]) + Runs(c)

\* The flags of the idle loop go by its place.
FlagsFollow ==
    \A c \in cpus :
        /\ cpu_idle[c] <=> idle[c].pc \in {"fence", "enter", "runnable", "halted", "returned", "up"}
        /\ ipipending[c] <=> ipi[c]

\* A processor that halts has nothing else to do.
HaltsIdle ==
    \A c \in cpus : idle[c].pc \in {"runnable", "halted"} => op[c].pc = "none" /\ cur[c] = Idle

HaltedTold ==
    \A c \in cpus :
        idle[c].pc = "halted" /\ queue[c] # {} =>
            \/ ipi[c] \/ md[c] = "running"
            \/ \E d \in cpus : op[d].pc \in {"notify", "wake"} /\ op[d].target = c

SInv ==
    /\ Fixed /\ PlacesTyped /\ SignalsTyped /\ IdleTyped /\ LockTyped
    /\ OpsTyped /\ OpsSound /\ LocksExact /\ OnePlace /\ TargetAllowed
    /\ LoadCounts /\ FlagsFollow /\ HaltsIdle /\ HaltedTold

-----------------------------------------------------------------------------

\* What the invariant says of c.
LEMMA Here ==
    ASSUME SInv, NEW c \in cpus
    PROVE  /\ op[c] \in OpRecords \cup {None} /\ OpSound(c, op[c])
           /\ (op[c].pc = "none" <=> Rest(c)) /\ (op[c].pc # "none" => op[c] \in OpRecords)
           /\ c \in 1 .. MaxCpus /\ c \in Int /\ c # NoCpu
           /\ queue[c] \in SUBSET Threads /\ load[c] \in Nat /\ cur[c] \in Threads \cup {Idle}
           /\ lock[c] \in cpus \cup {NoCpu} /\ idle[c] \in IdleStates
<1>1. op[c] \in OpRecords \cup {None} /\ OpSound(c, op[c])
      BY DEF SInv, OpsTyped, OpsSound
<1>2. op[c].pc = "none" <=> Rest(c)
      BY <1>1 DEF Rest, None, OpRecords
<1>3. c \in 1 .. MaxCpus /\ c \in Int /\ c # NoCpu
      BY SmpAssumption DEF SInv, Fixed
<1>4. /\ queue[c] \in SUBSET Threads /\ load[c] \in Nat /\ cur[c] \in Threads \cup {Idle}
      /\ lock[c] \in cpus \cup {NoCpu} /\ idle[c] \in IdleStates
      BY DEF SInv, PlacesTyped, IdleTyped, LockTyped
<1>. QED  BY <1>1, <1>2, <1>3, <1>4 DEF Rest

\* choosethread, whichever it returns.
LEMMA ChooseGives ==
    ASSUME NEW c, NEW q \in SUBSET Threads, Choose(c, q)
    PROVE  \E x \in Threads \cup {Idle} :
              /\ cur' = [cur EXCEPT ![c] = x] /\ queue' = [queue EXCEPT ![c] = q \ {x}]
              /\ IF x = Idle THEN q = {} ELSE x \in q
<1>1. CASE q = {} /\ cur' = [cur EXCEPT ![c] = Idle] /\ queue' = [queue EXCEPT ![c] = {}]
      BY <1>1, {} \ {Idle} = {}
<1>2. CASE \E t \in q : cur' = [cur EXCEPT ![c] = t] /\ queue' = [queue EXCEPT ![c] = q \ {t}]
      BY <1>2, SmpAssumption
<1>. QED  BY <1>1, <1>2 DEF Choose

\* Queues are finite.
LEMMA CardRemove ==
    ASSUME NEW S \in SUBSET Threads, NEW x
    PROVE  /\ IsFiniteSet(S) /\ Cardinality(S) \in Nat
           /\ Cardinality(S \ {x}) = IF x \in S THEN Cardinality(S) - 1 ELSE Cardinality(S)
           /\ Cardinality(S \cup {x}) = IF x \in S THEN Cardinality(S) ELSE Cardinality(S) + 1
           /\ (Cardinality(S) = 0 <=> S = {})
<1>1. IsFiniteSet(S)
      BY SmpAssumption, FS_Subset
<1>. QED  BY <1>1, FS_RemoveElement, FS_AddElement, FS_CardinalityType, FS_EmptySet

\* A new record in place of that of c.
LEMMA OpNew ==
    ASSUME SInv, NEW c \in cpus, NEW r \in OpRecords \cup {None}, Do(c, r), cpus' = cpus
    PROVE  OpsTyped'
<1>1. OpRecords' = OpRecords
      BY DEF OpRecords
<1>. QED  BY <1>1 DEF SInv, OpsTyped, Do, None

LEMMA OpFields ==
    ASSUME NEW o \in OpRecords,
           NEW p \in {"add", "added", "preempt", "try", "own", "first", "second", "trylocked",
                      "migrate", "migrated", "notify", "wake", "high", "low", "pair", "moved",
                      "idled"}
    PROVE  LET r == [o EXCEPT !.pc = p]
           IN  r \in OpRecords /\ r.pc = p /\ r.td = o.td /\ r.target = o.target
BY DEF OpRecords

LEMMA OpBlank ==
    ASSUME NEW p \in {"add", "added", "preempt", "try", "own", "first", "second", "trylocked",
                      "migrate", "migrated", "notify", "wake", "high", "low", "pair", "moved",
                      "idled"}
    PROVE  Op(p) \in OpRecords
BY SmpAssumption DEF OpRecords, Op

\* Only c has something else to do.
LEMMA OpChanges ==
    ASSUME SInv, NEW c \in cpus, NEW r, Do(c, r)
    PROVE  op'[c] = r /\ \A d \in cpus : d # c => op'[d] = op[d]
BY DEF SInv, OpsTyped, Do

LEMMA LocksDropped ==
    ASSUME SInv, NEW S, Unlocked(S), cpus' = cpus
    PROVE  /\ LockTyped'
           /\ \A l \in cpus : lock'[l] = IF l \in S THEN NoCpu ELSE lock[l]
BY DEF SInv, LockTyped, Unlocked

LEMMA Chosen ==
    ASSUME SInv, NEW c \in cpus, NEW q \in SUBSET Threads, Choose(c, q), cpus' = cpus
    PROVE  \E x \in Threads \cup {Idle} :
              /\ cur'[c] = x /\ queue'[c] = q \ {x}
              /\ \A d \in cpus : d # c => cur'[d] = cur[d] /\ queue'[d] = queue[d]
              /\ IF x = Idle THEN q = {} ELSE x \in q
              /\ Cardinality(queue'[c]) = Cardinality(q) - IF x = Idle THEN 0 ELSE 1
              /\ queue' \in [cpus' -> SUBSET Threads] /\ cur' \in [cpus' -> Threads \cup {Idle}]
<1>1. PICK x \in Threads \cup {Idle} :
              /\ cur' = [cur EXCEPT ![c] = x] /\ queue' = [queue EXCEPT ![c] = q \ {x}]
              /\ IF x = Idle THEN q = {} ELSE x \in q
      BY ChooseGives
<1>2. cur \in [cpus -> Threads \cup {Idle}] /\ queue \in [cpus -> SUBSET Threads]
      BY DEF SInv, PlacesTyped
<1>3. Cardinality(q \ {x}) = Cardinality(q) - IF x = Idle THEN 0 ELSE 1
  <2>1. x \in q <=> x # Idle
        BY <1>1
  <2>2. Cardinality(q) \in Nat
        BY CardRemove
  <2>3. Cardinality(q \ {x}) = IF x \in q THEN Cardinality(q) - 1 ELSE Cardinality(q)
        BY CardRemove, Zenon
  <2>. QED  BY <2>1, <2>2, <2>3
<1>. QED  BY <1>1, <1>2, <1>3

\* Taking a lock that is free.
LEMMA LockedBy ==
    ASSUME SInv, NEW c \in cpus, NEW g, lock[g] = NoCpu, lock' = [lock EXCEPT ![g] = c],
           cpus' = cpus, Holds(op'[c]) = Holds(op[c]) \cup {g},
           \A d \in cpus : d # c => op'[d] = op[d]
    PROVE  LocksExact'
<1>1. \A d, l \in cpus : lock[l] = d <=> l \in Holds(op[d])
      BY DEF SInv, LocksExact
<1>2. \A d \in cpus : d # NoCpu
      BY Here
<1>3. lock \in [cpus -> cpus \cup {NoCpu}]
      BY DEF SInv, LockTyped
<1>4. ASSUME NEW d \in cpus, NEW l \in cpus PROVE lock'[l] = d <=> l \in Holds(op'[d])
      BY <1>1, <1>2, <1>3
<1>. QED  BY <1>4 DEF LocksExact

\* While l is free or c has its lock, no other hands a thread to it.
LEMMA NoneHanded ==
    ASSUME SInv, NEW c \in cpus, NEW l \in cpus, lock[l] \in {NoCpu, c},
           NEW d \in cpus, d # c, Hands(op[d])
    PROVE  op[d].target # l
<1>1. OpSound(d, op[d]) /\ (lock[l] = d <=> l \in Holds(op[d])) /\ d # NoCpu
      BY Here DEF SInv, LocksExact
<1>2. Holds(op[d]) = {op[d].one, op[d].two} /\ op[d].target = op[d].one
      BY <1>1 DEF OpSound, Holds, Hands, Paired, Goal
<1>. QED  BY <1>1, <1>2

\* A thread on its way to a queue, and one handed over.
LEMMA ComerTyped ==
    ASSUME SInv, NEW d \in cpus, op[d].pc = "add"
    PROVE  op[d].td \in Threads /\ op[d].td # Idle
BY Here, SmpAssumption DEF OpSound

LEMMA HandedTyped ==
    ASSUME SInv, NEW d \in cpus, Hands(op[d])
    PROVE  op[d].target \in cpus /\ op[d].target # d /\ op[d].td = cur[d]
BY Here DEF OpSound, Hands, Paired, Goal

\* What c does comes to an end and it chooses a thread of its own.
LEMMA ChooseKeeps ==
    ASSUME SInv, NEW c \in cpus, NEW q \in SUBSET Threads, Choose(c, q), UNCHANGED <<fixed, bound>>,
           q = queue[c] \/ (q = queue[c] \cup {cur[c]} /\ Rest(c)),
           lock[c] \in {NoCpu, c}, op[c].pc \notin {"notify", "wake"}, op'[c] = None,
           load' \in [cpus -> Nat], load'[c] = Cardinality(q),
           idle'[c].pc \notin {"runnable", "halted"},
           \A d \in cpus : d # c => /\ op'[d] = op[d] /\ load'[d] = load[d] /\ idle'[d] = idle[d]
                                    /\ ipi'[d] = ipi[d] /\ md'[d] = md[d]
    PROVE  /\ Fixed' /\ PlacesTyped' /\ OpsSound' /\ OnePlace' /\ TargetAllowed' /\ LoadCounts'
           /\ HaltsIdle' /\ HaltedTold'
<1>1. PICK x \in Threads \cup {Idle} :
              /\ cur'[c] = x /\ queue'[c] = q \ {x}
              /\ \A d \in cpus : d # c => cur'[d] = cur[d] /\ queue'[d] = queue[d]
              /\ IF x = Idle THEN q = {} ELSE x \in q
              /\ Cardinality(queue'[c]) = Cardinality(q) - IF x = Idle THEN 0 ELSE 1
              /\ queue' \in [cpus' -> SUBSET Threads] /\ cur' \in [cpus' -> Threads \cup {Idle}]
      BY Chosen DEF fixed
<1>2. cpus' = cpus /\ cpuset' = cpuset /\ bound' = bound
      BY DEF fixed
<1>3. Fixed' /\ PlacesTyped'
      BY <1>1, <1>2 DEF SInv, Fixed, PlacesTyped
<1>4. OpsSound'
      BY <1>1, <1>2 DEF SInv, OpsSound, OpSound, Goal, Carries, Hands, Paired, None
<1>5. TargetAllowed'
      BY <1>2 DEF SInv, TargetAllowed, Allowed, Goal, None
<1>6. LoadCounts'
  <2>1. Cardinality(queue'[c]) + Runs(c)' = Cardinality(q)
        BY <1>1, CardRemove DEF Runs, Carries, Hands, Goal, None
  <2>2. \A d \in cpus : d # c => Runs(d)' = Runs(d)
        BY <1>1 DEF Runs
  <2>. QED  BY <1>1, <1>2, <2>1, <2>2 DEF SInv, LoadCounts
<1>7. HaltsIdle' /\ HaltedTold'
      BY <1>1, <1>2 DEF SInv, HaltsIdle, HaltedTold
<1>8. OnePlace'
  <2>1. \A d \in cpus : Hands(op[d]) /\ d # c => op[d].target # c
        BY NoneHanded
  <2>2. /\ x # Idle => x \in queue[c] \/ (x = cur[c] /\ Rest(c))
        /\ \A t \in queue'[c] :
              t # x /\ (t \in queue[c] \/ (t = cur[c] /\ Rest(c) /\ t \in Threads))
        BY <1>1
  <2>3. Rest(c) => op[c].pc # "add" /\ ~Hands(op[c])
        BY DEF Rest, Hands, Goal, None
  <2>4. ~Hands(op'[c]) /\ op'[c].pc # "add"
        BY DEF Hands, Goal, None
  <2>5. QueuesApart'
        BY <1>1, <1>2, <2>1, <2>2, <2>3, <2>4 DEF SInv, OnePlace, QueuesApart, RunsUnqueued
  <2>6. OneRuns'
        BY <1>1, <1>2, <2>1, <2>2, <2>3, <2>4 DEF SInv, OnePlace, OneRuns, RunsUnqueued
  <2>7. RunsUnqueued'
        BY <1>1, <1>2, <2>1, <2>2, <2>3, <2>4, SmpAssumption
        DEF SInv, OnePlace, QueuesApart, RunsUnqueued, OneRuns
  <2>8. ComesAlone'
        BY <1>1, <1>2, <2>2, <2>3, <2>4, ComerTyped, SmpAssumption DEF SInv, OnePlace, ComesAlone
  <2>9. HandedQueued'
        BY <1>1, <1>2, <2>1, <2>4, HandedTyped DEF SInv, OnePlace, HandedQueued
  <2>. QED  BY <2>5, <2>6, <2>7, <2>8, <2>9 DEF OnePlace
<1>. QED  BY <1>3, <1>4, <1>5, <1>6, <1>7, <1>8

\* The load of d in numbers.
LEMMA LoadHere ==
    ASSUME SInv, NEW d \in cpus
    PROVE  /\ load[d] = Cardinality(queue[d]) + Runs(d) /\ load[d] \in Nat /\ Runs(d) \in {0, 1}
           /\ Cardinality(queue[d]) \in Nat /\ (Cardinality(queue[d]) = 0 <=> queue[d] = {})
<1>1. load[d] = Cardinality(queue[d]) + Runs(d)
      BY DEF SInv, LoadCounts
<1>2. Runs(d) \in {0, 1}
      BY DEF Runs
<1>. QED  BY <1>1, <1>2, Here, CardRemove

\* With both locks c takes a thread of v and runs it.
LEMMA StealKeeps ==
    ASSUME SInv, NEW c \in cpus, NEW v \in cpus, v # c, StealAndRun(v, c),
           UNCHANGED <<fixed, bound>>,
           lock[v] = c, load[c] = 0, op[c].pc \in {"trylocked", "idled"}, op'[c] = None,
           idle'[c].pc \notin {"runnable", "halted"},
           \A d \in cpus : d # c => /\ op'[d] = op[d] /\ idle'[d] = idle[d]
                                    /\ ipi'[d] = ipi[d] /\ md'[d] = md[d]
    PROVE  /\ Fixed' /\ PlacesTyped' /\ OpsSound' /\ OnePlace' /\ TargetAllowed' /\ LoadCounts'
           /\ HaltsIdle' /\ HaltedTold'
<1>1. PICK t \in queue[v] : /\ cur' = [cur EXCEPT ![c] = t]
                            /\ queue' = [queue EXCEPT ![v] = @ \ {t}]
                            /\ load' = [load EXCEPT ![v] = @ - 1, ![c] = @ + 1]
      BY DEF StealAndRun, Stealable
<1>2. cpus' = cpus /\ cpuset' = cpuset /\ bound' = bound
      BY DEF fixed
<1>3. t \in Threads /\ t # Idle
      BY <1>1, Here, SmpAssumption
<1>4. /\ cur'[c] = t /\ queue'[v] = queue[v] \ {t} /\ load'[v] = load[v] - 1 /\ load'[c] = 1
      /\ \A d \in cpus : /\ d # c => cur'[d] = cur[d]
                         /\ d # v => queue'[d] = queue[d]
                         /\ d # v /\ d # c => load'[d] = load[d]
      BY <1>1 DEF SInv, PlacesTyped
<1>5. Cardinality(queue[v]) >= 1 /\ Cardinality(queue'[v]) = Cardinality(queue[v]) - 1
  <2>1. queue[v] \in SUBSET Threads /\ t \in queue[v]
        BY <1>1, Here
  <2>2. /\ Cardinality(queue[v]) \in Nat /\ Cardinality(queue[v]) # 0
        /\ Cardinality(queue[v] \ {t}) = Cardinality(queue[v]) - 1
        BY ONLY <2>1, CardRemove
  <2>. QED  BY <1>4, <2>2
<1>6. Fixed' /\ PlacesTyped'
  <2>1. load[v] - 1 \in Nat
        BY <1>5, LoadHere
  <2>2. load' \in [cpus -> Nat]
        BY <1>1, <2>1, LoadHere DEF SInv, PlacesTyped
  <2>. QED  BY <1>1, <1>2, <1>3, <2>2 DEF SInv, Fixed, PlacesTyped
<1>7. OpsSound'
      BY <1>2, <1>4 DEF SInv, OpsSound, OpSound, Goal, Carries, Hands, Paired, None
<1>8. TargetAllowed'
      BY <1>2 DEF SInv, TargetAllowed, Allowed, Goal, None
<1>9. LoadCounts'
  <2>1. Cardinality(queue[c]) = 0 /\ Runs(c)' = 1
        BY <1>3, <1>4, LoadHere DEF Runs, Carries, Hands, Goal, None
  <2>2. \A d \in cpus : d # c => Runs(d)' = Runs(d) /\ Runs(d) \in Nat
        BY <1>4 DEF Runs
  <2>3. ASSUME NEW d \in cpus PROVE load'[d] = Cardinality(queue'[d]) + Runs(d)'
    <3>1. /\ load[d] = Cardinality(queue[d]) + Runs(d)
          /\ Cardinality(queue[d]) \in Nat /\ Runs(d) \in {0, 1}
          BY LoadHere
    <3>2. CASE d = c
          BY <1>4, <2>1, <3>2
    <3>3. CASE d = v
      <4>1. load'[d] = load[d] - 1 /\ Cardinality(queue'[d]) = Cardinality(queue[d]) - 1
            BY <1>4, <1>5, <3>3
      <4>. QED  BY <2>2, <3>1, <3>3, <4>1
    <3>4. CASE d # c /\ d # v
          BY <1>4, <2>2, <3>1, <3>4
    <3>. QED  BY <3>2, <3>3, <3>4
  <2>. QED  BY <1>2, <2>3 DEF LoadCounts
<1>10. HaltsIdle' /\ HaltedTold'
      BY <1>2, <1>4 DEF SInv, HaltsIdle, HaltedTold
<1>11. OnePlace'
  <2>1. \A d \in cpus : Hands(op[d]) => d # c /\ op[d].target # v
        BY NoneHanded DEF Hands, Goal
  <2>2. ~Hands(op'[c]) /\ op'[c].pc # "add"
        BY DEF Hands, Goal, None
  <2>3. \A d \in cpus : d # c => cur[d] # t
        BY <1>1, <2>1 DEF SInv, OnePlace, RunsUnqueued
  <2>4. QueuesApart'
        BY <1>2, <1>4 DEF SInv, OnePlace, QueuesApart
  <2>5. OneRuns'
        BY <1>2, <1>4, <2>3 DEF SInv, OnePlace, OneRuns
  <2>6. RunsUnqueued'
        BY <1>1, <1>2, <1>4, <2>1, <2>2 DEF SInv, OnePlace, QueuesApart, RunsUnqueued
  <2>7. ComesAlone'
        BY <1>1, <1>2, <1>4, <2>2 DEF SInv, OnePlace, ComesAlone
  <2>8. HandedQueued'
        BY <1>2, <1>4, <2>1, <2>2, HandedTyped DEF SInv, OnePlace, HandedQueued
  <2>. QED  BY <2>4, <2>5, <2>6, <2>7, <2>8 DEF OnePlace
<1>. QED  BY <1>6, <1>7, <1>8, <1>9, <1>10, <1>11

\* What c has locked is dropped.
LEMMA LocksEnd ==
    ASSUME SInv, NEW c \in cpus, cpus' = cpus, Holds(op'[c]) = {},
           \A d \in cpus : d # c => op'[d] = op[d],
           \A l \in cpus : lock'[l] = IF l \in Holds(op[c]) THEN NoCpu ELSE lock[l]
    PROVE  LocksExact'
<1>1. \A d, l \in cpus : (lock[l] = d <=> l \in Holds(op[d])) /\ d # NoCpu
      BY Here DEF SInv, LocksExact
<1>2. ASSUME NEW d \in cpus, NEW l \in cpus PROVE lock'[l] = d <=> l \in Holds(op'[d])
  <2>1. CASE d = c
        BY <1>1, <2>1
  <2>2. CASE d # c
        BY <1>1, <2>2
  <2>. QED  BY <2>1, <2>2
<1>. QED  BY <1>2 DEF LocksExact

\* Nothing is held, or both of a pair, by an operation that is over when it has
\* done its step.
LEMMA HeldHere ==
    ASSUME SInv, NEW c \in cpus
    PROVE  /\ op[c].pc \in {"none", "preempt", "try", "own", "high", "low", "add"} =>
                  Holds(op[c]) = {}
           /\ op[c].pc \in {"trylocked", "idled", "migrate", "migrated", "pair", "moved"} =>
                  /\ Holds(op[c]) = {op[c].one, op[c].two} /\ op[c].one # op[c].two
                  /\ op[c].one \in cpus /\ op[c].two \in cpus
                  /\ lock[op[c].one] = c /\ lock[op[c].two] = c
<1>1. OpSound(c, op[c]) /\ \A l \in cpus : lock[l] = c <=> l \in Holds(op[c])
      BY Here DEF SInv, LocksExact
<1>2. op[c].pc \in {"none", "preempt", "try", "own", "high", "low", "add"} => Holds(op[c]) = {}
      BY DEF Holds, Paired, Goal
<1>3. ASSUME op[c].pc \in {"trylocked", "idled", "migrate", "migrated", "pair", "moved"}
      PROVE  /\ Holds(op[c]) = {op[c].one, op[c].two} /\ op[c].one # op[c].two
             /\ op[c].one \in cpus /\ op[c].two \in cpus
      BY <1>1, <1>3 DEF OpSound, Holds, Paired, Goal
<1>. QED  BY <1>1, <1>2, <1>3

\* No thread moves, and c neither takes nor gives away one.
LEMMA OpKeeps ==
    ASSUME SInv, NEW c \in cpus, UNCHANGED <<fixed, threads>>, OpSound(c, op[c])',
           op'[c].pc # "add", Carries(op'[c]) <=> Carries(op[c]), Hands(op'[c]) <=> Hands(op[c]),
           Hands(op[c]) \/ Goal(op'[c]) = "migrate" =>
               Goal(op'[c]) = Goal(op[c]) /\ op'[c].target = op[c].target,
           \A d \in cpus : d # c => op'[d] = op[d] /\ idle'[d] = idle[d]
    PROVE  Fixed' /\ PlacesTyped' /\ OpsSound' /\ OnePlace' /\ TargetAllowed' /\ LoadCounts'
<1>1. /\ cpus' = cpus /\ cpuset' = cpuset /\ bound' = bound
      /\ queue' = queue /\ load' = load /\ cur' = cur
      BY DEF fixed, threads
<1>2. Fixed' /\ PlacesTyped'
      BY <1>1 DEF SInv, Fixed, PlacesTyped
<1>3. OpsSound'
      BY <1>1 DEF SInv, OpsSound, OpSound
<1>4. \A d \in cpus : /\ Carries(op'[d]) <=> Carries(op[d])
                      /\ Hands(op'[d]) <=> Hands(op[d])
                      /\ Hands(op[d]) => op'[d].target = op[d].target
                      /\ op'[d].pc = "add" => op'[d] = op[d] /\ op[d].pc = "add"
      BY <1>1
<1>5. \A d \in cpus : Hands(op[d]) => op'[d].td = cur[d] /\ op[d].td = cur[d]
      BY <1>1, <1>3, <1>4 DEF SInv, OpsSound, OpSound
<1>6. OnePlace'
  <2>1. QueuesApart' /\ OneRuns'
        BY <1>1 DEF SInv, OnePlace, QueuesApart, OneRuns
  <2>2. RunsUnqueued'
        BY <1>1, <1>4 DEF SInv, OnePlace, RunsUnqueued
  <2>3. ComesAlone'
        BY <1>1, <1>4 DEF SInv, OnePlace, ComesAlone
  <2>4. HandedQueued'
        BY <1>1, <1>4, <1>5 DEF SInv, OnePlace, HandedQueued
  <2>. QED  BY <2>1, <2>2, <2>3, <2>4 DEF OnePlace
<1>7. TargetAllowed'
  <2>1. ASSUME NEW d \in cpus, op'[d].pc = "add" \/ Goal(op'[d]) = "migrate"
        PROVE  Allowed(op'[d].td, op'[d].target)
    <3>1. CASE d # c
          BY <2>1, <3>1 DEF SInv, TargetAllowed
    <3>2. CASE d = c
      <4>1. Goal(op'[c]) = "migrate" /\ Carries(op'[c]) /\ Carries(op[c]) /\ Goal(op[c]) = "migrate"
            BY <2>1, <3>2 DEF Carries
      <4>2. op'[c].td = op[c].td
            BY <4>1, <1>1, <1>3 DEF SInv, OpsSound, OpSound
      <4>. QED  BY <3>2, <4>1, <4>2 DEF SInv, TargetAllowed
    <3>. QED  BY <3>1, <3>2
  <2>. QED  BY <1>1, <2>1 DEF TargetAllowed, Allowed
<1>8. LoadCounts'
  <2>1. \A d \in cpus : Runs(d)' = Runs(d)
        BY <1>1, <1>4 DEF Runs
  <2>. QED  BY <1>1, <2>1 DEF SInv, LoadCounts
<1>. QED  BY <1>2, <1>3, <1>6, <1>7, <1>8

\* Nor is a processor halted or woken.
LEMMA QuietKeeps ==
    ASSUME SInv, NEW c \in cpus, cpus' = cpus, queue' = queue, cur' = cur,
           UNCHANGED <<signals, idle>>,
           op[c].pc # "none",
           op[c].pc \in {"notify", "wake"} =>
               op'[c].pc \in {"notify", "wake"} /\ op'[c].target = op[c].target,
           \A d \in cpus : d # c => op'[d] = op[d]
    PROVE  SignalsTyped' /\ IdleTyped' /\ FlagsFollow' /\ HaltsIdle' /\ HaltedTold'
<1>1. /\ cpu_idle' = cpu_idle /\ ipipending' = ipipending /\ ipi' = ipi /\ md' = md /\ idle' = idle
      BY DEF signals
<1>2. SignalsTyped' /\ IdleTyped' /\ FlagsFollow'
      BY <1>1 DEF SInv, SignalsTyped, IdleTyped, IdleStates, FlagsFollow
<1>3. HaltsIdle'
      BY <1>1 DEF SInv, HaltsIdle
<1>4. HaltedTold'
      BY <1>1 DEF SInv, HaltedTold
<1>. QED  BY <1>2, <1>3, <1>4

\* No lock changes hands.
LEMMA LocksSame ==
    ASSUME SInv, NEW c \in cpus, cpus' = cpus, lock' = lock, Holds(op'[c]) = Holds(op[c]),
           \A d \in cpus : d # c => op'[d] = op[d]
    PROVE  LockTyped' /\ LocksExact'
<1>1. LockTyped'
      BY DEF SInv, LockTyped
<1>2. \A d \in cpus : Holds(op'[d]) = Holds(op[d])
      OBVIOUS
<1>3. LocksExact'
      BY <1>2 DEF SInv, LocksExact
<1>. QED  BY <1>1, <1>3

\* The record each search leaves.
LEMMA TrySearchGoes ==
    ASSUME SInv, NEW c \in cpus, TrySearch(c)
    PROVE  \E r \in OpRecords :
              /\ Do(c, r) /\ r.td = op[c].td /\ r.target = op[c].target
              /\ \/ r.pc = "own"
                 \/ r.pc = "first" /\ r.then = "trylocked" /\ r.one = c /\ r.two \in cpus \ {c}
<1>1. PICK v \in sched_highest(cpus \ {c}, steal_thresh) :
          Do(c, IF load[c] > 0 \/ v = NoCpu THEN [op[c] EXCEPT !.pc = "own"]
                                            ELSE Pair(c, v, "trylocked", op[c]))
      BY DEF TrySearch
<1>2. v # NoCpu => v \in cpus \ {c}
      BY DEF sched_highest
<1>3. op[c] \in OpRecords
      BY Here DEF TrySearch, At
<1>4. CASE load[c] > 0 \/ v = NoCpu
  <2> DEFINE r == [op[c] EXCEPT !.pc = "own"]
  <2>1. Do(c, r)
        BY <1>1, <1>4
  <2>2. r \in OpRecords /\ r.pc = "own" /\ r.td = op[c].td /\ r.target = op[c].target
        BY <1>3, OpFields
  <2>. HIDE DEF r
  <2>. QED  BY <2>1, <2>2
<1>5. CASE ~(load[c] > 0 \/ v = NoCpu)
  <2> DEFINE r == Pair(c, v, "trylocked", op[c])
  <2>1. Do(c, r)
        BY <1>1, <1>5
  <2>2. /\ r \in OpRecords /\ r.pc = "first" /\ r.then = "trylocked" /\ r.one = c
        /\ r.two \in cpus \ {c} /\ r.td = op[c].td /\ r.target = op[c].target
    <3>1. v \in cpus /\ v # c
          BY <1>2, <1>5
    <3>. QED  BY <1>3, <3>1 DEF OpRecords, Pair
  <2>. HIDE DEF r
  <2>. QED  BY <2>1, <2>2
<1>. QED  BY <1>4, <1>5

\* sched_balance_pair finds nothing to move.
LEMMA BalancePairNotGoes ==
    ASSUME SInv, NEW c \in cpus, At(c, "pair"),
           Do(c, [op[c] EXCEPT !.pc = "low", !.lmask = @ \ {op[c].two}, !.anylow = FALSE])
    PROVE  \E r \in OpRecords :
              Do(c, r) /\ r.pc = "low" /\ r.one \in cpus /\ r.one \notin r.lmask /\ r.td = op[c].td
<1> DEFINE r == [op[c] EXCEPT !.pc = "low", !.lmask = @ \ {op[c].two}, !.anylow = FALSE]
<1>1. op[c] \in OpRecords /\ op[c].one \in cpus /\ op[c].one \notin op[c].lmask
      BY Here DEF At, OpSound, Goal
<1>2. r \in OpRecords /\ r.pc = "low" /\ r.one \in cpus /\ r.one \notin r.lmask /\ r.td = op[c].td
      BY <1>1 DEF OpRecords
<1>3. Do(c, r)
      OBVIOUS
<1>. HIDE DEF r
<1>. QED  BY <1>2, <1>3

LEMMA BalanceHighGoes ==
    ASSUME SInv, NEW c \in cpus, BalanceHigh(c)
    PROVE  \E r \in OpRecords \cup {None} :
              /\ Do(c, r)
              /\ r.pc = "none" \/ (r.pc = "low" /\ r.one \in cpus /\ r.one \notin r.lmask /\ r.td = op[c].td)
<1> DEFINE o == op[c]
           r(h) == [o EXCEPT !.pc = "low", !.one = h, !.hmask = @ \ {h},
                             !.lmask = o.hmask \ {h}, !.anylow = TRUE]
<1>1. PICK h \in sched_highest(o.hmask, 2) :
          Do(c, IF h = NoCpu \/ o.hmask \ {h} = {} THEN None ELSE r(h))
      BY Zenon DEF BalanceHigh
<1>2. o \in OpRecords
      BY Here DEF BalanceHigh, At
<1>3. h # NoCpu => h \in cpus
      BY <1>2 DEF sched_highest, OpRecords
<1>4. h # NoCpu => /\ r(h) \in OpRecords /\ r(h).pc = "low" /\ r(h).one \in cpus
                   /\ r(h).one \notin r(h).lmask /\ r(h).td = op[c].td
      BY <1>2, <1>3 DEF OpRecords
<1>. HIDE DEF r
<1>. QED  BY <1>1, <1>4 DEF None

LEMMA BalanceLowGoes ==
    ASSUME SInv, NEW c \in cpus, BalanceLow(c)
    PROVE  \E r \in OpRecords \cup {None} :
              /\ Do(c, r)
              /\ \/ r.pc = "none"
                 \/ r.pc = "high" /\ r.td = op[c].td
                 \/ /\ r.pc = "first" /\ r.then = "pair" /\ r.td = op[c].td
                    /\ r.one \in cpus /\ r.two \in cpus /\ r.one # r.two /\ r.target = r.two
                    /\ r.one \notin r.lmask
<1> DEFINE o == op[c]
           r(l) == [Pair(o.one, l, "pair", o) EXCEPT !.target = l]
<1>1. PICK l \in sched_lowest(o.lmask, FALSE, load[o.one] - 1, o.one) :
          Do(c, CASE l = NoCpu /\ o.anylow  -> None
                  [] l = NoCpu /\ ~o.anylow -> [o EXCEPT !.pc = "high"]
                  [] OTHER                  -> r(l))
      BY Zenon DEF BalanceLow
<1>2. o \in OpRecords /\ o.one \in cpus /\ o.one \notin o.lmask /\ o.lmask \in SUBSET cpus
      BY Here DEF BalanceLow, At, OpSound, OpRecords
<1>3. l # NoCpu => l \in o.lmask
      BY <1>2 DEF sched_lowest
<1>4. ASSUME l # NoCpu
      PROVE  /\ r(l) \in OpRecords /\ r(l).pc = "first" /\ r(l).then = "pair" /\ r(l).td = op[c].td
             /\ r(l).one \in cpus /\ r(l).two \in cpus /\ r(l).one # r(l).two /\ r(l).target = r(l).two
             /\ r(l).one \notin r(l).lmask
  <2>1. l \in cpus /\ l # o.one
        BY <1>2, <1>3, <1>4
  <2>. QED  BY <1>2, <2>1 DEF OpRecords, Pair
<1>5. /\ [o EXCEPT !.pc = "high"] \in OpRecords /\ [o EXCEPT !.pc = "high"].pc = "high"
      /\ [o EXCEPT !.pc = "high"].td = o.td
      BY <1>2, OpFields
<1>. HIDE DEF r
<1>6. CASE l = NoCpu /\ o.anylow
      BY <1>1, <1>6 DEF None
<1>7. CASE l = NoCpu /\ ~o.anylow
      BY <1>1, <1>5, <1>7
<1>8. CASE l # NoCpu
      BY <1>1, <1>4, <1>8
<1>. QED  BY <1>6, <1>7, <1>8

LEMMA BalanceMovedGoes ==
    ASSUME SInv, NEW c \in cpus, BalanceMoved(c)
    PROVE  \E r \in OpRecords : Do(c, r) /\ r.pc = "high" /\ r.td = op[c].td
<1> DEFINE r == [op[c] EXCEPT !.pc = "high", !.hmask = @ \ {op[c].two}]
<1>1. op[c] \in OpRecords
      BY Here DEF BalanceMoved, At
<1>2. r \in OpRecords /\ r.pc = "high" /\ r.td = op[c].td
      BY <1>1 DEF OpRecords
<1>3. Do(c, r)
      BY Zenon DEF BalanceMoved
<1>. HIDE DEF r
<1>. QED  BY <1>2, <1>3

\* A step of the idle loop, with nothing but its own variables.
LEMMA IdleKeeps ==
    ASSUME SInv, NEW c \in cpus, UNCHANGED <<fixed, threads, lock, op>>, op[c].pc = "none",
           NEW r \in IdleStates, idle' = [idle EXCEPT ![c] = r]
    PROVE  /\ Fixed' /\ PlacesTyped' /\ IdleTyped' /\ LockTyped' /\ OpsTyped' /\ OpsSound'
           /\ LocksExact' /\ OnePlace' /\ TargetAllowed' /\ LoadCounts'
           /\ cpus' = cpus /\ queue' = queue /\ cur' = cur /\ op' = op /\ idle'[c] = r
           /\ \A d \in cpus : d # c => idle'[d] = idle[d]
<1>1. cpus' = cpus /\ queue' = queue /\ cur' = cur /\ op' = op /\ lock' = lock
      BY DEF fixed, threads
<1>2. IdleTyped' /\ idle'[c] = r /\ \A d \in cpus : d # c => idle'[d] = idle[d]
      BY <1>1 DEF SInv, IdleTyped, IdleStates
<1>3. OpsTyped'
      BY <1>1 DEF SInv, OpsTyped, OpRecords
<1>4. LockTyped' /\ LocksExact'
      BY <1>1, LocksSame
<1>5. OpSound(c, op[c])' /\ ~Carries(op[c]) /\ ~Hands(op[c]) /\ Goal(op[c]) = "none"
      BY <1>1 DEF OpSound, Carries, Hands, Goal, Paired
<1>6. Fixed' /\ PlacesTyped' /\ OpsSound' /\ OnePlace' /\ TargetAllowed' /\ LoadCounts'
      BY <1>1, <1>2, <1>5, OpKeeps
<1>. QED  BY <1>1, <1>2, <1>3, <1>4, <1>6

LEMMA GoesTo ==
    ASSUME NEW c, NEW pc \in {"top", "search", "rest", "fence", "enter", "runnable", "halted",
                             "returned", "up"}, Goes(c, pc)
    PROVE  \E r \in IdleStates : idle' = [idle EXCEPT ![c] = r] /\ r.pc = pc
<1> DEFINE r == [pc |-> pc, mask |-> {}]
<1>1. r \in IdleStates /\ r.pc = pc
      BY DEF IdleStates
<1>2. idle' = [idle EXCEPT ![c] = r]
      BY DEF Goes, IdleGoes
<1>. HIDE DEF r
<1>. QED  BY <1>1, <1>2

-----------------------------------------------------------------------------
(* The invariant, one action at a time *)

LEMMA LockFirstKeeps ==
    ASSUME SInv, NEW c \in cpus, LockFirst(c)
    PROVE  SInv'
<1>1. UNCHANGED <<fixed, threads>> /\ cpus' = cpus
      BY DEF LockFirst, At, fixed
<1>2. OpsTyped' /\ \A d \in cpus : d # c => op'[d] = op[d] /\ idle'[d] = idle[d]
  <2>1. \E r \in OpRecords : Do(c, r)
        BY Here, OpFields DEF LockFirst, At, OpSound
  <2>. QED  BY <1>1, <2>1, OpNew, OpChanges DEF LockFirst, At
<1>3. /\ OpSound(c, op[c])'
      /\ op'[c].pc # "add"
      /\ (Carries(op'[c]) <=> Carries(op[c])) /\ (Hands(op'[c]) <=> Hands(op[c]))
      /\ Hands(op[c]) \/ Goal(op'[c]) = "migrate" =>
             Goal(op'[c]) = Goal(op[c]) /\ op'[c].target = op[c].target
      BY <1>1, Here DEF LockFirst, At, Do, SInv, OpsTyped, threads, OpSound, Carries, Hands, Goal,
         Paired
<1>4. LockTyped' /\ LocksExact'
  <2>1. /\ op'[c].one = op[c].one /\ op'[c].two = op[c].two /\ op'[c].pc = "second"
        /\ op[c].pc = "first" /\ op[c].one \in cpus /\ op[c].two \in cpus
        BY Here DEF LockFirst, At, Do, SInv, OpsTyped, OpSound, Paired, Goal
  <2>2. Holds(op[c]) = {} /\ Holds(op'[c]) = {FirstOf(op[c].one, op[c].two)}
    <3>1. op[c].then # "added" /\ op'[c].then = op[c].then
          BY <2>1, Here, OpChanges DEF LockFirst, At, OpSound, OpRecords
    <3>2. Holds(op[c]) = {}
          BY <2>1, <3>1 DEF Holds, Goal, Paired
    <3>3. Holds(op'[c]) = {FirstOf(op'[c].one, op'[c].two)}
          BY <2>1, <3>1 DEF Holds, Goal
    <3>. QED  BY <2>1, <3>2, <3>3
  <2>3. LockTyped'
        BY <1>1, <2>1 DEF LockFirst, At, SInv, LockTyped, FirstOf
  <2>. QED  BY <1>1, <1>2, <2>2, <2>3, LockedBy DEF LockFirst, At, Held
<1>5. SignalsTyped' /\ IdleTyped' /\ FlagsFollow' /\ HaltsIdle' /\ HaltedTold'
      BY <1>1, <1>2, QuietKeeps DEF LockFirst, At, threads
<1>6. Fixed' /\ PlacesTyped' /\ OpsSound' /\ OnePlace' /\ TargetAllowed' /\ LoadCounts'
      BY <1>1, <1>2, <1>3, OpKeeps
<1>. QED  BY <1>2, <1>4, <1>5, <1>6 DEF SInv

LEMMA LockSecondKeeps ==
    ASSUME SInv, NEW c \in cpus, LockSecond(c)
    PROVE  SInv'
<1>1. UNCHANGED <<fixed, threads>> /\ cpus' = cpus
      BY DEF LockSecond, At, fixed
<1>2. OpsTyped' /\ \A d \in cpus : d # c => op'[d] = op[d] /\ idle'[d] = idle[d]
  <2>1. \E r \in OpRecords : Do(c, r)
        BY Here, OpFields DEF LockSecond, At, OpSound
  <2>. QED  BY <1>1, <2>1, OpNew, OpChanges DEF LockSecond, At
<1>3. /\ OpSound(c, op[c])'
      /\ op'[c].pc # "add"
      /\ (Carries(op'[c]) <=> Carries(op[c])) /\ (Hands(op'[c]) <=> Hands(op[c]))
      /\ Hands(op[c]) \/ Goal(op'[c]) = "migrate" =>
             Goal(op'[c]) = Goal(op[c]) /\ op'[c].target = op[c].target
      BY <1>1, Here DEF LockSecond, At, Do, SInv, OpsTyped, threads, OpSound, Carries, Hands,
         Goal, Paired
<1>4. LockTyped' /\ LocksExact'
  <2>1. /\ op'[c].one = op[c].one /\ op'[c].two = op[c].two /\ op'[c].pc = op[c].then
        /\ op[c].pc = "second" /\ op[c].then \in {"trylocked", "idled", "migrate", "pair"}
        /\ op[c].one \in cpus /\ op[c].two \in cpus
        BY Here DEF LockSecond, At, Do, SInv, OpsTyped, OpSound, Paired, Goal
  <2>2. /\ Holds(op[c]) = {FirstOf(op[c].one, op[c].two)}
        /\ Holds(op'[c]) = Holds(op[c]) \cup {SecondOf(op[c].one, op[c].two)}
        BY <2>1 DEF Holds, Goal, Paired, FirstOf, SecondOf
  <2>3. LockTyped'
        BY <1>1, <2>1 DEF LockSecond, At, SInv, LockTyped, SecondOf, FirstOf
  <2>. QED  BY <1>1, <1>2, <2>2, <2>3, LockedBy DEF LockSecond, At, Held
<1>5. SignalsTyped' /\ IdleTyped' /\ FlagsFollow' /\ HaltsIdle' /\ HaltedTold'
      BY <1>1, <1>2, QuietKeeps DEF LockSecond, At, threads
<1>6. Fixed' /\ PlacesTyped' /\ OpsSound' /\ OnePlace' /\ TargetAllowed' /\ LoadCounts'
      BY <1>1, <1>2, <1>3, OpKeeps
<1>. QED  BY <1>2, <1>4, <1>5, <1>6 DEF SInv

LEMMA NotifyKeeps ==
    ASSUME SInv, NEW c \in cpus, Notify(c)
    PROVE  SInv'
<1>1. UNCHANGED <<fixed, threads>> /\ cpus' = cpus
      BY DEF Notify, At, fixed
<1>2. OpsTyped' /\ \A d \in cpus : d # c => op'[d] = op[d] /\ idle'[d] = idle[d]
  <2>1. \E r \in OpRecords : Do(c, r)
        BY Here, OpFields DEF Notify, At, OpSound
  <2>. QED  BY <1>1, <2>1, OpNew, OpChanges DEF Notify, At
<1>3. /\ OpSound(c, op[c])'
      /\ op'[c].pc # "add"
      /\ (Carries(op'[c]) <=> Carries(op[c])) /\ (Hands(op'[c]) <=> Hands(op[c]))
      /\ Hands(op[c]) \/ Goal(op'[c]) = "migrate" =>
             Goal(op'[c]) = Goal(op[c]) /\ op'[c].target = op[c].target
      BY <1>1, Here DEF Notify, At, Do, SInv, OpsTyped, threads, OpSound, Carries, Hands, Goal,
         Paired
<1>4. LockTyped' /\ LocksExact'
  <2>1. Holds(op'[c]) = Holds(op[c]) /\ lock' = lock
        BY Here DEF Notify, At, Do, SInv, OpsTyped, OpSound, Paired, Goal, Holds
  <2>. QED  BY <1>1, <1>2, <2>1, LocksSame
<1>5. SignalsTyped' /\ IdleTyped' /\ FlagsFollow' /\ HaltsIdle' /\ HaltedTold'
  <2> DEFINE g == op[c].target
  <2>1. UNCHANGED <<idle, cur, queue, cpus, cpu_idle, ipi, ipipending, md>> /\ op[c].pc = "notify"
        BY DEF Notify, At, signals, threads, fixed
  <2>2. SignalsTyped' /\ IdleTyped' /\ FlagsFollow' /\ HaltsIdle'
        BY <1>2, <2>1 DEF SInv, SignalsTyped, IdleTyped, IdleStates, FlagsFollow, HaltsIdle
  <2>3. (op'[c].pc = "wake" /\ op'[c].target = g) \/ ipipending[g] \/ cur[g] # Idle \/ ~cpu_idle[g]
        BY Here, OpChanges DEF Notify, At, OpRecords
  <2>4. g \in cpus
        BY <2>1, Here DEF OpSound, Goal, Paired
  <2>5. ipi[g] \/ idle[g].pc # "halted" \/ (op'[c].pc = "wake" /\ op'[c].target = g)
        BY <2>3, <2>4 DEF SInv, FlagsFollow, HaltsIdle
  <2>6. HaltedTold'
        BY <1>2, <2>1, <2>5 DEF SInv, HaltedTold
  <2>. QED  BY <2>2, <2>6
<1>6. Fixed' /\ PlacesTyped' /\ OpsSound' /\ OnePlace' /\ TargetAllowed' /\ LoadCounts'
      BY <1>1, <1>2, <1>3, OpKeeps
<1>. QED  BY <1>2, <1>4, <1>5, <1>6 DEF SInv

LEMMA AddedKeeps ==
    ASSUME SInv, NEW c \in cpus, Added(c)
    PROVE  SInv'
<1>1. UNCHANGED <<fixed, threads>> /\ cpus' = cpus
      BY DEF Added, At, fixed
<1>2. OpsTyped' /\ \A d \in cpus : d # c => op'[d] = op[d] /\ idle'[d] = idle[d]
  <2>1. \E r \in OpRecords \cup {None} : Do(c, r)
        BY OpBlank DEF Added, At
  <2>. QED  BY <1>1, <2>1, OpNew, OpChanges DEF Added, At
<1>3. /\ OpSound(c, op[c])'
      /\ op'[c].pc # "add"
      /\ (Carries(op'[c]) <=> Carries(op[c])) /\ (Hands(op'[c]) <=> Hands(op[c]))
      /\ Hands(op[c]) \/ Goal(op'[c]) = "migrate" =>
             Goal(op'[c]) = Goal(op[c]) /\ op'[c].target = op[c].target
  <2>1. /\ op'[c].pc \in {"none", "preempt"}
        /\ op'[c].pc = "preempt" => op'[c].td = Idle /\ cur'[c] = Idle
        BY OpChanges DEF Added, At, Op, None, threads
  <2>. QED  BY <2>1 DEF Added, At, Carries, Hands, OpSound, Goal, Paired
<1>4. LockTyped' /\ LocksExact'
  <2>1. Unlocked({op[c].target}) /\ Holds(op[c]) = {op[c].target}
        BY HeldHere, Here DEF Added, At, OpSound, Goal, Holds, Paired
  <2>2. Holds(op'[c]) = {}
        BY <1>3, Here, OpChanges DEF Added, At, Do, SInv, OpsTyped, Op, None, Holds, Goal, Paired
  <2>. QED  BY <1>1, <1>2, <2>1, <2>2, LocksDropped, LocksEnd
<1>5. SignalsTyped' /\ IdleTyped' /\ FlagsFollow' /\ HaltsIdle' /\ HaltedTold'
      BY <1>1, <1>2, QuietKeeps DEF Added, At, threads
<1>6. Fixed' /\ PlacesTyped' /\ OpsSound' /\ OnePlace' /\ TargetAllowed' /\ LoadCounts'
      BY <1>1, <1>2, <1>3, OpKeeps
<1>. QED  BY <1>2, <1>4, <1>5, <1>6 DEF SInv

LEMMA WakeKeeps ==
    ASSUME SInv, NEW c \in cpus, Wake(c)
    PROVE  SInv'
<1>1. UNCHANGED <<fixed, threads>> /\ cpus' = cpus
      BY DEF Wake, At, fixed
<1>2. OpsTyped' /\ \A d \in cpus : d # c => op'[d] = op[d] /\ idle'[d] = idle[d]
  <2>1. \E r \in OpRecords : Do(c, r)
        BY Here, OpFields DEF Wake, At, OpSound
  <2>. QED  BY <1>1, <2>1, OpNew, OpChanges DEF Wake, At
<1>3. /\ OpSound(c, op[c])'
      /\ op'[c].pc # "add"
      /\ (Carries(op'[c]) <=> Carries(op[c])) /\ (Hands(op'[c]) <=> Hands(op[c]))
      /\ Hands(op[c]) \/ Goal(op'[c]) = "migrate" =>
             Goal(op'[c]) = Goal(op[c]) /\ op'[c].target = op[c].target
      BY <1>1, Here DEF Wake, At, Do, SInv, OpsTyped, threads, OpSound, Carries, Hands, Goal, Paired
<1>4. LockTyped' /\ LocksExact'
  <2>1. Holds(op'[c]) = Holds(op[c]) /\ lock' = lock
        BY Here DEF Wake, At, Do, SInv, OpsTyped, OpSound, Paired, Goal, Holds
  <2>. QED  BY <1>1, <1>2, <2>1, LocksSame
<1>5. SignalsTyped' /\ IdleTyped' /\ FlagsFollow' /\ HaltsIdle' /\ HaltedTold'
  <2> DEFINE g == op[c].target
  <2>1. UNCHANGED <<idle, cur, queue, cpus, cpu_idle>> /\ op[c].pc = "wake"
        BY DEF Wake, At, signals, threads, fixed
  <2>2. g \in cpus
        BY <2>1, Here DEF OpSound, Goal, Paired
  <2>3. \/ ipipending' = [ipipending EXCEPT ![g] = TRUE] /\ ipi' = [ipi EXCEPT ![g] = TRUE] /\ md' = md
        \/ md' = [md EXCEPT ![g] = "running"] /\ UNCHANGED <<ipipending, ipi>>
        BY DEF Wake, At
  <2>4. SignalsTyped' /\ IdleTyped' /\ FlagsFollow' /\ HaltsIdle'
    <3>1. SignalsTyped'
          BY <2>1, <2>2, <2>3 DEF SInv, SignalsTyped
    <3>3. FlagsFollow'
          BY <2>1, <2>2, <2>3 DEF SInv, SignalsTyped, FlagsFollow
    <3>2. IdleTyped' /\ HaltsIdle'
          BY <1>2, <2>1 DEF SInv, IdleTyped, IdleStates, HaltsIdle
    <3>. QED  BY <3>1, <3>2, <3>3
  <2>5. /\ ipi'[g] \/ md'[g] = "running"
        /\ \A d \in cpus : d # g => ipi'[d] = ipi[d] /\ md'[d] = md[d]
        BY <2>2, <2>3 DEF SInv, SignalsTyped
  <2>6. HaltedTold'
        BY <1>2, <2>1, <2>5 DEF SInv, HaltedTold
  <2>. QED  BY <2>4, <2>6
<1>6. Fixed' /\ PlacesTyped' /\ OpsSound' /\ OnePlace' /\ TargetAllowed' /\ LoadCounts'
      BY <1>1, <1>2, <1>3, OpKeeps
<1>. QED  BY <1>2, <1>4, <1>5, <1>6 DEF SInv

LEMMA YieldKeeps ==
    ASSUME SInv, NEW c \in cpus, Yield(c)
    PROVE  SInv'
<1>1. UNCHANGED <<fixed, bound>> /\ cpus' = cpus /\ Choose(c, (queue[c] \cup {cur[c]}))
      BY DEF Yield, fixed
<1>2. op'[c] = None /\ OpsTyped' /\ \A d \in cpus : d # c => op'[d] = op[d]
      BY <1>1, OpNew, OpChanges, Here DEF Yield, SInv, OpsTyped, Rest, Do
<1>3. /\ lock[c] \in {NoCpu, c} /\ LockTyped'
      /\ \A l \in cpus : lock'[l] = IF l \in Holds(op[c]) THEN NoCpu ELSE lock[l]
  <2>1. lock' = lock /\ Holds(op[c]) = {}
        BY HeldHere DEF Yield, Rest, None
  <2>. QED  BY <1>1, <2>1, Here DEF Yield, Held, SInv, LockTyped
<1>4. /\ (queue[c] \cup {cur[c]}) \in SUBSET Threads /\ op[c].pc \notin {"notify", "wake"}
      /\ \/ queue[c] \cup {cur[c]} = queue[c]
         \/ queue[c] \cup {cur[c]} = queue[c] \cup {cur[c]} /\ Rest(c)
      BY Here DEF Yield, Rest, None
<1>5. /\ load' \in [cpus -> Nat] /\ load'[c] = Cardinality((queue[c] \cup {cur[c]}))
      /\ \A d \in cpus : d # c => load'[d] = load[d]
  <2>1. cur[c] \in Threads /\ cur[c] \notin queue[c] /\ Runs(c) = 1
        BY Here DEF Yield, SInv, OnePlace, RunsUnqueued, Runs, Carries, Hands, Goal, Rest, None
  <2>2. Cardinality(queue[c] \cup {cur[c]}) = Cardinality(queue[c]) + 1
        BY <2>1, CardRemove, Here
  <2>. QED  BY <1>1, <2>1, <2>2, LoadHere DEF Yield, SInv, PlacesTyped
<1>6. /\ idle'[c].pc \notin {"runnable", "halted"} /\ IdleTyped' /\ SignalsTyped' /\ FlagsFollow'
      /\ \A d \in cpus : d # c => idle'[d] = idle[d] /\ ipi'[d] = ipi[d] /\ md'[d] = md[d]
  <2>1. idle' = idle /\ cpu_idle' = cpu_idle /\ ipipending' = ipipending /\ ipi' = ipi /\ md' = md
        BY DEF Yield, signals
  <2>2. idle[c].pc \notin {"runnable", "halted"}
        BY DEF Yield, SInv, HaltsIdle, Rest, None
  <2>. QED  BY <1>1, <2>1, <2>2 DEF SInv, SignalsTyped, IdleTyped, IdleStates, FlagsFollow
<1>7. /\ Fixed' /\ PlacesTyped' /\ OpsSound' /\ OnePlace' /\ TargetAllowed'
      /\ LoadCounts' /\ HaltsIdle' /\ HaltedTold'
      BY <1>1, <1>2, <1>3, <1>4, <1>5, <1>6, ChooseKeeps
<1>8. LocksExact'
  <2>1. Holds(op'[c]) = {}
        BY <1>2 DEF Holds, Paired, Goal, None
  <2>. QED  BY <1>1, <1>2, <1>3, <2>1, LocksEnd
<1>. QED  BY <1>2, <1>3, <1>6, <1>7, <1>8 DEF SInv

LEMMA PreemptKeeps ==
    ASSUME SInv, NEW c \in cpus, Preempt(c)
    PROVE  SInv'
<1>1. UNCHANGED <<fixed, bound>> /\ cpus' = cpus /\ Choose(c, queue[c])
      BY DEF Preempt, At, fixed
<1>2. op'[c] = None /\ OpsTyped' /\ \A d \in cpus : d # c => op'[d] = op[d]
      BY <1>1, OpNew, OpChanges, Here DEF Preempt, At, SInv, OpsTyped, Rest, Do
<1>3. /\ lock[c] \in {NoCpu, c} /\ LockTyped'
      /\ \A l \in cpus : lock'[l] = IF l \in Holds(op[c]) THEN NoCpu ELSE lock[l]
  <2>1. lock' = lock /\ Holds(op[c]) = {}
        BY HeldHere DEF Preempt, At, Rest, None
  <2>. QED  BY <1>1, <2>1, Here DEF Preempt, At, Held, SInv, LockTyped
<1>4. /\ queue[c] \in SUBSET Threads /\ op[c].pc \notin {"notify", "wake"}
      /\ queue[c] = queue[c] \/ (queue[c] = queue[c] \cup {cur[c]} /\ Rest(c))
      BY Here DEF Preempt, At, Rest, None
<1>5. /\ load' \in [cpus -> Nat] /\ load'[c] = Cardinality(queue[c])
      /\ \A d \in cpus : d # c => load'[d] = load[d]
      BY LoadHere, Here DEF Preempt, At, Runs, Carries, Hands, Goal, OpSound, SInv, PlacesTyped
<1>6. /\ idle'[c].pc \notin {"runnable", "halted"} /\ IdleTyped' /\ SignalsTyped' /\ FlagsFollow'
      /\ \A d \in cpus : d # c => idle'[d] = idle[d] /\ ipi'[d] = ipi[d] /\ md'[d] = md[d]
  <2>1. idle' = idle /\ cpu_idle' = cpu_idle /\ ipipending' = ipipending /\ ipi' = ipi /\ md' = md
        BY DEF Preempt, At, signals
  <2>2. idle[c].pc \notin {"runnable", "halted"}
        BY DEF Preempt, At, SInv, HaltsIdle, Rest, None
  <2>. QED  BY <1>1, <2>1, <2>2 DEF SInv, SignalsTyped, IdleTyped, IdleStates, FlagsFollow
<1>7. /\ Fixed' /\ PlacesTyped' /\ OpsSound' /\ OnePlace' /\ TargetAllowed'
      /\ LoadCounts' /\ HaltsIdle' /\ HaltedTold'
      BY <1>1, <1>2, <1>3, <1>4, <1>5, <1>6, ChooseKeeps
<1>8. LocksExact'
  <2>1. Holds(op'[c]) = {}
        BY <1>2 DEF Holds, Paired, Goal, None
  <2>. QED  BY <1>1, <1>2, <1>3, <2>1, LocksEnd
<1>. QED  BY <1>2, <1>3, <1>6, <1>7, <1>8 DEF SInv

LEMMA TryOwnKeeps ==
    ASSUME SInv, NEW c \in cpus, TryOwn(c)
    PROVE  SInv'
<1>1. UNCHANGED <<fixed, bound>> /\ cpus' = cpus /\ Choose(c, queue[c])
      BY DEF TryOwn, At, fixed
<1>2. op'[c] = None /\ OpsTyped' /\ \A d \in cpus : d # c => op'[d] = op[d]
      BY <1>1, OpNew, OpChanges, Here DEF TryOwn, At, SInv, OpsTyped, Rest, Do
<1>3. /\ lock[c] \in {NoCpu, c} /\ LockTyped'
      /\ \A l \in cpus : lock'[l] = IF l \in Holds(op[c]) THEN NoCpu ELSE lock[l]
  <2>1. lock' = lock /\ Holds(op[c]) = {}
        BY HeldHere DEF TryOwn, At, Rest, None
  <2>. QED  BY <1>1, <2>1, Here DEF TryOwn, At, Held, SInv, LockTyped
<1>4. /\ queue[c] \in SUBSET Threads /\ op[c].pc \notin {"notify", "wake"}
      /\ queue[c] = queue[c] \/ (queue[c] = queue[c] \cup {cur[c]} /\ Rest(c))
      BY Here DEF TryOwn, At, Rest, None
<1>5. /\ load' \in [cpus -> Nat] /\ load'[c] = Cardinality(queue[c])
      /\ \A d \in cpus : d # c => load'[d] = load[d]
      BY LoadHere, Here DEF TryOwn, At, Runs, Carries, Hands, Goal, OpSound, SInv, PlacesTyped
<1>6. /\ idle'[c].pc \notin {"runnable", "halted"} /\ IdleTyped' /\ SignalsTyped' /\ FlagsFollow'
      /\ \A d \in cpus : d # c => idle'[d] = idle[d] /\ ipi'[d] = ipi[d] /\ md'[d] = md[d]
  <2>1. idle' = idle /\ cpu_idle' = cpu_idle /\ ipipending' = ipipending /\ ipi' = ipi /\ md' = md
        BY DEF TryOwn, At, signals
  <2>2. idle[c].pc \notin {"runnable", "halted"}
        BY DEF TryOwn, At, SInv, HaltsIdle, Rest, None
  <2>. QED  BY <1>1, <2>1, <2>2 DEF SInv, SignalsTyped, IdleTyped, IdleStates, FlagsFollow
<1>7. /\ Fixed' /\ PlacesTyped' /\ OpsSound' /\ OnePlace' /\ TargetAllowed'
      /\ LoadCounts' /\ HaltsIdle' /\ HaltedTold'
      BY <1>1, <1>2, <1>3, <1>4, <1>5, <1>6, ChooseKeeps
<1>8. LocksExact'
  <2>1. Holds(op'[c]) = {}
        BY <1>2 DEF Holds, Paired, Goal, None
  <2>. QED  BY <1>1, <1>2, <1>3, <2>1, LocksEnd
<1>. QED  BY <1>2, <1>3, <1>6, <1>7, <1>8 DEF SInv

LEMMA TrySearchKeeps ==
    ASSUME SInv, NEW c \in cpus, TrySearch(c)
    PROVE  SInv'
<1>1. UNCHANGED <<fixed, threads>> /\ cpus' = cpus
      BY DEF TrySearch, At, fixed
<1>r. PICK r \in OpRecords :
          /\ Do(c, r) /\ r.td = op[c].td /\ r.target = op[c].target
          /\ \/ r.pc = "own"
             \/ r.pc = "first" /\ r.then = "trylocked" /\ r.one = c /\ r.two \in cpus \ {c}
      BY TrySearchGoes
<1>g. op'[c] = r
      BY <1>r, OpChanges
<1>o. cur' = cur /\ idle' = idle /\ op[c].pc = "try" /\ op[c].td = cur[c] /\ cur[c] # Idle
      BY Here DEF TrySearch, At, threads, OpSound, Carries, Hands, Goal, Paired
<1>2. OpsTyped' /\ \A d \in cpus : d # c => op'[d] = op[d] /\ idle'[d] = idle[d]
      BY <1>1, <1>r, OpNew, OpChanges DEF TrySearch, At
<1>3. /\ OpSound(c, op[c])'
      /\ op'[c].pc # "add"
      /\ (Carries(op'[c]) <=> Carries(op[c])) /\ (Hands(op'[c]) <=> Hands(op[c]))
      /\ Hands(op[c]) \/ Goal(op'[c]) = "migrate" =>
             Goal(op'[c]) = Goal(op[c]) /\ op'[c].target = op[c].target
      BY <1>1, <1>r, <1>g, <1>o DEF OpSound, Carries, Hands, Goal, Paired, None
<1>4. LockTyped' /\ LocksExact'
  <2>1. Holds(op'[c]) = {} /\ Holds(op[c]) = {} /\ lock' = lock
        BY <1>r, <1>g, <1>o, HeldHere DEF TrySearch, At, Holds, Goal, Paired
  <2>. QED  BY <1>1, <1>2, <2>1, LocksSame
<1>5. SignalsTyped' /\ IdleTyped' /\ FlagsFollow' /\ HaltsIdle' /\ HaltedTold'
      BY <1>1, <1>2, QuietKeeps DEF TrySearch, At, threads
<1>6. Fixed' /\ PlacesTyped' /\ OpsSound' /\ OnePlace' /\ TargetAllowed' /\ LoadCounts'
      BY <1>1, <1>2, <1>3, OpKeeps
<1>. QED  BY <1>2, <1>4, <1>5, <1>6 DEF SInv

LEMMA BalanceHighKeeps ==
    ASSUME SInv, NEW c \in cpus, BalanceHigh(c)
    PROVE  SInv'
<1>1. UNCHANGED <<fixed, threads>> /\ cpus' = cpus
      BY DEF BalanceHigh, At, fixed
<1>r. PICK r \in OpRecords \cup {None} :
          /\ Do(c, r)
          /\ r.pc = "none" \/ (r.pc = "low" /\ r.one \in cpus /\ r.one \notin r.lmask /\ r.td = op[c].td)
      BY BalanceHighGoes
<1>g. op'[c] = r
      BY <1>r, OpChanges
<1>o. cur' = cur /\ idle' = idle /\ op[c].td = Idle /\ ~Carries(op[c]) /\ ~Hands(op[c])
      BY Here DEF BalanceHigh, At, threads, OpSound, Carries, Hands, Goal, Paired
<1>2. OpsTyped' /\ \A d \in cpus : d # c => op'[d] = op[d] /\ idle'[d] = idle[d]
      BY <1>1, <1>r, OpNew, OpChanges DEF BalanceHigh, At
<1>3. /\ OpSound(c, op[c])'
      /\ op'[c].pc # "add"
      /\ (Carries(op'[c]) <=> Carries(op[c])) /\ (Hands(op'[c]) <=> Hands(op[c]))
      /\ Hands(op[c]) \/ Goal(op'[c]) = "migrate" =>
             Goal(op'[c]) = Goal(op[c]) /\ op'[c].target = op[c].target
      BY <1>1, <1>r, <1>g, <1>o DEF OpSound, Carries, Hands, Goal, Paired, None
<1>4. LockTyped' /\ LocksExact'
  <2>1. Holds(op'[c]) = {} /\ Holds(op[c]) = {} /\ lock' = lock
        BY <1>r, <1>g, <1>o, HeldHere DEF BalanceHigh, At, Holds, Goal, Paired
  <2>. QED  BY <1>1, <1>2, <2>1, LocksSame
<1>5. SignalsTyped' /\ IdleTyped' /\ FlagsFollow' /\ HaltsIdle' /\ HaltedTold'
      BY <1>1, <1>2, QuietKeeps DEF BalanceHigh, At, threads
<1>6. Fixed' /\ PlacesTyped' /\ OpsSound' /\ OnePlace' /\ TargetAllowed' /\ LoadCounts'
      BY <1>1, <1>2, <1>3, OpKeeps
<1>. QED  BY <1>2, <1>4, <1>5, <1>6 DEF SInv

LEMMA BalanceLowKeeps ==
    ASSUME SInv, NEW c \in cpus, BalanceLow(c)
    PROVE  SInv'
<1>1. UNCHANGED <<fixed, threads>> /\ cpus' = cpus
      BY DEF BalanceLow, At, fixed
<1>r. PICK r \in OpRecords \cup {None} :
          /\ Do(c, r)
          /\ \/ r.pc = "none"
             \/ r.pc = "high" /\ r.td = op[c].td
             \/ /\ r.pc = "first" /\ r.then = "pair" /\ r.td = op[c].td
                /\ r.one \in cpus /\ r.two \in cpus /\ r.one # r.two /\ r.target = r.two
                /\ r.one \notin r.lmask
      BY BalanceLowGoes
<1>g. op'[c] = r
      BY <1>r, OpChanges
<1>o. cur' = cur /\ idle' = idle /\ op[c].td = Idle /\ ~Carries(op[c]) /\ ~Hands(op[c])
      BY Here DEF BalanceLow, At, threads, OpSound, Carries, Hands, Goal, Paired
<1>2. OpsTyped' /\ \A d \in cpus : d # c => op'[d] = op[d] /\ idle'[d] = idle[d]
      BY <1>1, <1>r, OpNew, OpChanges DEF BalanceLow, At
<1>3. /\ OpSound(c, op[c])'
      /\ op'[c].pc # "add"
      /\ (Carries(op'[c]) <=> Carries(op[c])) /\ (Hands(op'[c]) <=> Hands(op[c]))
      /\ Hands(op[c]) \/ Goal(op'[c]) = "migrate" =>
             Goal(op'[c]) = Goal(op[c]) /\ op'[c].target = op[c].target
      BY <1>1, <1>r, <1>g, <1>o DEF OpSound, Carries, Hands, Goal, Paired, None
<1>4. LockTyped' /\ LocksExact'
  <2>1. Holds(op'[c]) = {} /\ Holds(op[c]) = {} /\ lock' = lock
        BY <1>r, <1>g, <1>o, HeldHere DEF BalanceLow, At, Holds, Goal, Paired
  <2>. QED  BY <1>1, <1>2, <2>1, LocksSame
<1>5. SignalsTyped' /\ IdleTyped' /\ FlagsFollow' /\ HaltsIdle' /\ HaltedTold'
      BY <1>1, <1>2, QuietKeeps DEF BalanceLow, At, threads
<1>6. Fixed' /\ PlacesTyped' /\ OpsSound' /\ OnePlace' /\ TargetAllowed' /\ LoadCounts'
      BY <1>1, <1>2, <1>3, OpKeeps
<1>. QED  BY <1>2, <1>4, <1>5, <1>6 DEF SInv

LEMMA BalanceMovedKeeps ==
    ASSUME SInv, NEW c \in cpus, BalanceMoved(c)
    PROVE  SInv'
<1>1. UNCHANGED <<fixed, threads>> /\ cpus' = cpus
      BY DEF BalanceMoved, At, fixed
<1>r. PICK r \in OpRecords :
          Do(c, r) /\ r.pc = "high" /\ r.td = op[c].td
      BY BalanceMovedGoes
<1>g. op'[c] = r
      BY <1>r, OpChanges
<1>o. cur' = cur /\ idle' = idle /\ op[c].td = Idle /\ ~Carries(op[c]) /\ ~Hands(op[c])
      BY Here DEF BalanceMoved, At, threads, OpSound, Carries, Hands, Goal, Paired
<1>2. OpsTyped' /\ \A d \in cpus : d # c => op'[d] = op[d] /\ idle'[d] = idle[d]
      BY <1>1, <1>r, OpNew, OpChanges DEF BalanceMoved, At
<1>3. /\ OpSound(c, op[c])'
      /\ op'[c].pc # "add"
      /\ (Carries(op'[c]) <=> Carries(op[c])) /\ (Hands(op'[c]) <=> Hands(op[c]))
      /\ Hands(op[c]) \/ Goal(op'[c]) = "migrate" =>
             Goal(op'[c]) = Goal(op[c]) /\ op'[c].target = op[c].target
      BY <1>1, <1>r, <1>g, <1>o DEF OpSound, Carries, Hands, Goal, Paired, None
<1>4. LockTyped' /\ LocksExact'
  <2>1. Unlocked({op[c].one, op[c].two}) /\ Holds(op[c]) = {op[c].one, op[c].two}
        BY HeldHere DEF BalanceMoved, At
  <2>2. Holds(op'[c]) = {}
        BY <1>r, <1>g DEF Holds, Goal, Paired
  <2>. QED  BY <1>1, <1>2, <2>1, <2>2, LocksDropped, LocksEnd
<1>5. SignalsTyped' /\ IdleTyped' /\ FlagsFollow' /\ HaltsIdle' /\ HaltedTold'
      BY <1>1, <1>2, QuietKeeps DEF BalanceMoved, At, threads
<1>6. Fixed' /\ PlacesTyped' /\ OpsSound' /\ OnePlace' /\ TargetAllowed' /\ LoadCounts'
      BY <1>1, <1>2, <1>3, OpKeeps
<1>. QED  BY <1>2, <1>4, <1>5, <1>6 DEF SInv

LEMMA IdleRestsKeeps ==
    ASSUME SInv, NEW c \in cpus, IdleRests(c)
    PROVE  SInv'
<1>1. UNCHANGED <<fixed, threads, lock, op>> /\ op[c].pc = "none" /\ cur[c] = Idle
      BY Here DEF IdleRests, IdleAt
<1>2. PICK r \in IdleStates :
          /\ idle' = [idle EXCEPT ![c] = r]
          /\ \/ r.pc = "top" /\ cpu_idle' = cpu_idle
             \/ r.pc = "fence" /\ cpu_idle' = [cpu_idle EXCEPT ![c] = TRUE]
      BY GoesTo DEF IdleRests
<1>3. /\ Fixed' /\ PlacesTyped' /\ IdleTyped' /\ LockTyped' /\ OpsTyped' /\ OpsSound'
      /\ LocksExact' /\ OnePlace' /\ TargetAllowed' /\ LoadCounts'
      /\ cpus' = cpus /\ queue' = queue /\ cur' = cur /\ op' = op /\ idle'[c] = r
      /\ \A d \in cpus : d # c => idle'[d] = idle[d]
      BY <1>1, <1>2, IdleKeeps
<1>4. /\ UNCHANGED <<ipipending, ipi, md>> /\ idle[c].pc = "rest"
      /\ idle[c] \in IdleStates
      BY Here DEF IdleRests, IdleAt, signals
<1>5. SignalsTyped'
      BY <1>2, <1>3, <1>4 DEF SInv, SignalsTyped
<1>6. FlagsFollow'
      BY <1>2, <1>3, <1>4 DEF SInv, FlagsFollow, SignalsTyped
<1>7. HaltsIdle'
      BY <1>1, <1>2, <1>3 DEF SInv, HaltsIdle
<1>8. HaltedTold'
      BY <1>2, <1>3, <1>4, LoadHere DEF SInv, HaltedTold, SignalsTyped
<1>. QED  BY <1>3, <1>5, <1>6, <1>7, <1>8 DEF SInv

LEMMA IdleFenceKeeps ==
    ASSUME SInv, NEW c \in cpus, IdleFence(c)
    PROVE  SInv'
<1>1. UNCHANGED <<fixed, threads, lock, op>> /\ op[c].pc = "none" /\ cur[c] = Idle
      BY Here DEF IdleFence, IdleAt
<1>2. PICK r \in IdleStates :
          /\ idle' = [idle EXCEPT ![c] = r]
          /\ \/ r.pc = "top" /\ cpu_idle' = [cpu_idle EXCEPT ![c] = FALSE]
             \/ r.pc = "enter" /\ cpu_idle' = cpu_idle
      BY GoesTo DEF IdleFence
<1>3. /\ Fixed' /\ PlacesTyped' /\ IdleTyped' /\ LockTyped' /\ OpsTyped' /\ OpsSound'
      /\ LocksExact' /\ OnePlace' /\ TargetAllowed' /\ LoadCounts'
      /\ cpus' = cpus /\ queue' = queue /\ cur' = cur /\ op' = op /\ idle'[c] = r
      /\ \A d \in cpus : d # c => idle'[d] = idle[d]
      BY <1>1, <1>2, IdleKeeps
<1>4. /\ UNCHANGED <<ipipending, ipi, md>> /\ idle[c].pc = "fence"
      /\ idle[c] \in IdleStates
      BY Here DEF IdleFence, IdleAt, signals
<1>5. SignalsTyped'
      BY <1>2, <1>3, <1>4 DEF SInv, SignalsTyped
<1>6. FlagsFollow'
      BY <1>2, <1>3, <1>4 DEF SInv, FlagsFollow, SignalsTyped
<1>7. HaltsIdle'
      BY <1>1, <1>2, <1>3 DEF SInv, HaltsIdle
<1>8. HaltedTold'
      BY <1>2, <1>3, <1>4, LoadHere DEF SInv, HaltedTold, SignalsTyped
<1>. QED  BY <1>3, <1>5, <1>6, <1>7, <1>8 DEF SInv

LEMMA MdEnterKeeps ==
    ASSUME SInv, NEW c \in cpus, MdEnter(c)
    PROVE  SInv'
<1>1. UNCHANGED <<fixed, threads, lock, op>> /\ op[c].pc = "none" /\ cur[c] = Idle
      BY Here DEF MdEnter, IdleAt
<1>2. PICK r \in IdleStates :
          /\ idle' = [idle EXCEPT ![c] = r]
          /\ r.pc = "runnable"
      BY GoesTo DEF MdEnter
<1>3. /\ Fixed' /\ PlacesTyped' /\ IdleTyped' /\ LockTyped' /\ OpsTyped' /\ OpsSound'
      /\ LocksExact' /\ OnePlace' /\ TargetAllowed' /\ LoadCounts'
      /\ cpus' = cpus /\ queue' = queue /\ cur' = cur /\ op' = op /\ idle'[c] = r
      /\ \A d \in cpus : d # c => idle'[d] = idle[d]
      BY <1>1, <1>2, IdleKeeps
<1>4. /\ UNCHANGED <<cpu_idle, ipipending, ipi>> /\ idle[c].pc = "enter" /\ idle[c] \in IdleStates
      /\ \E state \in {"sleeping", "mwait"} : md' = [md EXCEPT ![c] = state]
      BY Here DEF MdEnter, IdleAt, signals
<1>5. SignalsTyped'
      BY <1>2, <1>3, <1>4 DEF SInv, SignalsTyped
<1>6. FlagsFollow'
      BY <1>2, <1>3, <1>4 DEF SInv, FlagsFollow, SignalsTyped
<1>7. HaltsIdle'
      BY <1>1, <1>2, <1>3 DEF SInv, HaltsIdle
<1>8. HaltedTold'
      BY <1>2, <1>3, <1>4, LoadHere DEF SInv, HaltedTold, SignalsTyped
<1>. QED  BY <1>3, <1>5, <1>6, <1>7, <1>8 DEF SInv

LEMMA MdHaltKeeps ==
    ASSUME SInv, NEW c \in cpus, MdHalt(c)
    PROVE  SInv'
<1>1. UNCHANGED <<fixed, threads, lock, op>> /\ op[c].pc = "none" /\ cur[c] = Idle
      BY Here DEF MdHalt, IdleAt
<1>2. PICK r \in IdleStates :
          /\ idle' = [idle EXCEPT ![c] = r]
          /\ r.pc = (IF load[c] > 0 THEN "returned" ELSE "halted")
      BY GoesTo DEF MdHalt
<1>3. /\ Fixed' /\ PlacesTyped' /\ IdleTyped' /\ LockTyped' /\ OpsTyped' /\ OpsSound'
      /\ LocksExact' /\ OnePlace' /\ TargetAllowed' /\ LoadCounts'
      /\ cpus' = cpus /\ queue' = queue /\ cur' = cur /\ op' = op /\ idle'[c] = r
      /\ \A d \in cpus : d # c => idle'[d] = idle[d]
      BY <1>1, <1>2, IdleKeeps
<1>4. /\ UNCHANGED <<ipipending, ipi, md>> /\ cpu_idle' = cpu_idle /\ idle[c].pc = "runnable"
      /\ idle[c] \in IdleStates
      BY Here DEF MdHalt, IdleAt, signals
<1>5. SignalsTyped'
      BY <1>2, <1>3, <1>4 DEF SInv, SignalsTyped
<1>6. FlagsFollow'
      BY <1>2, <1>3, <1>4 DEF SInv, FlagsFollow, SignalsTyped
<1>7. HaltsIdle'
      BY <1>1, <1>2, <1>3 DEF SInv, HaltsIdle
<1>8. HaltedTold'
      BY <1>2, <1>3, <1>4, LoadHere DEF SInv, HaltedTold, SignalsTyped
<1>. QED  BY <1>3, <1>5, <1>6, <1>7, <1>8 DEF SInv

LEMMA MdResumeKeeps ==
    ASSUME SInv, NEW c \in cpus, MdResume(c)
    PROVE  SInv'
<1>1. UNCHANGED <<fixed, threads, lock, op>> /\ op[c].pc = "none" /\ cur[c] = Idle
      BY Here DEF MdResume, IdleAt
<1>2. PICK r \in IdleStates :
          /\ idle' = [idle EXCEPT ![c] = r]
          /\ r.pc = "returned"
      BY GoesTo DEF MdResume
<1>3. /\ Fixed' /\ PlacesTyped' /\ IdleTyped' /\ LockTyped' /\ OpsTyped' /\ OpsSound'
      /\ LocksExact' /\ OnePlace' /\ TargetAllowed' /\ LoadCounts'
      /\ cpus' = cpus /\ queue' = queue /\ cur' = cur /\ op' = op /\ idle'[c] = r
      /\ \A d \in cpus : d # c => idle'[d] = idle[d]
      BY <1>1, <1>2, IdleKeeps
<1>4. /\ UNCHANGED <<ipipending, ipi, md>> /\ cpu_idle' = cpu_idle /\ idle[c].pc = "halted"
      /\ idle[c] \in IdleStates
      BY Here DEF MdResume, IdleAt, signals
<1>5. SignalsTyped'
      BY <1>2, <1>3, <1>4 DEF SInv, SignalsTyped
<1>6. FlagsFollow'
      BY <1>2, <1>3, <1>4 DEF SInv, FlagsFollow, SignalsTyped
<1>7. HaltsIdle'
      BY <1>1, <1>2, <1>3 DEF SInv, HaltsIdle
<1>8. HaltedTold'
      BY <1>2, <1>3, <1>4, LoadHere DEF SInv, HaltedTold, SignalsTyped
<1>. QED  BY <1>3, <1>5, <1>6, <1>7, <1>8 DEF SInv

LEMMA MdReturnKeeps ==
    ASSUME SInv, NEW c \in cpus, MdReturn(c)
    PROVE  SInv'
<1>1. UNCHANGED <<fixed, threads, lock, op>> /\ op[c].pc = "none" /\ cur[c] = Idle
      BY Here DEF MdReturn, IdleAt
<1>2. PICK r \in IdleStates :
          /\ idle' = [idle EXCEPT ![c] = r]
          /\ r.pc = "up"
      BY GoesTo DEF MdReturn
<1>3. /\ Fixed' /\ PlacesTyped' /\ IdleTyped' /\ LockTyped' /\ OpsTyped' /\ OpsSound'
      /\ LocksExact' /\ OnePlace' /\ TargetAllowed' /\ LoadCounts'
      /\ cpus' = cpus /\ queue' = queue /\ cur' = cur /\ op' = op /\ idle'[c] = r
      /\ \A d \in cpus : d # c => idle'[d] = idle[d]
      BY <1>1, <1>2, IdleKeeps
<1>4. UNCHANGED <<cpu_idle, ipipending, ipi>> /\ idle[c].pc = "returned"
      /\ md' = [md EXCEPT ![c] = "running"] /\ idle[c] \in IdleStates
      BY Here DEF MdReturn, IdleAt, signals
<1>5. SignalsTyped'
      BY <1>2, <1>3, <1>4 DEF SInv, SignalsTyped
<1>6. FlagsFollow'
      BY <1>2, <1>3, <1>4 DEF SInv, FlagsFollow, SignalsTyped
<1>7. HaltsIdle'
      BY <1>1, <1>2, <1>3 DEF SInv, HaltsIdle
<1>8. HaltedTold'
      BY <1>2, <1>3, <1>4, LoadHere DEF SInv, HaltedTold, SignalsTyped
<1>. QED  BY <1>3, <1>5, <1>6, <1>7, <1>8 DEF SInv

LEMMA IdleUpKeeps ==
    ASSUME SInv, NEW c \in cpus, IdleUp(c)
    PROVE  SInv'
<1>1. UNCHANGED <<fixed, threads, lock, op>> /\ op[c].pc = "none" /\ cur[c] = Idle
      BY Here DEF IdleUp, IdleAt
<1>2. PICK r \in IdleStates :
          /\ idle' = [idle EXCEPT ![c] = r]
          /\ r.pc = "top"
      BY GoesTo DEF IdleUp
<1>3. /\ Fixed' /\ PlacesTyped' /\ IdleTyped' /\ LockTyped' /\ OpsTyped' /\ OpsSound'
      /\ LocksExact' /\ OnePlace' /\ TargetAllowed' /\ LoadCounts'
      /\ cpus' = cpus /\ queue' = queue /\ cur' = cur /\ op' = op /\ idle'[c] = r
      /\ \A d \in cpus : d # c => idle'[d] = idle[d]
      BY <1>1, <1>2, IdleKeeps
<1>4. /\ UNCHANGED <<ipipending, ipi, md>> /\ idle[c].pc = "up" /\ cpu_idle' = [cpu_idle EXCEPT ![c] = FALSE]
      /\ idle[c] \in IdleStates
      BY Here DEF IdleUp, IdleAt, signals
<1>5. SignalsTyped'
      BY <1>2, <1>3, <1>4 DEF SInv, SignalsTyped
<1>6. FlagsFollow'
      BY <1>2, <1>3, <1>4 DEF SInv, FlagsFollow, SignalsTyped
<1>7. HaltsIdle'
      BY <1>1, <1>2, <1>3 DEF SInv, HaltsIdle
<1>8. HaltedTold'
      BY <1>2, <1>3, <1>4, LoadHere DEF SInv, HaltedTold, SignalsTyped
<1>. QED  BY <1>3, <1>5, <1>6, <1>7, <1>8 DEF SInv

LEMMA SleepSwitchKeeps ==
    ASSUME SInv, NEW c \in cpus, Sleep(c), load[c] > 1
    PROVE  SInv'
<1>1. UNCHANGED <<fixed, bound>> /\ cpus' = cpus /\ Choose(c, queue[c])
      BY DEF Sleep, fixed
<1>2. op'[c] = None /\ OpsTyped' /\ \A d \in cpus : d # c => op'[d] = op[d]
      BY <1>1, OpNew, OpChanges, Here DEF Sleep, SInv, OpsTyped, Rest, Do
<1>3. /\ lock[c] \in {NoCpu, c} /\ LockTyped'
      /\ \A l \in cpus : lock'[l] = IF l \in Holds(op[c]) THEN NoCpu ELSE lock[l]
  <2>1. lock' = lock /\ Holds(op[c]) = {}
        BY HeldHere DEF Sleep, Rest, None
  <2>. QED  BY <1>1, <2>1, Here DEF Sleep, Held, SInv, LockTyped
<1>4. /\ queue[c] \in SUBSET Threads /\ op[c].pc \notin {"notify", "wake"}
      /\ queue[c] = queue[c] \/ (queue[c] = queue[c] \cup {cur[c]} /\ Rest(c))
      BY Here DEF Sleep, Rest, None
<1>5. /\ load' \in [cpus -> Nat] /\ load'[c] = Cardinality(queue[c])
      /\ \A d \in cpus : d # c => load'[d] = load[d]
  <2>1. Runs(c) = 1 /\ load' = [load EXCEPT ![c] = @ - 1]
        BY Here DEF Sleep, Runs, Carries, Hands, Goal, Rest, None
  <2>. QED  BY <1>1, <2>1, LoadHere DEF SInv, PlacesTyped
<1>6. /\ idle'[c].pc \notin {"runnable", "halted"} /\ IdleTyped' /\ SignalsTyped' /\ FlagsFollow'
      /\ \A d \in cpus : d # c => idle'[d] = idle[d] /\ ipi'[d] = ipi[d] /\ md'[d] = md[d]
  <2>1. idle' = idle /\ cpu_idle' = cpu_idle /\ ipipending' = ipipending /\ ipi' = ipi /\ md' = md
        BY DEF Sleep, signals
  <2>2. idle[c].pc \notin {"runnable", "halted"}
        BY DEF Sleep, SInv, HaltsIdle, Rest, None
  <2>. QED  BY <1>1, <2>1, <2>2 DEF SInv, SignalsTyped, IdleTyped, IdleStates, FlagsFollow
<1>7. /\ Fixed' /\ PlacesTyped' /\ OpsSound' /\ OnePlace' /\ TargetAllowed'
      /\ LoadCounts' /\ HaltsIdle' /\ HaltedTold'
      BY <1>1, <1>2, <1>3, <1>4, <1>5, <1>6, ChooseKeeps
<1>8. LocksExact'
  <2>1. Holds(op'[c]) = {}
        BY <1>2 DEF Holds, Paired, Goal, None
  <2>. QED  BY <1>1, <1>2, <1>3, <2>1, LocksEnd
<1>. QED  BY <1>2, <1>3, <1>6, <1>7, <1>8 DEF SInv

LEMMA PreemptedSwitchKeeps ==
    ASSUME SInv, NEW c \in cpus, Preempted(c), cur[c] = Idle, queue[c] # {}
    PROVE  SInv'
<1>1. UNCHANGED <<fixed, bound>> /\ cpus' = cpus /\ Choose(c, queue[c])
      BY DEF Preempted, Interruptible, fixed
<1>2. op'[c] = None /\ OpsTyped' /\ \A d \in cpus : d # c => op'[d] = op[d]
      BY <1>1, OpNew, OpChanges, Here DEF Preempted, Interruptible, SInv, OpsTyped, Rest, Do
<1>3. /\ lock[c] \in {NoCpu, c} /\ LockTyped'
      /\ \A l \in cpus : lock'[l] = IF l \in Holds(op[c]) THEN NoCpu ELSE lock[l]
  <2>1. lock' = lock /\ Holds(op[c]) = {}
        BY HeldHere DEF Preempted, Interruptible, Rest, None
  <2>. QED  BY <1>1, <2>1, Here DEF Preempted, Interruptible, Held, SInv, LockTyped
<1>4. /\ queue[c] \in SUBSET Threads /\ op[c].pc \notin {"notify", "wake"}
      /\ queue[c] = queue[c] \/ (queue[c] = queue[c] \cup {cur[c]} /\ Rest(c))
      BY Here DEF Preempted, Interruptible, Rest, None
<1>5. /\ load' \in [cpus -> Nat] /\ load'[c] = Cardinality(queue[c])
      /\ \A d \in cpus : d # c => load'[d] = load[d]
      BY LoadHere, Here DEF Preempted, Interruptible, Runs, Carries, Hands, Goal, OpSound, SInv,
         PlacesTyped
<1>6. /\ idle'[c].pc \notin {"runnable", "halted"} /\ IdleTyped' /\ SignalsTyped' /\ FlagsFollow'
      /\ \A d \in cpus : d # c => idle'[d] = idle[d] /\ ipi'[d] = ipi[d] /\ md'[d] = md[d]
  <2>1. /\ cpu_idle' = cpu_idle /\ md' = md /\ ipi' = [ipi EXCEPT ![c] = FALSE]
        /\ ipipending' = [ipipending EXCEPT ![c] = FALSE]
        /\ idle[c].pc # "runnable" /\ cur[c] = Idle
        /\ idle' = IF idle[c].pc = "halted" THEN [idle EXCEPT ![c].pc = "returned"] ELSE idle
        BY DEF Preempted, Interruptible, Interruptible, Roused
  <2>2. IdleTyped' /\ SignalsTyped'
        BY <1>1, <2>1 DEF SInv, SignalsTyped, IdleTyped, IdleStates
  <2>3. idle \in [cpus -> IdleStates] /\ ipi \in [cpus -> BOOLEAN] /\ ipipending \in [cpus -> BOOLEAN]
        BY DEF SInv, SignalsTyped, IdleTyped
  <2>4. \A d \in cpus : d # c => idle'[d] = idle[d] /\ ipi'[d] = ipi[d] /\ md'[d] = md[d]
        BY <2>1, <2>3
  <2>5. /\ idle'[c].pc = IF idle[c].pc = "halted" THEN "returned" ELSE idle[c].pc
        /\ ipi'[c] = FALSE /\ ipipending'[c] = FALSE
        BY <2>1, <2>3 DEF IdleStates
  <2>6. FlagsFollow'
    <3>1. FlagsFollow /\ \A d \in cpus : d # c => ipipending'[d] = ipipending[d]
          BY <2>1, <2>3 DEF SInv
    <3>. QED  BY <1>1, <2>1, <2>4, <2>5, <3>1 DEF FlagsFollow
  <2>. QED  BY <2>1, <2>2, <2>4, <2>5, <2>6
<1>7. /\ Fixed' /\ PlacesTyped' /\ OpsSound' /\ OnePlace' /\ TargetAllowed'
      /\ LoadCounts' /\ HaltsIdle' /\ HaltedTold'
      BY <1>1, <1>2, <1>3, <1>4, <1>5, <1>6, ChooseKeeps
<1>8. LocksExact'
  <2>1. Holds(op'[c]) = {}
        BY <1>2 DEF Holds, Paired, Goal, None
  <2>. QED  BY <1>1, <1>2, <1>3, <2>1, LocksEnd
<1>. QED  BY <1>2, <1>3, <1>6, <1>7, <1>8 DEF SInv

LEMMA IdleTopSwitchKeeps ==
    ASSUME SInv, NEW c \in cpus, IdleTop(c), load[c] > 0
    PROVE  SInv'
<1>1. UNCHANGED <<fixed, bound>> /\ cpus' = cpus /\ Choose(c, queue[c])
      BY DEF IdleTop, IdleAt, fixed
<1>2. op'[c] = None /\ OpsTyped' /\ \A d \in cpus : d # c => op'[d] = op[d]
      BY <1>1, OpNew, OpChanges, Here DEF IdleTop, IdleAt, SInv, OpsTyped, Rest, Do
<1>3. /\ lock[c] \in {NoCpu, c} /\ LockTyped'
      /\ \A l \in cpus : lock'[l] = IF l \in Holds(op[c]) THEN NoCpu ELSE lock[l]
  <2>1. lock' = lock /\ Holds(op[c]) = {}
        BY HeldHere DEF IdleTop, IdleAt, Rest, None
  <2>. QED  BY <1>1, <2>1, Here DEF IdleTop, IdleAt, Held, SInv, LockTyped
<1>4. /\ queue[c] \in SUBSET Threads /\ op[c].pc \notin {"notify", "wake"}
      /\ queue[c] = queue[c] \/ (queue[c] = queue[c] \cup {cur[c]} /\ Rest(c))
      BY Here DEF IdleTop, IdleAt, Rest, None
<1>5. /\ load' \in [cpus -> Nat] /\ load'[c] = Cardinality(queue[c])
      /\ \A d \in cpus : d # c => load'[d] = load[d]
      BY LoadHere, Here DEF IdleTop, IdleAt, Runs, Carries, Hands, Goal, OpSound, SInv, PlacesTyped
<1>6. /\ idle'[c].pc \notin {"runnable", "halted"} /\ IdleTyped' /\ SignalsTyped' /\ FlagsFollow'
      /\ \A d \in cpus : d # c => idle'[d] = idle[d] /\ ipi'[d] = ipi[d] /\ md'[d] = md[d]
  <2>1. PICK r : idle' = [idle EXCEPT ![c] = r] /\ r \in IdleStates /\ r.pc \in {"rest", "search", "top"}
        BY DEF IdleTop, IdleAt, Goes, IdleGoes, IdleStates
  <2>2. cpu_idle' = cpu_idle /\ ipipending' = ipipending /\ ipi' = ipi /\ md' = md /\ ~cpu_idle[c]
        BY DEF IdleTop, IdleAt, signals, SInv, FlagsFollow, OpSound
  <2>3. IdleTyped' /\ SignalsTyped'
        BY <1>1, <2>1, <2>2 DEF SInv, SignalsTyped, IdleTyped, IdleStates
  <2>. QED  BY <1>1, <2>1, <2>2, <2>3 DEF SInv, SignalsTyped, IdleTyped, FlagsFollow
<1>7. /\ Fixed' /\ PlacesTyped' /\ OpsSound' /\ OnePlace' /\ TargetAllowed'
      /\ LoadCounts' /\ HaltsIdle' /\ HaltedTold'
      BY <1>1, <1>2, <1>3, <1>4, <1>5, <1>6, ChooseKeeps
<1>8. LocksExact'
  <2>1. Holds(op'[c]) = {}
        BY <1>2 DEF Holds, Paired, Goal, None
  <2>. QED  BY <1>1, <1>2, <1>3, <2>1, LocksEnd
<1>. QED  BY <1>2, <1>3, <1>6, <1>7, <1>8 DEF SInv

LEMMA TryLockedOwnKeeps ==
    ASSUME SInv, NEW c \in cpus, At(c, "trylocked"), Choose(c, queue[c]),
           Unlocked({c, op[c].two}), Do(c, None), UNCHANGED <<fixed, bound, load, signals, idle>>
    PROVE  SInv'
<1>1. UNCHANGED <<fixed, bound>> /\ cpus' = cpus /\ Choose(c, queue[c])
      BY DEF At, Do, fixed
<1>2. op'[c] = None /\ OpsTyped' /\ \A d \in cpus : d # c => op'[d] = op[d]
      BY <1>1, OpNew, OpChanges, Here DEF At, Do, SInv, OpsTyped, Rest, Do
<1>3. /\ lock[c] \in {NoCpu, c} /\ LockTyped'
      /\ \A l \in cpus : lock'[l] = IF l \in Holds(op[c]) THEN NoCpu ELSE lock[l]
  <2>1. /\ Holds(op[c]) = {op[c].one, op[c].two} /\ lock[c] = c
        /\ {op[c].one, op[c].two} = {c, op[c].two}
        BY HeldHere, Here DEF At, Do, OpSound, Goal
  <2>2. Unlocked({c, op[c].two})
        BY DEF At, Do
  <2>. QED  BY <1>1, <2>1, <2>2, LocksDropped
<1>4. /\ queue[c] \in SUBSET Threads /\ op[c].pc \notin {"notify", "wake"}
      /\ queue[c] = queue[c] \/ (queue[c] = queue[c] \cup {cur[c]} /\ Rest(c))
      BY Here DEF At, Do, Rest, None
<1>5. /\ load' \in [cpus -> Nat] /\ load'[c] = Cardinality(queue[c])
      /\ \A d \in cpus : d # c => load'[d] = load[d]
      BY LoadHere, Here DEF At, Do, Runs, Carries, Hands, Goal, OpSound, SInv, PlacesTyped
<1>6. /\ idle'[c].pc \notin {"runnable", "halted"} /\ IdleTyped' /\ SignalsTyped' /\ FlagsFollow'
      /\ \A d \in cpus : d # c => idle'[d] = idle[d] /\ ipi'[d] = ipi[d] /\ md'[d] = md[d]
  <2>1. idle' = idle /\ cpu_idle' = cpu_idle /\ ipipending' = ipipending /\ ipi' = ipi /\ md' = md
        BY DEF At, Do, signals
  <2>2. idle[c].pc \notin {"runnable", "halted"}
        BY DEF At, Do, SInv, HaltsIdle, Rest, None
  <2>. QED  BY <1>1, <2>1, <2>2 DEF SInv, SignalsTyped, IdleTyped, IdleStates, FlagsFollow
<1>7. /\ Fixed' /\ PlacesTyped' /\ OpsSound' /\ OnePlace' /\ TargetAllowed'
      /\ LoadCounts' /\ HaltsIdle' /\ HaltedTold'
      BY <1>1, <1>2, <1>3, <1>4, <1>5, <1>6, ChooseKeeps
<1>8. LocksExact'
  <2>1. Holds(op'[c]) = {}
        BY <1>2 DEF Holds, Paired, Goal, None
  <2>. QED  BY <1>1, <1>2, <1>3, <2>1, LocksEnd
<1>. QED  BY <1>2, <1>3, <1>6, <1>7, <1>8 DEF SInv

LEMMA IdleLockedOwnKeeps ==
    ASSUME SInv, NEW c \in cpus, At(c, "idled"), load[c] > 0, Choose(c, queue[c]), Goes(c, "top"),
           Unlocked({c, op[c].two}), Do(c, None), UNCHANGED <<fixed, bound, load, signals>>
    PROVE  SInv'
<1>1. UNCHANGED <<fixed, bound>> /\ cpus' = cpus /\ Choose(c, queue[c])
      BY DEF At, Do, fixed
<1>2. op'[c] = None /\ OpsTyped' /\ \A d \in cpus : d # c => op'[d] = op[d]
      BY <1>1, OpNew, OpChanges, Here DEF At, Do, SInv, OpsTyped, Rest, Do
<1>3. /\ lock[c] \in {NoCpu, c} /\ LockTyped'
      /\ \A l \in cpus : lock'[l] = IF l \in Holds(op[c]) THEN NoCpu ELSE lock[l]
  <2>1. /\ Holds(op[c]) = {op[c].one, op[c].two} /\ lock[c] = c
        /\ {op[c].one, op[c].two} = {c, op[c].two}
        BY HeldHere, Here DEF At, Do, OpSound, Goal
  <2>2. Unlocked({c, op[c].two})
        BY DEF At, Do
  <2>. QED  BY <1>1, <2>1, <2>2, LocksDropped
<1>4. /\ queue[c] \in SUBSET Threads /\ op[c].pc \notin {"notify", "wake"}
      /\ queue[c] = queue[c] \/ (queue[c] = queue[c] \cup {cur[c]} /\ Rest(c))
      BY Here DEF At, Do, Rest, None
<1>5. /\ load' \in [cpus -> Nat] /\ load'[c] = Cardinality(queue[c])
      /\ \A d \in cpus : d # c => load'[d] = load[d]
      BY LoadHere, Here DEF At, Do, Runs, Carries, Hands, Goal, OpSound, SInv, PlacesTyped
<1>6. /\ idle'[c].pc \notin {"runnable", "halted"} /\ IdleTyped' /\ SignalsTyped' /\ FlagsFollow'
      /\ \A d \in cpus : d # c => idle'[d] = idle[d] /\ ipi'[d] = ipi[d] /\ md'[d] = md[d]
  <2>1. LET r == [pc |-> "top", mask |-> {}] IN idle' = [idle EXCEPT ![c] = r] /\ r \in IdleStates
        BY DEF Goes, IdleGoes, IdleStates
  <2>2. cpu_idle' = cpu_idle /\ ipipending' = ipipending /\ ipi' = ipi /\ md' = md /\ ~cpu_idle[c]
        BY DEF At, signals, SInv, OpsSound, FlagsFollow, OpSound, Goal
  <2>3. IdleTyped' /\ SignalsTyped'
        BY <1>1, <2>1, <2>2 DEF SInv, SignalsTyped, IdleTyped, IdleStates
  <2>. QED  BY <1>1, <2>1, <2>2, <2>3 DEF SInv, SignalsTyped, IdleTyped, FlagsFollow
<1>7. /\ Fixed' /\ PlacesTyped' /\ OpsSound' /\ OnePlace' /\ TargetAllowed'
      /\ LoadCounts' /\ HaltsIdle' /\ HaltedTold'
      BY <1>1, <1>2, <1>3, <1>4, <1>5, <1>6, ChooseKeeps
<1>8. LocksExact'
  <2>1. Holds(op'[c]) = {}
        BY <1>2 DEF Holds, Paired, Goal, None
  <2>. QED  BY <1>1, <1>2, <1>3, <2>1, LocksEnd
<1>. QED  BY <1>2, <1>3, <1>6, <1>7, <1>8 DEF SInv

LEMMA MigratedKeeps ==
    ASSUME SInv, NEW c \in cpus, Migrated(c)
    PROVE  SInv'
<1>1. UNCHANGED <<fixed, bound>> /\ cpus' = cpus /\ Choose(c, queue[c])
      BY DEF Migrated, At, fixed
<1>2. op'[c] = None /\ OpsTyped' /\ \A d \in cpus : d # c => op'[d] = op[d]
      BY <1>1, OpNew, OpChanges, Here DEF Migrated, At, SInv, OpsTyped, Rest, Do
<1>3. /\ lock[c] \in {NoCpu, c} /\ LockTyped'
      /\ \A l \in cpus : lock'[l] = IF l \in Holds(op[c]) THEN NoCpu ELSE lock[l]
  <2>1. /\ Holds(op[c]) = {op[c].one, op[c].two} /\ lock[c] = c
        /\ {op[c].one, op[c].two} = {c, op[c].target}
        BY HeldHere, Here DEF Migrated, At, OpSound, Goal
  <2>2. Unlocked({c, op[c].target})
        BY DEF Migrated, At
  <2>. QED  BY <1>1, <2>1, <2>2, LocksDropped
<1>4. /\ queue[c] \in SUBSET Threads /\ op[c].pc \notin {"notify", "wake"}
      /\ queue[c] = queue[c] \/ (queue[c] = queue[c] \cup {cur[c]} /\ Rest(c))
      BY Here DEF Migrated, At, Rest, None
<1>5. /\ load' \in [cpus -> Nat] /\ load'[c] = Cardinality(queue[c])
      /\ \A d \in cpus : d # c => load'[d] = load[d]
      BY LoadHere, Here DEF Migrated, At, Runs, Carries, Hands, Goal, OpSound, SInv, PlacesTyped
<1>6. /\ idle'[c].pc \notin {"runnable", "halted"} /\ IdleTyped' /\ SignalsTyped' /\ FlagsFollow'
      /\ \A d \in cpus : d # c => idle'[d] = idle[d] /\ ipi'[d] = ipi[d] /\ md'[d] = md[d]
  <2>1. idle' = idle /\ cpu_idle' = cpu_idle /\ ipipending' = ipipending /\ ipi' = ipi /\ md' = md
        BY DEF Migrated, At, signals
  <2>2. idle[c].pc \notin {"runnable", "halted"}
        BY DEF Migrated, At, SInv, HaltsIdle, Rest, None
  <2>. QED  BY <1>1, <2>1, <2>2 DEF SInv, SignalsTyped, IdleTyped, IdleStates, FlagsFollow
<1>7. /\ Fixed' /\ PlacesTyped' /\ OpsSound' /\ OnePlace' /\ TargetAllowed'
      /\ LoadCounts' /\ HaltsIdle' /\ HaltedTold'
      BY <1>1, <1>2, <1>3, <1>4, <1>5, <1>6, ChooseKeeps
<1>8. LocksExact'
  <2>1. Holds(op'[c]) = {}
        BY <1>2 DEF Holds, Paired, Goal, None
  <2>. QED  BY <1>1, <1>2, <1>3, <2>1, LocksEnd
<1>. QED  BY <1>2, <1>3, <1>6, <1>7, <1>8 DEF SInv

LEMMA TryLockedStealKeeps ==
    ASSUME SInv, NEW c \in cpus, At(c, "trylocked"), load[c] = 0, StealAndRun(op[c].two, c),
           Unlocked({c, op[c].two}), Do(c, None), UNCHANGED <<fixed, bound, signals, idle>>
    PROVE  SInv'
<1> DEFINE v == op[c].two
<1>1. UNCHANGED <<fixed, bound>> /\ cpus' = cpus /\ op[c].pc \in {"trylocked", "idled"}
      BY DEF At, fixed
<1>2. op'[c] = None /\ OpsTyped' /\ \A d \in cpus : d # c => op'[d] = op[d]
      BY <1>1, OpNew, OpChanges, Here
<1>3. v \in cpus /\ v # c /\ lock[v] = c /\ Holds(op[c]) = {c, v}
  <2>1. op[c].one = c
        BY <1>1, Here DEF OpSound, Goal
  <2>. QED  BY <1>1, <2>1, HeldHere
<1>4. LockTyped' /\ \A l \in cpus : lock'[l] = IF l \in Holds(op[c]) THEN NoCpu ELSE lock[l]
      BY <1>1, <1>3, LocksDropped
<1>5. /\ idle'[c].pc \notin {"runnable", "halted"} /\ IdleTyped' /\ SignalsTyped' /\ FlagsFollow'
      /\ \A d \in cpus : d # c => idle'[d] = idle[d] /\ ipi'[d] = ipi[d] /\ md'[d] = md[d]
  <2>1. idle' = idle /\ cpu_idle' = cpu_idle /\ ipipending' = ipipending /\ ipi' = ipi /\ md' = md
        BY DEF At, signals
  <2>2. idle[c].pc \notin {"runnable", "halted"}
        BY DEF At, SInv, HaltsIdle, Rest, None
  <2>. QED  BY <1>1, <2>1, <2>2 DEF SInv, SignalsTyped, IdleTyped, IdleStates, FlagsFollow
<1>6. /\ Fixed' /\ PlacesTyped' /\ OpsSound' /\ OnePlace' /\ TargetAllowed'
      /\ LoadCounts' /\ HaltsIdle' /\ HaltedTold'
      BY <1>1, <1>2, <1>3, <1>5, StealKeeps
<1>7. LocksExact'
  <2>1. Holds(op'[c]) = {}
        BY <1>2 DEF Holds, Paired, Goal, None
  <2>. QED  BY <1>1, <1>2, <1>4, <2>1, LocksEnd
<1>. QED  BY <1>2, <1>4, <1>5, <1>6, <1>7 DEF SInv

LEMMA IdleLockedStealKeeps ==
    ASSUME SInv, NEW c \in cpus, At(c, "idled"), load[c] = 0, StealAndRun(op[c].two, c),
           Goes(c, "top"),
           Unlocked({c, op[c].two}), Do(c, None), UNCHANGED <<fixed, bound, signals>>
    PROVE  SInv'
<1> DEFINE v == op[c].two
<1>1. UNCHANGED <<fixed, bound>> /\ cpus' = cpus /\ op[c].pc \in {"trylocked", "idled"}
      BY DEF At, fixed
<1>2. op'[c] = None /\ OpsTyped' /\ \A d \in cpus : d # c => op'[d] = op[d]
      BY <1>1, OpNew, OpChanges, Here
<1>3. v \in cpus /\ v # c /\ lock[v] = c /\ Holds(op[c]) = {c, v}
  <2>1. op[c].one = c
        BY <1>1, Here DEF OpSound, Goal
  <2>. QED  BY <1>1, <2>1, HeldHere
<1>4. LockTyped' /\ \A l \in cpus : lock'[l] = IF l \in Holds(op[c]) THEN NoCpu ELSE lock[l]
      BY <1>1, <1>3, LocksDropped
<1>5. /\ idle'[c].pc \notin {"runnable", "halted"} /\ IdleTyped' /\ SignalsTyped' /\ FlagsFollow'
      /\ \A d \in cpus : d # c => idle'[d] = idle[d] /\ ipi'[d] = ipi[d] /\ md'[d] = md[d]
  <2>1. LET r == [pc |-> "top", mask |-> {}] IN idle' = [idle EXCEPT ![c] = r] /\ r \in IdleStates
        BY DEF Goes, IdleGoes, IdleStates
  <2>2. cpu_idle' = cpu_idle /\ ipipending' = ipipending /\ ipi' = ipi /\ md' = md /\ ~cpu_idle[c]
        BY DEF At, signals, SInv, OpsSound, FlagsFollow, OpSound, Goal
  <2>3. IdleTyped' /\ SignalsTyped'
        BY <1>1, <2>1, <2>2 DEF SInv, SignalsTyped, IdleTyped, IdleStates
  <2>. QED  BY <1>1, <2>1, <2>2, <2>3 DEF SInv, SignalsTyped, IdleTyped, FlagsFollow
<1>6. /\ Fixed' /\ PlacesTyped' /\ OpsSound' /\ OnePlace' /\ TargetAllowed'
      /\ LoadCounts' /\ HaltsIdle' /\ HaltedTold'
      BY <1>1, <1>2, <1>3, <1>5, StealKeeps
<1>7. LocksExact'
  <2>1. Holds(op'[c]) = {}
        BY <1>2 DEF Holds, Paired, Goal, None
  <2>. QED  BY <1>1, <1>2, <1>4, <2>1, LocksEnd
<1>. QED  BY <1>2, <1>4, <1>5, <1>6, <1>7 DEF SInv

LEMMA BalancePairNotKeeps ==
    ASSUME SInv, NEW c \in cpus, At(c, "pair"),
           Do(c, [op[c] EXCEPT !.pc = "low", !.lmask = @ \ {op[c].two}, !.anylow = FALSE]),
           Unlocked({op[c].one, op[c].two}), UNCHANGED <<fixed, threads, signals, idle>>
    PROVE  SInv'
<1>1. UNCHANGED <<fixed, threads>> /\ cpus' = cpus
      BY DEF At, fixed
<1>r. PICK r \in OpRecords :
          Do(c, r) /\ r.pc = "low" /\ r.one \in cpus /\ r.one \notin r.lmask /\ r.td = op[c].td
      BY BalancePairNotGoes, Zenon DEF At
<1>g. op'[c] = r
      BY <1>r, OpChanges
<1>o. /\ cur' = cur /\ idle' = idle /\ op[c].pc = "pair" /\ op[c].td = Idle
      /\ ~Carries(op[c]) /\ ~Hands(op[c])
      BY Here DEF At, threads, OpSound, Carries, Hands, Goal, Paired
<1>2. OpsTyped' /\ \A d \in cpus : d # c => op'[d] = op[d] /\ idle'[d] = idle[d]
      BY <1>1, <1>r, OpNew, OpChanges DEF At
<1>3. /\ OpSound(c, op[c])'
      /\ op'[c].pc # "add"
      /\ (Carries(op'[c]) <=> Carries(op[c])) /\ (Hands(op'[c]) <=> Hands(op[c]))
      /\ Hands(op[c]) \/ Goal(op'[c]) = "migrate" =>
             Goal(op'[c]) = Goal(op[c]) /\ op'[c].target = op[c].target
      BY <1>1, <1>r, <1>g, <1>o DEF OpSound, Carries, Hands, Goal, Paired, None
<1>4. LockTyped' /\ LocksExact'
  <2>1. Unlocked({op[c].one, op[c].two}) /\ Holds(op[c]) = {op[c].one, op[c].two}
        BY HeldHere DEF At
  <2>2. Holds(op'[c]) = {}
        BY <1>r, <1>g DEF Holds, Goal, Paired
  <2>. QED  BY <1>1, <1>2, <2>1, <2>2, LocksDropped, LocksEnd
<1>5. SignalsTyped' /\ IdleTyped' /\ FlagsFollow' /\ HaltsIdle' /\ HaltedTold'
      BY <1>1, <1>2, QuietKeeps DEF At, threads
<1>6. Fixed' /\ PlacesTyped' /\ OpsSound' /\ OnePlace' /\ TargetAllowed' /\ LoadCounts'
      BY <1>1, <1>2, <1>3, OpKeeps
<1>. QED  BY <1>2, <1>4, <1>5, <1>6 DEF SInv

LEMMA LoadBound ==
    ASSUME SInv, NEW d \in cpus
    PROVE  load[d] <= Cardinality(Threads)
<1>1. queue[d] \in SUBSET Threads /\ IsFiniteSet(Threads)
      BY Here, SmpAssumption
<1>2. Cardinality(queue[d]) <= Cardinality(Threads)
      BY <1>1, FS_Subset
<1>3. Cardinality(Threads) \in Nat
      BY <1>1, FS_CardinalityType
<1>4. CASE Runs(d) = 0
      BY <1>2, <1>3, <1>4, LoadHere
<1>5. CASE Runs(d) = 1
  <2>1. cur[d] \in Threads /\ cur[d] \notin queue[d]
        BY <1>5, Here DEF Runs, SInv, OnePlace, RunsUnqueued
  <2>2. Cardinality(queue[d] \cup {cur[d]}) = Cardinality(queue[d]) + 1
        BY <1>1, <2>1, CardRemove
  <2>3. Cardinality(queue[d] \cup {cur[d]}) <= Cardinality(Threads)
        BY <1>1, <2>1, FS_Subset
  <2>. QED  BY <1>3, <1>5, <2>2, <2>3, LoadHere
<1>. QED  BY <1>4, <1>5, LoadHere

\* A processor is found for every thread, and the thread may run there.
LEMMA Picked ==
    ASSUME SInv, NEW t \in Threads, NEW c, NEW last, NEW g \in sched_pickcpu(t, c, last)
    PROVE  g \in cpus /\ Allowed(t, g) /\ (CanMigrate(t) => g \in cpuset[t])
<1> DEFINE mask == cpuset[t] \cap cpus
           all  == Cardinality(Threads)
           pick == IF sched_lowest(mask, TRUE, all, last) # {NoCpu}
                   THEN sched_lowest(mask, TRUE, all, last)
                   ELSE sched_lowest(mask, FALSE, all, last)
<1>1. CASE ~CanMigrate(t)
  <2>1. g = bound[t]
        BY <1>1 DEF sched_pickcpu
  <2>. QED  BY <1>1, <2>1 DEF CanMigrate, SInv, PlacesTyped, Allowed
<1>2. CASE CanMigrate(t)
  <2>1. ASSUME NEW idlers \in BOOLEAN, NEW x \in sched_lowest(mask, idlers, all, last), x # NoCpu
        PROVE  x \in mask
        BY <2>1 DEF sched_lowest
  <2>2. NoCpu \notin sched_lowest(mask, FALSE, all, last)
    <3>1. PICK e : e \in mask
          BY DEF SInv, Fixed
    <3>2. load[e] <= all
          BY <3>1, LoadBound
    <3>3. {d \in mask : (FALSE => load[d] = 0) /\ load[d] <= all} # {}
          BY <3>1, <3>2
    <3>4. NoCpu \notin mask
          BY SmpAssumption DEF SInv, Fixed
    <3>. QED  BY <3>3, <3>4 DEF sched_lowest
  <2>3. ASSUME NEW x \in sched_lowest(mask, TRUE, all, last),
               sched_lowest(mask, TRUE, all, last) # {NoCpu}
        PROVE  x # NoCpu
    <3>1. NoCpu \notin mask
          BY SmpAssumption DEF SInv, Fixed
    <3>. QED  BY <2>3, <3>1 DEF sched_lowest
  <2>4. \A x \in pick : x \in mask
        BY <2>1, <2>2, <2>3, Zenon
  <2>5. \/ last \in mask /\ g \in {last} \cup pick
        \/ g \in {IF c \in mask /\ load[c] = 0 /\ load[x] > 0 THEN c ELSE x : x \in pick}
    <3>. HIDE DEF mask, all
    <3>. QED  BY <1>2 DEF sched_pickcpu, mask, all
  <2>6. g \in mask
    <3>. HIDE DEF mask, pick
    <3>. QED  BY <2>4, <2>5
  <2>. QED  BY <2>6 DEF Allowed
<1>. QED  BY <1>1, <1>2

\* Any interrupt ends a halt.
LEMMA Rouses ==
    ASSUME SInv, NEW c \in cpus, Interruptible(c), idle' = Roused(c), cpus' = cpus
    PROVE  /\ IdleTyped' /\ idle'[c].pc \notin {"runnable", "halted"}
           /\ \A d \in cpus : d # c => idle'[d] = idle[d]
           /\ idle'[c] = idle[c] \/ (idle[c].pc = "halted" /\ idle'[c].pc = "returned")
           /\ op[c].pc = "none" /\ Rest(c)
<1>1. op[c].pc = "none" /\ Rest(c) /\ idle[c] \in IdleStates
      BY Here DEF Interruptible
<1>2. ~(cur[c] = Idle /\ idle[c].pc = "runnable")
      BY DEF Interruptible
<1>3. idle' = IF cur[c] = Idle /\ idle[c].pc = "halted"
              THEN [idle EXCEPT ![c].pc = "returned"] ELSE idle
      BY DEF Roused
<1>4. idle[c].pc \in {"runnable", "halted"} => cur[c] = Idle
      BY DEF SInv, HaltsIdle
<1>5. IdleTyped'
      BY <1>1, <1>3 DEF SInv, IdleTyped, IdleStates
<1>. QED  BY <1>1, <1>2, <1>3, <1>4, <1>5 DEF SInv, IdleTyped, IdleStates

\* What an interrupt leaves of the flags and of the processors that halt.
LEMMA RousedKeeps ==
    ASSUME SInv, NEW c \in cpus, Interruptible(c), idle' = Roused(c), cpus' = cpus,
           queue' = queue, cur' = cur, UNCHANGED signals,
           \A d \in cpus : d # c => op'[d] = op[d]
    PROVE  SignalsTyped' /\ IdleTyped' /\ FlagsFollow' /\ HaltsIdle' /\ HaltedTold'
<1>1. /\ IdleTyped' /\ idle'[c].pc \notin {"runnable", "halted"}
      /\ \A d \in cpus : d # c => idle'[d] = idle[d]
      /\ idle'[c] = idle[c] \/ (idle[c].pc = "halted" /\ idle'[c].pc = "returned")
      /\ op[c].pc = "none"
      BY Rouses
<1>2. cpu_idle' = cpu_idle /\ ipipending' = ipipending /\ ipi' = ipi /\ md' = md
      BY DEF signals
<1>3. SignalsTyped'
      BY <1>2 DEF SInv, SignalsTyped
<1>4. FlagsFollow'
      BY <1>1, <1>2 DEF SInv, FlagsFollow
<1>5. HaltsIdle'
      BY <1>1 DEF SInv, HaltsIdle
<1>6. HaltedTold'
      BY <1>1, <1>2 DEF SInv, HaltedTold
<1>. QED  BY <1>1, <1>3, <1>4, <1>5, <1>6

\* c binds what it runs to a processor, or unbinds it.
LEMMA BoundKeeps ==
    ASSUME SInv, NEW c \in cpus, Rest(c), cur[c] # Idle, NEW d \in cpus \cup {NoCpu},
           bound' = [bound EXCEPT ![cur[c]] = d],
           UNCHANGED <<fixed, queue, load, cur, signals, lock, idle, op>>
    PROVE  SInv'
<1>1. /\ cpus' = cpus /\ cpuset' = cpuset /\ queue' = queue /\ load' = load /\ cur' = cur
      /\ lock' = lock /\ idle' = idle /\ op' = op /\ cpu_idle' = cpu_idle
      /\ ipipending' = ipipending /\ ipi' = ipi /\ md' = md
      BY DEF fixed, signals
<1>2. cur[c] \in Threads
      BY Here
<1>3. Fixed' /\ PlacesTyped'
      BY <1>1, <1>2 DEF SInv, Fixed, PlacesTyped
<1>4. SignalsTyped' /\ IdleTyped' /\ LockTyped' /\ OpsTyped'
      BY <1>1 DEF SInv, SignalsTyped, IdleTyped, IdleStates, LockTyped, OpsTyped, OpRecords
<1>5. OpsSound' /\ LocksExact' /\ OnePlace'
      BY <1>1 DEF SInv, OpsSound, OpSound, LocksExact, OnePlace, QueuesApart, OneRuns,
                  RunsUnqueued, ComesAlone, HandedQueued
<1>6. LoadCounts' /\ FlagsFollow' /\ HaltsIdle' /\ HaltedTold'
      BY <1>1 DEF SInv, LoadCounts, Runs, FlagsFollow, HaltsIdle, HaltedTold
<1>7. TargetAllowed'
  <2>1. ASSUME NEW e \in cpus, op[e].pc = "add" \/ Goal(op[e]) = "migrate"
        PROVE  Allowed(op[e].td, op[e].target)'
    <3>1. op[e].td # cur[c]
      <4>1. CASE op[e].pc = "add"
            BY <4>1 DEF SInv, OnePlace, ComesAlone
      <4>2. CASE Goal(op[e]) = "migrate"
        <5>1. op[e].td = cur[e] /\ cur[e] # Idle
              BY <4>2, Here DEF OpSound, Carries
        <5>2. e # c
              BY <4>2 DEF Rest, None, Goal
        <5>. QED  BY <5>1, <5>2 DEF SInv, OnePlace, OneRuns
      <4>. QED  BY <2>1, <4>1, <4>2
    <3>2. bound'[op[e].td] = bound[op[e].td]
          BY <3>1 DEF SInv, PlacesTyped
    <3>. QED  BY <1>1, <2>1, <3>2 DEF SInv, TargetAllowed, Allowed
  <2>. QED  BY <1>1, <2>1 DEF TargetAllowed
<1>. QED  BY <1>3, <1>4, <1>5, <1>6, <1>7 DEF SInv

LEMMA UnbindKeeps ==
    ASSUME SInv, NEW c \in cpus, Unbind(c)
    PROVE  SInv'
BY BoundKeeps DEF Unbind

\* What ran on c is taken off its load and, perhaps, sent off.
LEMMA CarriedKeeps ==
    ASSUME SInv, NEW c \in cpus, Rest(c), cur[c] # Idle, NEW r \in OpRecords, Do(c, r),
           UNCHANGED <<fixed, queue, cur, signals, lock, idle>>,
           load' = [load EXCEPT ![c] = @ - 1],
           bound' \in [Threads -> cpus \cup {NoCpu}],
           \A t \in Threads : t # cur[c] => bound'[t] = bound[t],
           Carries(r), r.td = cur[c], r.pc \in {"first", "try"}, OpSound(c, r),
           Goal(r) = "migrate" => Allowed(cur[c], r.target)'
    PROVE  SInv'
<1>1. /\ cpus' = cpus /\ cpuset' = cpuset /\ queue' = queue /\ cur' = cur
      /\ lock' = lock /\ idle' = idle /\ cpu_idle' = cpu_idle
      /\ ipipending' = ipipending /\ ipi' = ipi /\ md' = md
      BY DEF fixed, signals
<1>2. op'[c] = r /\ \A d \in cpus : d # c => op'[d] = op[d]
      BY OpChanges
<1>3. cur[c] \in Threads /\ op[c] = None /\ op[c].pc = "none"
      BY Here DEF Rest
<1>4. /\ ~Carries(op[c]) /\ ~Hands(op[c]) /\ ~Hands(r) /\ op[c].pc # "add" /\ r.pc # "add"
      /\ Runs(c) = 1
      BY <1>3 DEF Runs, Carries, Hands, Goal
<1>5. /\ load' \in [cpus -> Nat] /\ load'[c] = load[c] - 1
      /\ \A d \in cpus : d # c => load'[d] = load[d]
      BY <1>4, LoadHere DEF SInv, PlacesTyped
<1>6. Fixed' /\ PlacesTyped' /\ SignalsTyped' /\ IdleTyped'
      BY <1>1, <1>5 DEF SInv, Fixed, PlacesTyped, SignalsTyped, IdleTyped, IdleStates
<1>7. OpsTyped'
      BY <1>1, OpNew
<1>8. OpsSound'
      BY <1>1, <1>2 DEF SInv, OpsSound, OpSound
<1>9. LockTyped' /\ LocksExact'
  <2>1. Holds(op[c]) = {} /\ Holds(r) = {}
        BY <1>4, <1>3 DEF Holds, Goal, Paired, Carries
  <2>. QED  BY <1>1, <1>2, <2>1, LocksSame
<1>10. OnePlace'
  <2>1. \A d \in cpus : Hands(op'[d]) <=> Hands(op[d])
        BY <1>2, <1>4
  <2>2. \A d \in cpus : op'[d].pc = "add" \/ Hands(op'[d]) => op'[d] = op[d]
        BY <1>2, <1>4
  <2>3. QueuesApart' /\ OneRuns'
        BY <1>1 DEF SInv, OnePlace, QueuesApart, OneRuns
  <2>4. RunsUnqueued' /\ HandedQueued'
        BY <1>1, <2>1, <2>2 DEF SInv, OnePlace, RunsUnqueued, HandedQueued
  <2>5. ComesAlone'
        BY <1>1, <2>2 DEF SInv, OnePlace, ComesAlone
  <2>. QED  BY <2>3, <2>4, <2>5 DEF OnePlace
<1>11. TargetAllowed'
  <2>1. ASSUME NEW e \in cpus, op'[e].pc = "add" \/ Goal(op'[e]) = "migrate"
        PROVE  Allowed(op[e].td, op[e].target)'
    <3>1. CASE e = c
          BY <1>2, <1>4, <1>1, <2>1, <3>1 DEF Allowed
    <3>2. CASE e # c
      <4>1. op'[e] = op[e] /\ Allowed(op[e].td, op[e].target) /\ op[e].td \in Threads
            BY <1>2, <2>1, <3>2, Here DEF SInv, TargetAllowed, OpSound, Carries
      <4>2. op[e].td # cur[c]
        <5>1. CASE op[e].pc = "add"
              BY <5>1 DEF SInv, OnePlace, ComesAlone
        <5>2. CASE Goal(op[e]) = "migrate"
              BY <5>2, <3>2, Here DEF OpSound, Carries, SInv, OnePlace, OneRuns
        <5>. QED  BY <2>1, <4>1, <5>1, <5>2
      <4>. QED  BY <1>1, <4>1, <4>2 DEF Allowed
    <3>. QED  BY <3>1, <3>2
  <2>. QED  BY <1>1, <2>1 DEF TargetAllowed
<1>12. LoadCounts'
  <2>1. Runs(c)' = 0 /\ \A d \in cpus : d # c => Runs(d)' = Runs(d)
        BY <1>1, <1>2 DEF Runs
  <2>2. ASSUME NEW d \in cpus PROVE load'[d] = Cardinality(queue'[d]) + Runs(d)'
        BY <1>1, <1>4, <1>5, <2>1, LoadHere
  <2>. QED  BY <1>1, <2>2 DEF LoadCounts
<1>13. FlagsFollow' /\ HaltsIdle' /\ HaltedTold'
      BY <1>1, <1>2, <1>3, <1>4 DEF SInv, FlagsFollow, HaltsIdle, HaltedTold
<1>. QED  BY <1>6, <1>7, <1>8, <1>9, <1>10, <1>11, <1>12, <1>13 DEF SInv

\* The record of a thread that leaves for d.
LEMMA LeaveGoes ==
    ASSUME SInv, NEW c \in cpus, NEW d \in cpus, d # c, Leave(c, d), Rest(c), cur[c] # Idle
    PROVE  \E r \in OpRecords :
              /\ Do(c, r) /\ r.pc = "first" /\ r.then = "migrate" /\ r.one = d /\ r.two = c
              /\ r.td = cur[c] /\ r.target = d
<1> DEFINE o == [Op("first") EXCEPT !.td = cur[c], !.target = d]
           r == Pair(d, c, "migrate", o)
<1>1. o \in OpRecords /\ o.td = cur[c] /\ o.target = d
  <2>1. Op("first") \in OpRecords /\ cur[c] \in Threads
        BY OpBlank, Here
  <2>. QED  BY <2>1 DEF OpRecords
<1>2. /\ r \in OpRecords /\ r.pc = "first" /\ r.then = "migrate" /\ r.one = d /\ r.two = c
      /\ r.td = cur[c] /\ r.target = d
  <2>. HIDE DEF o
  <2>. QED  BY <1>1 DEF OpRecords, Pair
<1>3. Do(c, r)
      BY DEF Leave
<1>. HIDE DEF r
<1>. QED  BY <1>2, <1>3

LEMMA LeaveKeeps ==
    ASSUME SInv, NEW c \in cpus, NEW d \in cpus, d # c, Leave(c, d), Rest(c), cur[c] # Idle,
           bound' \in [Threads -> cpus \cup {NoCpu}],
           \A t \in Threads : t # cur[c] => bound'[t] = bound[t],
           Allowed(cur[c], d)'
    PROVE  SInv'
<1>1. PICK r \in OpRecords :
              /\ Do(c, r) /\ r.pc = "first" /\ r.then = "migrate" /\ r.one = d /\ r.two = c
              /\ r.td = cur[c] /\ r.target = d
      BY LeaveGoes
<1>2. Carries(r) /\ Goal(r) = "migrate" /\ OpSound(c, r)
      BY <1>1 DEF Carries, Goal, OpSound, Hands, Paired
<1>3. /\ cur' = cur /\ UNCHANGED <<fixed, queue, cur, signals, lock, idle>>
      /\ load' = [load EXCEPT ![c] = @ - 1]
      BY DEF Leave
<1>4. Allowed(cur[c], r.target)'
      BY <1>1, <1>3 DEF Allowed
<1>. QED  BY <1>1, <1>2, <1>3, <1>4, CarriedKeeps

LEMMA BindKeeps ==
    ASSUME SInv, NEW c \in cpus, Bind(c)
    PROVE  SInv'
<1>1. PICK d \in cpus : /\ bound' = [bound EXCEPT ![cur[c]] = d]
                        /\ IF d # c THEN Leave(c, d)
                           ELSE UNCHANGED <<fixed, queue, load, cur, signals, lock, idle, op>>
      BY DEF Bind
<1>2. Rest(c) /\ cur[c] \in Threads /\ cur[c] # Idle
      BY SmpAssumption DEF Bind
<1>3. CASE d = c
      BY <1>1, <1>2, <1>3, BoundKeeps
<1>4. CASE d # c
  <2>1. /\ bound' \in [Threads -> cpus \cup {NoCpu}] /\ bound'[cur[c]] = d
        /\ \A t \in Threads : t # cur[c] => bound'[t] = bound[t]
        BY <1>1, <1>2 DEF SInv, PlacesTyped
  <2>2. cur' = cur /\ Leave(c, d)
        BY <1>1, <1>4 DEF Leave
  <2>3. Allowed(cur[c], d)'
        BY <2>1, <2>2 DEF Allowed
  <2>. QED  BY <1>2, <1>4, <2>1, <2>2, <2>3, LeaveKeeps
<1>. QED  BY <1>3, <1>4

LEMMA ExpelKeeps ==
    ASSUME SInv, NEW c \in cpus, Expel(c)
    PROVE  SInv'
<1>1. PICK d \in sched_pickcpu(cur[c], c, c) : Leave(c, d)
      BY DEF Expel
<1>2. /\ Rest(c) /\ cur[c] \in Threads /\ cur[c] # Idle
      /\ CanMigrate(cur[c]) /\ c \notin cpuset[cur[c]]
      BY Here DEF Expel, CanSched
<1>3. d \in cpus /\ d \in cpuset[cur[c]] /\ d # c
      BY <1>1, <1>2, Picked
<1>4. bound' = bound /\ cur' = cur /\ cpuset' = cpuset
      BY <1>1 DEF Expel, Leave, fixed
<1>5. bound' \in [Threads -> cpus \cup {NoCpu}] /\ Allowed(cur[c], d)'
      BY <1>3, <1>4 DEF SInv, PlacesTyped, Allowed
<1>. QED  BY <1>1, <1>2, <1>3, <1>4, <1>5, LeaveKeeps

LEMMA SleepKeeps ==
    ASSUME SInv, NEW c \in cpus, Sleep(c)
    PROVE  SInv'
<1>1. CASE load[c] > 1
      BY <1>1, SleepSwitchKeeps
<1>2. CASE ~(load[c] > 1)
  <2> DEFINE r == [Op("try") EXCEPT !.td = cur[c]]
  <2>1. Rest(c) /\ cur[c] \in Threads /\ cur[c] # Idle
        BY Here DEF Sleep
  <2>2. r \in OpRecords /\ r.pc = "try" /\ r.td = cur[c]
    <3>1. Op("try") \in OpRecords /\ Op("try").pc = "try"
          BY OpBlank DEF Op
    <3>. QED  BY <2>1, <3>1 DEF OpRecords
  <2>3. /\ Do(c, r) /\ UNCHANGED <<fixed, queue, cur, signals, lock, idle>> /\ bound' = bound
        /\ load' = [load EXCEPT ![c] = @ - 1]
        BY <1>2 DEF Sleep
  <2>. HIDE DEF r
  <2>4. Carries(r) /\ Goal(r) = "try" /\ OpSound(c, r)
        BY <2>1, <2>2 DEF Carries, Goal, OpSound, Hands, Paired
  <2>5. bound' \in [Threads -> cpus \cup {NoCpu}]
        BY <2>3 DEF SInv, PlacesTyped
  <2>. QED  BY <2>1, <2>2, <2>3, <2>4, <2>5, CarriedKeeps
<1>. QED  BY <1>1, <1>2

\* A thread that is nowhere is on its way to where it may run.
LEMMA WakeupKeeps ==
    ASSUME SInv, NEW c \in cpus, NEW t \in Threads, Wakeup(c, t)
    PROVE  SInv'
<1>0. PICK last \in cpus : \E g \in sched_pickcpu(t, c, last) :
          Do(c, [Op("add") EXCEPT !.td = t, !.target = g, !.then = "added"])
      BY DEF Wakeup
<1>1. PICK g \in sched_pickcpu(t, c, last) :
          Do(c, [Op("add") EXCEPT !.td = t, !.target = g, !.then = "added"])
      BY <1>0
<1>2. g \in cpus /\ Allowed(t, g)
      BY Picked
<1> DEFINE r == [Op("add") EXCEPT !.td = t, !.target = g, !.then = "added"]
<1>3. r \in OpRecords /\ r.pc = "add" /\ r.td = t /\ r.target = g /\ r.then = "added"
  <2>1. Op("add") \in OpRecords /\ Op("add").pc = "add"
        BY OpBlank DEF Op
  <2>. QED  BY <1>2, <2>1 DEF OpRecords
<1>. HIDE DEF r
<1>4. /\ cpus' = cpus /\ cpuset' = cpuset /\ bound' = bound /\ queue' = queue /\ load' = load
      /\ cur' = cur /\ lock' = lock /\ UNCHANGED signals
      BY DEF Wakeup, fixed, threads
<1>5. op'[c] = r /\ (\A d \in cpus : d # c => op'[d] = op[d]) /\ OpsTyped'
      BY <1>1, <1>3, <1>4, OpChanges, OpNew DEF r
<1>6. Rest(c) /\ Interruptible(c) /\ idle' = Roused(c) /\ op[c].pc = "none"
      BY Here DEF Wakeup, Interruptible
<1>7. SignalsTyped' /\ IdleTyped' /\ FlagsFollow' /\ HaltsIdle' /\ HaltedTold'
      BY <1>4, <1>5, <1>6, RousedKeeps
<1>8. LockTyped' /\ LocksExact'
  <2>1. Holds(op[c]) = {} /\ Holds(r) = {}
        BY <1>3, <1>6 DEF Holds, Goal, Paired
  <2>. QED  BY <1>4, <1>5, <2>1, LocksSame
<1>9. Fixed' /\ PlacesTyped'
      BY <1>4 DEF SInv, Fixed, PlacesTyped
<1>10. /\ ~Carries(r) /\ ~Hands(r) /\ ~Carries(op[c]) /\ ~Hands(op[c])
       /\ Goal(r) = "add"
      BY <1>3, <1>6 DEF Carries, Hands, Goal
<1>11. OpsSound'
  <2>1. OpSound(c, r)
        BY <1>2, <1>3, <1>10 DEF OpSound, Paired
  <2>2. \A d \in cpus : d # c => idle'[d] = idle[d]
        BY <1>4, <1>6, Rouses
  <2>3. OpSound(c, op[c])'
        BY <1>3, <1>4, <1>5, <1>10, <2>1 DEF OpSound
  <2>. QED  BY <1>4, <1>5, <2>2, <2>3 DEF SInv, OpsSound, OpSound
<1>12. TargetAllowed'
      BY <1>2, <1>3, <1>4, <1>5, <1>10 DEF SInv, TargetAllowed, Allowed
<1>13. LoadCounts'
      BY <1>4, <1>5, <1>10 DEF SInv, LoadCounts, Runs
<1>14. OnePlace'
  <2>1. QueuesApart' /\ OneRuns' /\ RunsUnqueued' /\ HandedQueued'
        BY <1>4, <1>5, <1>10 DEF SInv, OnePlace, QueuesApart, OneRuns, RunsUnqueued, HandedQueued
  <2>2. /\ \A d \in cpus : t \notin queue[d] /\ t # cur[d]
        /\ \A d \in cpus : d # c /\ op[d].pc = "add" => op[d].td # t
        BY Here DEF Wakeup, Off
  <2>3. ComesAlone'
        BY <1>3, <1>4, <1>5, <2>2 DEF SInv, OnePlace, ComesAlone
  <2>. QED  BY <2>1, <2>3 DEF OnePlace
<1>. QED  BY <1>5, <1>7, <1>8, <1>9, <1>11, <1>12, <1>13, <1>14 DEF SInv

LEMMA BalanceKeeps ==
    ASSUME SInv, NEW c \in cpus, Balance(c)
    PROVE  SInv'
<1> DEFINE r == [Op("high") EXCEPT !.hmask = cpus]
<1>1. r \in OpRecords /\ r.pc = "high" /\ r.td = Idle
  <2>1. Op("high") \in OpRecords /\ Op("high").pc = "high" /\ Op("high").td = Idle
        BY OpBlank DEF Op
  <2>. QED  BY <2>1 DEF OpRecords
<1>2. Do(c, r) /\ UNCHANGED <<fixed, threads>> /\ cpus' = cpus /\ lock' = lock /\ UNCHANGED signals
      BY DEF Balance, fixed
<1>. HIDE DEF r
<1>3. op'[c] = r /\ (\A d \in cpus : d # c => op'[d] = op[d]) /\ OpsTyped'
      BY <1>1, <1>2, OpChanges, OpNew
<1>4. Interruptible(c) /\ idle' = Roused(c) /\ op[c].pc = "none" /\ queue' = queue /\ cur' = cur
      BY Here DEF Balance, Interruptible, threads
<1>5. SignalsTyped' /\ IdleTyped' /\ FlagsFollow' /\ HaltsIdle' /\ HaltedTold'
      BY <1>2, <1>3, <1>4, RousedKeeps
<1>6. \A d \in cpus : d # c => idle'[d] = idle[d]
      BY <1>2, <1>4, Rouses
<1>7. /\ ~Carries(r) /\ ~Hands(r) /\ ~Carries(op[c]) /\ ~Hands(op[c])
      /\ Goal(r) = "high" /\ Holds(op[c]) = {} /\ Holds(r) = {}
      BY <1>1, <1>4 DEF Carries, Hands, Goal, Holds, Paired
<1>8. OpSound(c, op[c])'
      BY <1>1, <1>3, <1>7 DEF OpSound, Paired
<1>9. LockTyped' /\ LocksExact'
      BY <1>2, <1>3, <1>7, LocksSame
<1>10. Fixed' /\ PlacesTyped' /\ OpsSound' /\ OnePlace' /\ TargetAllowed' /\ LoadCounts'
      BY <1>1, <1>2, <1>3, <1>6, <1>7, <1>8, OpKeeps
<1>. QED  BY <1>3, <1>5, <1>9, <1>10 DEF SInv

LEMMA PreemptedKeeps ==
    ASSUME SInv, NEW c \in cpus, Preempted(c)
    PROVE  SInv'
<1>1. CASE cur[c] = Idle /\ queue[c] # {}
      BY <1>1, PreemptedSwitchKeeps
<1>2. CASE ~(cur[c] = Idle /\ queue[c] # {})
  <2>1. /\ UNCHANGED <<fixed, threads>> /\ cpus' = cpus /\ lock' = lock /\ op' = op
        /\ queue' = queue /\ cur' = cur /\ cpu_idle' = cpu_idle /\ md' = md
        /\ ipi' = [ipi EXCEPT ![c] = FALSE] /\ ipipending' = [ipipending EXCEPT ![c] = FALSE]
        BY <1>2 DEF Preempted, fixed, threads
  <2>2. /\ IdleTyped' /\ idle'[c].pc \notin {"runnable", "halted"}
        /\ \A d \in cpus : d # c => idle'[d] = idle[d]
        /\ idle'[c] = idle[c] \/ (idle[c].pc = "halted" /\ idle'[c].pc = "returned")
        /\ op[c].pc = "none"
        BY <2>1, Rouses DEF Preempted
  <2>3. /\ SignalsTyped' /\ ipi'[c] = FALSE /\ ipipending'[c] = FALSE
        /\ \A d \in cpus : d # c => ipi'[d] = ipi[d] /\ ipipending'[d] = ipipending[d]
        BY <2>1 DEF SInv, SignalsTyped
  <2>4. FlagsFollow' /\ HaltsIdle'
        BY <2>1, <2>2, <2>3 DEF SInv, FlagsFollow, HaltsIdle
  <2>5. HaltedTold'
        BY <2>1, <2>2, <2>3 DEF SInv, HaltedTold
  <2>6. OpsTyped' /\ LockTyped' /\ LocksExact'
        BY <2>1, LocksSame DEF SInv, OpsTyped, OpRecords
  <2>7. /\ OpSound(c, op[c])' /\ ~Hands(op[c]) /\ Goal(op[c]) = "none"
        BY <2>1, <2>2 DEF OpSound, Carries, Hands, Goal, Paired
  <2>8. Fixed' /\ PlacesTyped' /\ OpsSound' /\ OnePlace' /\ TargetAllowed' /\ LoadCounts'
        BY <2>1, <2>2, <2>7, OpKeeps
  <2>. QED  BY <2>2, <2>3, <2>4, <2>5, <2>6, <2>8 DEF SInv
<1>. QED  BY <1>1, <1>2

\* A step of the idle loop that only moves it to another place.
LEMMA IdleMovesKeeps ==
    ASSUME SInv, NEW c \in cpus, UNCHANGED <<fixed, threads, signals, lock, op>>, op[c].pc = "none",
           idle[c].pc \in {"top", "search"}, NEW r \in IdleStates,
           r.pc \in {"top", "search", "rest"}, idle' = [idle EXCEPT ![c] = r]
    PROVE  SInv'
<1>1. /\ Fixed' /\ PlacesTyped' /\ IdleTyped' /\ LockTyped' /\ OpsTyped' /\ OpsSound'
      /\ LocksExact' /\ OnePlace' /\ TargetAllowed' /\ LoadCounts'
      /\ cpus' = cpus /\ queue' = queue /\ cur' = cur /\ op' = op /\ idle'[c] = r
      /\ \A d \in cpus : d # c => idle'[d] = idle[d]
      BY IdleKeeps
<1>2. cpu_idle' = cpu_idle /\ ipipending' = ipipending /\ ipi' = ipi /\ md' = md
      BY DEF signals
<1>3. SignalsTyped'
      BY <1>1, <1>2 DEF SInv, SignalsTyped
<1>4. FlagsFollow'
      BY <1>1, <1>2 DEF SInv, FlagsFollow
<1>5. HaltsIdle'
      BY <1>1 DEF SInv, HaltsIdle
<1>6. HaltedTold'
      BY <1>1, <1>2 DEF SInv, HaltedTold
<1>. QED  BY <1>1, <1>3, <1>4, <1>5, <1>6 DEF SInv

LEMMA IdleTopKeeps ==
    ASSUME SInv, NEW c \in cpus, IdleTop(c)
    PROVE  SInv'
<1>1. CASE load[c] > 0
      BY <1>1, IdleTopSwitchKeeps
<1>2. CASE ~(load[c] > 0)
  <2>1. PICK r \in IdleStates : r.pc \in {"rest", "search"} /\ idle' = [idle EXCEPT ![c] = r]
    <3>1. CASE Goes(c, "rest")
          BY <3>1, GoesTo
    <3>2. CASE IdleGoes(c, [pc |-> "search", mask |-> cpus \ {c}])
      <4> DEFINE r == [pc |-> "search", mask |-> cpus \ {c}]
      <4>1. r \in IdleStates /\ r.pc = "search"
            BY DEF IdleStates
      <4>2. idle' = [idle EXCEPT ![c] = r]
            BY <3>2 DEF IdleGoes
      <4>. HIDE DEF r
      <4>. QED  BY <4>1, <4>2
    <3>. QED  BY <3>1, <3>2 DEF IdleTop
  <2>2. UNCHANGED <<fixed, threads, signals, lock, op>>
        BY <1>2 DEF IdleTop, threads
  <2>3. op[c].pc = "none" /\ idle[c].pc = "top"
        BY Here DEF IdleTop, IdleAt
  <2>. QED  BY <2>1, <2>2, <2>3, IdleMovesKeeps
<1>. QED  BY <1>1, <1>2

LEMMA IdleSearchKeeps ==
    ASSUME SInv, NEW c \in cpus, IdleSearch(c)
    PROVE  SInv'
<1>1. PICK v \in sched_highest(idle[c].mask, steal_thresh) :
          CASE load[c] > 0               -> Goes(c, "top") /\ UNCHANGED op
            [] load[c] = 0 /\ v = NoCpu  -> Goes(c, "rest") /\ UNCHANGED op
            [] load[c] = 0 /\ v # NoCpu  -> Do(c, Pair(c, v, "idled", Op("first")))
                                            /\ UNCHANGED idle
      BY DEF IdleSearch
<1>2. /\ UNCHANGED <<fixed, threads, signals, lock>> /\ Rest(c) /\ op[c].pc = "none"
      /\ cur[c] = Idle /\ idle[c].pc = "search" /\ load[c] \in Nat /\ idle[c] \in IdleStates
      BY Here DEF IdleSearch, IdleAt
<1>3. CASE UNCHANGED op /\ (Goes(c, "top") \/ Goes(c, "rest"))
  <2>1. PICK r \in IdleStates : r.pc \in {"rest", "top"} /\ idle' = [idle EXCEPT ![c] = r]
        BY <1>3, GoesTo
  <2>. QED  BY <1>2, <1>3, <2>1, IdleMovesKeeps
<1>4. CASE load[c] = 0 /\ v # NoCpu /\ Do(c, Pair(c, v, "idled", Op("first"))) /\ UNCHANGED idle
  <2> DEFINE r == Pair(c, v, "idled", Op("first"))
  <2>1. v \in cpus
        BY <1>2, <1>4 DEF sched_highest, IdleStates
  <2>2. /\ r \in OpRecords /\ r.pc = "first" /\ r.one = c /\ r.two = v /\ r.then = "idled"
        /\ r.td = Idle
    <3>1. Op("first") \in OpRecords /\ Op("first").td = Idle
          BY OpBlank DEF Op
    <3>. QED  BY <2>1, <3>1 DEF OpRecords, Pair
  <2>3. Do(c, r)
        BY <1>4
  <2>. HIDE DEF r
  <2>4. /\ cpus' = cpus /\ cur' = cur /\ queue' = queue /\ lock' = lock /\ idle' = idle
        /\ UNCHANGED signals
        BY <1>2, <1>4 DEF fixed, threads
  <2>5. op'[c] = r /\ (\A d \in cpus : d # c => op'[d] = op[d]) /\ OpsTyped'
        BY <2>2, <2>3, <2>4, OpChanges, OpNew
  <2>6. /\ ~Carries(r) /\ ~Hands(r) /\ ~Carries(op[c]) /\ ~Hands(op[c]) /\ Goal(r) = "idled"
        /\ Holds(op[c]) = {} /\ Holds(r) = {}
        BY <1>2, <2>2 DEF Carries, Hands, Goal, Holds, Paired
  <2>7. LockTyped' /\ LocksExact'
        BY <2>4, <2>5, <2>6, LocksSame
  <2>8. SignalsTyped' /\ IdleTyped' /\ FlagsFollow' /\ HaltsIdle' /\ HaltedTold'
    <3>1. cpu_idle' = cpu_idle /\ ipipending' = ipipending /\ ipi' = ipi /\ md' = md
          BY <2>4 DEF signals
    <3>2. SignalsTyped' /\ IdleTyped' /\ FlagsFollow'
          BY <3>1, <2>4 DEF SInv, SignalsTyped, IdleTyped, IdleStates, FlagsFollow
    <3>3. HaltsIdle'
          BY <1>2, <2>4, <2>5 DEF SInv, HaltsIdle
    <3>4. HaltedTold'
          BY <1>2, <3>1, <2>4, <2>5 DEF SInv, HaltedTold
    <3>. QED  BY <3>2, <3>3, <3>4
  <2>9. c # v
    <3>1. queue[v] # {}
          BY <1>4 DEF sched_highest, Transferable
    <3>2. queue[c] = {}
          BY <1>4, LoadHere
    <3>. QED  BY <3>1, <3>2
  <2>10. OpSound(c, op[c])'
        BY <1>2, <2>1, <2>2, <2>4, <2>5, <2>6, <2>9 DEF OpSound, Paired
  <2>11. Fixed' /\ PlacesTyped' /\ OpsSound' /\ OnePlace' /\ TargetAllowed' /\ LoadCounts'
        BY <1>2, <2>2, <2>4, <2>5, <2>6, <2>10, OpKeeps
  <2>. QED  BY <2>5, <2>7, <2>8, <2>11 DEF SInv
<1>5. CASE load[c] > 0
  <2>1. load[c] # 0
        BY <1>2, <1>5
  <2>2. Goes(c, "top") /\ UNCHANGED op
        BY <1>1, <1>5, <2>1, Zenon
  <2>. QED  BY <1>3, <2>2
<1>6. CASE load[c] = 0 /\ v = NoCpu
      BY <1>1, <1>3, <1>6
<1>7. CASE load[c] = 0 /\ v # NoCpu
      BY <1>1, <1>4, <1>7
<1>. QED  BY <1>2, <1>5, <1>6, <1>7

\* A thread that is in no queue is put on that of g.
LEMMA ArriveKeeps ==
    ASSUME SInv, NEW c \in cpus, NEW g \in cpus, NEW t \in Threads, NEW r \in OpRecords, Do(c, r),
           queue' = [queue EXCEPT ![g] = @ \cup {t}], load' = [load EXCEPT ![g] = @ + 1],
           UNCHANGED <<fixed, bound, cur, signals, idle>>,
           r.pc \in {"added", "notify"}, r.target = g, g # c => r.pc = "notify", OpSound(c, r),
           \/ op[c].pc = "add" /\ op[c].td = t /\ Goal(r) = "added"
           \/ op[c].pc = "migrate" /\ cur[c] = t /\ Hands(r) /\ r.td = t
    PROVE  /\ Fixed' /\ PlacesTyped' /\ SignalsTyped' /\ IdleTyped' /\ OpsTyped' /\ OpsSound'
           /\ OnePlace' /\ TargetAllowed' /\ LoadCounts' /\ FlagsFollow' /\ HaltsIdle' /\ HaltedTold'
<1>1. /\ cpus' = cpus /\ cpuset' = cpuset /\ bound' = bound /\ cur' = cur /\ idle' = idle
      /\ cpu_idle' = cpu_idle /\ ipipending' = ipipending /\ ipi' = ipi /\ md' = md
      BY DEF fixed, signals
<1>2. op'[c] = r /\ (\A d \in cpus : d # c => op'[d] = op[d]) /\ OpsTyped'
      BY <1>1, OpChanges, OpNew
<1>3. /\ \A d \in cpus : t \notin queue[d]
      /\ \A d \in cpus : cur[d] = t => d = c /\ Hands(r) /\ r.td = t
      /\ \A d \in cpus : d # c /\ op[d].pc = "add" => op[d].td # t
      /\ ~Hands(op[c]) /\ r.pc # "add" /\ Goal(r) # "migrate" /\ ~Carries(r)
  <2>1. CASE op[c].pc = "add" /\ op[c].td = t /\ Goal(r) = "added"
        BY <2>1 DEF SInv, OnePlace, ComesAlone, Hands, Goal, Carries
  <2>2. CASE op[c].pc = "migrate" /\ cur[c] = t /\ Hands(r) /\ r.td = t
    <3>1. ~Hands(op[c]) /\ t # Idle /\ r.pc # "add" /\ Goal(r) # "migrate" /\ ~Carries(r)
          BY <2>2, SmpAssumption DEF Hands, Goal, Carries
    <3>2. \A d \in cpus : t \notin queue[d]
          BY <2>2, <3>1 DEF SInv, OnePlace, RunsUnqueued
    <3>3. \A d \in cpus : cur[d] = t => d = c
          BY <2>2, <3>1 DEF SInv, OnePlace, OneRuns
    <3>4. \A d \in cpus : op[d].pc = "add" => op[d].td # t
          BY <2>2 DEF SInv, OnePlace, ComesAlone
    <3>. QED  BY <2>2, <3>1, <3>2, <3>3, <3>4
  <2>. QED  BY <2>1, <2>2
<1>4. /\ queue' \in [cpus -> SUBSET Threads] /\ load' \in [cpus -> Nat]
      /\ queue'[g] = queue[g] \cup {t} /\ load'[g] = load[g] + 1
      /\ \A d \in cpus : d # g => queue'[d] = queue[d] /\ load'[d] = load[d]
  <2>1. load[g] + 1 \in Nat /\ queue[g] \cup {t} \in SUBSET Threads
        BY LoadHere, Here
  <2>. QED  BY <2>1 DEF SInv, PlacesTyped
<1>5. Fixed' /\ PlacesTyped' /\ SignalsTyped' /\ IdleTyped'
      BY <1>1, <1>4 DEF SInv, Fixed, PlacesTyped, SignalsTyped, IdleTyped, IdleStates
<1>6. OpsSound'
  <2>1. OpSound(c, op[c])'
        BY <1>1, <1>2 DEF OpSound
  <2>. QED  BY <1>1, <1>2, <2>1 DEF SInv, OpsSound, OpSound
<1>7. TargetAllowed'
      BY <1>1, <1>2, <1>3 DEF SInv, TargetAllowed, Allowed
<1>8. LoadCounts'
  <2>1. \A d \in cpus : Runs(d)' = Runs(d)
    <3>1. Runs(c)' = Runs(c)
      <4>1. CASE op[c].pc = "add" /\ op[c].td = t /\ Goal(r) = "added"
            BY <4>1, <1>1, <1>2 DEF Runs, Carries, Hands, Goal
      <4>2. CASE op[c].pc = "migrate" /\ cur[c] = t /\ Hands(r)
            BY <4>2, <1>1, <1>2 DEF Runs, Carries, Goal
      <4>. QED  BY <4>1, <4>2
    <3>. QED  BY <1>1, <1>2, <3>1 DEF Runs
  <2>2. Cardinality(queue'[g]) = Cardinality(queue[g]) + 1
        BY <1>3, <1>4, CardRemove, Here
  <2>3. ASSUME NEW d \in cpus PROVE load'[d] = Cardinality(queue'[d]) + Runs(d)'
    <3>1. CASE d = g
          BY <1>4, <2>1, <2>2, <3>1, LoadHere
    <3>2. CASE d # g
          BY <1>4, <2>1, <3>2, LoadHere
    <3>. QED  BY <3>1, <3>2
  <2>. QED  BY <1>1, <2>3 DEF LoadCounts
<1>9. OnePlace'
  <2>1. QueuesApart'
        BY <1>1, <1>3, <1>4 DEF SInv, OnePlace, QueuesApart
  <2>2. OneRuns'
        BY <1>1 DEF SInv, OnePlace, OneRuns
  <2>3. RunsUnqueued'
    <3>1. ASSUME NEW d \in cpus, NEW e \in cpus, cur[d] \in queue'[e]
          PROVE  Hands(op'[d]) /\ op'[d].target = e
      <4>1. CASE cur[d] \in queue[e]
        <5>1. Hands(op[d]) /\ op[d].target = e
              BY <4>1 DEF SInv, OnePlace, RunsUnqueued
        <5>. QED  BY <1>2, <1>3, <5>1
      <4>2. CASE cur[d] = t /\ e = g
            BY <1>2, <1>3, <4>2
      <4>. QED  BY <1>4, <3>1, <4>1, <4>2
    <3>. QED  BY <1>1, <3>1 DEF RunsUnqueued
  <2>4. ComesAlone'
        BY <1>1, <1>2, <1>3, <1>4 DEF SInv, OnePlace, ComesAlone
  <2>5. HandedQueued'
    <3>1. ASSUME NEW d \in cpus, Hands(op'[d]) PROVE op'[d].td \in queue'[op'[d].target]
      <4>1. CASE d = c
        <5>1. r.td = t
              BY <1>2, <3>1, <4>1 DEF Hands
        <5>. QED  BY <1>2, <1>4, <4>1, <5>1
      <4>2. CASE d # c
        <5>1. op'[d] = op[d] /\ op[d].td \in queue[op[d].target] /\ op[d].target \in cpus
              BY <1>2, <3>1, <4>2, HandedTyped DEF SInv, OnePlace, HandedQueued
        <5>. QED  BY <1>4, <5>1
      <4>. QED  BY <4>1, <4>2
    <3>. QED  BY <1>1, <3>1 DEF HandedQueued
  <2>. QED  BY <2>1, <2>2, <2>3, <2>4, <2>5 DEF OnePlace
<1>10. FlagsFollow' /\ HaltsIdle'
      BY <1>1, <1>2 DEF SInv, FlagsFollow, HaltsIdle
<1>11. HaltedTold'
  <2>1. op[c].pc \notin {"notify", "wake", "none"}
        OBVIOUS
  <2>2. idle[c].pc # "halted"
        BY <2>1 DEF SInv, HaltsIdle
  <2>3. g # c => op'[c].pc = "notify" /\ op'[c].target = g
        BY <1>2
  <2>. QED  BY <1>1, <1>2, <1>4, <2>1, <2>2, <2>3 DEF SInv, HaltedTold
<1>. QED  BY <1>2, <1>5, <1>6, <1>7, <1>8, <1>9, <1>10, <1>11

LEMMA AddKeeps ==
    ASSUME SInv, NEW c \in cpus, Add(c)
    PROVE  SInv'
<1> DEFINE o == op[c]
           g == o.target
           r == [o EXCEPT !.pc = IF g = c THEN "added" ELSE "notify", !.td = Idle]
<1>1. /\ o \in OpRecords /\ o.pc = "add" /\ g \in cpus /\ o.td \in Threads /\ o.then = "added"
      BY Here DEF Add, At, OpSound
<1>2. /\ r \in OpRecords /\ r.pc = (IF g = c THEN "added" ELSE "notify") /\ r.td = Idle
      /\ r.target = g /\ r.then = "added"
      BY <1>1 DEF OpRecords
<1>3. /\ Do(c, r) /\ lock' = [lock EXCEPT ![g] = c] /\ lock[g] = NoCpu
      /\ queue' = [queue EXCEPT ![g] = @ \cup {o.td}] /\ load' = [load EXCEPT ![g] = @ + 1]
      /\ UNCHANGED <<fixed, bound, cur, signals, idle>>
      BY DEF Add, Held
<1>. HIDE DEF r
<1>4. /\ Goal(r) = "added" /\ ~Carries(r) /\ ~Hands(r) /\ OpSound(c, r)
      BY <1>1, <1>2 DEF Goal, Carries, Hands, OpSound, Paired
<1>5. /\ Fixed' /\ PlacesTyped' /\ SignalsTyped' /\ IdleTyped' /\ OpsTyped' /\ OpsSound'
      /\ OnePlace' /\ TargetAllowed' /\ LoadCounts' /\ FlagsFollow' /\ HaltsIdle' /\ HaltedTold'
  <2>1. r.pc \in {"added", "notify"} /\ (g # c => r.pc = "notify")
        BY <1>2
  <2>2. PICK t \in Threads : t = o.td
        BY <1>1
  <2>3. op[c].pc = "add" /\ op[c].td = t /\ queue' = [queue EXCEPT ![g] = @ \cup {t}]
        BY <1>1, <1>3, <2>2
  <2>4. \/ op[c].pc = "add" /\ op[c].td = t /\ Goal(r) = "added"
        \/ op[c].pc = "migrate" /\ cur[c] = t /\ Hands(r) /\ r.td = t
        BY <1>4, <2>3
  <2>5. /\ r \in OpRecords /\ Do(c, r) /\ r.target = g /\ OpSound(c, r) /\ g \in cpus
        /\ load' = [load EXCEPT ![g] = @ + 1] /\ UNCHANGED <<fixed, bound, cur, signals, idle>>
        BY <1>1, <1>2, <1>3, <1>4
  <2>6. queue' = [queue EXCEPT ![g] = @ \cup {t}]
        BY <2>3
  <2>. HIDE DEF o, g
  <2>. QED  BY <2>1, <2>4, <2>5, <2>6, ArriveKeeps
<1>6. LockTyped' /\ LocksExact'
  <2>1. cpus' = cpus /\ op'[c] = r /\ \A d \in cpus : d # c => op'[d] = op[d]
        BY <1>3, OpChanges DEF fixed
  <2>2. LockTyped'
        BY <1>1, <1>3, <2>1 DEF SInv, LockTyped
  <2>3. Holds(o) = {} /\ Holds(r) = {g}
        BY <1>1, <1>2, <1>4 DEF Holds, Paired, Goal
  <2>. QED  BY <1>3, <2>1, <2>2, <2>3, LockedBy
<1>. QED  BY <1>5, <1>6 DEF SInv

LEMMA MigrateKeeps ==
    ASSUME SInv, NEW c \in cpus, Migrate(c)
    PROVE  SInv'
<1> DEFINE o == op[c]
           g == o.target
           r == [o EXCEPT !.pc = "notify", !.then = "migrated"]
<1>1. /\ o \in OpRecords /\ o.pc = "migrate" /\ g \in cpus /\ g # c /\ o.one = g /\ o.two = c
      /\ cur[c] \in Threads /\ o.td = cur[c] /\ cur[c] # Idle
      BY Here DEF Migrate, At, OpSound, Carries, Paired, Goal
<1>2. /\ r \in OpRecords /\ r.pc = "notify" /\ r.td = cur[c]
      /\ r.target = g /\ r.then = "migrated" /\ r.one = g /\ r.two = c
      BY <1>1 DEF OpRecords
<1>3. /\ Do(c, r) /\ lock' = lock
      /\ queue' = [queue EXCEPT ![g] = @ \cup {cur[c]}] /\ load' = [load EXCEPT ![g] = @ + 1]
      /\ UNCHANGED <<fixed, bound, cur, signals, idle>>
      BY <1>1 DEF Migrate
<1>. HIDE DEF r
<1>4. /\ Goal(r) = "migrated" /\ ~Carries(r) /\ Hands(r) /\ OpSound(c, r)
      BY <1>1, <1>2 DEF Goal, Carries, Hands, OpSound, Paired
<1>5. /\ Fixed' /\ PlacesTyped' /\ SignalsTyped' /\ IdleTyped' /\ OpsTyped' /\ OpsSound'
      /\ OnePlace' /\ TargetAllowed' /\ LoadCounts' /\ FlagsFollow' /\ HaltsIdle' /\ HaltedTold'
      BY <1>1, <1>2, <1>3, <1>4, ArriveKeeps
<1>6. LockTyped' /\ LocksExact'
  <2>1. cpus' = cpus /\ op'[c] = r /\ \A d \in cpus : d # c => op'[d] = op[d]
        BY <1>3, OpChanges DEF fixed
  <2>2. Holds(o) = {g, c} /\ Holds(r) = {g, c}
        BY <1>1, <1>2, <1>4 DEF Holds, Paired, Goal
  <2>. QED  BY <1>3, <2>1, <2>2, LocksSame
<1>. QED  BY <1>5, <1>6 DEF SInv

\* Both locks of the pair are dropped, with nothing found to steal.
LEMMA IdleUnlockedKeeps ==
    ASSUME SInv, NEW c \in cpus, At(c, "idled"), UNCHANGED <<fixed, threads, signals>>,
           Unlocked({c, op[c].two}), Do(c, None), idle[c].pc = "search",
           NEW r \in IdleStates, r.pc = "search", idle' = [idle EXCEPT ![c] = r]
    PROVE  SInv'
<1>1. /\ cpus' = cpus /\ queue' = queue /\ cur' = cur /\ cpu_idle' = cpu_idle
      /\ ipipending' = ipipending /\ ipi' = ipi /\ md' = md /\ op[c].pc = "idled"
      BY DEF fixed, threads, signals, At
<1>2. op'[c] = None /\ (\A d \in cpus : d # c => op'[d] = op[d]) /\ OpsTyped'
      BY <1>1, OpChanges, OpNew
<1>3. /\ ~Carries(None) /\ ~Hands(None) /\ ~Carries(op[c]) /\ ~Hands(op[c])
      /\ Goal(None) = "none" /\ Holds(None) = {} /\ None.pc = "none"
      BY <1>1 DEF Carries, Hands, Goal, Holds, Paired, None
<1>4. op[c].one = c
      BY <1>1, Here DEF OpSound, Goal
<1>5. LockTyped' /\ LocksExact'
  <2>1. Holds(op[c]) = {c, op[c].two}
        BY <1>1, <1>4, HeldHere
  <2>. QED  BY <1>1, <1>2, <1>3, <2>1, LocksDropped, LocksEnd
<1>6. IdleTyped' /\ idle'[c] = r /\ \A d \in cpus : d # c => idle'[d] = idle[d]
      BY <1>1 DEF SInv, IdleTyped, IdleStates
<1>7. SignalsTyped' /\ FlagsFollow'
      BY <1>1, <1>6 DEF SInv, SignalsTyped, FlagsFollow
<1>8. HaltsIdle' /\ HaltedTold'
      BY <1>1, <1>2, <1>3, <1>6 DEF SInv, HaltsIdle, HaltedTold
<1>9. OpSound(c, op[c])'
      BY <1>2, <1>3 DEF OpSound, Paired
<1>10. Fixed' /\ PlacesTyped' /\ OpsSound' /\ OnePlace' /\ TargetAllowed' /\ LoadCounts'
      BY <1>2, <1>3, <1>6, <1>9, OpKeeps
<1>. QED  BY <1>2, <1>5, <1>6, <1>7, <1>8, <1>10 DEF SInv

LEMMA IdleLockedKeeps ==
    ASSUME SInv, NEW c \in cpus, IdleLocked(c)
    PROVE  SInv'
<1> DEFINE v == op[c].two
<1>1. /\ At(c, "idled") /\ Unlocked({c, v}) /\ Do(c, None) /\ UNCHANGED <<fixed, bound, signals>>
      BY DEF IdleLocked
<1>2. idle[c].pc = "search" /\ idle[c] \in IdleStates
      BY <1>1, Here DEF At, OpSound, Goal
<1>3. CASE load[c] > 0 /\ Choose(c, queue[c]) /\ Goes(c, "top") /\ UNCHANGED load
      BY <1>1, <1>3, IdleLockedOwnKeeps
<1>4. CASE load[c] = 0 /\ UNCHANGED <<queue, load, cur, idle>>
  <2>1. idle' = [idle EXCEPT ![c] = idle[c]] /\ UNCHANGED threads
        BY <1>1, <1>4 DEF SInv, IdleTyped, threads
  <2>. QED  BY <1>1, <1>2, <2>1, IdleUnlockedKeeps
<1>5. CASE load[c] = 0 /\ StealAndRun(v, c) /\ Goes(c, "top")
      BY <1>1, <1>5, IdleLockedStealKeeps
<1>6. CASE /\ IdleGoes(c, [idle[c] EXCEPT !.pc = "search", !.mask = @ \ {v}])
           /\ UNCHANGED <<queue, load, cur>>
  <2> DEFINE r == [idle[c] EXCEPT !.pc = "search", !.mask = @ \ {v}]
  <2>1. r \in IdleStates /\ r.pc = "search"
        BY <1>2 DEF IdleStates
  <2>2. idle' = [idle EXCEPT ![c] = r] /\ UNCHANGED threads
        BY <1>1, <1>6 DEF IdleGoes, threads
  <2>. HIDE DEF r
  <2>. QED  BY <1>1, <1>2, <2>1, <2>2, IdleUnlockedKeeps
<1>. QED  BY <1>3, <1>4, <1>5, <1>6 DEF IdleLocked

LEMMA TryLockedKeeps ==
    ASSUME SInv, NEW c \in cpus, TryLocked(c)
    PROVE  SInv'
<1>1. /\ At(c, "trylocked") /\ Unlocked({c, op[c].two}) /\ Do(c, None)
      /\ UNCHANGED <<fixed, bound, signals, idle>>
      BY DEF TryLocked
<1>2. CASE load[c] = 0 /\ StealAndRun(op[c].two, c)
      BY <1>1, <1>2, TryLockedStealKeeps
<1>3. CASE Choose(c, queue[c]) /\ UNCHANGED load
      BY <1>1, <1>3, TryLockedOwnKeeps
<1>. QED  BY <1>2, <1>3 DEF TryLocked

LEMMA BalanceMovesKeeps ==
    ASSUME SInv, NEW c \in cpus, At(c, "pair"), NEW t \in Stealable(op[c].one, op[c].two),
           Moved(t, op[c].one, op[c].two),
           Do(c, [op[c] EXCEPT !.pc = IF op[c].two = c THEN "moved" ELSE "notify",
                               !.then = "moved"]),
           UNCHANGED <<fixed, bound, cur, lock, signals, idle>>
    PROVE  SInv'
<1> DEFINE o == op[c]
           h == o.one
           l == o.two
           r == [o EXCEPT !.pc = IF l = c THEN "moved" ELSE "notify", !.then = "moved"]
<1>1. /\ o \in OpRecords /\ o.pc = "pair" /\ h \in cpus /\ l \in cpus /\ h # l
      /\ o.target = l /\ o.td = Idle /\ lock[h] = c /\ lock[l] = c
      /\ h \notin o.lmask
      BY Here, HeldHere DEF At, OpSound, Carries, Hands, Paired, Goal
<1>2. /\ r \in OpRecords /\ r.pc = (IF l = c THEN "moved" ELSE "notify") /\ r.td = Idle
      /\ r.target = l /\ r.then = "moved" /\ r.one = h /\ r.two = l /\ Do(c, r)
      BY <1>1 DEF OpRecords
<1>. HIDE DEF r
<1>3. /\ cpus' = cpus /\ cpuset' = cpuset /\ bound' = bound /\ cur' = cur /\ idle' = idle
      /\ cpu_idle' = cpu_idle /\ ipipending' = ipipending /\ ipi' = ipi /\ md' = md
      /\ lock' = lock
      BY DEF fixed, signals
<1>4. op'[c] = r /\ (\A d \in cpus : d # c => op'[d] = op[d]) /\ OpsTyped'
      BY <1>2, <1>3, OpChanges, OpNew
<1>5. /\ Goal(r) = "moved" /\ ~Carries(r) /\ ~Hands(r) /\ ~Carries(o) /\ ~Hands(o)
      /\ Holds(o) = {h, l} /\ Holds(r) = {h, l} /\ OpSound(c, r)
      BY <1>1, <1>2 DEF Goal, Carries, Hands, OpSound, Paired, Holds
<1>6. t \in queue[h] /\ t \in Threads
      BY <1>1, Here DEF Stealable
<1>7. /\ queue'[h] = queue[h] \ {t} /\ queue'[l] = queue[l] \cup {t}
      /\ load'[h] = load[h] - 1 /\ load'[l] = load[l] + 1
      /\ \A d \in cpus : d \notin {h, l} => queue'[d] = queue[d] /\ load'[d] = load[d]
      BY <1>1 DEF Moved, SInv, PlacesTyped
<1>8. /\ Cardinality(queue'[h]) = Cardinality(queue[h]) - 1 /\ Cardinality(queue[h]) >= 1
      /\ Cardinality(queue'[l]) = Cardinality(queue[l]) + 1
  <2>1. t \notin queue[l]
        BY <1>1, <1>6 DEF SInv, OnePlace, QueuesApart
  <2>2. /\ Cardinality(queue[h]) \in Nat /\ Cardinality(queue[h]) # 0
        /\ Cardinality(queue[h] \ {t}) = Cardinality(queue[h]) - 1
    <3>1. queue[h] \in SUBSET Threads /\ t \in queue[h]
          BY <1>1, <1>6, Here
    <3>. QED  BY ONLY <3>1, CardRemove
  <2>3. Cardinality(queue[l] \cup {t}) = Cardinality(queue[l]) + 1
        BY <1>1, <2>1, Here, CardRemove
  <2>. QED  BY <1>7, <2>2, <2>3
<1>9. Fixed' /\ PlacesTyped' /\ SignalsTyped' /\ IdleTyped'
  <2>1. load[h] - 1 \in Nat /\ load[l] + 1 \in Nat /\ load \in [cpus -> Nat]
        BY <1>1, <1>8, LoadHere DEF SInv, PlacesTyped
  <2>2. load' \in [cpus -> Nat]
        BY <1>1, <2>1 DEF Moved
  <2>3. queue' \in [cpus -> SUBSET Threads]
        BY <1>1, <1>6 DEF Moved, SInv, PlacesTyped
  <2>. QED  BY <1>3, <2>2, <2>3 DEF SInv, Fixed, PlacesTyped, SignalsTyped, IdleTyped, IdleStates
<1>10. OpsSound'
  <2>1. OpSound(c, op[c])'
        BY <1>3, <1>4, <1>5 DEF OpSound
  <2>. QED  BY <1>3, <1>4, <2>1 DEF SInv, OpsSound, OpSound
<1>11. LockTyped' /\ LocksExact'
      BY <1>3, <1>4, <1>5, LocksSame
<1>12. TargetAllowed'
      BY <1>2, <1>3, <1>4, <1>5 DEF SInv, TargetAllowed, Allowed
<1>13. LoadCounts'
  <2>1. \A d \in cpus : Runs(d)' = Runs(d)
        BY <1>3, <1>4, <1>5 DEF Runs
  <2>2. ASSUME NEW d \in cpus PROVE load'[d] = Cardinality(queue'[d]) + Runs(d)'
    <3>0. /\ load[d] = Cardinality(queue[d]) + Runs(d) /\ Cardinality(queue[d]) \in Nat
          /\ Runs(d) \in {0, 1} /\ Runs(d)' = Runs(d)
          BY <2>1, LoadHere
    <3>1. CASE d = h
      <4>1. load'[d] = load[d] - 1 /\ Cardinality(queue'[d]) = Cardinality(queue[d]) - 1
            BY <1>7, <1>8, <3>1
      <4>. QED  BY <3>0, <4>1
    <3>2. CASE d = l
      <4>1. load'[d] = load[d] + 1 /\ Cardinality(queue'[d]) = Cardinality(queue[d]) + 1
            BY <1>7, <1>8, <3>2
      <4>. QED  BY <3>0, <4>1
    <3>3. CASE d \notin {h, l}
          BY <1>7, <2>1, <3>3, LoadHere
    <3>. QED  BY <3>1, <3>2, <3>3
  <2>. QED  BY <1>3, <2>2 DEF LoadCounts
<1>14. OnePlace'
  <2>1. \A d \in cpus : Hands(op[d]) => d # c /\ op[d].target \notin {h, l}
        BY <1>1, <1>5, NoneHanded
  <2>2. \A d \in cpus : cur[d] # t
        BY <1>1, <1>6, <2>1 DEF SInv, OnePlace, RunsUnqueued
  <2>3. QueuesApart'
        BY <1>1, <1>3, <1>6, <1>7 DEF SInv, OnePlace, QueuesApart
  <2>4. OneRuns'
        BY <1>3 DEF SInv, OnePlace, OneRuns
  <2>5. RunsUnqueued'
        BY <1>3, <1>4, <1>5, <1>7, <2>1, <2>2 DEF SInv, OnePlace, RunsUnqueued
  <2>6. ComesAlone'
        BY <1>1, <1>2, <1>3, <1>4, <1>6, <1>7 DEF SInv, OnePlace, ComesAlone
  <2>7. HandedQueued'
        BY <1>3, <1>4, <1>5, <1>7, <2>1, HandedTyped DEF SInv, OnePlace, HandedQueued
  <2>. QED  BY <2>3, <2>4, <2>5, <2>6, <2>7 DEF OnePlace
<1>15. FlagsFollow' /\ HaltsIdle'
      BY <1>1, <1>3, <1>4 DEF SInv, FlagsFollow, HaltsIdle
<1>16. HaltedTold'
  <2>1. idle[c].pc # "halted"
        BY <1>1 DEF SInv, HaltsIdle
  <2>2. l # c => op'[c].pc = "notify" /\ op'[c].target = l
        BY <1>2, <1>4
  <2>. QED  BY <1>1, <1>3, <1>4, <1>7, <2>1, <2>2 DEF SInv, HaltedTold
<1>. QED  BY <1>4, <1>9, <1>10, <1>11, <1>12, <1>13, <1>14, <1>15, <1>16 DEF SInv

LEMMA BalancePairKeeps ==
    ASSUME SInv, NEW c \in cpus, BalancePair(c)
    PROVE  SInv'
<1>1. At(c, "pair") /\ UNCHANGED <<fixed, signals, idle>>
      BY DEF BalancePair
<1>2. CASE /\ \E t \in Stealable(op[c].one, op[c].two) : Moved(t, op[c].one, op[c].two)
           /\ Do(c, [op[c] EXCEPT !.pc = IF op[c].two = c THEN "moved" ELSE "notify",
                                  !.then = "moved"])
           /\ UNCHANGED <<bound, cur, lock>>
      BY <1>1, <1>2, BalanceMovesKeeps
<1>3. CASE /\ Unlocked({op[c].one, op[c].two})
           /\ Do(c, [op[c] EXCEPT !.pc = "low", !.lmask = @ \ {op[c].two}, !.anylow = FALSE])
           /\ UNCHANGED threads
      BY <1>1, <1>3, BalancePairNotKeeps
<1>. QED  BY <1>1, <1>2, <1>3, Zenon DEF BalancePair

-----------------------------------------------------------------------------

LEMMA SInit ==
    ASSUME Init
    PROVE  SInv
<1>1. PICK n \in 1 .. MaxCpus : cpus = 1 .. n
      BY DEF Init
<1>2. Fixed
  <2>1. cpus \subseteq 1 .. MaxCpus /\ 1 \in cpus
        BY <1>1, SmpAssumption
  <2>2. /\ cpuset \in [Threads -> {set \in CpuSets : set \cap cpus # {}}]
        /\ CpuSets \subseteq SUBSET (1 .. MaxCpus)
        BY SmpAssumption DEF Init
  <2>3. ASSUME NEW t \in Threads
        PROVE  cpuset[t] \in SUBSET (1 .. MaxCpus) /\ cpuset[t] \cap cpus # {}
        BY <2>2
  <2>. QED  BY <2>1, <2>2, <2>3 DEF Fixed
<1>3. /\ lock = [c \in cpus |-> NoCpu]
      /\ queue = [c \in cpus |-> {}] /\ load = [c \in cpus |-> 0]
      /\ cur = [c \in cpus |-> Idle] /\ bound = [t \in Threads |-> NoCpu]
      /\ cpu_idle = [c \in cpus |-> FALSE] /\ ipipending = [c \in cpus |-> FALSE]
      /\ ipi = [c \in cpus |-> FALSE] /\ md = [c \in cpus |-> "running"]
      /\ idle = [c \in cpus |-> [pc |-> "top", mask |-> {}]]
      /\ op = [c \in cpus |-> None]
      BY DEF Init
<1>4. /\ \A c \in cpus : op[c] = None /\ op[c].pc = "none" /\ lock[c] = NoCpu /\ queue[c] = {}
                         /\ load[c] = 0 /\ cur[c] = Idle /\ idle[c].pc = "top"
                         /\ ~cpu_idle[c] /\ ~ipipending[c] /\ ~ipi[c]
      BY <1>3 DEF None
<1>5. ~Carries(None) /\ ~Hands(None) /\ Goal(None) = "none" /\ Holds(None) = {}
      BY DEF Carries, Hands, Goal, Holds, Paired, None
<1>6. PlacesTyped /\ SignalsTyped /\ LockTyped
      BY <1>3 DEF PlacesTyped, SignalsTyped, LockTyped
<1>7. IdleTyped /\ OpsTyped
      BY <1>3 DEF IdleTyped, IdleStates, OpsTyped
<1>8. OpsSound /\ TargetAllowed
      BY <1>4, <1>5 DEF OpsSound, OpSound, Paired, TargetAllowed
<1>9. LocksExact
  <2>1. \A c \in cpus : c # NoCpu
        BY <1>2, SmpAssumption DEF Fixed
  <2>. QED  BY <1>4, <1>5, <2>1 DEF LocksExact
<1>10. OnePlace
      BY <1>4, <1>5 DEF OnePlace, QueuesApart, OneRuns, RunsUnqueued, ComesAlone, HandedQueued
<1>11. LoadCounts
  <2>1. Cardinality({}) = 0
        BY FS_EmptySet
  <2>2. ASSUME NEW c \in cpus PROVE load[c] = Cardinality(queue[c]) + Runs(c)
    <3>1. load[c] = 0 /\ queue[c] = {} /\ Runs(c) = 0
          BY <1>4 DEF Runs
    <3>. QED  BY <2>1, <3>1
  <2>. QED  BY <2>2 DEF LoadCounts
<1>12. FlagsFollow /\ HaltsIdle /\ HaltedTold
      BY <1>4 DEF FlagsFollow, HaltsIdle, HaltedTold
<1>. QED  BY <1>2, <1>6, <1>7, <1>8, <1>9, <1>10, <1>11, <1>12 DEF SInv

LEMMA SStutters ==
    ASSUME SInv, UNCHANGED vars
    PROVE  SInv'
<1>1. /\ cpus' = cpus /\ cpuset' = cpuset /\ bound' = bound /\ queue' = queue /\ load' = load
      /\ cur' = cur /\ cpu_idle' = cpu_idle /\ ipipending' = ipipending /\ ipi' = ipi
      /\ md' = md /\ lock' = lock /\ idle' = idle /\ op' = op
      BY DEF vars, fixed, threads, signals
<1>2. Fixed' /\ PlacesTyped' /\ SignalsTyped' /\ IdleTyped' /\ LockTyped' /\ OpsTyped'
      BY <1>1 DEF SInv, Fixed, PlacesTyped, SignalsTyped, IdleTyped, IdleStates, LockTyped,
                  OpsTyped, OpRecords
<1>3. OpsSound' /\ LocksExact' /\ TargetAllowed' /\ LoadCounts'
      BY <1>1 DEF SInv, OpsSound, OpSound, LocksExact, TargetAllowed, Allowed, LoadCounts, Runs
<1>4. OnePlace'
      BY <1>1 DEF SInv, OnePlace, QueuesApart, OneRuns, RunsUnqueued, ComesAlone, HandedQueued
<1>5. FlagsFollow' /\ HaltsIdle' /\ HaltedTold'
      BY <1>1 DEF SInv, FlagsFollow, HaltsIdle, HaltedTold
<1>. QED  BY <1>2, <1>3, <1>4, <1>5 DEF SInv

LEMMA SNext ==
    ASSUME SInv, [Next]_vars
    PROVE  SInv'
<1>1. CASE UNCHANGED vars
      BY <1>1, SStutters
<1>2. CASE Next
  <2>1. PICK c \in cpus :
          \/ \E t \in Threads : Wakeup(c, t)
          \/ Yield(c) \/ Sleep(c) \/ Bind(c) \/ Unbind(c) \/ Expel(c)
          \/ Preempted(c) \/ Balance(c)
          \/ IdleStep(c) \/ OpStep(c)
        BY <1>2 DEF Next
  <2>2. CASE \E t \in Threads : Wakeup(c, t)
        BY <2>2, WakeupKeeps
  <2>3. CASE Yield(c) \/ Sleep(c) \/ Bind(c) \/ Unbind(c) \/ Expel(c) \/ Preempted(c) \/ Balance(c)
        BY <2>3, YieldKeeps, SleepKeeps, BindKeeps, UnbindKeeps, ExpelKeeps, PreemptedKeeps,
           BalanceKeeps
  <2>4. CASE IdleStep(c)
        BY <2>4, IdleTopKeeps, IdleSearchKeeps, IdleRestsKeeps, IdleFenceKeeps, MdEnterKeeps,
           MdHaltKeeps, MdResumeKeeps, MdReturnKeeps, IdleUpKeeps DEF IdleStep
  <2>5. CASE OpStep(c)
    <3>1. CASE \/ LockFirst(c) \/ LockSecond(c) \/ Add(c) \/ Added(c) \/ Preempt(c)
               \/ Notify(c) \/ Wake(c)
          BY <3>1, LockFirstKeeps, LockSecondKeeps, AddKeeps, AddedKeeps, PreemptKeeps,
             NotifyKeeps, WakeKeeps
    <3>2. CASE TrySearch(c) \/ TryOwn(c) \/ TryLocked(c) \/ Migrate(c) \/ Migrated(c)
          BY <3>2, TrySearchKeeps, TryOwnKeeps, TryLockedKeeps, MigrateKeeps, MigratedKeeps
    <3>3. CASE \/ BalanceHigh(c) \/ BalanceLow(c) \/ BalancePair(c) \/ BalanceMoved(c)
               \/ IdleLocked(c)
          BY <3>3, BalanceHighKeeps, BalanceLowKeeps, BalancePairKeeps, BalanceMovedKeeps,
             IdleLockedKeeps
    <3>. QED  BY <2>5, <3>1, <3>2, <3>3 DEF OpStep
  <2>. QED  BY <2>1, <2>2, <2>3, <2>4, <2>5
<1>. QED  BY <1>1, <1>2

-----------------------------------------------------------------------------
(* The properties *)

LEMMA TypedStates ==
    ASSUME SInv
    PROVE  TypeOK
<1>1. load \in [cpus -> 0 .. Cardinality(Threads)]
  <2>1. \A c \in cpus : load[c] \in 0 .. Cardinality(Threads)
    <3>1. Cardinality(Threads) \in Nat
          BY SmpAssumption, FS_CardinalityType
    <3>. QED  BY <3>1, LoadBound, LoadHere
  <2>. QED  BY <2>1 DEF SInv, PlacesTyped
<1>. QED  BY <1>1 DEF SInv, Fixed, PlacesTyped, SignalsTyped, IdleTyped, IdleStates, LockTyped,
                      TypeOK

LEMMA AtMostOne ==
    ASSUME NEW S \in SUBSET cpus, cpus \subseteq 1 .. MaxCpus, \A c, d \in S : c = d
    PROVE  Cardinality(S) <= 1 /\ Cardinality(S) \in Nat
<1>1. CASE S = {}
      BY <1>1, FS_EmptySet
<1>2. CASE S # {}
  <2>1. PICK c : c \in S
        BY <1>2
  <2>2. S = {c}
        BY <2>1
  <2>. QED  BY <2>2, FS_Singleton
<1>. QED  BY <1>1, <1>2

\* Leaving, by what the operation is.
LEMMA LeavingIs ==
    ASSUME SInv, NEW c \in cpus
    PROVE  /\ Leaving(c) <=> Carries(op[c]) \/ Hands(op[c])
           /\ (IF cur[c] = Idle \/ Leaving(c) THEN 0 ELSE 1) = Runs(c)
<1>1. ASSUME Leaving(c) PROVE Carries(op[c]) \/ Hands(op[c])
  <2>1. ~Rest(c) /\ cur[c] # Idle /\ op[c].td = cur[c] /\ op[c].pc # "none"
        BY <1>1, Here DEF Leaving
  <2>2. op[c].pc # "add"
        BY <2>1 DEF SInv, OnePlace, ComesAlone
  <2>. QED  BY <2>1, <2>2, Here DEF OpSound
<1>2. ASSUME Carries(op[c]) \/ Hands(op[c]) PROVE Leaving(c)
  <2>1. op[c].td = cur[c] /\ cur[c] # Idle
        BY <1>2, Here DEF OpSound
  <2>2. op[c].pc # "none"
        BY <1>2 DEF Carries, Hands, Goal
  <2>. QED  BY <2>1, <2>2, Here DEF Leaving
<1>. QED  BY <1>1, <1>2 DEF Runs

LEMMA LoadsExact ==
    ASSUME SInv
    PROVE  LoadExact
<1>1. ASSUME NEW c \in cpus
      PROVE  load[c] = Cardinality(queue[c]) + (IF cur[c] = Idle \/ Leaving(c) THEN 0 ELSE 1)
      BY LoadHere, LeavingIs
<1>2. ASSUME NEW t \in Threads
      PROVE  Cardinality({c \in cpus : t \in queue[c]} ) +
             Cardinality({c \in cpus : cur[c] = t /\ ~(Leaving(c) /\ \E d \in cpus : t \in queue[d])})
                <= 1
  <2> DEFINE Q == {c \in cpus : t \in queue[c]}
             R == {c \in cpus : cur[c] = t /\ ~(Leaving(c) /\ \E d \in cpus : t \in queue[d])}
  <2>1. cpus \subseteq 1 .. MaxCpus /\ t # Idle
        BY SmpAssumption DEF SInv, Fixed
  <2>2. \A c, d \in Q : c = d
        BY DEF SInv, OnePlace, QueuesApart
  <2>3. \A c, d \in R : c = d
        BY <2>1 DEF SInv, OnePlace, OneRuns
  <2>4. Q = {} \/ R = {}
    <3>1. SUFFICES ASSUME NEW d \in cpus, t \in queue[d], NEW c \in cpus, cur[c] = t
                   PROVE  Leaving(c)
          OBVIOUS
    <3>2. Hands(op[c])
          BY <3>1 DEF SInv, OnePlace, RunsUnqueued
    <3>. QED  BY <3>2, LeavingIs
  <2>5. Cardinality(Q) <= 1 /\ Cardinality(Q) \in Nat /\ (Q = {} => Cardinality(Q) = 0)
    <3>1. Q \in SUBSET cpus
          OBVIOUS
    <3>. HIDE DEF Q
    <3>. QED  BY <2>1, <2>2, <3>1, AtMostOne, FS_EmptySet
  <2>6. Cardinality(R) <= 1 /\ Cardinality(R) \in Nat /\ (R = {} => Cardinality(R) = 0)
    <3>1. R \in SUBSET cpus
          OBVIOUS
    <3>. HIDE DEF R
    <3>. QED  BY <2>1, <2>3, <3>1, AtMostOne, FS_EmptySet
  <2>. HIDE DEF Q, R
  <2>7. Cardinality(Q) + Cardinality(R) <= 1
        BY <2>4, <2>5, <2>6
  <2>. QED  BY <2>7 DEF Q, R
<1>. QED  BY <1>1, <1>2, TypedStates DEF LoadExact

\* The lock c waits for, when it waits.
Wanted(c) ==
    CASE op[c].pc = "first"  -> FirstOf(op[c].one, op[c].two)
      [] op[c].pc = "second" -> SecondOf(op[c].one, op[c].two)
      [] op[c].pc = "add"    -> op[c].target
      [] OTHER               -> c

\* Who waits has none but a lower lock.
LEMMA WaitsHigher ==
    ASSUME SInv, NEW c \in cpus, WaitsFor(c) \in cpus
    PROVE  /\ Wanted(c) \in cpus /\ lock[Wanted(c)] = WaitsFor(c)
           /\ \A l \in Holds(op[c]) : l < Wanted(c)
<1>1. OpSound(c, op[c])
      BY Here
<1>2. op[c].pc \in {"first", "second", "add", "own", "preempt"}
  <2>1. SUFFICES ASSUME op[c].pc \notin {"first", "second", "add", "own", "preempt"}
                 PROVE  FALSE
        OBVIOUS
  <2>2. WaitsFor(c) = NoCpu
        BY <2>1 DEF WaitsFor, At
  <2>. QED  BY <2>2, Here
<1>3. CASE op[c].pc \in {"first", "second"}
  <2>1. op[c].one \in cpus /\ op[c].two \in cpus /\ op[c].one # op[c].two /\ op[c].then # "added"
        BY <1>1, <1>3 DEF OpSound, Paired, Goal
  <2>2. op[c].one \in Int /\ op[c].two \in Int
        BY <2>1, Here
  <2>3. CASE op[c].pc = "first"
    <3>1. Holds(op[c]) = {}
          BY <2>1, <2>3 DEF Holds, Paired, Goal
    <3>. QED  BY <2>1, <2>3, <3>1 DEF Wanted, WaitsFor, At, FirstOf
  <2>4. CASE op[c].pc = "second"
    <3>1. Holds(op[c]) = {FirstOf(op[c].one, op[c].two)}
          BY <2>1, <2>4 DEF Holds, Paired, Goal
    <3>2. /\ SecondOf(op[c].one, op[c].two) \in cpus
          /\ FirstOf(op[c].one, op[c].two) < SecondOf(op[c].one, op[c].two)
          BY <2>1, <2>2 DEF FirstOf, SecondOf
    <3>. QED  BY <2>4, <3>1, <3>2 DEF Wanted, WaitsFor, At
  <2>. QED  BY <1>3, <2>3, <2>4
<1>4. CASE op[c].pc \in {"add", "own", "preempt"}
  <2>1. Holds(op[c]) = {}
        BY <1>4, HeldHere
  <2>2. op[c].pc = "add" => op[c].target \in cpus
        BY <1>1 DEF OpSound
  <2>. QED  BY <1>4, <2>1, <2>2 DEF Wanted, WaitsFor, At
<1>. QED  BY <1>2, <1>3, <1>4

LEMMA LocksAreSound ==
    ASSUME SInv
    PROVE  LocksSound
<1>1. ASSUME NEW set \in SUBSET cpus, set # {}, \A c \in set : WaitsFor(c) \in set
      PROVE  FALSE
  <2> DEFINE S == {MaxCpus - Wanted(c) : c \in set}
  <2>1. \A c \in set : Wanted(c) \in 1 .. MaxCpus /\ WaitsFor(c) \in cpus
        BY <1>1, WaitsHigher, Here
  <2>2. S \in SUBSET Nat /\ S # {}
        BY <1>1, <2>1, SmpAssumption
  <2>3. PICK c \in set : \A d \in set : MaxCpus - Wanted(c) <= MaxCpus - Wanted(d)
    <3>1. Min(S) \in S /\ \A x \in S : Min(S) <= x
      <4>. HIDE DEF S
      <4>. QED  BY <2>2, MinIsLeast
    <3>. QED  BY <3>1
  <2>4. WaitsFor(c) \in set /\ Wanted(c) \in Holds(op[WaitsFor(c)])
        BY <1>1, <2>1, WaitsHigher DEF SInv, LocksExact
  <2>5. Wanted(c) < Wanted(WaitsFor(c))
        BY <2>1, <2>4, WaitsHigher
  <2>. QED  BY <2>1, <2>3, <2>4, <2>5, SmpAssumption
<1>2. NoCircularWait
      BY <1>1 DEF NoCircularWait
<1>3. LocksReturned
  <2>1. SUFFICES ASSUME NEW l \in cpus, Held(l) PROVE ~Rest(lock[l])
        BY DEF LocksReturned
  <2>2. lock[l] \in cpus /\ l \in Holds(op[lock[l]])
        BY <2>1, Here DEF Held, SInv, LocksExact
  <2>3. SUFFICES ASSUME Rest(lock[l]) PROVE FALSE
        OBVIOUS
  <2>4. op[lock[l]].pc = "none"
        BY <2>2, <2>3, Here
  <2>. QED  BY <2>2, <2>4, HeldHere
<1>. QED  BY <1>2, <1>3 DEF LocksSound

LEMMA SleepersTold ==
    ASSUME SInv
    PROVE  SleeperTold
BY DEF SInv, HaltedTold, SleeperTold, IdleAt

\* A processor that chooses gets nothing new.
LEMMA ChooseBringsNone ==
    ASSUME SInv, NEW c \in cpus, NEW q \in SUBSET Threads, q \subseteq queue[c] \cup {cur[c]},
           Choose(c, q), cpus' = cpus
    PROVE  \A t \in Threads, d \in cpus : On(t, d)' => On(t, d)
<1>1. PICK x \in Threads \cup {Idle} :
              /\ cur'[c] = x /\ queue'[c] = q \ {x}
              /\ \A d \in cpus : d # c => cur'[d] = cur[d] /\ queue'[d] = queue[d]
              /\ IF x = Idle THEN q = {} ELSE x \in q
              /\ Cardinality(queue'[c]) = Cardinality(q) - IF x = Idle THEN 0 ELSE 1
              /\ queue' \in [cpus' -> SUBSET Threads] /\ cur' \in [cpus' -> Threads \cup {Idle}]
      BY Chosen
<1>2. ASSUME NEW t \in Threads, NEW d \in cpus, t \in queue'[d] \/ cur'[d] = t
      PROVE  t \in queue[d] \/ cur[d] = t
  <2>1. CASE d = c
        BY <1>1, <1>2, <2>1, SmpAssumption
  <2>2. CASE d # c
        BY <1>1, <1>2, <2>2
  <2>. QED  BY <2>1, <2>2
<1>. QED  BY <1>2 DEF On

MayCome(t, c) == c \in cpuset[t] \/ bound'[t] = c

\* What a thief and what sched_balance_pair bring may run here.
LEMMA StealBrings ==
    ASSUME SInv, NEW c \in cpus, NEW v \in cpus, StealAndRun(v, c)
    PROVE  \A t \in Threads, d \in cpus : On(t, d)' /\ ~On(t, d) => MayCome(t, d)
<1>1. PICK s \in Stealable(v, c) : /\ cur' = [cur EXCEPT ![c] = s]
                                  /\ queue' = [queue EXCEPT ![v] = @ \ {s}]
      BY DEF StealAndRun
<1>2. c \in cpuset[s]
      BY <1>1 DEF Stealable, CanSched
<1>3. ASSUME NEW t \in Threads, NEW d \in cpus, t \in queue'[d] \/ cur'[d] = t
      PROVE  t \in queue[d] \/ cur[d] = t \/ (t = s /\ d = c)
      BY <1>1, <1>3 DEF SInv, PlacesTyped
<1>. QED  BY <1>2, <1>3 DEF On, MayCome

LEMMA ArriveBrings ==
    ASSUME SInv, NEW c \in cpus, NEW s, NEW S, MayCome(s, c), UNCHANGED cur,
           \A d \in cpus : queue'[d] \subseteq (IF d = c THEN queue[d] \cup {s} ELSE queue[d])
    PROVE  \A t \in Threads, d \in cpus : On(t, d)' /\ ~On(t, d) => MayCome(t, d)
BY DEF On

\* One step of one processor.
LEMMA MovesStep ==
    ASSUME SInv, Next
    PROVE  \A t \in Threads, d \in cpus : On(t, d)' /\ ~On(t, d) => MayCome(t, d)
<1> DEFINE Fine == \A t \in Threads, d \in cpus : On(t, d)' /\ ~On(t, d) => MayCome(t, d)
<1>1. ASSUME UNCHANGED <<queue, cur>> PROVE Fine
      BY <1>1 DEF On
<1>2. ASSUME NEW c \in cpus, NEW q \in SUBSET Threads, q \subseteq queue[c] \cup {cur[c]},
             Choose(c, q), UNCHANGED fixed
      PROVE  Fine
      BY <1>2, ChooseBringsNone DEF fixed
<1>3. PICK c \in cpus :
          \/ \E t \in Threads : Wakeup(c, t)
          \/ Yield(c) \/ Sleep(c) \/ Bind(c) \/ Unbind(c) \/ Expel(c)
          \/ Preempted(c) \/ Balance(c)
          \/ IdleStep(c) \/ OpStep(c)
      BY DEF Next
<1>4. queue[c] \in SUBSET Threads /\ (cur[c] # Idle => queue[c] \cup {cur[c]} \in SUBSET Threads)
      BY Here
<1>. SUFFICES Fine
      OBVIOUS
<1>. HIDE DEF Fine
<1>5. CASE (\E t \in Threads : Wakeup(c, t)) \/ Bind(c) \/ Unbind(c) \/ Expel(c) \/ Balance(c)
      BY <1>1, <1>5 DEF Wakeup, Bind, Unbind, Expel, Leave, Balance, threads
<1>6. CASE Yield(c) \/ Sleep(c) \/ Preempted(c)
  <2>1. CASE Yield(c)
        BY <1>2, <1>4, <2>1 DEF Yield
  <2>2. CASE Sleep(c)
        BY <1>1, <1>2, <1>4, <2>2 DEF Sleep
  <2>3. CASE Preempted(c)
        BY <1>1, <1>2, <1>4, <2>3 DEF Preempted
  <2>. QED  BY <1>6, <2>1, <2>2, <2>3
<1>7. CASE IdleStep(c)
  <2>1. CASE IdleTop(c)
        BY <1>1, <1>2, <1>4, <2>1 DEF IdleTop
  <2>2. CASE \/ IdleSearch(c) \/ IdleRests(c) \/ IdleFence(c) \/ MdEnter(c) \/ MdHalt(c)
             \/ MdResume(c) \/ MdReturn(c) \/ IdleUp(c)
        BY <1>1, <2>2 DEF IdleSearch, IdleRests, IdleFence, MdEnter, MdHalt, MdResume, MdReturn,
                          IdleUp, threads
  <2>. QED  BY <1>7, <2>1, <2>2 DEF IdleStep
<1>8. CASE OpStep(c)
  <2>1. CASE \/ LockFirst(c) \/ LockSecond(c) \/ Added(c) \/ Notify(c) \/ Wake(c) \/ TrySearch(c)
             \/ BalanceHigh(c) \/ BalanceLow(c) \/ BalanceMoved(c)
        BY <1>1, <2>1, Zenon DEF LockFirst, LockSecond, Added, Notify, Wake, TrySearch, BalanceHigh,
                          BalanceLow, BalanceMoved, threads
  <2>2. CASE Preempt(c) \/ TryOwn(c) \/ Migrated(c)
        BY <1>2, <1>4, <2>2 DEF Preempt, TryOwn, Migrated
  <2>3. CASE TryLocked(c)
    <3>1. op[c].two \in cpus /\ UNCHANGED fixed
          BY <2>3, HeldHere DEF TryLocked, At
    <3>2. CASE StealAndRun(op[c].two, c)
          BY <3>1, <3>2, StealBrings DEF Fine
    <3>3. CASE Choose(c, queue[c])
          BY <1>2, <1>4, <3>1, <3>3
    <3>. QED  BY <2>3, <3>2, <3>3 DEF TryLocked
  <2>4. CASE IdleLocked(c)
    <3>1. op[c].two \in cpus /\ UNCHANGED fixed
          BY <2>4, HeldHere DEF IdleLocked, At
    <3>2. CASE StealAndRun(op[c].two, c)
          BY <3>1, <3>2, StealBrings DEF Fine
    <3>3. CASE Choose(c, queue[c])
          BY <1>2, <1>4, <3>1, <3>3
    <3>. QED  BY <1>1, <2>4, <3>2, <3>3 DEF IdleLocked
  <2>5. CASE Add(c) \/ Migrate(c)
    <3>1. /\ op[c].pc = "add" \/ Goal(op[c]) = "migrate"
          /\ UNCHANGED <<bound, cur>>
          /\ queue' = [queue EXCEPT ![op[c].target] = @ \cup {op[c].td}]
          BY <2>5 DEF Add, Migrate, At, Goal
    <3>2. op[c].target \in cpus
          BY <2>5, Here DEF Add, Migrate, At, OpSound, Paired, Goal
    <3>3. MayCome(op[c].td, op[c].target)
          BY <3>1 DEF SInv, TargetAllowed, Allowed, MayCome
    <3>4. \A d \in cpus : queue'[d] \subseteq (IF d = op[c].target THEN queue[d] \cup {op[c].td}
                                                                 ELSE queue[d])
          BY <3>1, <3>2 DEF SInv, PlacesTyped
    <3>. QED  BY <3>1, <3>2, <3>3, <3>4, ArriveBrings DEF Fine
  <2>6. CASE BalancePair(c)
    <3>1. CASE UNCHANGED threads
          BY <1>1, <3>1 DEF threads
    <3>2. CASE /\ \E s \in Stealable(op[c].one, op[c].two) : Moved(s, op[c].one, op[c].two)
               /\ UNCHANGED cur
      <4>1. PICK s \in Stealable(op[c].one, op[c].two) : Moved(s, op[c].one, op[c].two)
            BY <3>2
      <4>2. op[c].one \in cpus /\ op[c].two \in cpus /\ op[c].one # op[c].two
            BY <2>6, HeldHere DEF BalancePair, At
      <4>3. MayCome(s, op[c].two)
            BY DEF Stealable, CanSched, MayCome
      <4>4. \A d \in cpus : queue'[d] \subseteq (IF d = op[c].two THEN queue[d] \cup {s}
                                                               ELSE queue[d])
            BY <4>1, <4>2 DEF Moved, SInv, PlacesTyped
      <4>. QED  BY <3>2, <4>2, <4>3, <4>4, ArriveBrings DEF Fine
    <3>. QED  BY <2>6, <3>1, <3>2, Zenon DEF BalancePair
  <2>. QED  BY <1>8, <2>1, <2>2, <2>3, <2>4, <2>5, <2>6 DEF OpStep
<1>. QED  BY <1>3, <1>5, <1>6, <1>7, <1>8

-----------------------------------------------------------------------------

LEMMA SmpInvariant == Spec => []SInv
<1>1. Init => SInv
      BY SInit
<1>2. SInv /\ [Next]_vars => SInv'
      BY SNext
<1>. QED  BY <1>1, <1>2, PTL DEF Spec

\* The load of a tdq is what is queued on it and what runs, and a thread is in one
\* place, through every hand-over between two tdqs (sched_ule.c:977, 2026).
THEOREM LoadAlwaysExact == Spec => []LoadExact
<1>1. SInv => LoadExact
      BY LoadsExact
<1>. QED  BY <1>1, SmpInvariant, PTL

\* The order of the addresses in tdq_lock_pair, and the unlocking on every way out
\* of the loops, are enough for any number of thieves (sched_ule.c:920, 2034).
THEOREM LocksAlwaysSound == Spec => []LocksSound
<1>1. SInv => LocksSound
      BY LocksAreSound
<1>. QED  BY <1>1, SmpInvariant, PTL

\* A processor that halts over a thread put on its queue is told of it
\* (sched_ule.c:1125, 2893).
THEOREM SleeperAlwaysTold == Spec => []SleeperTold
<1>1. SInv => SleeperTold
      BY SleepersTold
<1>. QED  BY <1>1, SmpInvariant, PTL

\* Every way a thread comes to a processor asks for its affinity or its binding,
\* stale loads or not (sched_ule.c:1073).
THEOREM MovesAlwaysAllowed == Spec => MovesAllowed
<1>1. ASSUME SInv, [Next]_vars
      PROVE  [\A t \in Threads, c \in cpus :
                 (On(t, c))' /\ ~On(t, c) => c \in cpuset[t] \/ bound'[t] = c]_vars
  <2>1. CASE UNCHANGED vars
        BY <2>1
  <2>2. CASE Next
        BY <1>1, <2>2, MovesStep DEF MayCome
  <2>. QED  BY <1>1, <2>1, <2>2
<1>. QED  BY <1>1, SmpInvariant, PTL DEF Spec, MovesAllowed
=============================================================================
