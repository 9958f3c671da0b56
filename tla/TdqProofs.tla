------------------------------ MODULE TdqProofs -----------------------------
(***************************************************************************)
(* Theorems of Tdq for any threads, priorities and number of queues: type  *)
(* correctness, exact status bits, the removal index never more than a     *)
(* slot behind the insert index, queues that agree with threads and loads. *)
(* First what the operators of RunQueue return and preserve, for every run *)
(* queue.  Then IInv, that the thread queue and its threads stay within    *)
(* St: each operator of Tdq gets a lemma that it maps St into St.  Then    *)
(* QInv, for what each operator puts in a queue or takes off, and counts.  *)
(***************************************************************************)
EXTENDS Tdq, LibraryFacts, FiniteSetTheorems

-----------------------------------------------------------------------------
(* The run queue: slots *)

\* Slot arithmetic stays within the queue array: (x) % RQ_NQS in tdq_runq_add,
\* runq_remove_idx and sched_clock.
LEMMA SlotsClosed ==
    /\ Slots \subseteq Nat /\ 0 \in Slots
    /\ \A n \in Int : n % RQ_NQS \in Slots
BY RunQueueAssumption, SMT DEF Slots

-----------------------------------------------------------------------------
(* Run queues whose status bits are exact *)

\* A run queue in which a status bit is set exactly when its queue is not
\* empty, as runq_setbit and runq_clrbit are meant to keep it.
ExactRunQ ==
    {rq \in RunQ : \A i \in Slots : i \in rq.rq_status <=> rq.rq_queues[i] # <<>>}

\* runq_init and lotteryq_init.
LEMMA InitExact == runq_init \in ExactRunQ
BY EmptySeq, SMT DEF ExactRunQ, RunQ, runq_init

\* runq_add_pri.
LEMMA AddExact ==
    ASSUME NEW rq \in ExactRunQ, NEW t \in Threads, NEW pri \in Slots,
           NEW preempted \in BOOLEAN
    PROVE  runq_add_pri(rq, t, pri, preempted) \in ExactRunQ
<1> DEFINE q   == rq.rq_queues[pri]
           new == IF preempted THEN <<t>> \o q ELSE Append(q, t)
<1>1. q \in Seq(Threads)
      BY DEF ExactRunQ, RunQ
<1>2. <<t>> \in Seq(Threads) /\ <<t>> # <<>>
      OBVIOUS
<1>3. new \in Seq(Threads) /\ new # <<>>
      BY <1>1, <1>2, ConcatProperties, ConcatEqualIffEmpty, AppendProperties
<1>4. runq_add_pri(rq, t, pri, preempted)
        = [rq EXCEPT !.rq_status = @ \cup {pri}, !.rq_queues = [@ EXCEPT ![pri] = new]]
      BY DEF runq_add_pri
<1> HIDE DEF new
<1>5. rq.rq_queues \in [Slots -> Seq(Threads)] /\ rq.rq_status \in SUBSET Slots
      BY DEF ExactRunQ, RunQ
<1> DEFINE res == runq_add_pri(rq, t, pri, preempted)
<1>6. /\ res.rq_queues = [rq.rq_queues EXCEPT ![pri] = new]
      /\ res.rq_status = rq.rq_status \cup {pri}
      /\ res \in RunQ
  <2>1. [rq.rq_queues EXCEPT ![pri] = new] \in [Slots -> Seq(Threads)]
        BY <1>3, <1>5
  <2>2. rq.rq_status \cup {pri} \in SUBSET Slots
        BY <1>5
  <2>. QED  BY <1>4, <2>1, <2>2 DEF ExactRunQ, RunQ
<1>7. ASSUME NEW i \in Slots PROVE i \in res.rq_status <=> res.rq_queues[i] # <<>>
  <2>1. CASE i = pri
        BY <1>3, <1>5, <1>6, <2>1
  <2>2. CASE i # pri
        BY <1>5, <1>6, <2>2 DEF ExactRunQ
  <2>. QED  BY <2>1, <2>2
<1>. QED  BY <1>6, <1>7 DEF ExactRunQ

\* runq_remove: the bit goes with the last thread.
LEMMA RemoveExact ==
    ASSUME NEW rq \in ExactRunQ, NEW t, NEW pri \in Slots
    PROVE  runq_remove(rq, t, pri) \in ExactRunQ
<1> DEFINE q    == rq.rq_queues[pri]
           rest == RemoveFirst(q, t)
<1>1. q \in Seq(Threads) /\ rest \in Seq(Threads)
      BY RemoveFirstType DEF ExactRunQ, RunQ
<1>2. rest # <<>> => q # <<>>
  <2>1. SUFFICES ASSUME q = <<>> PROVE rest = <<>>
        OBVIOUS
  <2>2. Len(q) = 0
        BY <2>1
  <2>. QED  BY <2>1, <2>2 DEF RemoveFirst
<1>3. runq_remove(rq, t, pri)
        = [rq EXCEPT !.rq_queues = [@ EXCEPT ![pri] = rest],
                     !.rq_status = IF rest = <<>> THEN @ \ {pri} ELSE @]
      BY DEF runq_remove
<1> HIDE DEF rest
<1>4. rq.rq_queues \in [Slots -> Seq(Threads)] /\ rq.rq_status \in SUBSET Slots
      BY DEF ExactRunQ, RunQ
<1> DEFINE res    == runq_remove(rq, t, pri)
           status == IF rest = <<>> THEN rq.rq_status \ {pri} ELSE rq.rq_status
<1>5. /\ res.rq_queues = [rq.rq_queues EXCEPT ![pri] = rest]
      /\ res.rq_status = status
      /\ res \in RunQ
  <2>1. [rq.rq_queues EXCEPT ![pri] = rest] \in [Slots -> Seq(Threads)]
        BY <1>1, <1>4
  <2>2. status \in SUBSET Slots
        BY <1>4
  <2>. QED  BY <1>3, <2>1, <2>2 DEF ExactRunQ, RunQ
<1>6. ASSUME NEW i \in Slots PROVE i \in res.rq_status <=> res.rq_queues[i] # <<>>
  <2>1. CASE i = pri
        BY <1>2, <1>4, <1>5, <2>1 DEF ExactRunQ
  <2>2. CASE i # pri
        BY <1>4, <1>5, <2>2 DEF ExactRunQ
  <2>. QED  BY <2>1, <2>2
<1>. QED  BY <1>5, <1>6 DEF ExactRunQ

\* lotteryq_choose discounts a thread; the unsigned counter wraps.
LEMMA DiscountExact ==
    ASSUME NEW rq \in ExactRunQ, NEW tickets \in [Threads -> Nat], NEW t \in Threads
    PROVE  LotteryDiscount(rq, tickets, t) \in ExactRunQ
<1> DEFINE n == (rq.num_tickets - tickets[t]) % Word
           p == rq.total_proc - 1
<1>1. rq.num_tickets \in Nat /\ p \in Int
      BY DEF ExactRunQ, RunQ
<1>2. n \in Nat
      BY <1>1, RunQueueAssumption
<1>3. LotteryDiscount(rq, tickets, t) = [rq EXCEPT !.total_proc = p, !.num_tickets = n]
      BY DEF LotteryDiscount
<1> HIDE DEF n, p
<1>. QED  BY <1>1, <1>2, <1>3 DEF ExactRunQ, RunQ

-----------------------------------------------------------------------------
(* What selection returns *)

\* runq_choose and runq_choose_from: the bit they find belongs to a queue with
\* a head (kern_switch.c:514 "no thread on busy queue"), and they find one when
\* any thread is queued.
LEMMA ChooseMember ==
    ASSUME NEW rq \in ExactRunQ, NEW idx \in Slots
    PROVE  \/ /\ runq_choose_from(rq, idx) = NULL
              /\ \A i \in Slots : rq.rq_queues[i] = <<>>
           \/ \E i \in Slots : runq_choose_from(rq, idx) \in Range(rq.rq_queues[i])
<1>1. CASE rq.rq_status = {}
      BY <1>1 DEF runq_choose_from, ExactRunQ
<1>2. CASE rq.rq_status # {}
  <2> DEFINE ahead == {i \in rq.rq_status : i >= idx}
             slot  == runq_findbit_from(rq, idx)
  <2>1. rq.rq_status \in SUBSET Nat /\ ahead \in SUBSET Nat
        BY SlotsClosed DEF ExactRunQ, RunQ
  <2>2. slot \in rq.rq_status
    <3>1. CASE ahead = {}
          BY <1>2, <2>1, <3>1, MinIsLeast DEF runq_findbit_from
    <3>2. CASE ahead # {}
      <4>1. Min(ahead) \in ahead
            BY <2>1, <3>2, MinIsLeast
      <4>2. slot = Min(ahead)
            BY <3>2 DEF runq_findbit_from
      <4>. QED  BY <4>1, <4>2
    <3>. QED  BY <3>1, <3>2
  <2>3. slot \in Slots /\ rq.rq_queues[slot] \in Seq(Threads) /\ rq.rq_queues[slot] # <<>>
        BY <2>2 DEF ExactRunQ, RunQ
  <2>4. 1 \in DOMAIN rq.rq_queues[slot]
        BY <2>3, EmptySeq, LenProperties
  <2>5. rq.rq_queues[slot][1] \in Range(rq.rq_queues[slot])
        BY <2>4 DEF Range
  <2>. QED  BY <1>2, <2>3, <2>5 DEF runq_choose_from
<1>. QED  BY <1>1, <1>2

LEMMA MembersAreThreads ==
    ASSUME NEW rq \in RunQ, NEW i \in Slots
    PROVE  Range(rq.rq_queues[i]) \subseteq Threads
<1>1. rq.rq_queues[i] \in Seq(Threads)
      BY DEF RunQ
<1>. QED  BY <1>1, LenProperties, ElementOfSeq DEF Range

LEMMA ChooseType ==
    ASSUME NEW rq \in ExactRunQ, NEW idx \in Slots
    PROVE  runq_choose_from(rq, idx) \in Threads \cup {NULL}
<1>1. rq \in RunQ
      BY DEF ExactRunQ
<1>. QED  BY <1>1, ChooseMember, MembersAreThreads

\* lotteryq_choose: a thread of the lottery queue or none.
LEMMA LotteryMember ==
    ASSUME NEW rq \in RunQ, NEW tickets, NEW r
    PROVE  lotteryq_choose(rq, tickets, r) \in Range(rq.rq_queues[0]) \cup {NULL}
<1>1. ASSUME NEW winner
      PROVE  LotteryWinner(rq, tickets, winner) \in Range(rq.rq_queues[0]) \cup {NULL}
  <2> DEFINE q          == rq.rq_queues[0]
             Counter(k) == SumFunctionOnSet([i \in DOMAIN q |-> tickets[q[i]]], 1 .. k)
             reached    == {k \in DOMAIN q : Counter(k) >= winner}
  <2>1. q \in Seq(Threads)
        BY SlotsClosed DEF RunQ
  <2> HIDE DEF Counter
  <2>2. CASE reached # {}
    <3>1. reached \in SUBSET Nat /\ reached \subseteq DOMAIN q
          BY <2>1, LenProperties
    <3>2. Min(reached) \in DOMAIN q
          BY <2>2, <3>1, MinIsLeast
    <3>3. LotteryWinner(rq, tickets, winner) = q[Min(reached)]
          BY <2>2 DEF LotteryWinner, Counter
    <3>. QED  BY <3>2, <3>3 DEF Range
  <2>3. CASE reached = {}
        BY <2>3 DEF LotteryWinner, Counter
  <2>. QED  BY <2>2, <2>3
<1>. QED  BY <1>1 DEF lotteryq_choose

LEMMA LotteryType ==
    ASSUME NEW rq \in RunQ, NEW tickets, NEW r
    PROVE  lotteryq_choose(rq, tickets, r) \in Threads \cup {NULL}
BY LotteryMember, MembersAreThreads, SlotsClosed
-----------------------------------------------------------------------------
(* The states of the inductive invariant *)

\* A thread queue with exact status bits and its indexes at most a slot apart.
GoodTdq ==
    {q \in TdqType : /\ q.runq \in [Queues -> ExactRunQ]
                     /\ q.idx \in {q.ridx, (q.ridx + 1) % RQ_NQS}}

St == [tdq : GoodTdq, td : [Threads -> TdType]]

IInv == TypeOK /\ Here \in St

\* OffThread is what a thread that has never run here looks like.
LEMMA OffType == OffThread \in TdType
BY SlotsClosed, TdqAssumption DEF OffThread, TdType, Queues

\* Changing one run queue and the count of transferable threads.
LEMMA QueueUpdate ==
    ASSUME NEW q \in GoodTdq, NEW name \in Queues, NEW rq \in ExactRunQ, NEW n \in Int
    PROVE  [q EXCEPT !.runq[name] = rq, !.transferable = n] \in GoodTdq
<1>1. q.runq \in [Queues -> ExactRunQ] /\ q.runq \in [Queues -> RunQ]
      BY DEF GoodTdq, ExactRunQ, TdqType
<1>2. rq \in RunQ
      BY DEF ExactRunQ
<1> DEFINE qs == [q.runq EXCEPT ![name] = rq]
<1>3. qs \in [Queues -> ExactRunQ] /\ qs \in [Queues -> RunQ]
      BY <1>1, <1>2
<1>4. [q EXCEPT !.runq[name] = rq, !.transferable = n]
        = [q EXCEPT !.runq = qs, !.transferable = n]
      OBVIOUS
<1> HIDE DEF qs
<1>. QED  BY <1>3, <1>4 DEF GoodTdq, TdqType

-----------------------------------------------------------------------------
(* Queues and slots *)

LEMMA DivMonotone ==
    ASSUME NEW m \in Nat, NEW n \in 0 .. m, NEW d \in Nat \ {0}
    PROVE  n \div d \in Nat /\ n \div d <= m \div d
<1> DEFINE a == n \div d
           b == m \div d
<1>1. /\ a \in Int /\ b \in Int /\ 0 <= a
      /\ a * d <= n /\ m < b * d + d
      BY Z3
<1>2. a * d < (b + 1) * d
      BY <1>1
<1> HIDE DEF a, b
<1>3. a < b + 1
  <2>1. SUFFICES ASSUME a >= b + 1 PROVE FALSE
        BY <1>1
  <2>2. (a - (b + 1)) * d >= 0
        BY <1>1, <2>1
  <2>. QED  BY <1>1, <1>2, <2>2
<1>. QED  BY <1>1, <1>3 DEF a, b

\* tdq_runq_add puts a thread of any priority in a slot the run queue has.
LEMMA SlotForType ==
    ASSUME NEW q \in GoodTdq, NEW t, NEW pri \in 0 .. PRI_MAX_IDLE, NEW how
    PROVE  QueueFor(t, pri) \in Queues /\ SlotFor(q, t, pri, how) \in Slots
<1>1. q.ridx \in Slots /\ q.idx \in Slots
      BY DEF GoodTdq, TdqType
<1>2. pri \div RQ_PPQ \in Slots
  <2>1. pri \div RQ_PPQ \in Nat /\ pri \div RQ_PPQ <= PRI_MAX_IDLE \div RQ_PPQ
        BY TdqAssumption, DivMonotone
  <2>2. PRI_MAX_IDLE \div RQ_PPQ \in Nat
        BY TdqAssumption, DivMonotone
  <2>. QED  BY <2>1, <2>2, TdqAssumption, RunQueueAssumption DEF Slots
<1>3. TimeshareSlot(q, pri, how) \in Slots
  <2> DEFINE range  == PRI_MAX_BATCH - PRI_MIN_BATCH + 1
             offset == (RQ_NQS * (pri - PRI_MIN_BATCH)) \div range
             slot   == (offset + q.idx) % RQ_NQS
  <2>1. RQ_NQS * (pri - PRI_MIN_BATCH) \in Int /\ range \in Nat \ {0}
        BY TdqAssumption, RunQueueAssumption
  <2>2. offset \in Int
        BY <2>1
  <2>3. ASSUME NEW n \in Int PROVE (n + q.idx) % RQ_NQS \in Slots
    <3>1. q.idx \in Int
          BY <1>1 DEF Slots
    <3>2. n + q.idx \in Int
          BY <3>1
    <3>. QED  BY <3>2, SlotsClosed
  <2>4. ASSUME NEW n \in Slots PROVE ((n - 1) % 256) % RQ_NQS \in Slots
    <3>1. (n - 1) % 256 \in Int
          BY SlotsClosed
    <3>. QED  BY <3>1, SlotsClosed
  <2>5. \/ TimeshareSlot(q, pri, how) = q.ridx
        \/ TimeshareSlot(q, pri, how) = slot
        \/ TimeshareSlot(q, pri, how) = ((slot - 1) % 256) % RQ_NQS
    <3> HIDE DEF slot
    <3>. QED  BY Zenon DEF TimeshareSlot, slot
  <2>6. slot \in Slots
        BY <2>2, <2>3
  <2>7. ((slot - 1) % 256) % RQ_NQS \in Slots
        BY <2>6, <2>4
  <2>. QED  BY <1>1, <2>5, <2>6, <2>7
<1>4. QueueFor(t, pri) \in Queues
      BY DEF QueueFor, Queues
<1>. QED  BY <1>2, <1>3, <1>4, SlotsClosed DEF SlotFor

-----------------------------------------------------------------------------
(* Each operator maps St to St *)

\* The lottery branch of tdq_runq_add.
LEMMA CountInExact ==
    ASSUME NEW rq \in ExactRunQ, NEW tickets \in Nat
    PROVE  LotteryCountIn(rq, tickets) \in ExactRunQ
<1> DEFINE most  == IF tickets > rq.max_tickets \/ rq.max_tickets = 0
                    THEN tickets ELSE rq.max_tickets
           least == IF tickets < rq.min_tickets \/ rq.min_tickets = 0
                    THEN tickets ELSE rq.min_tickets
           total == rq.total_proc + 1
           sum   == (rq.num_tickets + tickets) % Word
<1>1. /\ rq.max_tickets \in Nat /\ rq.min_tickets \in Nat
      /\ rq.num_tickets \in Nat /\ rq.total_proc \in Int
      BY DEF ExactRunQ, RunQ
<1>2. most \in Nat /\ least \in Nat /\ total \in Int
      BY <1>1
<1>3. sum \in Nat
      BY <1>1, RunQueueAssumption
<1>4. LotteryCountIn(rq, tickets)
        = [rq EXCEPT !.max_tickets = most, !.min_tickets = least,
                     !.total_proc = total, !.num_tickets = sum]
      BY DEF LotteryCountIn
<1> HIDE DEF most, least, total, sum
<1>. QED  BY <1>2, <1>3, <1>4 DEF ExactRunQ, RunQ

LEMMA AddType ==
    ASSUME NEW s \in St, NEW t \in Threads, NEW how, NEW nice \in NiceValues
    PROVE  tdq_runq_add(s, t, how, nice) \in St
<1> DEFINE pri   == s.td[t].priority
           queue == QueueFor(t, pri)
           slot  == SlotFor(s.tdq, t, pri, how)
           rq    == runq_add_pri(s.tdq.runq[queue], t, slot, how = "PREEMPTED")
           xfer  == ~s.td[t].pinned
           tkts  == IF queue = "lottery" THEN NICE_BASE + nice ELSE s.td[t].tickets
           new   == IF queue = "lottery" THEN LotteryCountIn(rq, tkts) ELSE rq
           n     == IF xfer THEN s.tdq.transferable + 1 ELSE s.tdq.transferable
           d     == [s.td[t] EXCEPT !.state = "RUNQ", !.ts_runq = queue, !.rqindex = slot,
                                    !.xferable = s.td[t].xferable \/ xfer,
                                    !.tickets = tkts]
<1>1. s.tdq \in GoodTdq /\ s.td \in [Threads -> TdType] /\ s.td[t] \in TdType
      BY DEF St
<1>2. queue \in Queues /\ slot \in Slots
  <2>1. pri \in 0 .. PRI_MAX_IDLE
        BY <1>1 DEF TdType
  <2>. QED  BY <1>1, <2>1, SlotForType
<1>3. rq \in ExactRunQ
  <2>1. s.tdq.runq[queue] \in ExactRunQ
        BY <1>1, <1>2 DEF GoodTdq
  <2>2. (how = "PREEMPTED") \in BOOLEAN
        OBVIOUS
  <2>. QED  BY <1>2, <2>1, <2>2, AddExact
<1>4. tkts \in Nat
      BY <1>1, TdqAssumption DEF TdType
<1>5. new \in ExactRunQ
  <2> HIDE DEF rq, tkts, queue
  <2>. QED  BY <1>3, <1>4, CountInExact
<1>6. n \in Int
      BY <1>1 DEF GoodTdq, TdqType
<1>7. d \in TdType
  <2>1. s.td[t].pinned \in BOOLEAN /\ s.td[t].xferable \in BOOLEAN
        BY <1>1 DEF TdType
  <2> DEFINE x == s.td[t].xferable \/ xfer
  <2>2. x \in BOOLEAN
        BY <2>1
  <2>3. d = [s.td[t] EXCEPT !.state = "RUNQ", !.ts_runq = queue, !.rqindex = slot,
                            !.xferable = x, !.tickets = tkts]
        OBVIOUS
  <2> HIDE DEF x, tkts, queue, slot, d
  <2>. QED  BY <1>1, <1>2, <1>4, <2>2, <2>3 DEF TdType
<1> DEFINE q == [s.tdq EXCEPT !.runq[queue] = new, !.transferable = n]
<1>8. tdq_runq_add(s, t, how, nice) = [tdq |-> q, td |-> [s.td EXCEPT ![t] = d]]
      BY DEF tdq_runq_add
<1> HIDE DEF queue, new, n, d
<1>9. q \in GoodTdq
      BY <1>1, <1>2, <1>5, <1>6, QueueUpdate, Zenon
<1> HIDE DEF q
<1>. QED  BY <1>1, <1>7, <1>8, <1>9 DEF St

\* tdq_runq_rem: a draining removal index moves to the insert index at most.
LEMMA RemType ==
    ASSUME NEW s \in St, NEW t \in Threads
    PROVE  tdq_runq_rem(s, t) \in St
<1> DEFINE queue == s.td[t].ts_runq
           slot  == s.td[t].rqindex
           drain == queue = "timeshare" /\ s.tdq.idx # s.tdq.ridx
           rq    == runq_remove(s.tdq.runq[queue], t, slot)
           ridx  == IF drain THEN runq_remove_idx(s.tdq.runq[queue], t, slot, s.tdq.ridx)
                             ELSE s.tdq.ridx
           n     == IF s.td[t].xferable THEN s.tdq.transferable - 1 ELSE s.tdq.transferable
           d     == [s.td[t] EXCEPT !.xferable = FALSE]
<1>1. s.tdq \in GoodTdq /\ s.td \in [Threads -> TdType] /\ s.td[t] \in TdType
      BY DEF St
<1>2. queue \in Queues /\ slot \in Slots /\ d \in TdType
      BY <1>1 DEF TdType
<1>3. rq \in ExactRunQ
  <2>1. s.tdq.runq[queue] \in ExactRunQ
        BY <1>1, <1>2 DEF GoodTdq
  <2>. QED  BY <1>2, <2>1, RemoveExact
<1>4. ridx \in Slots /\ s.tdq.idx \in {ridx, (ridx + 1) % RQ_NQS}
  <2>1. s.tdq.ridx \in Slots /\ s.tdq.idx \in {s.tdq.ridx, (s.tdq.ridx + 1) % RQ_NQS}
        BY <1>1 DEF GoodTdq, TdqType
  <2>2. CASE ridx = s.tdq.ridx
        BY <2>1, <2>2
  <2>3. CASE ridx # s.tdq.ridx
    <3>1. drain /\ ridx = (s.tdq.ridx + 1) % RQ_NQS
          BY <2>3 DEF runq_remove_idx
    <3>2. ridx = s.tdq.idx
          BY <2>1, <3>1
    <3>3. s.tdq.idx \in Slots
          BY <1>1 DEF GoodTdq, TdqType
    <3> HIDE DEF ridx
    <3>. QED  BY <3>2, <3>3
  <2>. QED  BY <2>2, <2>3
<1>5. n \in Int
      BY <1>1 DEF GoodTdq, TdqType
<1> DEFINE q == [s.tdq EXCEPT !.runq[queue] = rq, !.ridx = ridx, !.transferable = n]
<1>6. tdq_runq_rem(s, t) = [tdq |-> q, td |-> [s.td EXCEPT ![t] = d]]
      BY DEF tdq_runq_rem
<1> HIDE DEF queue, rq, ridx, n, d
<1>7. q \in GoodTdq
  <2> DEFINE p == [s.tdq EXCEPT !.runq[queue] = rq, !.transferable = n]
  <2>1. p \in GoodTdq
        BY <1>1, <1>2, <1>3, <1>5, QueueUpdate, Zenon
  <2>2. q = [p EXCEPT !.ridx = ridx]
        BY <1>1 DEF GoodTdq, TdqType
  <2>3. p.idx = s.tdq.idx
        BY <1>1 DEF GoodTdq, TdqType
  <2> HIDE DEF p
  <2>. QED  BY <1>4, <2>1, <2>2, <2>3 DEF GoodTdq, TdqType
<1> HIDE DEF q
<1>. QED  BY <1>1, <1>2, <1>6, <1>7 DEF St

LEMMA LoadType ==
    ASSUME NEW s \in St, NEW t
    PROVE  tdq_load_add(s, t) \in St /\ tdq_load_rem(s, t) \in St
<1>1. s.tdq \in GoodTdq /\ s.tdq.load \in Int /\ s.tdq.sysload \in Int
      BY DEF St, GoodTdq, TdqType
<1>2. ASSUME NEW load \in Int, NEW sysload \in Int
      PROVE  [s EXCEPT !.tdq.load = load, !.tdq.sysload = sysload] \in St
  <2> DEFINE q == [s.tdq EXCEPT !.load = load, !.sysload = sysload]
  <2>1. q \in GoodTdq
        BY <1>1 DEF GoodTdq, TdqType
  <2>2. [s EXCEPT !.tdq.load = load, !.tdq.sysload = sysload] = [s EXCEPT !.tdq = q]
        BY DEF St
  <2> HIDE DEF q
  <2>. QED  BY <2>1, <2>2 DEF St
<1>3. SysLoadOf(t) \in Int
      BY DEF SysLoadOf
<1>4. /\ s.tdq.load + 1 \in Int /\ s.tdq.sysload + SysLoadOf(t) \in Int
      /\ s.tdq.load - 1 \in Int /\ s.tdq.sysload - SysLoadOf(t) \in Int
      BY <1>1, <1>3
<1>. QED  BY <1>2, <1>4, Zenon DEF tdq_load_add, tdq_load_rem

LEMMA LowpriType ==
    ASSUME NEW s \in St, NEW pri \in 0 .. PRI_MAX_IDLE
    PROVE  [s EXCEPT !.tdq.lowpri = pri] \in St
<1> DEFINE q == [s.tdq EXCEPT !.lowpri = pri]
<1>1. q \in GoodTdq
      BY DEF St, GoodTdq, TdqType
<1>2. [s EXCEPT !.tdq.lowpri = pri] = [s EXCEPT !.tdq = q]
      BY DEF St
<1> HIDE DEF q
<1>. QED  BY <1>1, <1>2 DEF St

\* tdq_add.
LEMMA TdqAddType ==
    ASSUME NEW s \in St, NEW t \in Threads, NEW how, NEW nice \in NiceValues
    PROVE  tdq_add(s, t, how, nice) \in St
<1> DEFINE pri == IF s.td[t].priority < s.tdq.lowpri THEN s.td[t].priority ELSE s.tdq.lowpri
           low == [s EXCEPT !.tdq.lowpri = pri]
<1>1. pri \in 0 .. PRI_MAX_IDLE
      BY DEF St, GoodTdq, TdqType, TdType
<1>2. low \in St
  <2> HIDE DEF pri
  <2>. QED  BY <1>1, LowpriType
<1>3. tdq_add(s, t, how, nice) = tdq_load_add(tdq_runq_add(low, t, how, nice), t)
      BY DEF tdq_add
<1> HIDE DEF low
<1>. QED  BY <1>2, <1>3, AddType, LoadType

\* The fields a step writes alone.
LEMMA IpiType ==
    ASSUME NEW s \in St, NEW ipi \in BOOLEAN
    PROVE  [s EXCEPT !.tdq.ipipending = ipi] \in St
<1> DEFINE q == [s.tdq EXCEPT !.ipipending = ipi]
<1>1. q \in GoodTdq
      BY DEF St, GoodTdq, TdqType
<1>2. [s EXCEPT !.tdq.ipipending = ipi] = [s EXCEPT !.tdq = q]
      OBVIOUS
<1> HIDE DEF q
<1>. QED  BY <1>1, <1>2 DEF St

LEMMA FieldTypes ==
    ASSUME NEW s \in St, NEW t \in Threads
    PROVE  /\ \A d \in TdType : [s EXCEPT !.td[t] = d] \in St
           /\ \A pri \in 0 .. PRI_MAX_IDLE : [s EXCEPT !.td[t].priority = pri] \in St
           /\ \A state \in {"OFF", "RUNQ", "RUNNING"} : [s EXCEPT !.td[t].state = state] \in St
           /\ \A ipi \in BOOLEAN : [s EXCEPT !.tdq.ipipending = ipi] \in St
<1>1. s.tdq \in GoodTdq /\ s.td \in [Threads -> TdType] /\ s.td[t] \in TdType
      BY DEF St
<1>2. ASSUME NEW d \in TdType PROVE [s EXCEPT !.td[t] = d] \in St
      BY DEF St
<1>3. ASSUME NEW pri \in 0 .. PRI_MAX_IDLE PROVE [s EXCEPT !.td[t].priority = pri] \in St
  <2> DEFINE d == [s.td[t] EXCEPT !.priority = pri]
  <2>1. d \in TdType
        BY <1>1 DEF TdType
  <2>2. [s EXCEPT !.td[t].priority = pri] = [s EXCEPT !.td[t] = d]
        OBVIOUS
  <2> HIDE DEF d
  <2>. QED  BY <1>2, <2>1, <2>2
<1>4. ASSUME NEW state \in {"OFF", "RUNQ", "RUNNING"} PROVE [s EXCEPT !.td[t].state = state] \in St
  <2> DEFINE d == [s.td[t] EXCEPT !.state = state]
  <2>1. d \in TdType
        BY <1>1 DEF TdType
  <2>2. [s EXCEPT !.td[t].state = state] = [s EXCEPT !.td[t] = d]
        OBVIOUS
  <2> HIDE DEF d
  <2>. QED  BY <1>2, <2>1, <2>2
<1>. QED  BY <1>2, <1>3, <1>4, IpiType

LEMMA PriorityType ==
    ASSUME NEW s \in St, NEW ctd \in Threads \cup {IdleThread}
    PROVE  PriorityOf(s, ctd) \in 0 .. PRI_MAX_IDLE
<1>1. CASE ctd = IdleThread
      BY <1>1, TdqAssumption DEF PriorityOf
<1>2. CASE ctd # IdleThread
      BY <1>2 DEF PriorityOf, St, TdType
<1>. QED  BY <1>1, <1>2

-----------------------------------------------------------------------------
(* tdq_choose and what rests on it *)

LEMMA TdqChooseType ==
    ASSUME NEW s \in St, NEW r
    PROVE  /\ tdq_choose(s, r) \in Threads \cup {NULL}
           /\ LotteryChoice(s, r) \in Threads \cup {NULL}
<1>1. s.tdq.runq \in [Queues -> ExactRunQ] /\ s.tdq.ridx \in Slots /\ 0 \in Slots
      BY SlotsClosed DEF St, GoodTdq, TdqType
<1>2. /\ s.tdq.runq["realtime"] \in ExactRunQ /\ s.tdq.runq["timeshare"] \in ExactRunQ
      /\ s.tdq.runq["lottery"] \in RunQ /\ s.tdq.runq["idle"] \in ExactRunQ
      BY <1>1 DEF Queues, ExactRunQ
<1>3. RealtimeChoice(s) \in Threads \cup {NULL} /\ IdleChoice(s) \in Threads \cup {NULL}
      BY <1>1, <1>2, ChooseType DEF RealtimeChoice, IdleChoice, runq_choose
<1>4. TimeshareChoice(s) \in Threads \cup {NULL}
      BY <1>1, <1>2, ChooseType DEF TimeshareChoice
<1>5. LotteryChoice(s, r) \in Threads \cup {NULL}
      BY <1>2, LotteryType DEF LotteryChoice
<1>6. \/ tdq_choose(s, r) = RealtimeChoice(s) \/ tdq_choose(s, r) = TimeshareChoice(s)
      \/ tdq_choose(s, r) = LotteryChoice(s, r) \/ tdq_choose(s, r) = IdleChoice(s)
      BY DEF tdq_choose, ReachesLottery
<1>. QED  BY <1>3, <1>4, <1>5, <1>6

\* tdq_choose writes the lottery counters only.
LEMMA AfterChoiceType ==
    ASSUME NEW s \in St, NEW r
    PROVE  AfterChoice(s, r) \in St /\ AfterChoice(s, r).td = s.td
<1>1. CASE LotteryChoice(s, r) \notin Threads
  <2>1. LotteryChoice(s, r) = NULL
        BY <1>1, TdqChooseType
  <2>. QED  BY <2>1 DEF AfterChoice
<1>2. CASE LotteryChoice(s, r) \in Threads
  <2> DEFINE t  == LotteryChoice(s, r)
             rq == LotteryDiscount(s.tdq.runq["lottery"], Tickets(s), t)
             z  == IF rq.total_proc = 0 THEN [rq EXCEPT !.max_tickets = 0, !.min_tickets = 0]
                                        ELSE rq
             q  == [s.tdq EXCEPT !.runq["lottery"] = z]
  <2>1. s.tdq \in GoodTdq /\ s.tdq.runq["lottery"] \in ExactRunQ /\ s.tdq.transferable \in Int
        BY DEF St, GoodTdq, TdqType, Queues
  <2>2. Tickets(s) \in [Threads -> Nat]
        BY DEF Tickets, St, TdType
  <2>3. rq \in ExactRunQ
        BY <1>2, <2>1, <2>2, DiscountExact
  <2>4. z \in ExactRunQ
    <3> HIDE DEF rq
    <3>. QED  BY <2>3 DEF ExactRunQ, RunQ
  <2>5. q \in GoodTdq
    <3> HIDE DEF z
    <3> DEFINE n == s.tdq.transferable
               p == [s.tdq EXCEPT !.runq["lottery"] = z, !.transferable = n]
    <3>1. "lottery" \in Queues
          BY DEF Queues
    <3>2. p \in GoodTdq
      <4> HIDE DEF n
      <4>1. n \in Int
            BY <2>1 DEF n
      <4>. QED  BY <2>1, <2>4, <3>1, <4>1, QueueUpdate, Zenon
    <3>3. p = q
          BY <2>1 DEF GoodTdq, TdqType
    <3>. QED  BY <3>2, <3>3
  <2>6. LotteryDrawn(s, t) = [s EXCEPT !.tdq = q]
        BY DEF LotteryDrawn
  <2> HIDE DEF q
  <2>7. LotteryDrawn(s, t) \in St /\ LotteryDrawn(s, t).td = s.td
        BY <2>5, <2>6 DEF St
  <2>. QED  BY <2>7 DEF AfterChoice
<1>. QED  BY <1>1, <1>2

LEMMA SetlowpriType ==
    ASSUME NEW s \in St, NEW ctd \in Threads \cup {IdleThread}, NEW r
    PROVE  tdq_setlowpri(s, ctd, r) \in St
<1> DEFINE a   == AfterChoice(s, r)
           t   == tdq_choose(s, r)
           pri == IF t = NULL \/ s.td[t].priority > PriorityOf(s, ctd)
                  THEN PriorityOf(s, ctd) ELSE s.td[t].priority
<1>1. pri \in 0 .. PRI_MAX_IDLE
  <2>1. t \in Threads => s.td[t].priority \in 0 .. PRI_MAX_IDLE
        BY DEF St, TdType
  <2>. QED  BY <2>1, PriorityType, TdqChooseType
<1>2. a \in St
      BY AfterChoiceType
<1>3. tdq_setlowpri(s, ctd, r) = [a EXCEPT !.tdq.lowpri = pri]
      BY DEF tdq_setlowpri
<1> HIDE DEF a, pri
<1>. QED  BY <1>1, <1>2, <1>3, LowpriType

\* choosethread: the chosen thread leaves its queue and runs.
LEMMA ChoosethreadType ==
    ASSUME NEW s \in St, NEW r
    PROVE  /\ choosethread(s, r) \in St
           /\ ChosenThread(s, r) \in Threads \cup {IdleThread}
<1> DEFINE a   == AfterChoice(s, r)
           t   == ChosenThread(s, r)
           off == tdq_runq_rem(a, t)
           low == [off EXCEPT !.tdq.lowpri = s.td[t].priority]
<1>1. a \in St
      BY AfterChoiceType
<1>2. t \in Threads \cup {IdleThread}
      BY TdqChooseType DEF ChosenThread
<1>3. CASE t = IdleThread
  <2>1. choosethread(s, r) = [a EXCEPT !.tdq.lowpri = PRI_MAX_IDLE]
        BY <1>3 DEF choosethread
  <2>2. PRI_MAX_IDLE \in 0 .. PRI_MAX_IDLE
        BY TdqAssumption
  <2> HIDE DEF a
  <2>. QED  BY <1>1, <1>2, <2>1, <2>2, LowpriType
<1>4. CASE t # IdleThread
  <2>1. t \in Threads
        BY <1>2, <1>4
  <2>2. off \in St
    <3> HIDE DEF a, t
    <3>. QED  BY <1>1, <2>1, RemType
  <2>3. s.td[t].priority \in 0 .. PRI_MAX_IDLE
        BY <2>1 DEF St, TdType
  <2>4. low \in St
    <3> HIDE DEF off, t
    <3>. QED  BY <2>2, <2>3, LowpriType
  <2>5. [low EXCEPT !.td[t].state = "RUNNING"] \in St
    <3> HIDE DEF low, t
    <3>. QED  BY <2>1, <2>4, FieldTypes
  <2>6. choosethread(s, r) = [low EXCEPT !.td[t].state = "RUNNING"]
        BY <1>4 DEF choosethread
  <2>. QED  BY <1>2, <2>5, <2>6
<1>. QED  BY <1>3, <1>4

LEMMA SchedRemType ==
    ASSUME NEW s \in St, NEW t \in Threads, NEW r, curthread \in Threads \cup {IdleThread}
    PROVE  sched_rem(s, t, r) \in St
<1>1. Removed(s, t) \in St
  <2> DEFINE u == tdq_load_rem(tdq_runq_rem(s, t), t)
  <2>1. u \in St
        BY RemType, LoadType
  <2>2. Removed(s, t) = [u EXCEPT !.td[t].state = "OFF"]
        BY DEF Removed
  <2> HIDE DEF u
  <2>. QED  BY <2>1, <2>2, FieldTypes
<1>2. tdq_setlowpri(Removed(s, t), curthread, r) \in St
      BY <1>1, SetlowpriType
<1>. QED  BY <1>1, <1>2 DEF sched_rem

-----------------------------------------------------------------------------
(* Parts of steps *)

\* Put stores a state of St; with the other variables typed, IInv holds again.
LEMMA PutIInv ==
    ASSUME NEW s \in St, Put(s),
           curthread' \in Threads \cup {IdleThread},
           flags' \subseteq {"NEEDRESCHED", "SLICEEND", "OWEPREEMPT"},
           window' \in {"none", "migrate", "trysteal"}, panicked' \in BOOLEAN
    PROVE  IInv'
<1>1. tdq' = s.tdq /\ td' = s.td
      BY DEF Put
<1>2. s.tdq \in GoodTdq /\ s.tdq \in TdqType /\ s.td \in [Threads -> TdType]
      BY DEF St, GoodTdq
<1>. QED  BY <1>1, <1>2 DEF IInv, TypeOK, Here, St

LEMMA PanicIInv == IInv /\ Panic => IInv'
BY DEF IInv, TypeOK, Here, Panic

LEMMA ChooseIInv ==
    ASSUME NEW s \in St, IInv, Choose(s)
    PROVE  IInv'
<1>1. PICK r \in Randoms : SwitchTo(s, r) \/ (tdq_choose_panics(s, r) /\ Panic)
      BY DEF Choose
<1>2. CASE SwitchTo(s, r)
  <2>1. choosethread(s, r) \in St /\ ChosenThread(s, r) \in Threads \cup {IdleThread}
        BY ChoosethreadType
  <2>. QED  BY <1>2, <2>1, PutIInv DEF SwitchTo, IInv, TypeOK
<1>3. CASE Panic
      BY <1>3, PanicIInv
<1>. QED  BY <1>1, <1>2, <1>3

\* sched_slice_min is a fraction of the quantum, and a thread is charged less
\* than a quantum, or all of it where that fraction is nothing.
LEMMA QuantumFacts ==
    /\ sched_slice_min \in 0 .. sched_slice
    /\ UsedTicks \subseteq Nat /\ 0 \in UsedTicks
    /\ \A n \in Nat : n < sched_slice => n \in UsedTicks
    /\ \A n \in UsedTicks : n < sched_slice \/ (n = sched_slice /\ sched_slice_min = 0)
<1>1. sched_slice \in Nat \ {0} /\ SLICE_MIN_DIVISOR \in Nat \ {0}
      BY TdqAssumption
<1>2. sched_slice_min \in Nat /\ sched_slice_min <= sched_slice
      BY <1>1, Quotient DEF sched_slice_min
<1>. QED  BY <1>1, <1>2 DEF UsedTicks

\* The thread that arrives may bring any priority, pin and used ticks.
LEMMA ArrivalsType ==
    ASSUME IInv, NEW t \in Threads, NEW how, NEW s \in Arrivals(t, how)
    PROVE  s \in St
<1>1. PICK pri \in Prios, pin \in BOOLEAN, slice \in UsedTicks, nice \in NiceValues :
          s = tdq_add(Arriving(t, pri, pin, slice), t, how, nice)
      BY DEF Arrivals
<1> DEFINE d == [OffThread EXCEPT !.priority = pri, !.pinned = pin, !.slice = slice]
<1>2. d \in TdType
  <2>1. pri \in 0 .. PRI_MAX_IDLE /\ slice \in Nat
        BY TdqAssumption, QuantumFacts
  <2>. QED  BY <2>1, OffType DEF TdType
<1>3. Arriving(t, pri, pin, slice) = [Here EXCEPT !.td[t] = d]
      BY DEF Arriving
<1> HIDE DEF d
<1>4. Arriving(t, pri, pin, slice) \in St
  <2>1. Here \in St
        BY DEF IInv
  <2>2. [Here EXCEPT !.td[t] = d] \in St
        BY <1>2, <2>1 DEF St
  <2>. QED  BY <1>3, <2>2
<1>. QED  BY <1>1, <1>4, TdqAddType

-----------------------------------------------------------------------------
(* Threads come and go *)

LEMMA SetpreemptType ==
    ASSUME NEW pri, NEW cpri, NEW inhibited
    PROVE  sched_setpreempt(pri, cpri, inhibited) \subseteq {"NEEDRESCHED", "OWEPREEMPT"}
BY DEF sched_setpreempt

LEMMA NotifyType ==
    ASSUME NEW s \in St, NEW t, NEW ipi \in NotifyOutcomes(s, t)
    PROVE  ipi \in BOOLEAN
<1>1. s.tdq.ipipending \in BOOLEAN
      BY DEF St, GoodTdq, TdqType
<1> DEFINE wants == ~s.tdq.ipipending
                    /\ sched_shouldpreempt(s.td[t].priority, PriorityOf(s, curthread), TRUE)
<1>2. NotifyOutcomes(s, t) \in {{s.tdq.ipipending}, {TRUE, FALSE}, {TRUE}}
  <2> HIDE DEF wants
  <2>. QED  BY DEF NotifyOutcomes, wants
<1>. QED  BY <1>1, <1>2

LEMMA SchedAddStep == ASSUME IInv, NEW t \in Threads, SchedAdd(t) PROVE IInv'
<1>1. PICK s \in Arrivals(t, "BORING"), inhibited \in BOOLEAN :
          /\ Put(s)
          /\ flags' = flags \cup sched_setpreempt(s.td[t].priority,
                                     PriorityOf(s, curthread), inhibited)
      BY DEF SchedAdd
<1>2. flags' \subseteq {"NEEDRESCHED", "SLICEEND", "OWEPREEMPT"}
      BY <1>1, SetpreemptType DEF IInv, TypeOK
<1>. QED  BY <1>1, <1>2, ArrivalsType, PutIInv DEF SchedAdd, IInv, TypeOK

LEMMA NotifiedType ==
    ASSUME NEW s \in St, NEW t \in Threads, NEW ipi \in NotifyOutcomes(s, t),
           NEW u, u = [s EXCEPT !.tdq.ipipending = ipi]
    PROVE  u \in St
<1>1. ipi \in BOOLEAN
      BY NotifyType
<1>2. [s EXCEPT !.tdq.ipipending = ipi] \in St
      BY <1>1, FieldTypes
<1>. QED  BY <1>2

LEMMA RemoteAddStep == ASSUME IInv, NEW t \in Threads, RemoteAdd(t) PROVE IInv'
<1>1. PICK how \in {"BORING", "YIELDING", "PREEMPTED"} :
          \E s \in Arrivals(t, how) : \E ipi \in NotifyOutcomes(s, t) :
             Put([s EXCEPT !.tdq.ipipending = ipi])
      BY DEF RemoteAdd
<1>2. PICK s \in Arrivals(t, how) : \E ipi \in NotifyOutcomes(s, t) :
             Put([s EXCEPT !.tdq.ipipending = ipi])
      BY <1>1
<1>3. PICK ipi \in NotifyOutcomes(s, t) : Put([s EXCEPT !.tdq.ipipending = ipi])
      BY <1>2
<1>4. s \in St
      BY ArrivalsType
<1> DEFINE u == [s EXCEPT !.tdq.ipipending = ipi]
<1>5. u \in St
  <2>1. s \in St /\ ipi \in NotifyOutcomes(s, t) /\ u = [s EXCEPT !.tdq.ipipending = ipi]
        BY <1>4
  <2> HIDE DEF u
  <2>. QED  BY <2>1, NotifiedType
<1>6. Put(u)
      BY <1>3
<1> HIDE DEF u
<1>. QED  BY <1>5, <1>6, PutIInv DEF RemoteAdd, IInv, TypeOK

LEMMA MoveInStep == ASSUME IInv, NEW t \in Threads, MoveIn(t) PROVE IInv'
BY ArrivalsType, PutIInv DEF MoveIn, IInv, TypeOK

LEMMA IdleStealStep == ASSUME IInv, NEW t \in Threads, IdleSteal(t) PROVE IInv'
BY ArrivalsType, ChooseIInv DEF IdleSteal

LEMMA StealOutStep == ASSUME IInv, StealOut PROVE IInv'
<1>1. PICK allowed \in SUBSET Threads, r \in Randoms, t \in Queued :
          \/ /\ tdq' = sched_rem(Here, t, r).tdq
             /\ td' = [td EXCEPT ![t] = OffThread]
             /\ UNCHANGED <<curthread, flags, window, panicked>>
          \/ Panic
      BY DEF StealOut
<1>2. CASE Panic
      BY <1>2, PanicIInv
<1>3. CASE /\ tdq' = sched_rem(Here, t, r).tdq
           /\ td' = [td EXCEPT ![t] = OffThread]
           /\ UNCHANGED <<curthread, flags, window, panicked>>
  <2>1. sched_rem(Here, t, r) \in St
        BY SchedRemType DEF IInv, TypeOK, Queued
  <2>2. tdq' \in GoodTdq /\ tdq' \in TdqType
        BY <1>3, <2>1 DEF St, GoodTdq
  <2>3. td' \in [Threads -> TdType]
        BY <1>3, OffType DEF IInv, TypeOK
  <2>. QED  BY <1>3, <2>2, <2>3 DEF IInv, TypeOK, Here, St
<1>. QED  BY <1>1, <1>2, <1>3

-----------------------------------------------------------------------------
(* curthread gives up the processor *)

LEMMA SwitchOutStep == ASSUME IInv, NEW preempt, SwitchOut(preempt) PROVE IInv'
<1> DEFINE how == IF preempt /\ "SLICEEND" \notin flags THEN "PREEMPTED" ELSE "YIELDING"
<1>1. PICK nice \in NiceValues : Choose(tdq_runq_add(Here, curthread, how, nice))
      BY DEF SwitchOut
<1> HIDE DEF how
<1>2. Here \in St /\ curthread \in Threads
      BY DEF IInv, SwitchOut
<1>3. tdq_runq_add(Here, curthread, how, nice) \in St
      BY <1>2, AddType
<1>. QED  BY <1>1, <1>3, ChooseIInv

LEMMA IdleSwitchStep == ASSUME IInv, IdleSwitch PROVE IInv'
<1>1. Here \in St
      BY DEF IInv
<1>. QED  BY <1>1, ChooseIInv DEF IdleSwitch

LEMMA SchedPreemptStep == ASSUME IInv, SchedPreempt PROVE IInv'
<1> DEFINE s == [Here EXCEPT !.tdq.ipipending = FALSE]
<1>1. s \in St
  <2>1. Here \in St /\ Here.tdq \in GoodTdq
        BY DEF IInv, St
  <2> DEFINE q == [Here.tdq EXCEPT !.ipipending = FALSE]
  <2>2. q \in GoodTdq
        BY <2>1 DEF GoodTdq, TdqType
  <2>3. s = [Here EXCEPT !.tdq = q]
        BY DEF Here
  <2> HIDE DEF q, s
  <2>. QED  BY <2>1, <2>2, <2>3 DEF St
<1>2. \/ Put(s) /\ UNCHANGED <<curthread, flags, window, panicked>>
      \/ /\ Put(s) /\ flags' = flags \cup {"OWEPREEMPT"}
         /\ UNCHANGED <<curthread, window, panicked>>
      \/ Choose(s)
      \/ /\ curthread # IdleThread
         /\ \E nice \in NiceValues :
               Choose(tdq_runq_add(s, curthread,
                   IF "SLICEEND" \in flags THEN "YIELDING" ELSE "PREEMPTED", nice))
  <2> HIDE DEF s
  <2>. QED  BY DEF SchedPreempt, s
<1> HIDE DEF s
<1>3. CASE Put(s) /\ UNCHANGED <<curthread, flags, window, panicked>>
      BY <1>1, <1>3, PutIInv DEF IInv, TypeOK
<1>4. CASE /\ Put(s) /\ flags' = flags \cup {"OWEPREEMPT"}
           /\ UNCHANGED <<curthread, window, panicked>>
      BY <1>1, <1>4, PutIInv DEF IInv, TypeOK
<1>5. CASE Choose(s)
      BY <1>1, <1>5, ChooseIInv
<1>6. CASE /\ curthread # IdleThread
           /\ \E nice \in NiceValues :
                 Choose(tdq_runq_add(s, curthread,
                     IF "SLICEEND" \in flags THEN "YIELDING" ELSE "PREEMPTED", nice))
  <2> DEFINE how == IF "SLICEEND" \in flags THEN "YIELDING" ELSE "PREEMPTED"
  <2>1. PICK nice \in NiceValues : Choose(tdq_runq_add(s, curthread, how, nice))
        BY <1>6
  <2>2. curthread \in Threads
        BY <1>6 DEF IInv, TypeOK
  <2> HIDE DEF how
  <2>3. tdq_runq_add(s, curthread, how, nice) \in St
        BY <1>1, <2>2, AddType
  <2>. QED  BY <2>1, <2>3, ChooseIInv
<1>. QED  BY <1>2, <1>3, <1>4, <1>5, <1>6

LEMMA LeavingType ==
    ASSUME IInv, curthread \in Threads
    PROVE  Leaving \in St
<1> DEFINE u == tdq_load_rem(Here, curthread)
           d == [OffThread EXCEPT !.priority = td[curthread].priority]
<1>1. u \in St
      BY LoadType DEF IInv
<1>2. d \in TdType
  <2>1. td[curthread].priority \in 0 .. PRI_MAX_IDLE
        BY DEF IInv, TypeOK, TdType
  <2>. QED  BY <2>1, OffType DEF TdType
<1>3. Leaving = [u EXCEPT !.td[curthread] = d]
      BY DEF Leaving
<1> HIDE DEF u, d
<1>. QED  BY <1>1, <1>2, <1>3 DEF St

LEMMA GoneType == ASSUME NEW s \in St PROVE Gone(s) \in St
BY OffType DEF Gone, St

LEMMA SleepStep == ASSUME IInv, Sleep PROVE IInv'
<1>1. Leaving \in St /\ Gone(Leaving) \in St
      BY LeavingType, GoneType DEF Sleep
<1>2. CASE Choose(Gone(Leaving))
      BY <1>1, <1>2, ChooseIInv
<1>3. CASE /\ Put(Leaving) /\ flags' = {} /\ window' = "trysteal"
           /\ UNCHANGED <<curthread, panicked>>
      BY <1>1, <1>3, PutIInv DEF IInv, TypeOK
<1>. QED  BY <1>2, <1>3 DEF Sleep

LEMMA ExitStep == ASSUME IInv, Exit PROVE IInv'
BY LeavingType, GoneType, ChooseIInv DEF Exit

LEMMA SwitchMigrateStep == ASSUME IInv, SwitchMigrate PROVE IInv'
BY LeavingType, PutIInv DEF SwitchMigrate, IInv, TypeOK

LEMMA EndWindowStep == ASSUME IInv, EndWindow PROVE IInv'
<1>1. CASE Choose(Gone(Here))
      BY <1>1, GoneType, ChooseIInv DEF IInv
<1>2. CASE \E t \in Threads : \E s \in Arrivals(t, "YIELDING") : Choose(Gone(s))
  <2>1. PICK t \in Threads : \E s \in Arrivals(t, "YIELDING") : Choose(Gone(s))
        BY <1>2
  <2>2. PICK s \in Arrivals(t, "YIELDING") : Choose(Gone(s))
        BY <2>1
  <2>. QED  BY <2>2, ArrivalsType, GoneType, ChooseIInv
<1>. QED  BY <1>1, <1>2 DEF EndWindow

-----------------------------------------------------------------------------
(* Priorities, affinity and the clock *)

LEMMA HerePriority ==
    ASSUME IInv, NEW t \in Threads, NEW prio \in Prios
    PROVE  [Here EXCEPT !.td[t].priority = prio] \in St
<1>1. Here \in St /\ prio \in 0 .. PRI_MAX_IDLE
      BY TdqAssumption DEF IInv
<1>. QED  BY <1>1, FieldTypes

LEMMA RunningPriorityStep ==
    ASSUME IInv, NEW prio \in Prios, RunningPriority(prio)
    PROVE  IInv'
<1> DEFINE s == [Here EXCEPT !.td[curthread].priority = prio]
<1>1. s \in St /\ prio \in 0 .. PRI_MAX_IDLE
      BY HerePriority, TdqAssumption DEF RunningPriority
<1>2. \/ Put([s EXCEPT !.tdq.lowpri = prio]) /\ UNCHANGED panicked
      \/ Put(s) /\ UNCHANGED panicked
      \/ \E r \in Randoms : Put(tdq_setlowpri(s, curthread, r)) /\ UNCHANGED panicked
      \/ panicked' = TRUE /\ UNCHANGED <<tdq, td>>
  <2> HIDE DEF s
  <2>. QED  BY DEF RunningPriority, s
<1>3. UNCHANGED <<curthread, flags, window>>
      BY DEF RunningPriority
<1> HIDE DEF s
<1> DEFINE low == [s EXCEPT !.tdq.lowpri = prio]
<1>4. low \in St
      BY <1>1, LowpriType
<1>5. CASE Put(low) /\ UNCHANGED panicked
  <2> HIDE DEF low
  <2>. QED  BY <1>3, <1>4, <1>5, PutIInv DEF IInv, TypeOK
<1>6. CASE Put(s) /\ UNCHANGED panicked
      BY <1>1, <1>3, <1>6, PutIInv DEF IInv, TypeOK
<1>7. CASE \E r \in Randoms : Put(tdq_setlowpri(s, curthread, r)) /\ UNCHANGED panicked
      BY <1>1, <1>3, <1>7, SetlowpriType, PutIInv DEF IInv, TypeOK
<1>8. CASE panicked' = TRUE /\ UNCHANGED <<tdq, td>>
      BY <1>3, <1>8 DEF IInv, TypeOK, Here
<1>. QED  BY <1>2, <1>5, <1>6, <1>7, <1>8

LEMMA UserRetStep == ASSUME IInv, NEW prio \in Prios, UserRet(prio) PROVE IInv'
<1> DEFINE s == [Here EXCEPT !.td[curthread].priority = prio]
<1>1. s \in St
      BY HerePriority DEF UserRet
<1>2. PICK r \in Randoms :
          \/ /\ Put(tdq_setlowpri(s, curthread, r))
             /\ UNCHANGED <<curthread, flags, window, panicked>>
          \/ Panic
      BY DEF UserRet
<1> HIDE DEF s
<1>3. CASE /\ Put(tdq_setlowpri(s, curthread, r))
           /\ UNCHANGED <<curthread, flags, window, panicked>>
  <2>1. tdq_setlowpri(s, curthread, r) \in St
        BY <1>1, SetlowpriType DEF IInv, TypeOK
  <2>. QED  BY <1>3, <2>1, PutIInv DEF IInv, TypeOK
<1>4. CASE Panic
      BY <1>4, PanicIInv
<1>. QED  BY <1>2, <1>3, <1>4

LEMMA QueuedWorseStep ==
    ASSUME IInv, NEW t \in Threads, NEW prio \in Prios, QueuedWorse(t, prio)
    PROVE  IInv'
<1>1. [td EXCEPT ![t].priority = prio] \in [Threads -> TdType]
      BY TdqAssumption DEF IInv, TypeOK, TdType
<1>. QED  BY <1>1 DEF QueuedWorse, IInv, TypeOK, Here, St

LEMMA RequeueStep ==
    ASSUME IInv, NEW t \in Threads, NEW prio \in 0 .. PRI_MAX_IDLE, NEW how,
           Requeue(t, prio, how)
    PROVE  IInv'
<1> DEFINE S(r)    == [sched_rem(Here, t, r) EXCEPT !.td[t].priority = prio]
           A(r, n) == tdq_add(S(r), t, how, n)
<1>1. PICK r \in Randoms, nice \in NiceValues :
          \/ Panic
          \/ /\ UNCHANGED <<curthread, window, panicked>>
             /\ \/ /\ tdq' = S(r).tdq /\ td' = [td EXCEPT ![t] = OffThread]
                   /\ UNCHANGED flags
                \/ /\ Put(A(r, nice))
                   /\ \E inhibited \in BOOLEAN :
                         flags' = flags \cup sched_setpreempt(prio,
                                      PriorityOf(Here, curthread), inhibited)
                \/ /\ \E ipi \in NotifyOutcomes(A(r, nice), t) :
                         Put([A(r, nice) EXCEPT !.tdq.ipipending = ipi])
                   /\ UNCHANGED flags
      BY DEF Requeue
<1>2. S(r) \in St
  <2> DEFINE u == sched_rem(Here, t, r)
  <2>1. u \in St
        BY SchedRemType DEF IInv, TypeOK
  <2> HIDE DEF u
  <2>2. [u EXCEPT !.td[t].priority = prio] \in St
        BY <2>1, FieldTypes
  <2>. QED  BY <2>2 DEF u
<1>3. A(r, nice) \in St
  <2> HIDE DEF S
  <2>. QED  BY <1>2, TdqAddType
<1> HIDE DEF S, A
<1>4. CASE Panic
      BY <1>4, PanicIInv
<1>5. CASE /\ UNCHANGED <<curthread, window, panicked>>
           /\ tdq' = S(r).tdq /\ td' = [td EXCEPT ![t] = OffThread]
           /\ UNCHANGED flags
  <2>1. tdq' \in GoodTdq /\ tdq' \in TdqType
        BY <1>2, <1>5 DEF St, GoodTdq
  <2>2. td' \in [Threads -> TdType]
        BY <1>5, OffType DEF IInv, TypeOK
  <2>. QED  BY <1>5, <2>1, <2>2 DEF IInv, TypeOK, Here, St
<1>6. CASE /\ UNCHANGED <<curthread, window, panicked>>
           /\ Put(A(r, nice))
           /\ \E inhibited \in BOOLEAN :
                 flags' = flags \cup sched_setpreempt(prio,
                              PriorityOf(Here, curthread), inhibited)
  <2>1. flags' \subseteq {"NEEDRESCHED", "SLICEEND", "OWEPREEMPT"}
        BY <1>6, SetpreemptType DEF IInv, TypeOK
  <2>. QED  BY <1>3, <1>6, <2>1, PutIInv DEF IInv, TypeOK
<1>7. CASE /\ UNCHANGED <<curthread, window, panicked>>
           /\ \E ipi \in NotifyOutcomes(A(r, nice), t) :
                 Put([A(r, nice) EXCEPT !.tdq.ipipending = ipi])
           /\ UNCHANGED flags
  <2>1. PICK ipi \in NotifyOutcomes(A(r, nice), t) :
            Put([A(r, nice) EXCEPT !.tdq.ipipending = ipi])
        BY <1>7
  <2> DEFINE u == [A(r, nice) EXCEPT !.tdq.ipipending = ipi]
  <2>2. u \in St
    <3> DEFINE a == A(r, nice)
    <3>1. a \in St /\ ipi \in NotifyOutcomes(a, t) /\ u = [a EXCEPT !.tdq.ipipending = ipi]
          BY <1>3
    <3> HIDE DEF a, u
    <3>. QED  BY <3>1, NotifiedType
  <2>3. Put(u)
        BY <2>1
  <2> HIDE DEF u
  <2>. QED  BY <1>7, <2>2, <2>3, PutIInv DEF IInv, TypeOK
<1>. QED  BY <1>1, <1>4, <1>5, <1>6, <1>7

LEMMA AffinityRunningStep == ASSUME IInv, AffinityRunning PROVE IInv'
BY DEF AffinityRunning, IInv, TypeOK, Here

LEMMA PinStep == ASSUME IInv, Pin PROVE IInv'
<1>1. [td EXCEPT ![curthread].pinned = ~@] \in [Threads -> TdType]
  <2> DEFINE pin == ~td[curthread].pinned
  <2>1. pin \in BOOLEAN /\ td \in [Threads -> TdType]
        BY DEF IInv, TypeOK
  <2> HIDE DEF pin
  <2>2. [td EXCEPT ![curthread].pinned = pin] \in [Threads -> TdType]
        BY <2>1 DEF TdType
  <2>. QED  BY <2>2 DEF pin
<1>. QED  BY <1>1 DEF Pin, IInv, TypeOK, Here, St

\* sched_clock moves both indexes together, or leaves the removal index one
\* slot behind; it moves neither while they differ.
LEMMA ClockIndexesType ==
    ASSUME NEW q \in GoodTdq
    PROVE  [q EXCEPT !.idx = ClockIndexes(q).idx, !.ridx = ClockIndexes(q).ridx] \in GoodTdq
<1> DEFINE next == (q.idx + 1) % RQ_NQS
           idx  == ClockIndexes(q).idx
           ridx == ClockIndexes(q).ridx
<1>1. q.idx \in Slots /\ q.ridx \in Slots /\ q.idx \in {q.ridx, (q.ridx + 1) % RQ_NQS}
      BY DEF GoodTdq, TdqType
<1>2. next \in Slots
  <2>1. q.idx + 1 \in Int
        BY <1>1 DEF Slots
  <2>. QED  BY <2>1, SlotsClosed
<1>3. idx \in Slots /\ ridx \in Slots /\ idx \in {ridx, (ridx + 1) % RQ_NQS}
  <2>1. CASE q.idx # q.ridx
    <3>1. idx = q.idx /\ ridx = q.ridx
          BY <2>1 DEF ClockIndexes
    <3>. QED  BY <1>1, <3>1
  <2>2. CASE q.idx = q.ridx
    <3>1. idx = next /\ ridx \in {next, q.ridx}
      <4> HIDE DEF next
      <4>. QED  BY <2>2 DEF ClockIndexes, next
    <3>2. idx \in {ridx, (ridx + 1) % RQ_NQS}
          BY <2>2, <3>1
    <3>. QED  BY <1>1, <1>2, <3>1, <3>2
  <2>. QED  BY <2>1, <2>2
<1> HIDE DEF idx, ridx
<1>4. [q EXCEPT !.idx = idx, !.ridx = ridx] \in GoodTdq
      BY <1>3 DEF GoodTdq, TdqType
<1>. QED  BY <1>4 DEF idx, ridx

LEMMA SchedClockStep == ASSUME IInv, SchedClock PROVE IInv'
<1> DEFINE q == [tdq EXCEPT !.idx = ClockIndexes(tdq).idx, !.ridx = ClockIndexes(tdq).ridx]
           used == td[curthread].slice + 1
<1>1. tdq \in GoodTdq /\ td \in [Threads -> TdType]
      BY DEF IInv, Here, St
<1>2. tdq' = q /\ q \in GoodTdq
      BY <1>1, ClockIndexesType, Zenon DEF SchedClock
<1> HIDE DEF q
<1>3. \/ td' = td
      \/ /\ curthread \in Threads
         /\ \/ td' = [td EXCEPT ![curthread].slice = 0]
            \/ td' = [td EXCEPT ![curthread].slice = used]
  <2> HIDE DEF used
  <2>. QED  BY DEF SchedClock, used
<1>4. td' \in [Threads -> TdType]
  <2>1. curthread \in Threads => used \in Nat
        BY <1>1 DEF TdType
  <2> HIDE DEF used
  <2>. QED  BY <1>1, <1>3, <2>1 DEF TdType
<1>5. flags' \subseteq {"NEEDRESCHED", "SLICEEND", "OWEPREEMPT"}
      BY DEF SchedClock, IInv, TypeOK
<1>6. q \in TdqType
      BY <1>2 DEF GoodTdq
<1>. QED  BY <1>2, <1>4, <1>5, <1>6 DEF SchedClock, IInv, TypeOK, Here, St

-----------------------------------------------------------------------------
(* What the queues hold *)

QueueAt(s, queue, slot) == s.tdq.runq[queue].rq_queues[slot]

\* The thread queue as it is after a thread has been put on a queue: the rest
\* of it and the other threads are left alone.
Added(s, t, how, u) ==
    LET queue == QueueFor(t, s.td[t].priority)
        slot  == SlotFor(s.tdq, t, s.td[t].priority, how)
    IN  /\ \A x \in Queues, i \in Slots :
              QueueAt(u, x, i) =
                  IF x = queue /\ i = slot
                  THEN (IF how = "PREEMPTED" THEN <<t>> \o QueueAt(s, x, i)
                                             ELSE Append(QueueAt(s, x, i), t))
                  ELSE QueueAt(s, x, i)
        /\ u.td[t].state = "RUNQ" /\ u.td[t].ts_runq = queue /\ u.td[t].rqindex = slot
        /\ u.td[t].xferable = (s.td[t].xferable \/ ~s.td[t].pinned)
        /\ u.td[t].pinned = s.td[t].pinned /\ u.td[t].priority = s.td[t].priority
        /\ u.td[t].slice = s.td[t].slice
        /\ \A x \in Threads \ {t} : u.td[x] = s.td[x]
        /\ u.tdq.transferable = s.tdq.transferable + (IF s.td[t].pinned THEN 0 ELSE 1)
        /\ u.tdq.load = s.tdq.load /\ u.tdq.sysload = s.tdq.sysload
        /\ u.tdq.idx = s.tdq.idx /\ u.tdq.ridx = s.tdq.ridx

LEMMA AddResult ==
    ASSUME NEW s \in St, NEW t \in Threads, NEW how, NEW nice \in NiceValues
    PROVE  Added(s, t, how, tdq_runq_add(s, t, how, nice))
<1> DEFINE pri   == s.td[t].priority
           queue == QueueFor(t, pri)
           slot  == SlotFor(s.tdq, t, pri, how)
           old   == s.tdq.runq[queue]
           ins   == IF how = "PREEMPTED" THEN <<t>> \o old.rq_queues[slot]
                                         ELSE Append(old.rq_queues[slot], t)
           rq    == runq_add_pri(old, t, slot, how = "PREEMPTED")
           xfer  == ~s.td[t].pinned
           tkts  == IF queue = "lottery" THEN NICE_BASE + nice ELSE s.td[t].tickets
           new   == IF queue = "lottery" THEN LotteryCountIn(rq, tkts) ELSE rq
           n     == IF xfer THEN s.tdq.transferable + 1 ELSE s.tdq.transferable
           x     == s.td[t].xferable \/ xfer
           d     == [s.td[t] EXCEPT !.state = "RUNQ", !.ts_runq = queue, !.rqindex = slot,
                                    !.xferable = x, !.tickets = tkts]
           q     == [s.tdq EXCEPT !.runq = [@ EXCEPT ![queue] = new], !.transferable = n]
           u     == tdq_runq_add(s, t, how, nice)
<1>1. /\ s.tdq \in GoodTdq /\ s.tdq \in TdqType /\ s.td \in [Threads -> TdType]
      /\ s.td[t] \in TdType /\ s.tdq.runq \in [Queues -> ExactRunQ]
      /\ s.tdq.transferable \in Int
      BY DEF St, GoodTdq, TdqType
<1>2. queue \in Queues /\ slot \in Slots
  <2>1. pri \in 0 .. PRI_MAX_IDLE
        BY <1>1 DEF TdType
  <2>. QED  BY <1>1, <2>1, SlotForType
<1>3. u = [tdq |-> q, td |-> [s.td EXCEPT ![t] = d]]
      BY DEF tdq_runq_add
<1>4. old \in ExactRunQ /\ old.rq_queues \in [Slots -> Seq(Threads)]
      BY <1>1, <1>2 DEF ExactRunQ, RunQ
<1>5. new.rq_queues = [old.rq_queues EXCEPT ![slot] = ins]
  <2> HIDE DEF queue, slot, old, tkts
  <2>1. rq.rq_queues = [old.rq_queues EXCEPT ![slot] = ins]
        BY <1>4 DEF runq_add_pri, ExactRunQ, RunQ
  <2>3. LotteryCountIn(rq, tkts).rq_queues = rq.rq_queues
        BY <1>4 DEF LotteryCountIn, runq_add_pri, ExactRunQ, RunQ
  <2>. QED  BY <2>1, <2>3
<1>6. n = s.tdq.transferable + (IF s.td[t].pinned THEN 0 ELSE 1)
      BY <1>1
<1>7. /\ d.state = "RUNQ" /\ d.ts_runq = queue /\ d.rqindex = slot /\ d.xferable = x
      /\ d.pinned = s.td[t].pinned /\ d.priority = pri /\ d.slice = s.td[t].slice
  <2> HIDE DEF queue, slot, x, tkts
  <2>. QED  BY <1>1 DEF TdType
<1>8. /\ q.runq = [s.tdq.runq EXCEPT ![queue] = new] /\ q.transferable = n
      /\ q.load = s.tdq.load /\ q.sysload = s.tdq.sysload
      /\ q.idx = s.tdq.idx /\ q.ridx = s.tdq.ridx
  <2> HIDE DEF queue, new, n
  <2>. QED  BY <1>1 DEF TdqType
<1> HIDE DEF d, q, new, n
<1>9. u.tdq = q /\ u.td[t] = d /\ \A y \in Threads \ {t} : u.td[y] = s.td[y]
  <2> HIDE DEF u
  <2>. QED  BY <1>1, <1>3
<1>10. ASSUME NEW y \in Queues, NEW i \in Slots
       PROVE  QueueAt(u, y, i) = IF y = queue /\ i = slot THEN ins ELSE QueueAt(s, y, i)
  <2> HIDE DEF u, queue, slot, ins
  <2>1. QueueAt(u, y, i) = q.runq[y].rq_queues[i]
        BY <1>9 DEF QueueAt
  <2>2. CASE y = queue
    <3>1. QueueAt(u, y, i) = new.rq_queues[i]
          BY <1>1, <1>8, <2>1, <2>2
    <3>. QED  BY <1>4, <1>5, <2>2, <3>1 DEF QueueAt
  <2>3. CASE y # queue
        BY <1>1, <1>8, <2>1, <2>3 DEF QueueAt
  <2>. QED  BY <2>2, <2>3
<1>11. ASSUME NEW y \in Queues, NEW i \in Slots
       PROVE  QueueAt(u, y, i) =
                         IF y = queue /\ i = slot
                         THEN (IF how = "PREEMPTED" THEN <<t>> \o QueueAt(s, y, i)
                                                    ELSE Append(QueueAt(s, y, i), t))
                         ELSE QueueAt(s, y, i)
  <2> HIDE DEF u, queue, slot
  <2>. QED  BY <1>10 DEF QueueAt
<1> HIDE DEF u, queue, slot
<1>12. Added(s, t, how, u)
      BY <1>6, <1>7, <1>8, <1>9, <1>11 DEF Added, queue, slot
<1>. QED  BY <1>12 DEF u

\* tdq_runq_rem, and the state its caller gives the thread.
Off(s, t, state) == [tdq_runq_rem(s, t) EXCEPT !.td[t].state = state]

Taken(s, t, state, u) ==
    LET queue == s.td[t].ts_runq
        slot  == s.td[t].rqindex
    IN  /\ \A x \in Queues, i \in Slots :
              QueueAt(u, x, i) = IF x = queue /\ i = slot
                                 THEN RemoveFirst(QueueAt(s, x, i), t)
                                 ELSE QueueAt(s, x, i)
        /\ u.td[t].state = state /\ u.td[t].xferable = FALSE
        /\ u.td[t].pinned = s.td[t].pinned /\ u.td[t].priority = s.td[t].priority
        /\ u.td[t].slice = s.td[t].slice
        /\ \A x \in Threads \ {t} : u.td[x] = s.td[x]
        /\ u.tdq.transferable = s.tdq.transferable - (IF s.td[t].xferable THEN 1 ELSE 0)
        /\ u.tdq.load = s.tdq.load /\ u.tdq.sysload = s.tdq.sysload
        /\ u.tdq.idx = s.tdq.idx /\ u.tdq.ridx \in {s.tdq.ridx, s.tdq.idx}

LEMMA RemResult ==
    ASSUME NEW s \in St, NEW t \in Threads, NEW state \in {"OFF", "RUNNING"}
    PROVE  Off(s, t, state) \in St /\ Taken(s, t, state, Off(s, t, state))
<1> DEFINE queue == s.td[t].ts_runq
           slot  == s.td[t].rqindex
           old   == s.tdq.runq[queue]
           drain == queue = "timeshare" /\ s.tdq.idx # s.tdq.ridx
           rest  == RemoveFirst(old.rq_queues[slot], t)
           rq    == runq_remove(old, t, slot)
           ridx  == IF drain THEN runq_remove_idx(old, t, slot, s.tdq.ridx) ELSE s.tdq.ridx
           n     == IF s.td[t].xferable THEN s.tdq.transferable - 1 ELSE s.tdq.transferable
           d     == [s.td[t] EXCEPT !.xferable = FALSE]
           e     == [d EXCEPT !.state = state]
           q     == [s.tdq EXCEPT !.runq = [@ EXCEPT ![queue] = rq], !.ridx = ridx,
                                  !.transferable = n]
           v     == tdq_runq_rem(s, t)
           u     == Off(s, t, state)
<1>1. /\ s.tdq \in GoodTdq /\ s.tdq \in TdqType /\ s.td \in [Threads -> TdType]
      /\ s.td[t] \in TdType /\ s.tdq.runq \in [Queues -> ExactRunQ]
      /\ s.tdq.transferable \in Int /\ queue \in Queues /\ slot \in Slots
      BY DEF St, GoodTdq, TdqType, TdType
<1>2. v = [tdq |-> q, td |-> [s.td EXCEPT ![t] = d]]
      BY DEF tdq_runq_rem
<1>3. old.rq_queues \in [Slots -> Seq(Threads)]
      BY <1>1 DEF ExactRunQ, RunQ
<1>4. rq.rq_queues = [old.rq_queues EXCEPT ![slot] = rest]
  <2> HIDE DEF queue, slot, old
  <2>1. old \in ExactRunQ
        BY <1>1 DEF old
  <2>. QED  BY <2>1 DEF runq_remove, ExactRunQ, RunQ
<1>5. n = s.tdq.transferable - (IF s.td[t].xferable THEN 1 ELSE 0)
      BY <1>1
<1>6. /\ e.state = state /\ e.xferable = FALSE
      /\ e.pinned = s.td[t].pinned /\ e.priority = s.td[t].priority /\ e.slice = s.td[t].slice
      BY <1>1 DEF TdType
<1>12. ridx \in {s.tdq.ridx, s.tdq.idx}
  <2>1. s.tdq.idx \in {s.tdq.ridx, (s.tdq.ridx + 1) % RQ_NQS}
        BY <1>1 DEF GoodTdq
  <2> HIDE DEF queue, slot, old
  <2>. QED  BY <2>1 DEF runq_remove_idx
<1>7. /\ q.runq = [s.tdq.runq EXCEPT ![queue] = rq] /\ q.transferable = n
      /\ q.load = s.tdq.load /\ q.sysload = s.tdq.sysload /\ q.idx = s.tdq.idx
      /\ q.ridx = ridx
  <2> HIDE DEF queue, rq, ridx, n
  <2>. QED  BY <1>1 DEF TdqType
<1> HIDE DEF q, rq, n, ridx
<1>8. u = [tdq |-> q, td |-> [s.td EXCEPT ![t] = e]]
  <2>1. u = [v EXCEPT !.td[t].state = state]
        BY DEF Off
  <2> HIDE DEF u, v
  <2>. QED  BY <1>1, <1>2, <2>1
<1>9. u \in St
  <2>1. v \in St
        BY RemType
  <2>2. u = [v EXCEPT !.td[t].state = state]
        BY DEF Off
  <2> HIDE DEF u, v
  <2>. QED  BY <2>1, <2>2, FieldTypes
<1> HIDE DEF d, e
<1>10. u.tdq = q /\ u.td[t] = e /\ \A y \in Threads \ {t} : u.td[y] = s.td[y]
  <2> HIDE DEF u
  <2>. QED  BY <1>1, <1>8
<1>11. ASSUME NEW y \in Queues, NEW i \in Slots
       PROVE  QueueAt(u, y, i) = IF y = queue /\ i = slot
                                 THEN RemoveFirst(QueueAt(s, y, i), t)
                                 ELSE QueueAt(s, y, i)
  <2> HIDE DEF u, queue, slot, rest
  <2>1. QueueAt(u, y, i) = q.runq[y].rq_queues[i]
        BY <1>10 DEF QueueAt
  <2>2. CASE y = queue
    <3>1. QueueAt(u, y, i) = rq.rq_queues[i]
          BY <1>1, <1>7, <2>1, <2>2
    <3>. QED  BY <1>3, <1>4, <2>2, <3>1 DEF QueueAt, rest
  <2>3. CASE y # queue
        BY <1>1, <1>7, <2>1, <2>3 DEF QueueAt
  <2>. QED  BY <2>2, <2>3
<1> HIDE DEF u, queue, slot
<1>13. Taken(s, t, state, u)
      BY <1>5, <1>6, <1>7, <1>10, <1>11, <1>12 DEF Taken, queue, slot
<1>. QED  BY <1>9, <1>13 DEF u

-----------------------------------------------------------------------------
(* Queues, fields and counts agree *)

On(s)      == {t \in Threads : s.td[t].state # "OFF"}
Movable(s) == {t \in Threads : s.td[t].state = "RUNQ" /\ ~s.td[t].pinned}
Runners(s) == {t \in Threads : s.td[t].state = "RUNNING"}

\* A thread is once on the queue its fields name, and on no other.
Placed(s) ==
    /\ \A queue \in Queues, i \in Slots : IsInjective(QueueAt(s, queue, i))
    /\ \A t \in Threads, queue \in Queues, i \in Slots :
          t \in Range(QueueAt(s, queue, i)) <=>
              s.td[t].state = "RUNQ" /\ s.td[t].ts_runq = queue /\ s.td[t].rqindex = i

\* TSF_XFERABLE is set of the queued threads that are counted; a thread is
\* pinned only while it runs.
Transferred(s) ==
    /\ \A t \in Threads : s.td[t].xferable <=> t \in Movable(s)
    /\ s.tdq.transferable = Cardinality(Movable(s))

Fits(s) ==
    \A t \in Threads : s.td[t].state = "RUNQ" =>
        /\ s.td[t].ts_runq \in {"timeshare", "lottery"} => s.td[t].priority >= PRI_MIN_BATCH
        /\ s.td[t].ts_runq = "idle" => s.td[t].priority >= PRI_MIN_IDLE

Slices(s) == \A t \in Threads : s.td[t].slice \in UsedTicks

Sound(s) ==
    /\ s \in St /\ IsFiniteSet(On(s))
    /\ Placed(s) /\ Transferred(s) /\ Fits(s) /\ Slices(s)

\* The loads count the threads of a set, On(s) between two steps.
Loaded(s, on) ==
    s.tdq.load = Cardinality(on) /\ s.tdq.sysload = Cardinality(on \ NoLoad)

\* A step that leaves the queues and the threads alone.
LEMMA SameSound ==
    ASSUME NEW s, Sound(s), NEW u \in St,
           u.td = s.td, u.tdq.transferable = s.tdq.transferable,
           \A queue \in Queues, i \in Slots : QueueAt(u, queue, i) = QueueAt(s, queue, i)
    PROVE  Sound(u) /\ On(u) = On(s) /\ Runners(u) = Runners(s)
<1>1. On(u) = On(s) /\ Movable(u) = Movable(s) /\ Runners(u) = Runners(s)
      BY DEF On, Movable, Runners
<1>2. Placed(u)
      BY DEF Sound, Placed
<1>3. Transferred(u) /\ Fits(u) /\ Slices(u)
      BY <1>1 DEF Sound, Transferred, Fits, Slices
<1>. QED  BY <1>1, <1>2, <1>3 DEF Sound

\* A change of a thread that is not queued.
LEMMA EditSound ==
    ASSUME NEW s, Sound(s), NEW t \in Threads, s.td[t].state # "RUNQ",
           NEW u \in St, u.tdq = s.tdq,
           u.td[t].state # "RUNQ", u.td[t].state # s.td[t].state => u.td[t].state = "OFF",
           u.td[t].xferable = FALSE, u.td[t].slice \in UsedTicks,
           \A x \in Threads \ {t} : u.td[x] = s.td[x]
    PROVE  /\ Sound(u)
           /\ On(u) = IF u.td[t].state = "OFF" THEN On(s) \ {t} ELSE On(s)
           /\ Runners(u) = IF u.td[t].state = "OFF" THEN Runners(s) \ {t} ELSE Runners(s)
<1>1. On(u) = IF u.td[t].state = "OFF" THEN On(s) \ {t} ELSE On(s)
      BY DEF On
<1>2. Runners(u) = IF u.td[t].state = "OFF" THEN Runners(s) \ {t} ELSE Runners(s)
      BY DEF Runners
<1>3. Movable(u) = Movable(s) /\ t \notin Movable(u)
      BY DEF Movable
<1>4. IsFiniteSet(On(u))
      BY <1>1, FS_RemoveElement DEF Sound
<1>5. Placed(u)
  <2>1. \A queue \in Queues, i \in Slots : QueueAt(u, queue, i) = QueueAt(s, queue, i)
        BY DEF QueueAt
  <2>2. ASSUME NEW x \in Threads, NEW queue \in Queues, NEW i \in Slots
        PROVE  x \in Range(QueueAt(u, queue, i)) <=>
                  u.td[x].state = "RUNQ" /\ u.td[x].ts_runq = queue /\ u.td[x].rqindex = i
    <3>1. x \in Range(QueueAt(s, queue, i)) <=>
              s.td[x].state = "RUNQ" /\ s.td[x].ts_runq = queue /\ s.td[x].rqindex = i
          BY DEF Sound, Placed
    <3>. QED  BY <2>1, <3>1
  <2>. QED  BY <2>1, <2>2 DEF Sound, Placed
<1>6. Transferred(u)
      BY <1>3 DEF Sound, Transferred
<1>7. Fits(u) /\ Slices(u)
      BY DEF Sound, Fits, Slices
<1>. QED  BY <1>1, <1>2, <1>4, <1>5, <1>6, <1>7 DEF Sound

\* tdq_runq_add of a thread that is on no queue.
LEMMA AddSound ==
    ASSUME NEW s, Sound(s), NEW t \in Threads, s.td[t].state # "RUNQ",
           NEW how, NEW nice \in NiceValues
    PROVE  LET u == tdq_runq_add(s, t, how, nice)
           IN  Sound(u) /\ On(u) = On(s) \cup {t} /\ Runners(u) = Runners(s) \ {t}
<1> DEFINE u     == tdq_runq_add(s, t, how, nice)
           queue == QueueFor(t, s.td[t].priority)
           slot  == SlotFor(s.tdq, t, s.td[t].priority, how)
<1>0. s \in St /\ s.tdq \in GoodTdq /\ s.td \in [Threads -> TdType] /\ s.td[t] \in TdType
      BY DEF Sound, St
<1>a. Added(s, t, how, u)
      BY <1>0, AddResult
<1>1. /\ \A x \in Queues, i \in Slots :
            QueueAt(u, x, i) =
                         IF x = queue /\ i = slot
                         THEN (IF how = "PREEMPTED" THEN <<t>> \o QueueAt(s, x, i)
                                                    ELSE Append(QueueAt(s, x, i), t))
                         ELSE QueueAt(s, x, i)
      /\ u.td[t].state = "RUNQ" /\ u.td[t].ts_runq = queue /\ u.td[t].rqindex = slot
      /\ u.td[t].xferable = (s.td[t].xferable \/ ~s.td[t].pinned)
      /\ u.td[t].pinned = s.td[t].pinned /\ u.td[t].priority = s.td[t].priority
      /\ u.td[t].slice = s.td[t].slice
      /\ \A x \in Threads \ {t} : u.td[x] = s.td[x]
      /\ u.tdq.transferable = s.tdq.transferable + (IF s.td[t].pinned THEN 0 ELSE 1)
      BY <1>a DEF Added
<1>2. u \in St
      BY <1>0, AddType
<1>3. queue \in Queues /\ slot \in Slots
      BY <1>0, SlotForType DEF TdType
<1>4. u.td[t].priority \in 0 .. PRI_MAX_IDLE /\ u.td[t].pinned \in BOOLEAN
      BY <1>2 DEF St, TdType
<1>5. queue \in {"timeshare", "lottery"} => s.td[t].priority >= PRI_MIN_BATCH
      BY <1>0, TdqAssumption DEF QueueFor, TdType
<1>6. queue = "idle" => s.td[t].priority >= PRI_MIN_IDLE
      BY <1>0, TdqAssumption DEF QueueFor, TdType
<1> HIDE DEF u, queue, slot
<1>7. On(u) = On(s) \cup {t} /\ Runners(u) = Runners(s) \ {t}
      BY <1>1 DEF On, Runners
<1>8. IsFiniteSet(On(u))
      BY <1>7, FS_AddElement DEF Sound
<1>9. Placed(u)
  <2>1. \A x \in Queues, i \in Slots :
            QueueAt(s, x, i) \in Seq(Threads) /\ IsInjective(QueueAt(s, x, i))
    <3>1. \A x \in Queues, i \in Slots : QueueAt(s, x, i) \in Seq(Threads)
          BY <1>0 DEF QueueAt, GoodTdq, ExactRunQ, RunQ
    <3>. QED  BY <3>1 DEF Sound, Placed
  <2>2. \A x \in Queues, i \in Slots : t \notin Range(QueueAt(s, x, i))
        BY DEF Sound, Placed
  <2>3. ASSUME NEW x \in Queues, NEW i \in Slots
        PROVE  /\ IsInjective(QueueAt(u, x, i))
               /\ Range(QueueAt(u, x, i)) =
                      Range(QueueAt(s, x, i)) \cup (IF x = queue /\ i = slot THEN {t} ELSE {})
    <3>1. CASE x = queue /\ i = slot
      <4>1. \/ QueueAt(u, x, i) = <<t>> \o QueueAt(s, x, i)
            \/ QueueAt(u, x, i) = Append(QueueAt(s, x, i), t)
            BY <1>1, <3>1
      <4>2. QueueAt(s, x, i) \in Seq(Threads) /\ IsInjective(QueueAt(s, x, i))
            BY <2>1
      <4>3. t \notin Range(QueueAt(s, x, i))
            BY <2>2
      <4> DEFINE old == QueueAt(s, x, i)
      <4> HIDE DEF old
      <4>4. /\ Range(Append(old, t)) = Range(old) \cup {t}
            /\ Range(<<t>> \o old) = Range(old) \cup {t}
            /\ IsInjective(Append(old, t)) /\ IsInjective(<<t>> \o old)
            BY <4>2, <4>3, InsertContents DEF old
      <4>5. QueueAt(u, x, i) = <<t>> \o old \/ QueueAt(u, x, i) = Append(old, t)
            BY <4>1 DEF old
      <4>. QED  BY <3>1, <4>4, <4>5 DEF old
    <3>2. CASE ~(x = queue /\ i = slot)
      <4>1. QueueAt(u, x, i) = QueueAt(s, x, i)
            BY <1>1, <3>2
      <4>. QED  BY <2>1, <3>2, <4>1
    <3>. QED  BY <3>1, <3>2
  <2>4. ASSUME NEW y \in Threads, NEW x \in Queues, NEW i \in Slots
        PROVE  y \in Range(QueueAt(u, x, i)) <=>
                  u.td[y].state = "RUNQ" /\ u.td[y].ts_runq = x /\ u.td[y].rqindex = i
    <3>1. CASE y = t
          BY <1>1, <2>2, <2>3, <3>1
    <3>2. CASE y # t
      <4>1. y \in Range(QueueAt(s, x, i)) <=>
               s.td[y].state = "RUNQ" /\ s.td[y].ts_runq = x /\ s.td[y].rqindex = i
            BY DEF Sound, Placed
      <4>2. u.td[y] = s.td[y]
            BY <1>1, <3>2
      <4>. QED  BY <2>3, <3>2, <4>1, <4>2
    <3>. QED  BY <3>1, <3>2
  <2>. QED  BY <2>3, <2>4 DEF Placed
<1>10. Transferred(u)
  <2>1. s.td[t].xferable = FALSE /\ t \notin Movable(s)
        BY <1>0 DEF Sound, Transferred, Movable, TdType
  <2>2. u.td[t].xferable = ~u.td[t].pinned
        BY <1>1, <1>4, <2>1, Zenon
  <2>3. Movable(u) = IF u.td[t].pinned THEN Movable(s) ELSE Movable(s) \cup {t}
        BY <1>1, <2>1 DEF Movable
  <2>4. \A x \in Threads : u.td[x].xferable <=> x \in Movable(u)
    <3>1. u.td[t].xferable <=> t \in Movable(u)
          BY <2>1, <2>2, <2>3, Zenon
    <3>2. \A x \in Threads \ {t} : u.td[x].xferable <=> x \in Movable(u)
          BY <1>1, <2>3, Zenon DEF Sound, Transferred
    <3>. QED  BY <3>1, <3>2
  <2>5. IsFiniteSet(Movable(s))
    <3>1. Movable(s) \in SUBSET On(s)
          BY DEF Movable, On
    <3>. QED  BY <3>1, FS_Subset DEF Sound
  <2>6. u.tdq.transferable = Cardinality(Movable(u))
    <3>1. s.tdq.transferable = Cardinality(Movable(s)) /\ Cardinality(Movable(s)) \in Nat
          BY <2>5, FS_CardinalityType DEF Sound, Transferred
    <3>2. CASE u.td[t].pinned
          BY <1>1, <2>3, <3>1, <3>2
    <3>3. CASE ~u.td[t].pinned
      <4>1. Cardinality(Movable(s) \cup {t}) = Cardinality(Movable(s)) + 1
            BY <2>1, <2>5, FS_AddElement
      <4>2. u.tdq.transferable = s.tdq.transferable + 1
            BY <1>1, <3>3
      <4>3. Movable(u) = Movable(s) \cup {t}
            BY <2>3, <3>3
      <4>. QED  BY <3>1, <4>1, <4>2, <4>3
    <3>. QED  BY <3>2, <3>3
  <2>. QED  BY <2>4, <2>6 DEF Transferred
<1>11. Fits(u)
      BY <1>1, <1>5, <1>6 DEF Fits, Sound
<1>12. Slices(u)
      BY <1>1 DEF Slices, Sound
<1>. QED  BY <1>2, <1>7, <1>8, <1>9, <1>10, <1>11, <1>12 DEF Sound, u

\* A queued thread leaves its queue, to run or to go elsewhere.
LEMMA RemSound ==
    ASSUME NEW s, Sound(s), NEW t \in Threads, s.td[t].state = "RUNQ",
           NEW state \in {"OFF", "RUNNING"}
    PROVE  LET u == Off(s, t, state)
           IN  /\ Sound(u)
               /\ On(u) = IF state = "OFF" THEN On(s) \ {t} ELSE On(s)
               /\ Runners(u) = IF state = "OFF" THEN Runners(s) ELSE Runners(s) \cup {t}
<1> DEFINE u     == Off(s, t, state)
           queue == s.td[t].ts_runq
           slot  == s.td[t].rqindex
<1>0. s \in St /\ s.tdq \in GoodTdq /\ s.td \in [Threads -> TdType] /\ s.td[t] \in TdType
      BY DEF Sound, St
<1>a. u \in St /\ Taken(s, t, state, u)
      BY <1>0, RemResult
<1>1. /\ u \in St
      /\ \A x \in Queues, i \in Slots :
            QueueAt(u, x, i) = IF x = queue /\ i = slot
                               THEN RemoveFirst(QueueAt(s, x, i), t)
                               ELSE QueueAt(s, x, i)
      /\ u.td[t].state = state /\ u.td[t].xferable = FALSE
      /\ u.td[t].slice = s.td[t].slice
      /\ \A x \in Threads \ {t} : u.td[x] = s.td[x]
      /\ u.tdq.transferable = s.tdq.transferable - (IF s.td[t].xferable THEN 1 ELSE 0)
      BY <1>a DEF Taken
<1> HIDE DEF u
<1>2. On(u) = IF state = "OFF" THEN On(s) \ {t} ELSE On(s)
      BY <1>1 DEF On
<1>3. Runners(u) = IF state = "OFF" THEN Runners(s) ELSE Runners(s) \cup {t}
      BY <1>1 DEF Runners
<1>4. IsFiniteSet(On(u))
      BY <1>2, FS_RemoveElement DEF Sound
<1>5. Placed(u)
  <2>1. \A x \in Queues, i \in Slots :
            QueueAt(s, x, i) \in Seq(Threads) /\ IsInjective(QueueAt(s, x, i))
    <3>1. \A x \in Queues, i \in Slots : QueueAt(s, x, i) \in Seq(Threads)
          BY <1>0 DEF QueueAt, GoodTdq, ExactRunQ, RunQ
    <3>. QED  BY <3>1 DEF Sound, Placed
  <2>2. ASSUME NEW x \in Queues, NEW i \in Slots
        PROVE  /\ IsInjective(QueueAt(u, x, i))
               /\ Range(QueueAt(u, x, i)) = Range(QueueAt(s, x, i)) \ {t}
    <3>1. CASE x = queue /\ i = slot
      <4>1. QueueAt(u, x, i) = RemoveFirst(QueueAt(s, x, i), t)
            BY <1>1, <3>1
      <4>. QED  BY <2>1, <4>1, RemoveContents
    <3>2. CASE ~(x = queue /\ i = slot)
      <4>1. QueueAt(u, x, i) = QueueAt(s, x, i)
            BY <1>1, <3>2
      <4>2. t \notin Range(QueueAt(s, x, i))
            BY <3>2 DEF Sound, Placed
      <4>. QED  BY <2>1, <4>1, <4>2
    <3>. QED  BY <3>1, <3>2
  <2>3. ASSUME NEW y \in Threads, NEW x \in Queues, NEW i \in Slots
        PROVE  y \in Range(QueueAt(u, x, i)) <=>
                  u.td[y].state = "RUNQ" /\ u.td[y].ts_runq = x /\ u.td[y].rqindex = i
    <3>1. CASE y = t
          BY <1>1, <2>2, <3>1
    <3>2. CASE y # t
      <4>1. y \in Range(QueueAt(s, x, i)) <=>
               s.td[y].state = "RUNQ" /\ s.td[y].ts_runq = x /\ s.td[y].rqindex = i
            BY DEF Sound, Placed
      <4>2. u.td[y] = s.td[y]
            BY <1>1, <3>2
      <4>. QED  BY <2>2, <3>2, <4>1, <4>2
    <3>. QED  BY <3>1, <3>2
  <2>. QED  BY <2>2, <2>3 DEF Placed
<1>6. Transferred(u)
  <2>1. Movable(u) = Movable(s) \ {t}
        BY <1>1 DEF Movable
  <2>2. IsFiniteSet(Movable(s))
    <3>1. Movable(s) \in SUBSET On(s)
          BY DEF Movable, On
    <3>. QED  BY <3>1, FS_Subset DEF Sound
  <2>3. s.td[t].xferable <=> t \in Movable(s)
        BY DEF Sound, Transferred
  <2>4. \A x \in Threads : u.td[x].xferable <=> x \in Movable(u)
    <3>1. u.td[t].xferable <=> t \in Movable(u)
          BY <1>1, <2>1, Zenon
    <3>2. \A x \in Threads \ {t} : u.td[x].xferable <=> x \in Movable(u)
          BY <1>1, <2>1, Zenon DEF Sound, Transferred
    <3>. QED  BY <3>1, <3>2
  <2>5. u.tdq.transferable = Cardinality(Movable(u))
    <3>1. s.tdq.transferable = Cardinality(Movable(s)) /\ Cardinality(Movable(s)) \in Nat
          BY <2>2, FS_CardinalityType DEF Sound, Transferred
    <3>2. CASE t \in Movable(s)
      <4>1. Cardinality(Movable(s) \ {t}) = Cardinality(Movable(s)) - 1
            BY <2>2, <3>2, FS_RemoveElement
      <4>2. u.tdq.transferable = s.tdq.transferable - 1
            BY <1>1, <2>3, <3>2
      <4>. QED  BY <2>1, <3>1, <4>1, <4>2
    <3>3. CASE t \notin Movable(s)
      <4>1. Movable(u) = Movable(s)
            BY <2>1, <3>3
      <4>2. u.tdq.transferable = s.tdq.transferable - 0
            BY <1>1, <2>3, <3>3
      <4>. QED  BY <3>1, <4>1, <4>2
    <3>. QED  BY <3>2, <3>3
  <2>. QED  BY <2>4, <2>5 DEF Transferred
<1>7. Fits(u) /\ Slices(u)
      BY <1>1 DEF Fits, Slices, Sound
<1>. QED  BY <1>1, <1>2, <1>3, <1>4, <1>5, <1>6, <1>7 DEF Sound, u

-----------------------------------------------------------------------------
(* What selection changes and what it returns *)

\* The queues, the threads, the counts and the indexes are alike; the lottery's
\* counters, lowpri and the pending IPI may differ.
Alike(s, u) ==
    /\ u.td = s.td
    /\ \A queue \in Queues, i \in Slots : QueueAt(u, queue, i) = QueueAt(s, queue, i)
    /\ u.tdq.transferable = s.tdq.transferable
    /\ u.tdq.load = s.tdq.load /\ u.tdq.sysload = s.tdq.sysload
    /\ u.tdq.idx = s.tdq.idx /\ u.tdq.ridx = s.tdq.ridx

LEMMA AlikeSound ==
    ASSUME NEW s, NEW u, Sound(s), u \in St, Alike(s, u)
    PROVE  Sound(u) /\ On(u) = On(s) /\ Runners(u) = Runners(s)
BY SameSound DEF Alike

LEMMA AlikeFields ==
    ASSUME NEW s \in St
    PROVE  /\ \A pri : Alike(s, [s EXCEPT !.tdq.lowpri = pri])
           /\ \A ipi : Alike(s, [s EXCEPT !.tdq.ipipending = ipi])
<1>1. s.tdq \in TdqType
      BY DEF St, GoodTdq
<1>2. ASSUME NEW pri PROVE Alike(s, [s EXCEPT !.tdq.lowpri = pri])
  <2> DEFINE p == [s.tdq EXCEPT !.lowpri = pri]
             u == [s EXCEPT !.tdq.lowpri = pri]
  <2>1. /\ p.runq = s.tdq.runq /\ p.transferable = s.tdq.transferable
        /\ p.load = s.tdq.load /\ p.sysload = s.tdq.sysload
        /\ p.idx = s.tdq.idx /\ p.ridx = s.tdq.ridx
        BY <1>1 DEF TdqType
  <2>2. u.tdq = p /\ u.td = s.td
        BY DEF St
  <2> HIDE DEF p, u
  <2>. QED  BY <2>1, <2>2 DEF Alike, QueueAt, u
<1>3. ASSUME NEW ipi PROVE Alike(s, [s EXCEPT !.tdq.ipipending = ipi])
  <2> DEFINE p == [s.tdq EXCEPT !.ipipending = ipi]
             u == [s EXCEPT !.tdq.ipipending = ipi]
  <2>1. /\ p.runq = s.tdq.runq /\ p.transferable = s.tdq.transferable
        /\ p.load = s.tdq.load /\ p.sysload = s.tdq.sysload
        /\ p.idx = s.tdq.idx /\ p.ridx = s.tdq.ridx
        BY <1>1 DEF TdqType
  <2>2. u.tdq = p /\ u.td = s.td
        BY DEF St
  <2> HIDE DEF p, u
  <2>. QED  BY <2>1, <2>2 DEF Alike, QueueAt, u
<1>. QED  BY <1>2, <1>3

LEMMA AlikeTransitive ==
    ASSUME NEW s, NEW u, NEW v, Alike(s, u), Alike(u, v)
    PROVE  Alike(s, v)
BY DEF Alike

LEMMA AlikeItself == ASSUME NEW s PROVE Alike(s, s)
BY DEF Alike

\* tdq_choose discounts the winner and leaves it on its queue.
LEMMA AfterChoiceAlike ==
    ASSUME NEW s \in St, NEW r
    PROVE  Alike(s, AfterChoice(s, r))
<1>1. CASE LotteryChoice(s, r) \notin Threads
  <2>1. LotteryChoice(s, r) = NULL
        BY <1>1, TdqChooseType
  <2>. QED  BY <2>1, AlikeItself DEF AfterChoice
<1>2. CASE LotteryChoice(s, r) \in Threads
  <2> DEFINE t   == LotteryChoice(s, r)
             old == s.tdq.runq["lottery"]
             rq  == LotteryDiscount(old, Tickets(s), t)
             z   == IF rq.total_proc = 0 THEN [rq EXCEPT !.max_tickets = 0, !.min_tickets = 0]
                                         ELSE rq
             q   == [s.tdq EXCEPT !.runq = [@ EXCEPT !["lottery"] = z]]
             u   == LotteryDrawn(s, t)
  <2>1. /\ s.tdq \in TdqType /\ s.tdq.runq \in [Queues -> ExactRunQ]
        /\ "lottery" \in Queues /\ old \in RunQ
        BY DEF St, GoodTdq, TdqType, Queues, ExactRunQ
  <2>2. z.rq_queues = old.rq_queues
    <3> HIDE DEF old
    <3>1. rq.rq_queues = old.rq_queues
          BY <2>1 DEF LotteryDiscount, RunQ
    <3>2. [rq EXCEPT !.max_tickets = 0, !.min_tickets = 0].rq_queues = rq.rq_queues
          BY <2>1 DEF LotteryDiscount, RunQ
    <3> HIDE DEF rq
    <3>. QED  BY <3>1, <3>2
  <2> HIDE DEF z
  <2>3. /\ q.runq = [s.tdq.runq EXCEPT !["lottery"] = z] /\ q.transferable = s.tdq.transferable
        /\ q.load = s.tdq.load /\ q.sysload = s.tdq.sysload
        /\ q.idx = s.tdq.idx /\ q.ridx = s.tdq.ridx
        BY <2>1 DEF TdqType
  <2>4. u.tdq = q /\ u.td = s.td
        BY DEF LotteryDrawn, St, z
  <2> HIDE DEF q, u
  <2>5. ASSUME NEW x \in Queues, NEW i \in Slots PROVE QueueAt(u, x, i) = QueueAt(s, x, i)
    <3>1. CASE x = "lottery"
          BY <2>1, <2>2, <2>3, <2>4, <3>1 DEF QueueAt
    <3>2. CASE x # "lottery"
          BY <2>1, <2>3, <2>4, <3>2 DEF QueueAt
    <3>. QED  BY <3>1, <3>2
  <2>6. Alike(s, u)
        BY <2>3, <2>4, <2>5 DEF Alike
  <2>. QED  BY <2>6, AlikeItself DEF AfterChoice, u
<1>. QED  BY <1>1, <1>2

LEMMA SetlowpriAlike ==
    ASSUME NEW s \in St, NEW ctd, NEW r
    PROVE  Alike(s, tdq_setlowpri(s, ctd, r))
<1> DEFINE a == AfterChoice(s, r)
<1>1. a \in St /\ Alike(s, a)
      BY AfterChoiceType, AfterChoiceAlike
<1>2. PICK pri : tdq_setlowpri(s, ctd, r) = [a EXCEPT !.tdq.lowpri = pri]
      BY DEF tdq_setlowpri
<1> HIDE DEF a
<1>3. Alike(a, [a EXCEPT !.tdq.lowpri = pri])
      BY <1>1, AlikeFields
<1>. QED  BY <1>1, <1>2, <1>3, AlikeTransitive

\* What tdq_choose returns is queued; when it returns nothing, nothing is
\* queued but threads of the lottery that no ticket was drawn for.
LEMMA ChoiceQueued ==
    ASSUME NEW s, Sound(s), NEW r
    PROVE  /\ tdq_choose(s, r) # NULL => /\ tdq_choose(s, r) \in Threads
                                         /\ s.td[tdq_choose(s, r)].state = "RUNQ"
           /\ tdq_choose(s, r) = NULL =>
                 \A t \in Threads : s.td[t].state = "RUNQ" => s.td[t].ts_runq = "lottery"
<1>1. s.tdq.runq \in [Queues -> ExactRunQ] /\ s.tdq.ridx \in Slots /\ 0 \in Slots
      BY SlotsClosed DEF Sound, St, GoodTdq, TdqType
<1>2. /\ s.tdq.runq["realtime"] \in ExactRunQ /\ s.tdq.runq["timeshare"] \in ExactRunQ
      /\ s.tdq.runq["lottery"] \in RunQ /\ s.tdq.runq["idle"] \in ExactRunQ
      BY <1>1 DEF Queues, ExactRunQ
<1>3. ASSUME NEW queue \in Queues, NEW i \in Slots, NEW t \in Range(QueueAt(s, queue, i))
      PROVE  t \in Threads /\ s.td[t].state = "RUNQ"
  <2>1. s.tdq.runq[queue] \in RunQ
        BY <1>1 DEF ExactRunQ
  <2>2. t \in Threads
        BY <2>1, MembersAreThreads DEF QueueAt
  <2>. QED  BY <2>2 DEF Sound, Placed
<1> DEFINE Chosen(queue, c) ==
               \/ c = NULL /\ \A i \in Slots : QueueAt(s, queue, i) = <<>>
               \/ \E i \in Slots : c \in Range(QueueAt(s, queue, i))
<1>4. Chosen("realtime", RealtimeChoice(s)) /\ Chosen("idle", IdleChoice(s))
      BY <1>1, <1>2, ChooseMember DEF RealtimeChoice, IdleChoice, runq_choose, QueueAt
<1>5. Chosen("timeshare", TimeshareChoice(s))
      BY <1>1, <1>2, ChooseMember DEF TimeshareChoice, QueueAt
<1>6. LotteryChoice(s, r) = NULL \/ \E i \in Slots : LotteryChoice(s, r) \in Range(QueueAt(s, "lottery", i))
      BY <1>1, <1>2, LotteryMember DEF LotteryChoice, QueueAt
<1>7. /\ "realtime" \in Queues /\ "timeshare" \in Queues
      /\ "lottery" \in Queues /\ "idle" \in Queues
      BY DEF Queues
<1>8. ASSUME NEW queue \in Queues, NEW c, Chosen(queue, c)
      PROVE  /\ c # NULL => c \in Threads /\ s.td[c].state = "RUNQ"
             /\ c = NULL => \A i \in Slots : QueueAt(s, queue, i) = <<>>
  <2>1. CASE c = NULL /\ \A i \in Slots : QueueAt(s, queue, i) = <<>>
        BY <2>1
  <2>2. CASE \E i \in Slots : c \in Range(QueueAt(s, queue, i))
    <3>1. c \in Threads /\ s.td[c].state = "RUNQ"
          BY <1>3, <2>2
    <3>. QED  BY <3>1, RunQueueAssumption
  <2>. QED  BY <1>8, <2>1, <2>2
<1> HIDE DEF Chosen
<1>9. ASSUME tdq_choose(s, r) # NULL
      PROVE  tdq_choose(s, r) \in Threads /\ s.td[tdq_choose(s, r)].state = "RUNQ"
  <2>1. \/ tdq_choose(s, r) = RealtimeChoice(s) \/ tdq_choose(s, r) = TimeshareChoice(s)
        \/ tdq_choose(s, r) = LotteryChoice(s, r) \/ tdq_choose(s, r) = IdleChoice(s)
        BY DEF tdq_choose, ReachesLottery
  <2>2. CASE tdq_choose(s, r) = LotteryChoice(s, r)
        BY <1>3, <1>6, <1>7, <1>9, <2>2
  <2>. QED  BY <1>4, <1>5, <1>7, <1>8, <1>9, <2>1, <2>2
<1>10. ASSUME tdq_choose(s, r) = NULL, NEW t \in Threads, s.td[t].state = "RUNQ"
       PROVE  s.td[t].ts_runq = "lottery"
  <2>1. RealtimeChoice(s) = NULL /\ TimeshareChoice(s) = NULL /\ IdleChoice(s) = NULL
        BY <1>10 DEF tdq_choose, ReachesLottery
  <2>2. \A i \in Slots : /\ QueueAt(s, "realtime", i) = <<>>
                         /\ QueueAt(s, "timeshare", i) = <<>> /\ QueueAt(s, "idle", i) = <<>>
        BY <1>4, <1>5, <1>7, <1>8, <2>1
  <2>3. s.td[t].ts_runq \in Queues /\ s.td[t].rqindex \in Slots
        BY DEF Sound, St, TdType
  <2>4. t \in Range(QueueAt(s, s.td[t].ts_runq, s.td[t].rqindex))
        BY <1>10, <2>3 DEF Sound, Placed
  <2>5. Range(<<>>) = {}
        BY DEF Range
  <2>. QED  BY <2>2, <2>3, <2>4, <2>5 DEF Queues
<1>. QED  BY <1>9, <1>10

\* choosethread: the choice leaves its queue and runs.
LEMMA ChoosethreadSound ==
    ASSUME NEW s, Sound(s), Runners(s) = {}, NEW r
    PROVE  LET u == choosethread(s, r)
           IN  /\ Sound(u) /\ On(u) = On(s)
               /\ Runners(u) = {ChosenThread(s, r)} \ {IdleThread}
               /\ u.tdq.load = s.tdq.load /\ u.tdq.sysload = s.tdq.sysload
               /\ ChosenThread(s, r) = IdleThread =>
                     \A t \in Threads : u.td[t].state = "RUNQ" => u.td[t].ts_runq = "lottery"
<1> DEFINE a   == AfterChoice(s, r)
           t   == ChosenThread(s, r)
           off == tdq_runq_rem(a, t)
           low == [off EXCEPT !.tdq.lowpri = s.td[t].priority]
           w   == Off(a, t, "RUNNING")
           u   == choosethread(s, r)
<1>1. s \in St /\ a \in St /\ Alike(s, a) /\ Sound(a) /\ On(a) = On(s) /\ Runners(a) = {}
      BY AfterChoiceType, AfterChoiceAlike, AlikeSound DEF Sound
<1>2. IdleThread \notin Threads \cup {NULL}
      BY TdqAssumption
<1>3. CASE t = IdleThread
  <2>1. u = [a EXCEPT !.tdq.lowpri = PRI_MAX_IDLE]
        BY <1>3 DEF choosethread
  <2>2. tdq_choose(s, r) = NULL
        BY <1>2, <1>3, ChoiceQueued DEF ChosenThread
  <2>3. \A x \in Threads : s.td[x].state = "RUNQ" => s.td[x].ts_runq = "lottery"
        BY <2>2, ChoiceQueued
  <2> HIDE DEF a, u, t
  <2>4. u \in St /\ Alike(a, u)
    <3>1. PRI_MAX_IDLE \in 0 .. PRI_MAX_IDLE
          BY TdqAssumption
    <3>. QED  BY <1>1, <2>1, <3>1, LowpriType, AlikeFields
  <2>5. Sound(u) /\ On(u) = On(s) /\ Runners(u) = {}
        BY <1>1, <2>4, AlikeSound
  <2>6. u.td = s.td /\ u.tdq.load = s.tdq.load /\ u.tdq.sysload = s.tdq.sysload
        BY <1>1, <2>4 DEF Alike
  <2>. QED  BY <1>3, <2>3, <2>5, <2>6 DEF t, u
<1>4. CASE t # IdleThread
  <2>1. t \in Threads /\ s.td[t].state = "RUNQ"
        BY <1>4, ChoiceQueued DEF ChosenThread
  <2>2. a.td[t].state = "RUNQ"
        BY <1>1, <2>1 DEF Alike
  <2>3. u = [[off EXCEPT !.tdq.lowpri = s.td[t].priority] EXCEPT !.td[t].state = "RUNNING"]
        BY <1>4 DEF choosethread
  <2>4. w = [off EXCEPT !.td[t].state = "RUNNING"]
        BY DEF Off
  <2> HIDE DEF a, t
  <2>5. off \in St /\ s.td[t].priority \in 0 .. PRI_MAX_IDLE
        BY <1>1, <2>1, RemType DEF St, TdType
  <2> HIDE DEF off, u, w
  <2>6. u = [w EXCEPT !.tdq.lowpri = s.td[t].priority]
        BY <2>3, <2>4, <2>5 DEF St
  <2>7. w \in St /\ Taken(a, t, "RUNNING", w)
        BY <1>1, <2>1, RemResult DEF w
  <2>8. Sound(w) /\ On(w) = On(s) /\ Runners(w) = {t}
        BY <1>1, <2>1, <2>2, RemSound DEF w
  <2>9. u \in St /\ Alike(w, u)
        BY <2>5, <2>6, <2>7, LowpriType, AlikeFields
  <2>10. Sound(u) /\ On(u) = On(s) /\ Runners(u) = {t}
        BY <2>8, <2>9, AlikeSound
  <2>11. u.tdq.load = s.tdq.load /\ u.tdq.sysload = s.tdq.sysload
        BY <1>1, <2>7, <2>9 DEF Alike, Taken
  <2>. QED  BY <1>4, <2>10, <2>11 DEF t, u
<1>. QED  BY <1>3, <1>4

-----------------------------------------------------------------------------
(* The loads *)

\* The queues and counts of a thread queue between two steps.
Steady(s) == Sound(s) /\ Loaded(s, On(s))

\* tdq_load_add and tdq_load_rem write the loads alone.
Counted(s, load, sysload, u) ==
    /\ u.td = s.td
    /\ \A queue \in Queues, i \in Slots : QueueAt(u, queue, i) = QueueAt(s, queue, i)
    /\ u.tdq.transferable = s.tdq.transferable
    /\ u.tdq.idx = s.tdq.idx /\ u.tdq.ridx = s.tdq.ridx
    /\ u.tdq.load = load /\ u.tdq.sysload = sysload

LEMMA CountedFields ==
    ASSUME NEW s \in St, NEW load, NEW sysload
    PROVE  Counted(s, load, sysload, [s EXCEPT !.tdq.load = load, !.tdq.sysload = sysload])
<1> DEFINE p == [s.tdq EXCEPT !.load = load, !.sysload = sysload]
           v == [s EXCEPT !.tdq.load = load, !.tdq.sysload = sysload]
<1>1. s.tdq \in TdqType
      BY DEF St, GoodTdq
<1>2. /\ p.runq = s.tdq.runq /\ p.transferable = s.tdq.transferable
      /\ p.idx = s.tdq.idx /\ p.ridx = s.tdq.ridx /\ p.load = load /\ p.sysload = sysload
      BY <1>1 DEF TdqType
<1>3. v.tdq = p /\ v.td = s.td
      BY DEF St
<1> HIDE DEF p, v
<1>4. Counted(s, load, sysload, v)
      BY <1>2, <1>3 DEF QueueAt, Counted
<1>. QED  BY <1>4 DEF v

LEMMA LoadAddResult ==
    ASSUME NEW s \in St, NEW t
    PROVE  /\ tdq_load_add(s, t) \in St
           /\ Counted(s, s.tdq.load + 1, s.tdq.sysload + SysLoadOf(t), tdq_load_add(s, t))
<1>1. tdq_load_add(s, t) \in St
      BY LoadType
<1>2. tdq_load_add(s, t) = [s EXCEPT !.tdq.load = s.tdq.load + 1,
                                     !.tdq.sysload = s.tdq.sysload + SysLoadOf(t)]
      BY DEF tdq_load_add
<1> DEFINE load    == s.tdq.load + 1
           sysload == s.tdq.sysload + SysLoadOf(t)
<1> HIDE DEF load, sysload
<1>3. Counted(s, load, sysload, [s EXCEPT !.tdq.load = load, !.tdq.sysload = sysload])
      BY CountedFields
<1>. QED  BY <1>1, <1>2, <1>3 DEF load, sysload

LEMMA LoadRemResult ==
    ASSUME NEW s \in St, NEW t
    PROVE  /\ tdq_load_rem(s, t) \in St
           /\ Counted(s, s.tdq.load - 1, s.tdq.sysload - SysLoadOf(t), tdq_load_rem(s, t))
<1>1. tdq_load_rem(s, t) \in St
      BY LoadType
<1>2. tdq_load_rem(s, t) = [s EXCEPT !.tdq.load = s.tdq.load - 1,
                                     !.tdq.sysload = s.tdq.sysload - SysLoadOf(t)]
      BY DEF tdq_load_rem
<1> DEFINE load    == s.tdq.load - 1
           sysload == s.tdq.sysload - SysLoadOf(t)
<1> HIDE DEF load, sysload
<1>3. Counted(s, load, sysload, [s EXCEPT !.tdq.load = load, !.tdq.sysload = sysload])
      BY CountedFields
<1>. QED  BY <1>1, <1>2, <1>3 DEF load, sysload

LEMMA CountedSound ==
    ASSUME NEW s, NEW u \in St, NEW load, NEW sysload, Sound(s), Counted(s, load, sysload, u)
    PROVE  Sound(u) /\ On(u) = On(s) /\ Runners(u) = Runners(s)
BY SameSound DEF Counted

\* A thread counted in, or out.
LEMMA LoadsFollow ==
    ASSUME NEW on, IsFiniteSet(on), NEW t
    PROVE  /\ Cardinality(on) \in Nat /\ Cardinality(on \ NoLoad) \in Nat
           /\ t \notin on => /\ Cardinality(on \cup {t}) = Cardinality(on) + 1
                             /\ Cardinality((on \cup {t}) \ NoLoad)
                                    = Cardinality(on \ NoLoad) + SysLoadOf(t)
           /\ t \in on => /\ Cardinality(on \ {t}) = Cardinality(on) - 1
                          /\ Cardinality((on \ {t}) \ NoLoad)
                                 = Cardinality(on \ NoLoad) - SysLoadOf(t)
<1> DEFINE sys == on \ NoLoad
<1>1. IsFiniteSet(sys)
      BY FS_Subset
<1>2. Cardinality(on) \in Nat /\ Cardinality(sys) \in Nat
      BY <1>1, FS_CardinalityType
<1>3. ASSUME t \notin on
      PROVE  /\ Cardinality(on \cup {t}) = Cardinality(on) + 1
             /\ Cardinality((on \cup {t}) \ NoLoad) = Cardinality(sys) + SysLoadOf(t)
  <2>1. Cardinality(on \cup {t}) = Cardinality(on) + 1
        BY <1>3, FS_AddElement
  <2>2. CASE t \in NoLoad
    <3>1. (on \cup {t}) \ NoLoad = sys
          BY <2>2
    <3>. QED  BY <1>2, <2>1, <2>2, <3>1 DEF SysLoadOf
  <2>3. CASE t \notin NoLoad
    <3>1. (on \cup {t}) \ NoLoad = sys \cup {t} /\ t \notin sys
          BY <1>3, <2>3
    <3>2. Cardinality(sys \cup {t}) = Cardinality(sys) + 1
          BY <1>1, <3>1, FS_AddElement
    <3>. QED  BY <2>1, <2>3, <3>1, <3>2 DEF SysLoadOf
  <2>. QED  BY <2>2, <2>3
<1>4. ASSUME t \in on
      PROVE  /\ Cardinality(on \ {t}) = Cardinality(on) - 1
             /\ Cardinality((on \ {t}) \ NoLoad) = Cardinality(sys) - SysLoadOf(t)
  <2>1. Cardinality(on \ {t}) = Cardinality(on) - 1
        BY <1>4, FS_RemoveElement
  <2>2. CASE t \in NoLoad
    <3>1. (on \ {t}) \ NoLoad = sys
          BY <2>2
    <3>. QED  BY <1>2, <2>1, <2>2, <3>1 DEF SysLoadOf
  <2>3. CASE t \notin NoLoad
    <3>1. (on \ {t}) \ NoLoad = sys \ {t} /\ t \in sys
          BY <1>4, <2>3
    <3>2. Cardinality(sys \ {t}) = Cardinality(sys) - 1
          BY <1>1, <3>1, FS_RemoveElement
    <3>. QED  BY <2>1, <2>3, <3>1, <3>2 DEF SysLoadOf
  <2>. QED  BY <2>2, <2>3
<1>. QED  BY <1>2, <1>3, <1>4

LEMMA AlikeSteady ==
    ASSUME NEW s, NEW u, Steady(s), u \in St, Alike(s, u)
    PROVE  Steady(u) /\ On(u) = On(s) /\ Runners(u) = Runners(s)
BY AlikeSound DEF Steady, Loaded, Alike

\* tdq_add of a thread that comes from elsewhere.
LEMMA TdqAddSteady ==
    ASSUME NEW s, Steady(s), NEW t \in Threads, s.td[t].state = "OFF",
           NEW how, NEW nice \in NiceValues
    PROVE  LET u == tdq_add(s, t, how, nice)
           IN  Steady(u) /\ On(u) = On(s) \cup {t} /\ Runners(u) = Runners(s)
<1> DEFINE pri == IF s.td[t].priority < s.tdq.lowpri THEN s.td[t].priority ELSE s.tdq.lowpri
           low == [s EXCEPT !.tdq.lowpri = pri]
           v   == tdq_runq_add(low, t, how, nice)
           u   == tdq_add(s, t, how, nice)
<1>1. s \in St
      BY DEF Steady, Sound
<1>2. pri \in 0 .. PRI_MAX_IDLE
      BY <1>1 DEF St, GoodTdq, TdqType, TdType
<1>3. low \in St /\ Alike(s, low)
  <2> HIDE DEF pri
  <2>. QED  BY <1>1, <1>2, LowpriType, AlikeFields
<1>4. u = tdq_load_add(v, t)
      BY DEF tdq_add
<1> HIDE DEF low
<1>5. Steady(low) /\ On(low) = On(s) /\ Runners(low) = Runners(s) /\ low.td = s.td
      BY <1>3, AlikeSteady DEF Alike
<1>6. Sound(v) /\ On(v) = On(s) \cup {t} /\ Runners(v) = Runners(s)
  <2>1. Runners(s) \ {t} = Runners(s)
        BY DEF Runners
  <2>2. Sound(low) /\ low.td[t].state # "RUNQ"
        BY <1>5 DEF Steady
  <2>3. Sound(v) /\ On(v) = On(low) \cup {t} /\ Runners(v) = Runners(low) \ {t}
        BY <2>2, AddSound
  <2>. QED  BY <1>5, <2>1, <2>3
<1>7. v \in St /\ v.tdq.load = low.tdq.load /\ v.tdq.sysload = low.tdq.sysload
  <2>1. Added(low, t, how, v)
        BY <1>3, AddResult
  <2>2. v \in St
        BY <1>6 DEF Sound
  <2> HIDE DEF v
  <2>. QED  BY <2>1, <2>2 DEF Added
<1> HIDE DEF v
<1> HIDE DEF u
<1>8. u \in St /\ Counted(v, v.tdq.load + 1, v.tdq.sysload + SysLoadOf(t), u)
      BY <1>4, <1>7, LoadAddResult
<1>9. Sound(u) /\ On(u) = On(s) \cup {t} /\ Runners(u) = Runners(s)
      BY <1>6, <1>8, CountedSound
<1>10. Loaded(u, On(u))
  <2>1. t \notin On(s) /\ IsFiniteSet(On(s))
        BY DEF On, Steady, Sound
  <2>2. low.tdq.load = Cardinality(On(s)) /\ low.tdq.sysload = Cardinality(On(s) \ NoLoad)
        BY <1>5 DEF Steady, Loaded
  <2>3. /\ Cardinality(On(s) \cup {t}) = Cardinality(On(s)) + 1
        /\ Cardinality((On(s) \cup {t}) \ NoLoad) = Cardinality(On(s) \ NoLoad) + SysLoadOf(t)
        BY <2>1, LoadsFollow
  <2>4. /\ u.tdq.load = low.tdq.load + 1
        /\ u.tdq.sysload = low.tdq.sysload + SysLoadOf(t)
        BY <1>7, <1>8 DEF Counted
  <2>. QED  BY <1>9, <2>2, <2>3, <2>4 DEF Loaded
<1>. QED  BY <1>9, <1>10 DEF Steady, u

\* The thread queue after a thread has left it and is counted no more.
Dropped(s, t, u) ==
    /\ Steady(u) /\ On(u) = On(s) \ {t} /\ Runners(u) = Runners(s)
    /\ u.td[t].state = "OFF" /\ u.td[t].xferable = FALSE
    /\ u.td[t].slice = s.td[t].slice
    /\ \A x \in Threads \ {t} : u.td[x] = s.td[x]

\* sched_rem of a queued thread.
LEMMA SchedRemSteady ==
    ASSUME NEW s, Steady(s), NEW t \in Threads, s.td[t].state = "RUNQ", NEW r,
           curthread \in Threads \cup {IdleThread}
    PROVE  Dropped(s, t, sched_rem(s, t, r))
<1> DEFINE rem  == tdq_runq_rem(s, t)
           off  == Off(s, t, "OFF")
           less == tdq_load_rem(off, t)
           w    == Removed(s, t)
           u    == sched_rem(s, t, r)
<1>1. s \in St /\ IsFiniteSet(On(s)) /\ t \in On(s)
      BY DEF Steady, Sound, On
<1>2. rem \in St
      BY <1>1, RemType
<1>3. w = less
  <2>1. w = [tdq_load_rem(rem, t) EXCEPT !.td[t].state = "OFF"]
        BY DEF Removed
  <2>2. off = [rem EXCEPT !.td[t].state = "OFF"]
        BY DEF Off
  <2> HIDE DEF rem
  <2>. QED  BY <1>2, <2>1, <2>2 DEF tdq_load_rem, St
<1>4. /\ Sound(off) /\ On(off) = On(s) \ {t} /\ Runners(off) = Runners(s)
      /\ off \in St /\ Taken(s, t, "OFF", off)
      BY <1>1, RemSound, RemResult DEF Steady
<1> HIDE DEF off
<1>5. /\ w \in St /\ w.td = off.td
      /\ Counted(off, off.tdq.load - 1, off.tdq.sysload - SysLoadOf(t), w)
  <2>1. /\ less \in St
        /\ Counted(off, off.tdq.load - 1, off.tdq.sysload - SysLoadOf(t), less)
        BY <1>4, LoadRemResult
  <2> HIDE DEF w, less
  <2>. QED  BY <1>3, <2>1 DEF Counted
<1> HIDE DEF w, less
<1>6. Sound(w) /\ On(w) = On(s) \ {t} /\ Runners(w) = Runners(s)
      BY <1>4, <1>5, CountedSound
<1>7. Loaded(w, On(w))
  <2>1. /\ off.tdq.load = Cardinality(On(s)) /\ off.tdq.sysload = Cardinality(On(s) \ NoLoad)
        BY <1>4 DEF Steady, Loaded, Taken
  <2>2. /\ Cardinality(On(s) \ {t}) = Cardinality(On(s)) - 1
        /\ Cardinality((On(s) \ {t}) \ NoLoad) = Cardinality(On(s) \ NoLoad) - SysLoadOf(t)
        BY <1>1, LoadsFollow
  <2>3. w.tdq.load = off.tdq.load - 1 /\ w.tdq.sysload = off.tdq.sysload - SysLoadOf(t)
        BY <1>5 DEF Counted
  <2>. QED  BY <1>6, <2>1, <2>2, <2>3 DEF Loaded
<1>8. Alike(w, u) /\ u \in St
  <2>1. Alike(w, tdq_setlowpri(w, curthread, r)) /\ tdq_setlowpri(w, curthread, r) \in St
        BY <1>5, SetlowpriAlike, SetlowpriType
  <2>2. u = tdq_setlowpri(w, curthread, r) \/ u = w
        BY DEF sched_rem, w
  <2>. QED  BY <1>5, <2>1, <2>2, AlikeItself
<1> HIDE DEF u
<1>9. Steady(u) /\ On(u) = On(s) \ {t} /\ Runners(u) = Runners(s)
      BY <1>6, <1>7, <1>8, AlikeSteady DEF Steady
<1>10. u.td = off.td
      BY <1>5, <1>8 DEF Alike
<1>. QED  BY <1>4, <1>9, <1>10 DEF Taken, Dropped, u

\* A change of a thread that is elsewhere, or of the running thread.
LEMMA EditSteady ==
    ASSUME NEW s, Steady(s), NEW t \in Threads, NEW d \in TdType,
           s.td[t].state # "RUNQ", d.state = s.td[t].state,
           d.xferable = FALSE, d.slice \in UsedTicks
    PROVE  LET u == [s EXCEPT !.td[t] = d]
           IN  Steady(u) /\ On(u) = On(s) /\ Runners(u) = Runners(s)
<1> DEFINE u == [s EXCEPT !.td[t] = d]
<1>1. s \in St
      BY DEF Steady, Sound
<1>2. u \in St
      BY <1>1, FieldTypes
<1>3. u.tdq = s.tdq /\ u.td[t] = d /\ \A x \in Threads \ {t} : u.td[x] = s.td[x]
      BY <1>1 DEF St
<1> HIDE DEF u
<1>4. /\ Sound(u)
      /\ On(u) = IF u.td[t].state = "OFF" THEN On(s) \ {t} ELSE On(s)
      /\ Runners(u) = IF u.td[t].state = "OFF" THEN Runners(s) \ {t} ELSE Runners(s)
      BY <1>2, <1>3, EditSound DEF Steady
<1>5. On(u) = On(s) /\ Runners(u) = Runners(s)
      BY <1>3, <1>4 DEF On, Runners
<1>. QED  BY <1>3, <1>4, <1>5 DEF Steady, Loaded, u

LEMMA OffFields ==
    /\ OffThread.state = "OFF" /\ OffThread.xferable = FALSE /\ OffThread.slice \in UsedTicks
    /\ \A pri, pin, n :
          LET d == [OffThread EXCEPT !.priority = pri, !.pinned = pin, !.slice = n]
          IN  d.state = "OFF" /\ d.xferable = FALSE /\ d.slice = n
    /\ \A pri : LET d == [OffThread EXCEPT !.priority = pri]
                IN  d.state = "OFF" /\ d.xferable = FALSE /\ d.slice \in UsedTicks
BY TdqAssumption, QuantumFacts DEF OffThread

-----------------------------------------------------------------------------
(* The steps, and what they do to the queues *)

\* Between two steps the queues and the counts agree with the threads, and the
\* thread in state RUNNING is curthread; while sched_switch has dropped the
\* lock nothing runs and curthread is counted no more.
QInv ==
    /\ Steady(Here)
    /\ Runners(Here) = IF window = "none" THEN {curthread} \ {IdleThread} ELSE {}
    /\ window # "none" => curthread \notin On(Here)

\* What IdleOnlyWithoutWork says of a step.
IdleAfter ==
    curthread # IdleThread /\ curthread' = IdleThread
        => \A t \in Threads : td'[t].state = "RUNQ" => td'[t].ts_runq = "lottery"

LEMMA PutHere == ASSUME NEW s \in St, Put(s) PROVE Here' = s
BY DEF Put, Here, St

LEMMA SteadyType == ASSUME NEW s, Steady(s) PROVE s \in St /\ IsFiniteSet(On(s))
BY DEF Steady, Sound

\* curthread stays, and nothing else begins to run.
LEMMA QuietStep ==
    ASSUME QInv, NEW s, Steady(s), Here' = s, Runners(s) = Runners(Here),
           window # "none" => curthread \notin On(s),
           UNCHANGED <<curthread, window>>
    PROVE  QInv' /\ IdleAfter
<1>1. Steady(Here)' /\ Runners(Here)' = Runners(s) /\ On(Here)' = On(s)
      OBVIOUS
<1>. QED  BY <1>1, TdqAssumption DEF QInv, IdleAfter

LEMMA PanicQInv == ASSUME QInv, Panic PROVE QInv' /\ IdleAfter
<1>1. Here' = Here
      BY DEF Panic, Here
<1>. QED  BY <1>1, QuietStep DEF Panic, QInv

LEMMA ChooseQInv ==
    ASSUME QInv, NEW s, Steady(s), Runners(s) = {}, Choose(s)
    PROVE  QInv' /\ IdleAfter
<1>1. PICK r \in Randoms : SwitchTo(s, r) \/ (tdq_choose_panics(s, r) /\ Panic)
      BY DEF Choose
<1>2. CASE SwitchTo(s, r)
  <2> DEFINE u == choosethread(s, r)
             c == ChosenThread(s, r)
  <2>1. /\ Sound(u) /\ On(u) = On(s) /\ Runners(u) = {c} \ {IdleThread}
        /\ u.tdq.load = s.tdq.load /\ u.tdq.sysload = s.tdq.sysload
        /\ c = IdleThread =>
              \A t \in Threads : u.td[t].state = "RUNQ" => u.td[t].ts_runq = "lottery"
        BY ChoosethreadSound DEF Steady
  <2>2. Put(u) /\ curthread' = c /\ window' = "none"
        BY <1>2 DEF SwitchTo
  <2> HIDE DEF u, c
  <2>3. Here' = u /\ td' = u.td
        BY <2>1, <2>2, PutHere DEF Sound, Put
  <2>4. Steady(u)
        BY <2>1 DEF Steady, Loaded
  <2>5. QInv'
        BY <2>1, <2>2, <2>3, <2>4 DEF QInv
  <2>6. IdleAfter
        BY <2>1, <2>2, <2>3 DEF IdleAfter
  <2>. QED  BY <2>5, <2>6
<1>3. CASE Panic
      BY <1>3, PanicQInv
<1>. QED  BY <1>1, <1>2, <1>3

\* A thread arrives from elsewhere.
LEMMA ArrivalsSteady ==
    ASSUME QInv, NEW t \in Threads, CanArrive(t), NEW how, NEW s \in Arrivals(t, how)
    PROVE  Steady(s) /\ On(s) = On(Here) \cup {t} /\ Runners(s) = Runners(Here)
<1>1. PICK pri \in Prios, pin \in BOOLEAN, slice \in UsedTicks, nice \in NiceValues :
          s = tdq_add(Arriving(t, pri, pin, slice), t, how, nice)
      BY DEF Arrivals
<1> DEFINE d == [OffThread EXCEPT !.priority = pri, !.pinned = pin, !.slice = slice]
           a == Arriving(t, pri, pin, slice)
<1>2. d \in TdType
  <2>1. pri \in 0 .. PRI_MAX_IDLE /\ slice \in Nat
        BY TdqAssumption, QuantumFacts
  <2>. QED  BY <2>1, OffType DEF TdType
<1>3. d.state = "OFF" /\ d.xferable = FALSE /\ d.slice \in UsedTicks
  <2>1. d.state = "OFF" /\ d.xferable = FALSE /\ d.slice = slice
        BY OffFields
  <2> HIDE DEF d
  <2>. QED  BY <2>1
<1> HIDE DEF d
<1>4. Steady(Here) /\ Here.td[t].state = "OFF"
      BY DEF QInv, CanArrive, Here
<1>5. a = [Here EXCEPT !.td[t] = d]
      BY DEF Arriving, d
<1>6. Steady(a) /\ On(a) = On(Here) /\ Runners(a) = Runners(Here)
  <2> HIDE DEF a
  <2>. QED  BY <1>2, <1>3, <1>4, <1>5, EditSteady
<1>7. a.td[t].state = "OFF"
  <2>1. Here \in St
        BY <1>4, SteadyType
  <2> HIDE DEF a
  <2>. QED  BY <1>3, <1>5, <2>1 DEF St
<1> HIDE DEF a
<1>. QED  BY <1>1, <1>6, <1>7, TdqAddSteady DEF a

LEMMA ArrivalQuiet ==
    ASSUME QInv, NEW t \in Threads, CanArrive(t), NEW how, NEW s \in Arrivals(t, how),
           NEW u \in St, Alike(s, u), Put(u), UNCHANGED <<curthread, window>>
    PROVE  QInv' /\ IdleAfter
<1>1. Steady(s) /\ On(s) = On(Here) \cup {t} /\ Runners(s) = Runners(Here)
      BY ArrivalsSteady
<1>2. Steady(u) /\ On(u) = On(Here) \cup {t} /\ Runners(u) = Runners(Here)
      BY <1>1, AlikeSteady
<1>3. window # "none" => curthread \notin On(u)
      BY <1>2 DEF QInv, CanArrive
<1>. QED  BY <1>2, <1>3, PutHere, QuietStep

LEMMA SchedAddQInv == ASSUME QInv, NEW t \in Threads, SchedAdd(t) PROVE QInv' /\ IdleAfter
<1>1. PICK s \in Arrivals(t, "BORING") : Put(s)
      BY DEF SchedAdd
<1>2. CanArrive(t) /\ UNCHANGED <<curthread, window>>
      BY DEF SchedAdd
<1>3. s \in St
      BY <1>2, ArrivalsSteady, SteadyType
<1>. QED  BY <1>1, <1>2, <1>3, AlikeItself, ArrivalQuiet

LEMMA RemoteAddQInv == ASSUME QInv, NEW t \in Threads, RemoteAdd(t) PROVE QInv' /\ IdleAfter
<1>1. PICK how \in {"BORING", "YIELDING", "PREEMPTED"} :
          \E s \in Arrivals(t, how) : \E ipi \in NotifyOutcomes(s, t) :
             Put([s EXCEPT !.tdq.ipipending = ipi])
      BY DEF RemoteAdd
<1>2. PICK s \in Arrivals(t, how) : \E ipi \in NotifyOutcomes(s, t) :
             Put([s EXCEPT !.tdq.ipipending = ipi])
      BY <1>1
<1>3. PICK ipi \in NotifyOutcomes(s, t) : Put([s EXCEPT !.tdq.ipipending = ipi])
      BY <1>2
<1>4. CanArrive(t) /\ UNCHANGED <<curthread, window>>
      BY DEF RemoteAdd
<1>5. s \in St
      BY <1>4, ArrivalsSteady, SteadyType
<1> DEFINE u == [s EXCEPT !.tdq.ipipending = ipi]
<1>6. u \in St /\ Alike(s, u)
  <2>1. s \in St /\ ipi \in NotifyOutcomes(s, t) /\ u = [s EXCEPT !.tdq.ipipending = ipi]
        BY <1>5
  <2>2. Alike(s, u)
        BY <2>1, AlikeFields
  <2> HIDE DEF u
  <2>. QED  BY <2>1, <2>2, NotifiedType
<1>7. Put(u)
      BY <1>3
<1> HIDE DEF u
<1>. QED  BY <1>4, <1>6, <1>7, ArrivalQuiet

LEMMA MoveInQInv == ASSUME QInv, NEW t \in Threads, MoveIn(t) PROVE QInv' /\ IdleAfter
<1>1. PICK s \in Arrivals(t, "YIELDING") : Put(s)
      BY DEF MoveIn
<1>2. CanArrive(t) /\ UNCHANGED <<curthread, window>>
      BY DEF MoveIn
<1>3. s \in St
      BY <1>2, ArrivalsSteady, SteadyType
<1>. QED  BY <1>1, <1>2, <1>3, AlikeItself, ArrivalQuiet

LEMMA IdleStealQInv == ASSUME QInv, NEW t \in Threads, IdleSteal(t) PROVE QInv' /\ IdleAfter
<1>1. PICK s \in Arrivals(t, "YIELDING") : Choose(s)
      BY DEF IdleSteal
<1>2. CanArrive(t) /\ Runners(Here) = {}
      BY DEF IdleSteal, Running, QInv
<1>3. Steady(s) /\ Runners(s) = {}
      BY <1>2, ArrivalsSteady
<1>. QED  BY <1>1, <1>3, ChooseQInv


\* A queued thread is taken off and forgotten.
LEMMA SchedRemForgets ==
    ASSUME QInv, NEW t \in Queued, NEW r, curthread \in Threads \cup {IdleThread},
           NEW u, u = [tdq |-> sched_rem(Here, t, r).tdq, td |-> [td EXCEPT ![t] = OffThread]]
    PROVE  Steady(u) /\ On(u) = On(Here) \ {t} /\ Runners(u) = Runners(Here)
<1> DEFINE w == sched_rem(Here, t, r)
           v == [w EXCEPT !.td[t] = OffThread]
<1>1. t \in Threads /\ Steady(Here) /\ Here.td[t].state = "RUNQ" /\ Here.td = td
      BY DEF Queued, QInv, Here
<1>2. /\ Steady(w) /\ On(w) = On(Here) \ {t} /\ Runners(w) = Runners(Here)
      /\ w.td[t].state = "OFF" /\ \A x \in Threads \ {t} : w.td[x] = td[x]
  <2>1. Dropped(Here, t, w)
        BY <1>1, SchedRemSteady
  <2> HIDE DEF w
  <2>. QED  BY <1>1, <2>1 DEF Dropped
<1> HIDE DEF w
<1>3. OffThread \in TdType /\ OffThread.state = "OFF" /\ OffThread.xferable = FALSE
      /\ OffThread.slice \in UsedTicks
      BY OffType, OffFields
<1>4. Steady(v) /\ On(v) = On(w) /\ Runners(v) = Runners(w)
      BY <1>1, <1>2, <1>3, EditSteady
<1>5. u = v
  <2>1. w \in St /\ Here \in St
        BY <1>1, <1>2, SteadyType
  <2>2. w.td \in [Threads -> TdType] /\ td \in [Threads -> TdType]
        BY <1>1, <2>1 DEF St
  <2>3. [w.td EXCEPT ![t] = OffThread] = [td EXCEPT ![t] = OffThread]
        BY <1>2, <2>2
  <2>4. v = [tdq |-> w.tdq, td |-> [w.td EXCEPT ![t] = OffThread]]
        BY <2>1 DEF St
  <2> HIDE DEF v
  <2>. QED  BY <2>3, <2>4 DEF w
<1> HIDE DEF v
<1>. QED  BY <1>2, <1>4, <1>5

LEMMA StealOutQInv == ASSUME IInv, QInv, StealOut PROVE QInv' /\ IdleAfter
<1>1. PICK allowed \in SUBSET Threads, r \in Randoms, t \in Queued :
          \/ /\ tdq' = sched_rem(Here, t, r).tdq
             /\ td' = [td EXCEPT ![t] = OffThread]
             /\ UNCHANGED <<curthread, flags, window, panicked>>
          \/ Panic
      BY DEF StealOut
<1>2. CASE Panic
      BY <1>2, PanicQInv
<1>3. CASE /\ tdq' = sched_rem(Here, t, r).tdq
           /\ td' = [td EXCEPT ![t] = OffThread]
           /\ UNCHANGED <<curthread, flags, window, panicked>>
  <2> DEFINE u == [tdq |-> sched_rem(Here, t, r).tdq, td |-> [td EXCEPT ![t] = OffThread]]
  <2>1. Here' = u
        BY <1>3 DEF Here
  <2>2. curthread \in Threads \cup {IdleThread}
        BY DEF IInv, TypeOK
  <2>3. Steady(u) /\ On(u) = On(Here) \ {t} /\ Runners(u) = Runners(Here)
        BY <2>2, SchedRemForgets
  <2> HIDE DEF u
  <2>4. window # "none" => curthread \notin On(u)
        BY <2>3 DEF QInv
  <2>. QED  BY <1>3, <2>1, <2>3, <2>4, QuietStep
<1>. QED  BY <1>1, <1>2, <1>3

\* The running thread goes back to a queue.
LEMMA RequeueRunning ==
    ASSUME NEW s, Steady(s), NEW t \in Threads, s.td[t].state = "RUNNING",
           NEW how, NEW nice \in NiceValues, NEW u, u = tdq_runq_add(s, t, how, nice)
    PROVE  Steady(u) /\ On(u) = On(s) /\ Runners(u) = Runners(s) \ {t}
<1>1. s \in St /\ Sound(s) /\ t \in On(s)
      BY DEF Steady, Sound, On
<1>2. Sound(u) /\ On(u) = On(s) /\ Runners(u) = Runners(s) \ {t}
  <2> DEFINE v == tdq_runq_add(s, t, how, nice)
  <2>1. Sound(v) /\ On(v) = On(s) \cup {t} /\ Runners(v) = Runners(s) \ {t}
        BY <1>1, AddSound
  <2>. QED  BY <1>1, <2>1
<1>3. Added(s, t, how, u)
      BY <1>1, AddResult
<1>. QED  BY <1>2, <1>3 DEF Steady, Loaded, Added

LEMMA Current ==
    ASSUME QInv, window = "none", curthread \in Threads
    PROVE  /\ Here.td[curthread].state = "RUNNING" /\ curthread \in On(Here)
           /\ Runners(Here) = {curthread}
<1>1. Runners(Here) = {curthread}
      BY TdqAssumption DEF QInv
<1>. QED  BY <1>1 DEF Runners, On

LEMMA SwitchOutQInv ==
    ASSUME QInv, NEW preempt, SwitchOut(preempt) PROVE QInv' /\ IdleAfter
<1> DEFINE how == IF preempt /\ "SLICEEND" \notin flags THEN "PREEMPTED" ELSE "YIELDING"
<1>1. PICK nice \in NiceValues : Choose(tdq_runq_add(Here, curthread, how, nice))
      BY DEF SwitchOut
<1> HIDE DEF how
<1>2. Here.td[curthread].state = "RUNNING" /\ Runners(Here) = {curthread}
      /\ curthread \in Threads /\ Steady(Here)
      BY Current DEF SwitchOut, Running, QInv
<1> DEFINE u == tdq_runq_add(Here, curthread, how, nice)
<1>3. Steady(u) /\ Runners(u) = {}
      BY <1>2, RequeueRunning
<1>4. Choose(u)
      BY <1>1
<1> HIDE DEF u
<1>. QED  BY <1>3, <1>4, ChooseQInv

LEMMA IdleSwitchQInv == ASSUME QInv, IdleSwitch PROVE QInv' /\ IdleAfter
<1>1. Steady(Here) /\ Runners(Here) = {}
      BY DEF QInv, IdleSwitch, Running
<1>. QED  BY <1>1, ChooseQInv DEF IdleSwitch

LEMMA SchedPreemptQInv == ASSUME IInv, QInv, SchedPreempt PROVE QInv' /\ IdleAfter
<1> DEFINE s == [Here EXCEPT !.tdq.ipipending = FALSE]
<1>1. Steady(s) /\ On(s) = On(Here) /\ Runners(s) = Runners(Here) /\ s.td = Here.td
  <2>1. Here \in St
        BY DEF IInv
  <2>2. s \in St /\ Alike(Here, s)
    <3>1. s \in St
          BY <2>1, IpiType
    <3>2. Alike(Here, s)
          BY <2>1, AlikeFields
    <3>. QED  BY <3>1, <3>2
  <2> HIDE DEF s
  <2>. QED  BY <2>2, AlikeSteady DEF QInv, Alike
<1>2. \/ Put(s) /\ UNCHANGED <<curthread, window>>
      \/ curthread = IdleThread /\ Choose(s)
      \/ /\ curthread # IdleThread
         /\ \E nice \in NiceValues :
               Choose(tdq_runq_add(s, curthread,
                   IF "SLICEEND" \in flags THEN "YIELDING" ELSE "PREEMPTED", nice))
  <2> HIDE DEF s
  <2>. QED  BY DEF SchedPreempt, s
<1>3. window = "none"
      BY DEF SchedPreempt, Running
<1> HIDE DEF s
<1>4. CASE Put(s) /\ UNCHANGED <<curthread, window>>
      BY <1>1, <1>3, <1>4, SteadyType, PutHere, QuietStep
<1>5. CASE curthread = IdleThread /\ Choose(s)
      BY <1>1, <1>3, <1>5, ChooseQInv DEF QInv
<1>6. CASE /\ curthread # IdleThread
           /\ \E nice \in NiceValues :
                 Choose(tdq_runq_add(s, curthread,
                     IF "SLICEEND" \in flags THEN "YIELDING" ELSE "PREEMPTED", nice))
  <2> DEFINE how == IF "SLICEEND" \in flags THEN "YIELDING" ELSE "PREEMPTED"
  <2>1. PICK nice \in NiceValues : Choose(tdq_runq_add(s, curthread, how, nice))
        BY <1>6
  <2>2. curthread \in Threads
        BY <1>6 DEF IInv, TypeOK
  <2> HIDE DEF how
  <2>3. s.td[curthread].state = "RUNNING" /\ Runners(s) = {curthread}
        BY <1>1, <1>3, <2>2, Current
  <2> DEFINE u == tdq_runq_add(s, curthread, how, nice)
  <2>4. Steady(u) /\ Runners(u) = {}
        BY <1>1, <2>2, <2>3, RequeueRunning
  <2>5. Choose(u)
        BY <2>1
  <2> HIDE DEF u
  <2>. QED  BY <2>4, <2>5, ChooseQInv
<1>. QED  BY <1>2, <1>4, <1>5, <1>6


\* curthread is counted no more and its fields are forgotten.
LEMMA LeavingSteady ==
    ASSUME IInv, QInv, window = "none", curthread \in Threads
    PROVE  Steady(Leaving) /\ On(Leaving) = On(Here) \ {curthread} /\ Runners(Leaving) = {}
<1> DEFINE w == tdq_load_rem(Here, curthread)
           d == [OffThread EXCEPT !.priority = td[curthread].priority]
           u == Leaving
<1>1. /\ Steady(Here) /\ Sound(Here) /\ Here \in St /\ IsFiniteSet(On(Here))
      /\ Here.td[curthread].state = "RUNNING" /\ curthread \in On(Here)
      /\ Runners(Here) = {curthread}
      BY Current DEF QInv, Steady, Sound
<1>2. w \in St /\ Counted(Here, Here.tdq.load - 1, Here.tdq.sysload - SysLoadOf(curthread), w)
      BY <1>1, LoadRemResult
<1>3. d \in TdType /\ d.state = "OFF" /\ d.xferable = FALSE /\ d.slice \in UsedTicks
  <2>1. td[curthread].priority \in 0 .. PRI_MAX_IDLE
        BY DEF IInv, TypeOK, TdType
  <2>2. d \in TdType
        BY <2>1, OffType DEF TdType
  <2>3. d.state = "OFF" /\ d.xferable = FALSE /\ d.slice \in UsedTicks
        BY OffFields
  <2>. QED  BY <2>2, <2>3
<1>4. u = [w EXCEPT !.td[curthread] = d]
      BY DEF Leaving
<1> HIDE DEF w, d, u
<1>5. Sound(w) /\ On(w) = On(Here) /\ Runners(w) = Runners(Here) /\ w.td = Here.td
      BY <1>1, <1>2, CountedSound DEF Counted
<1>6. u \in St
      BY <1>2, <1>3, <1>4, FieldTypes
<1>7. u.tdq = w.tdq /\ u.td[curthread] = d /\ \A x \in Threads \ {curthread} : u.td[x] = w.td[x]
      BY <1>2, <1>4 DEF St
<1>8. Sound(u) /\ On(u) = On(w) \ {curthread} /\ Runners(u) = Runners(w) \ {curthread}
  <2>1. /\ w.td[curthread].state # "RUNQ" /\ u.td[curthread].state = "OFF"
        /\ u.td[curthread].state # "RUNQ"
        /\ u.td[curthread].state # w.td[curthread].state => u.td[curthread].state = "OFF"
        /\ u.td[curthread].xferable = FALSE /\ u.td[curthread].slice \in UsedTicks
        BY <1>1, <1>3, <1>5, <1>7
  <2>2. /\ Sound(u)
        /\ On(u) = IF u.td[curthread].state = "OFF" THEN On(w) \ {curthread} ELSE On(w)
        /\ Runners(u) = IF u.td[curthread].state = "OFF" THEN Runners(w) \ {curthread}
                                                          ELSE Runners(w)
        BY <1>5, <1>6, <1>7, <2>1, EditSound, ZenonT(60)
  <2>. QED  BY <2>1, <2>2
<1>9. Loaded(u, On(u))
  <2>1. /\ Here.tdq.load = Cardinality(On(Here))
        /\ Here.tdq.sysload = Cardinality(On(Here) \ NoLoad)
        BY <1>1 DEF Steady, Loaded
  <2>2. /\ Cardinality(On(Here) \ {curthread}) = Cardinality(On(Here)) - 1
        /\ Cardinality((On(Here) \ {curthread}) \ NoLoad)
               = Cardinality(On(Here) \ NoLoad) - SysLoadOf(curthread)
        BY <1>1, LoadsFollow
  <2>3. /\ u.tdq.load = Here.tdq.load - 1
        /\ u.tdq.sysload = Here.tdq.sysload - SysLoadOf(curthread)
        BY <1>2, <1>7 DEF Counted
  <2>. QED  BY <1>5, <1>8, <2>1, <2>2, <2>3 DEF Loaded
<1>. QED  BY <1>1, <1>5, <1>8, <1>9 DEF Steady, u

LEMMA GoneSteady ==
    ASSUME NEW s, Steady(s), curthread \notin On(s)
    PROVE  Steady(Gone(s)) /\ Runners(Gone(s)) = Runners(s)
<1>1. CASE curthread \in Threads
  <2> DEFINE u == [s EXCEPT !.td[curthread] = OffThread]
  <2>1. s.td[curthread].state = "OFF"
        BY <1>1 DEF On
  <2>2. OffThread \in TdType /\ OffThread.state = "OFF" /\ OffThread.xferable = FALSE
        /\ OffThread.slice \in UsedTicks
        BY OffType, OffFields
  <2>3. Steady(u) /\ On(u) = On(s) /\ Runners(u) = Runners(s)
    <3>1. s.td[curthread].state # "RUNQ" /\ OffThread.state = s.td[curthread].state
          BY <2>1, <2>2
    <3>. QED  BY <1>1, <2>2, <3>1, EditSteady, ZenonT(60)
  <2>4. Gone(s) = u
        BY <1>1 DEF Gone
  <2> HIDE DEF u
  <2>. QED  BY <2>3, <2>4
<1>2. CASE curthread \notin Threads
      BY <1>2 DEF Gone
<1>. QED  BY <1>1, <1>2

\* With the lock dropped, curthread waits outside.
LEMMA LeavingWindow ==
    ASSUME IInv, QInv, window = "none", curthread \in Threads, Put(Leaving),
           UNCHANGED curthread, window' # "none"
    PROVE  QInv' /\ IdleAfter
<1> DEFINE u == Leaving
<1>1. Steady(u) /\ On(u) = On(Here) \ {curthread} /\ Runners(u) = {}
      BY LeavingSteady
<1>2. Here' = u
      BY <1>1, SteadyType, PutHere
<1> HIDE DEF u
<1>3. Steady(Here)' /\ curthread' \notin On(Here)' /\ Runners(Here)' = {}
      BY <1>1, <1>2
<1>4. QInv'
      BY <1>3 DEF QInv
<1>. QED  BY <1>4, TdqAssumption DEF IdleAfter

LEMMA SleepQInv == ASSUME IInv, QInv, Sleep PROVE QInv' /\ IdleAfter
<1>1. window = "none" /\ curthread \in Threads
      BY DEF Sleep, Running
<1>2. Steady(Leaving) /\ On(Leaving) = On(Here) \ {curthread} /\ Runners(Leaving) = {}
      BY <1>1, LeavingSteady
<1>3. CASE Choose(Gone(Leaving))
      BY <1>2, <1>3, GoneSteady, ChooseQInv
<1>4. CASE Put(Leaving) /\ window' = "trysteal" /\ UNCHANGED curthread
      BY <1>1, <1>4, LeavingWindow
<1>. QED  BY <1>3, <1>4 DEF Sleep

LEMMA ExitQInv == ASSUME IInv, QInv, Exit PROVE QInv' /\ IdleAfter
<1>1. window = "none" /\ curthread \in Threads
      BY DEF Exit, Running
<1>2. Steady(Leaving) /\ On(Leaving) = On(Here) \ {curthread} /\ Runners(Leaving) = {}
      BY <1>1, LeavingSteady
<1>. QED  BY <1>2, GoneSteady, ChooseQInv DEF Exit

LEMMA SwitchMigrateQInv == ASSUME IInv, QInv, SwitchMigrate PROVE QInv' /\ IdleAfter
<1>1. window = "none" /\ curthread \in Threads /\ Put(Leaving) /\ window' = "migrate"
      /\ UNCHANGED curthread
      BY DEF SwitchMigrate, Running
<1>. QED  BY <1>1, LeavingWindow

LEMMA EndWindowQInv == ASSUME QInv, EndWindow PROVE QInv' /\ IdleAfter
<1>1. Steady(Here) /\ Runners(Here) = {} /\ curthread \notin On(Here)
      BY DEF QInv, EndWindow
<1>2. CASE Choose(Gone(Here))
      BY <1>1, <1>2, GoneSteady, ChooseQInv
<1>3. CASE \E t \in Threads : CanArrive(t) /\ \E s \in Arrivals(t, "YIELDING") : Choose(Gone(s))
  <2>1. PICK t \in Threads :
            CanArrive(t) /\ \E s \in Arrivals(t, "YIELDING") : Choose(Gone(s))
        BY <1>3
  <2>2. PICK s \in Arrivals(t, "YIELDING") : Choose(Gone(s))
        BY <2>1
  <2>3. Steady(s) /\ On(s) = On(Here) \cup {t} /\ Runners(s) = {}
        BY <1>1, <2>1, ArrivalsSteady
  <2>4. curthread \notin On(s)
        BY <1>1, <2>1, <2>3 DEF CanArrive
  <2>5. Steady(Gone(s)) /\ Runners(Gone(s)) = {}
        BY <2>3, <2>4, GoneSteady
  <2>. QED  BY <2>2, <2>5, ChooseQInv
<1>. QED  BY <1>2, <1>3 DEF EndWindow


\* The running thread's fields change, its state apart.
LEMMA RunningEdit ==
    ASSUME QInv, window = "none", curthread \in Threads, NEW d \in TdType,
           d.state = "RUNNING", d.xferable = FALSE, d.slice \in UsedTicks,
           NEW u, u = [Here EXCEPT !.td[curthread] = d]
    PROVE  Steady(u) /\ On(u) = On(Here) /\ Runners(u) = Runners(Here)
<1> DEFINE v == [Here EXCEPT !.td[curthread] = d]
<1>1. Steady(Here) /\ Here.td[curthread].state = "RUNNING"
      BY Current DEF QInv
<1>2. Here.td[curthread].state # "RUNQ" /\ d.state = Here.td[curthread].state
      BY <1>1
<1>3. Steady(v) /\ On(v) = On(Here) /\ Runners(v) = Runners(Here)
      BY <1>1, <1>2, EditSteady, Zenon
<1>. QED  BY <1>3

LEMMA CurrentFields ==
    ASSUME QInv, window = "none", curthread \in Threads
    PROVE  /\ td[curthread] \in TdType /\ td[curthread].state = "RUNNING"
           /\ td[curthread].xferable = FALSE /\ td[curthread].slice \in UsedTicks
           /\ Here \in St /\ Here.td = td
<1>1. Here.td[curthread].state = "RUNNING" /\ Sound(Here) /\ Here.td = td /\ Here \in St
      BY Current DEF QInv, Steady, Sound, Here
<1>2. td[curthread] \in TdType
      BY <1>1 DEF St
<1>3. td[curthread].xferable = FALSE
      BY <1>1, <1>2 DEF Sound, Transferred, Movable, TdType
<1>4. td[curthread].slice \in UsedTicks
      BY <1>1 DEF Sound, Slices
<1>. QED  BY <1>1, <1>2, <1>3, <1>4

LEMMA RunningPrioritySteady ==
    ASSUME QInv, window = "none", curthread \in Threads, NEW prio \in Prios,
           NEW u, u = [Here EXCEPT !.td[curthread].priority = prio]
    PROVE  Steady(u) /\ On(u) = On(Here) /\ Runners(u) = Runners(Here)
<1> DEFINE d == [td[curthread] EXCEPT !.priority = prio]
<1>1. d \in TdType /\ d.state = "RUNNING" /\ d.xferable = FALSE /\ d.slice \in UsedTicks
      BY CurrentFields, TdqAssumption DEF TdType
<1>2. u = [Here EXCEPT !.td[curthread] = d]
      BY DEF Here
<1> HIDE DEF d
<1> DEFINE v == [Here EXCEPT !.td[curthread] = d]
<1>3. Steady(v) /\ On(v) = On(Here) /\ Runners(v) = Runners(Here)
      BY <1>1, RunningEdit, Zenon
<1>. QED  BY <1>2, <1>3

\* curthread stays and the queues are those of s.
LEMMA AlikeQuiet ==
    ASSUME QInv, window = "none", NEW s, Steady(s), Runners(s) = Runners(Here),
           NEW u \in St, Alike(s, u), Put(u), UNCHANGED <<curthread, window>>
    PROVE  QInv' /\ IdleAfter
<1>1. Steady(u) /\ Runners(u) = Runners(Here)
      BY AlikeSteady
<1>. QED  BY <1>1, PutHere, QuietStep

LEMMA RunningPriorityQInv ==
    ASSUME IInv, QInv, NEW prio \in Prios, RunningPriority(prio)
    PROVE  QInv' /\ IdleAfter
<1> DEFINE s == [Here EXCEPT !.td[curthread].priority = prio]
           low == [s EXCEPT !.tdq.lowpri = prio]
<1>1. window = "none" /\ curthread \in Threads /\ UNCHANGED <<curthread, window>>
      BY DEF RunningPriority, Running
<1>2. Steady(s) /\ Runners(s) = Runners(Here)
      BY <1>1, RunningPrioritySteady
<1>3. \/ Put(low)
      \/ Put(s)
      \/ \E r \in Randoms : Put(tdq_setlowpri(s, curthread, r))
      \/ UNCHANGED <<tdq, td>>
  <2> HIDE DEF s
  <2>. QED  BY DEF RunningPriority, s
<1> HIDE DEF s
<1>4. s \in St /\ prio \in 0 .. PRI_MAX_IDLE /\ curthread \in Threads \cup {IdleThread}
      BY <1>1, <1>2, SteadyType, TdqAssumption
<1>5. CASE Put(low)
  <2>1. low \in St /\ Alike(s, low)
        BY <1>4, LowpriType, AlikeFields
  <2> HIDE DEF low
  <2>. QED  BY <1>1, <1>2, <1>5, <2>1, AlikeQuiet
<1>6. CASE Put(s)
      BY <1>1, <1>2, <1>4, <1>6, AlikeItself, AlikeQuiet
<1>7. CASE \E r \in Randoms : Put(tdq_setlowpri(s, curthread, r))
  <2>1. PICK r \in Randoms : Put(tdq_setlowpri(s, curthread, r))
        BY <1>7
  <2> DEFINE u == tdq_setlowpri(s, curthread, r)
  <2>2. u \in St /\ Alike(s, u)
        BY <1>4, SetlowpriType, SetlowpriAlike
  <2>3. Put(u)
        BY <2>1
  <2> HIDE DEF u
  <2>. QED  BY <1>1, <1>2, <2>2, <2>3, AlikeQuiet
<1>8. CASE UNCHANGED <<tdq, td>>
  <2>1. Here' = Here
        BY <1>8 DEF Here
  <2>. QED  BY <1>1, <2>1, QuietStep DEF QInv
<1>. QED  BY <1>3, <1>5, <1>6, <1>7, <1>8

LEMMA UserRetQInv ==
    ASSUME IInv, QInv, NEW prio \in Prios, UserRet(prio)
    PROVE  QInv' /\ IdleAfter
<1> DEFINE s == [Here EXCEPT !.td[curthread].priority = prio]
<1>1. window = "none" /\ curthread \in Threads
      BY DEF UserRet, Running
<1>2. Steady(s) /\ Runners(s) = Runners(Here)
      BY <1>1, RunningPrioritySteady
<1>3. \/ \E r \in Randoms : /\ Put(tdq_setlowpri(s, curthread, r))
                            /\ UNCHANGED <<curthread, window>>
      \/ Panic
  <2> HIDE DEF s
  <2>. QED  BY DEF UserRet, s
<1> HIDE DEF s
<1>4. s \in St /\ curthread \in Threads \cup {IdleThread}
      BY <1>1, <1>2, SteadyType
<1>5. CASE \E r \in Randoms : /\ Put(tdq_setlowpri(s, curthread, r))
                              /\ UNCHANGED <<curthread, window>>
  <2>1. PICK r \in Randoms : /\ Put(tdq_setlowpri(s, curthread, r))
                             /\ UNCHANGED <<curthread, window>>
        BY <1>5
  <2> DEFINE u == tdq_setlowpri(s, curthread, r)
  <2>2. u \in St /\ Alike(s, u)
        BY <1>4, SetlowpriType, SetlowpriAlike
  <2>3. Put(u)
        BY <2>1
  <2> HIDE DEF u
  <2>. QED  BY <1>1, <1>2, <2>1, <2>2, <2>3, AlikeQuiet
<1>. QED  BY <1>3, <1>5, PanicQInv

\* A priority that gets worse still fits the queue the thread waits on.
LEMMA QueuedWorseQInv ==
    ASSUME QInv, NEW t \in Threads, NEW prio \in Prios, QueuedWorse(t, prio)
    PROVE  QInv' /\ IdleAfter
<1> DEFINE d == [td[t] EXCEPT !.priority = prio]
           u == [Here EXCEPT !.td[t] = d]
<1>1. /\ Here.td = td /\ Steady(Here) /\ Sound(Here) /\ Here \in St /\ Here.tdq = tdq
      /\ td[t].state = "RUNQ" /\ prio > td[t].priority
      BY DEF QInv, Steady, Sound, QueuedWorse, Queued, Here
<1>2. td \in [Threads -> TdType] /\ td[t] \in TdType /\ prio \in 0 .. PRI_MAX_IDLE
      BY <1>1, TdqAssumption DEF St
<1>3. /\ d \in TdType /\ d.state = "RUNQ" /\ d.ts_runq = td[t].ts_runq
      /\ d.rqindex = td[t].rqindex /\ d.xferable = td[t].xferable
      /\ d.pinned = td[t].pinned /\ d.slice = td[t].slice /\ d.priority = prio
      BY <1>1, <1>2 DEF TdType
<1>4. Here' = u
      BY DEF QueuedWorse, Here
<1> HIDE DEF d
<1>5. u \in St
      BY <1>1, <1>3, FieldTypes
<1>6. u.tdq = Here.tdq /\ u.td[t] = d /\ \A x \in Threads \ {t} : u.td[x] = td[x]
      BY <1>1, <1>2 DEF St
<1> HIDE DEF u
<1>7. On(u) = On(Here) /\ Movable(u) = Movable(Here) /\ Runners(u) = Runners(Here)
      BY <1>1, <1>3, <1>6 DEF On, Movable, Runners
<1>8. Placed(u)
  <2>1. \A queue \in Queues, i \in Slots : QueueAt(u, queue, i) = QueueAt(Here, queue, i)
        BY <1>6 DEF QueueAt
  <2>2. \A x \in Threads : /\ u.td[x].state = td[x].state /\ u.td[x].ts_runq = td[x].ts_runq
                           /\ u.td[x].rqindex = td[x].rqindex
        BY <1>1, <1>3, <1>6
  <2>3. Placed(Here)
        BY <1>1 DEF Sound
  <2>. QED  BY <1>1, <2>1, <2>2, <2>3 DEF Placed
<1>9. Transferred(u)
  <2>1. \A x \in Threads : u.td[x].xferable = td[x].xferable
        BY <1>3, <1>6
  <2>. QED  BY <1>1, <1>6, <1>7, <2>1 DEF Sound, Transferred
<1>10. Fits(u)
  <2>1. Fits(Here)
        BY <1>1 DEF Sound
  <2>2. PRI_MIN_BATCH \in Nat /\ PRI_MIN_IDLE \in Nat /\ td[t].priority \in Nat /\ prio \in Nat
        BY <1>2, TdqAssumption DEF TdType
  <2>3. /\ td[t].ts_runq \in {"timeshare", "lottery"} => prio >= PRI_MIN_BATCH
        /\ td[t].ts_runq = "idle" => prio >= PRI_MIN_IDLE
        BY <1>1, <2>1, <2>2 DEF Fits
  <2>. QED  BY <1>1, <1>3, <1>6, <2>1, <2>3 DEF Fits
<1>11. Slices(u)
      BY <1>1, <1>3, <1>6 DEF Sound, Slices
<1>12. Sound(u)
      BY <1>1, <1>5, <1>7, <1>8, <1>9, <1>10, <1>11 DEF Sound
<1>13. Steady(u)
      BY <1>1, <1>6, <1>7, <1>12 DEF Steady, Loaded
<1>14. UNCHANGED <<curthread, window>>
      BY DEF QueuedWorse
<1>. QED  BY <1>4, <1>7, <1>13, <1>14, QuietStep DEF QInv


\* sched_rem, the new priority and sched_add, in one step.
LEMMA RequeueQInv ==
    ASSUME IInv, QInv, NEW t \in Queued, NEW prio \in 0 .. PRI_MAX_IDLE, NEW how,
           Requeue(t, prio, how)
    PROVE  QInv' /\ IdleAfter
<1> DEFINE w(r) == sched_rem(Here, t, r)
           s(r) == [w(r) EXCEPT !.td[t].priority = prio]
           a(r, nice) == tdq_add(s(r), t, how, nice)
<1>1. PICK r \in Randoms, nice \in NiceValues :
          \/ Panic
          \/ /\ UNCHANGED <<curthread, window, panicked>>
             /\ \/ tdq' = s(r).tdq /\ td' = [td EXCEPT ![t] = OffThread]
                \/ Put(a(r, nice))
                \/ \E ipi \in NotifyOutcomes(a(r, nice), t) :
                       Put([a(r, nice) EXCEPT !.tdq.ipipending = ipi])
      BY DEF Requeue
<1>2. /\ t \in Threads /\ Here.td[t].state = "RUNQ" /\ Steady(Here) /\ t \in On(Here)
      /\ curthread \in Threads \cup {IdleThread}
      BY DEF Queued, QInv, Here, On, IInv, TypeOK
<1>3. Dropped(Here, t, w(r))
      BY <1>2, SchedRemSteady
<1> HIDE DEF w
<1>4. w(r) \in St /\ Here \in St
      BY <1>2, <1>3, SteadyType DEF Dropped
<1> DEFINE d == [w(r).td[t] EXCEPT !.priority = prio]
<1>5. /\ d \in TdType /\ d.state = "OFF" /\ d.xferable = FALSE /\ d.slice \in UsedTicks
      /\ w(r).td[t].state = "OFF"
  <2>1. w(r).td[t] \in TdType /\ w(r).td[t].state = "OFF" /\ w(r).td[t].xferable = FALSE
        /\ w(r).td[t].slice = Here.td[t].slice
        BY <1>2, <1>3, <1>4 DEF Dropped, St
  <2>2. Here.td[t].slice \in UsedTicks
        BY <1>2 DEF Steady, Sound, Slices
  <2>. QED  BY <2>1, <2>2 DEF TdType
<1>6. s(r) = [w(r) EXCEPT !.td[t] = d]
      OBVIOUS
<1> HIDE DEF d, s
<1>7. /\ Steady(s(r)) /\ On(s(r)) = On(Here) \ {t} /\ Runners(s(r)) = Runners(Here)
      /\ s(r).td[t].state = "OFF" /\ s(r).tdq = w(r).tdq
  <2> DEFINE v == [w(r) EXCEPT !.td[t] = d]
  <2>1. Steady(v) /\ On(v) = On(w(r)) /\ Runners(v) = Runners(w(r))
    <3>1. w(r).td[t].state # "RUNQ" /\ d.state = w(r).td[t].state /\ Steady(w(r))
          BY <1>3, <1>5 DEF Dropped
    <3>. QED  BY <1>2, <1>5, <3>1, EditSteady, Zenon
  <2>2. v.td[t] = d /\ v.tdq = w(r).tdq
        BY <1>2, <1>4 DEF St
  <2> HIDE DEF v
  <2>3. s(r) = v
        BY <1>6 DEF v
  <2>. QED  BY <1>3, <1>5, <2>1, <2>2, <2>3 DEF Dropped
<1>8. Steady(a(r, nice)) /\ On(a(r, nice)) = On(Here) /\ Runners(a(r, nice)) = Runners(Here)
  <2>1. /\ Steady(a(r, nice)) /\ On(a(r, nice)) = On(s(r)) \cup {t}
        /\ Runners(a(r, nice)) = Runners(s(r))
        BY <1>2, <1>7, TdqAddSteady
  <2> HIDE DEF a
  <2>. QED  BY <1>2, <1>7, <2>1
<1>9. a(r, nice) \in St
      BY <1>8, SteadyType
<1> HIDE DEF a
<1>10. CASE Panic
       BY <1>10, PanicQInv
<1>11. CASE /\ UNCHANGED <<curthread, window>>
            /\ tdq' = s(r).tdq /\ td' = [td EXCEPT ![t] = OffThread]
  <2> DEFINE u == [tdq |-> sched_rem(Here, t, r).tdq, td |-> [td EXCEPT ![t] = OffThread]]
  <2>1. Here' = u
        BY <1>7, <1>11 DEF Here, w
  <2>2. Steady(u) /\ On(u) = On(Here) \ {t} /\ Runners(u) = Runners(Here)
        BY <1>2, SchedRemForgets
  <2> HIDE DEF u
  <2>3. window # "none" => curthread \notin On(u)
        BY <2>2 DEF QInv
  <2>. QED  BY <1>11, <2>1, <2>2, <2>3, QuietStep
<1>12. ASSUME NEW u \in St, Alike(a(r, nice), u), Put(u), UNCHANGED <<curthread, window>>
       PROVE  QInv' /\ IdleAfter
  <2>1. Steady(u) /\ On(u) = On(Here) /\ Runners(u) = Runners(Here)
        BY <1>8, <1>12, AlikeSteady
  <2>. QED  BY <1>12, <2>1, PutHere, QuietStep DEF QInv
<1>13. CASE UNCHANGED <<curthread, window>> /\ Put(a(r, nice))
       BY <1>9, <1>12, <1>13, AlikeItself
<1>14. CASE /\ UNCHANGED <<curthread, window>>
            /\ \E ipi \in NotifyOutcomes(a(r, nice), t) :
                  Put([a(r, nice) EXCEPT !.tdq.ipipending = ipi])
  <2>1. PICK ipi \in NotifyOutcomes(a(r, nice), t) :
            Put([a(r, nice) EXCEPT !.tdq.ipipending = ipi])
        BY <1>14
  <2> DEFINE u == [a(r, nice) EXCEPT !.tdq.ipipending = ipi]
  <2>2. u \in St
        BY <1>9, NotifyType, IpiType
  <2>3. Alike(a(r, nice), u)
        BY <1>9, AlikeFields
  <2>4. Put(u)
        BY <2>1
  <2> HIDE DEF u
  <2>. QED  BY <1>12, <1>14, <2>2, <2>3, <2>4
<1>. QED  BY <1>1, <1>10, <1>11, <1>13, <1>14

LEMMA PinQInv == ASSUME QInv, Pin PROVE QInv' /\ IdleAfter
<1> DEFINE pin == ~td[curthread].pinned
           d == [td[curthread] EXCEPT !.pinned = pin]
           u == [Here EXCEPT !.td[curthread] = d]
<1>1. window = "none" /\ curthread \in Threads /\ UNCHANGED <<tdq, curthread, window>>
      /\ td' = [td EXCEPT ![curthread] = d]
      BY DEF Pin, Running
<1>2. d \in TdType /\ d.state = "RUNNING" /\ d.xferable = FALSE /\ d.slice \in UsedTicks
  <2> HIDE DEF pin
  <2>1. pin \in BOOLEAN
        BY DEF pin
  <2>. QED  BY <1>1, <2>1, CurrentFields DEF TdType
<1> HIDE DEF d
<1>3. Here' = u
      BY <1>1 DEF Here
<1>4. Steady(u) /\ On(u) = On(Here) /\ Runners(u) = Runners(Here)
  <2> HIDE DEF u
  <2>. QED  BY <1>1, <1>2, RunningEdit, Zenon DEF u
<1> HIDE DEF u
<1>. QED  BY <1>1, <1>3, <1>4, QuietStep DEF QInv

\* The slice shrinks with the load and is never longer than the quantum.
LEMMA QuantumBound ==
    ASSUME NEW s \in St
    PROVE  tdq_slice(s) \in Nat /\ tdq_slice(s) <= sched_slice
<1> DEFINE load == s.tdq.sysload - 1
<1>1. load \in Int
      BY DEF St, GoodTdq, TdqType
<1>2. /\ sched_slice \in Nat \ {0} /\ sched_slice_min \in 0 .. sched_slice
      /\ SLICE_MIN_DIVISOR \in Nat
      BY TdqAssumption, QuantumFacts
<1> HIDE DEF load
<1>3. CASE load >= SLICE_MIN_DIVISOR
  <2>1. tdq_slice(s) = sched_slice_min
        BY <1>1, <1>2, <1>3 DEF tdq_slice, load
  <2>. QED  BY <1>2, <2>1
<1>4. CASE ~(load >= SLICE_MIN_DIVISOR) /\ load <= 1
  <2>1. tdq_slice(s) = sched_slice
        BY <1>1, <1>2, <1>4 DEF tdq_slice, load
  <2>. QED  BY <1>2, <2>1
<1>5. CASE ~(load >= SLICE_MIN_DIVISOR) /\ ~(load <= 1)
  <2>1. tdq_slice(s) = sched_slice \div load
        BY <1>1, <1>2, <1>5 DEF tdq_slice, load
  <2>2. load \in Nat /\ load > 1
        BY <1>1, <1>5
  <2>3. sched_slice \div load \in Nat /\ sched_slice \div load <= sched_slice
        BY <1>2, <2>2, Quotient
  <2>. QED  BY <2>1, <2>3
<1>. QED  BY <1>3, <1>4, <1>5

LEMMA SchedClockQInv == ASSUME IInv, QInv, SchedClock PROVE QInv' /\ IdleAfter
<1> DEFINE q    == [tdq EXCEPT !.idx = ClockIndexes(tdq).idx, !.ridx = ClockIndexes(tdq).ridx]
           p    == [tdq |-> q, td |-> td]
           used == td[curthread].slice + 1
           d(n) == [td[curthread] EXCEPT !.slice = n]
           u(n) == [Here EXCEPT !.td[curthread] = d(n)]
<1>1. window = "none" /\ UNCHANGED <<curthread, window>>
      BY DEF SchedClock, Running
<1>2. tdq \in GoodTdq /\ tdq \in TdqType /\ td \in [Threads -> TdType] /\ Here \in St
      BY DEF IInv, Here, St, GoodTdq
<1>3. tdq' = q /\ q \in GoodTdq
      BY <1>2, ClockIndexesType, Zenon DEF SchedClock
<1>4. /\ q.runq = tdq.runq /\ q.transferable = tdq.transferable
      /\ q.load = tdq.load /\ q.sysload = tdq.sysload
      BY <1>2 DEF TdqType
<1> HIDE DEF q
<1>5. \/ td' = td
      \/ /\ curthread \in Threads
         /\ \E n \in {0, used} : td' = [td EXCEPT ![curthread] = d(n)] /\ n < sched_slice
  <2> DEFINE counted == curthread \in Threads \ Fifo
             ended == counted /\ used >= tdq_slice(Here)
  <2>1. td' = IF counted THEN [td EXCEPT ![curthread].slice = IF ended THEN 0 ELSE used]
                         ELSE td
        BY DEF SchedClock
  <2>2. CASE ~counted
        BY <2>1, <2>2
  <2>3. CASE ended
    <3> HIDE DEF used
    <3>1. td' = [td EXCEPT ![curthread] = d(0)]
          BY <2>1, <2>3
    <3>. QED  BY <2>3, <3>1, TdqAssumption
  <2>4. CASE counted /\ ~ended
    <3>1. used \in Nat
          BY <1>2, <2>4 DEF TdType
    <3>2. used < sched_slice
      <4> HIDE DEF used
      <4>. QED  BY <1>2, <2>4, <3>1, QuantumBound, TdqAssumption
    <3> HIDE DEF used
    <3>3. td' = [td EXCEPT ![curthread] = d(used)]
          BY <2>1, <2>4
    <3>. QED  BY <2>4, <3>2, <3>3
  <2>. QED  BY <2>2, <2>3, <2>4
<1>6. ASSUME NEW v, Steady(v), v.tdq = tdq, Runners(v) = Runners(Here), td' = v.td
      PROVE  QInv' /\ IdleAfter
  <2> DEFINE z == [tdq |-> q, td |-> v.td]
  <2>1. Here' = z
        BY <1>3, <1>6 DEF Here
  <2>2. v \in St
        BY <1>6, SteadyType
  <2>3. z \in St
        BY <1>3, <2>2 DEF St
  <2>4. Sound(v) /\ Loaded(v, On(v))
        BY <1>6 DEF Steady
  <2>5. Sound(z) /\ On(z) = On(v) /\ Runners(z) = Runners(v)
    <3>1. /\ z.td = v.td /\ z.tdq.transferable = v.tdq.transferable
          /\ \A queue \in Queues, i \in Slots : QueueAt(z, queue, i) = QueueAt(v, queue, i)
          BY <1>4, <1>6 DEF QueueAt
    <3> HIDE DEF z
    <3>. QED  BY <2>3, <2>4, <3>1, SameSound
  <2>6. z.tdq.load = v.tdq.load /\ z.tdq.sysload = v.tdq.sysload
        BY <1>4, <1>6
  <2> HIDE DEF z
  <2>7. Steady(z) /\ Runners(z) = Runners(Here)
        BY <1>6, <2>4, <2>5, <2>6 DEF Steady, Loaded
  <2>. QED  BY <1>1, <2>1, <2>7, QuietStep
<1>7. CASE td' = td
      BY <1>6, <1>7 DEF QInv, Here
<1>8. CASE /\ curthread \in Threads
           /\ \E n \in {0, used} : td' = [td EXCEPT ![curthread] = d(n)] /\ n < sched_slice
  <2>1. PICK n \in {0, used} : td' = [td EXCEPT ![curthread] = d(n)] /\ n < sched_slice
        BY <1>8
  <2>2. n \in Nat
    <3>1. used \in Nat
          BY <1>2, <1>8 DEF TdType
    <3> HIDE DEF used
    <3>. QED  BY <3>1
  <2>3. d(n) \in TdType /\ d(n).state = "RUNNING" /\ d(n).xferable = FALSE
        /\ d(n).slice \in UsedTicks
    <3>1. n \in UsedTicks
          BY <2>1, <2>2, QuantumFacts
    <3>. QED  BY <1>1, <1>8, <2>2, <3>1, CurrentFields DEF TdType
  <2> HIDE DEF d
  <2>4. Steady(u(n)) /\ Runners(u(n)) = Runners(Here)
    <3> DEFINE z == u(n)
    <3>1. z = [Here EXCEPT !.td[curthread] = d(n)]
          OBVIOUS
    <3> HIDE DEF z, u
    <3>2. Steady(z) /\ Runners(z) = Runners(Here)
          BY <1>1, <1>8, <2>3, <3>1, RunningEdit, Zenon
    <3>. QED  BY <3>2 DEF z
  <2>5. u(n).tdq = tdq /\ u(n).td = [td EXCEPT ![curthread] = d(n)]
        BY DEF Here
  <2> HIDE DEF u
  <2>. QED  BY <1>6, <2>1, <2>4, <2>5
<1>. QED  BY <1>5, <1>7, <1>8

LEMMA AffinityRunningQInv == ASSUME QInv, AffinityRunning PROVE QInv' /\ IdleAfter
<1>1. Here' = Here /\ UNCHANGED <<curthread, window>>
      BY DEF AffinityRunning, Here
<1>. QED  BY <1>1, QuietStep DEF QInv


-----------------------------------------------------------------------------
(* The slot that drains *)

\* The sequence of a slot grows at its end only from nothing.
Held(old, new) ==
    old # <<>> => \/ Len(new) <= Len(old)
                  \/ Len(new) = Len(old) + 1 /\ new[Len(new)] = old[Len(old)]

\* The slot that is the removal index of h.
DrainQ(h, s) == QueueAt(s, "timeshare", h.tdq.ridx)

Draining(h, s) == h.tdq.idx # h.tdq.ridx /\ s.tdq.ridx = h.tdq.ridx

\* The thread queue s comes from h by insertions and removals that spare the
\* tail of the slot, or the slot drains no more; in Still nothing has joined yet.
Within(h, s) ==
    /\ s.tdq.idx = h.tdq.idx /\ s.tdq.ridx \in {h.tdq.ridx, h.tdq.idx}
    /\ Draining(h, s) => Held(DrainQ(h, h), DrainQ(h, s))

Still(h, s) ==
    /\ s.tdq.idx = h.tdq.idx /\ s.tdq.ridx = h.tdq.ridx
    /\ DrainQ(h, s) = DrainQ(h, h)

LEMMA SeqHeld ==
    ASSUME NEW S, NEW old \in Seq(S), NEW t \in S
    PROVE  /\ Held(old, old) /\ Held(old, <<t>> \o old)
           /\ \A mid \in Seq(S) : \A new :
                 Held(old, mid) /\ (new = mid \/ Len(new) = Len(mid) - 1) => Held(old, new)
<1>1. Held(old, old)
      BY LenProperties DEF Held
<1>2. ASSUME old # <<>> PROVE Held(old, <<t>> \o old)
  <2>1. <<t>> \in Seq(S) /\ Len(<<t>>) = 1
        OBVIOUS
  <2>2. /\ Len(<<t>> \o old) = 1 + Len(old) /\ Len(old) \in Nat /\ Len(old) # 0
        BY <1>2, <2>1, ConcatProperties, LenProperties, EmptySeq
  <2>3. (<<t>> \o old)[Len(old) + 1] = old[Len(old)]
        BY <2>1, <2>2, ConcatProperties
  <2>. QED  BY <2>2, <2>3 DEF Held
<1>3. ASSUME NEW mid \in Seq(S), NEW new, Held(old, mid), new = mid \/ Len(new) = Len(mid) - 1
      PROVE  Held(old, new)
  <2>1. Len(old) \in Nat /\ Len(mid) \in Nat
        BY LenProperties
  <2>. QED  BY <1>3, <2>1 DEF Held
<1>. QED  BY <1>1, <1>2, <1>3 DEF Held

\* The calendar has two slots at least where the indexes differ, and divides
\* the range of unsigned char: stepping back leaves the slot.
LEMMA StepBack ==
    ASSUME NEW slot \in Slots, RQ_NQS > 1
    PROVE  ((slot - 1) % 256) % RQ_NQS # slot
<1>1. RQ_NQS \in Nat \ {0} /\ 256 % RQ_NQS = 0 /\ slot \in Nat /\ slot < RQ_NQS
      BY RunQueueAssumption DEF Slots
<1> DEFINE k == 256 \div RQ_NQS
<1>2. k \in Int /\ 256 = RQ_NQS * k
      BY <1>1
<1> HIDE DEF k
<1>3. k >= 1
  <2>1. SUFFICES ASSUME k <= 0 PROVE FALSE
        BY <1>2
  <2>2. RQ_NQS * k <= 0
        BY <1>1, <1>2, <2>1
  <2>. QED  BY <1>2, <2>2
<1>4. RQ_NQS <= 256
  <2>1. RQ_NQS * (k - 1) >= 0
        BY <1>1, <1>2, <1>3
  <2>2. RQ_NQS * (k - 1) = 256 - RQ_NQS
        BY <1>1, <1>2
  <2>. QED  BY <1>1, <2>1, <2>2
<1>5. CASE slot >= 1
  <2>1. (slot - 1) % 256 = slot - 1
        BY <1>1, <1>4, <1>5
  <2>2. (slot - 1) % RQ_NQS = slot - 1
        BY <1>1, <1>5
  <2>. QED  BY <1>1, <2>1, <2>2
<1>6. CASE slot = 0
  <2>1. (slot - 1) % 256 = 255
    <3> DEFINE n == slot - 1
               q == n \div 256
               r == n % 256
    <3>1. n \in Int /\ n = -1
          BY <1>6
    <3> HIDE DEF n
    <3>2. q \in Int /\ r \in 0 .. 255
      <4>1. \A m \in Int : m \div 256 \in Int /\ m % 256 \in 0 .. 255
            OBVIOUS
      <4>. QED  BY <3>1, <4>1
    <3>3. r = n - 256 * q
          BY <3>1, Z3
    <3> HIDE DEF q, r
    <3>4. r = 255
          BY <3>1, <3>2, <3>3
    <3>. QED  BY <3>4 DEF r, n
  <2>2. 255 = RQ_NQS * (k - 1) + (RQ_NQS - 1)
    <3>1. RQ_NQS * (k - 1) = 256 - RQ_NQS
          BY <1>1, <1>2
    <3>. QED  BY <1>1, <3>1
  <2>3. 255 % RQ_NQS # 0
    <3>1. SUFFICES ASSUME 255 % RQ_NQS = 0 PROVE FALSE
          OBVIOUS
    <3> DEFINE m == 255 \div RQ_NQS
    <3>2. m \in Int /\ 255 = RQ_NQS * m
          BY <1>1, <3>1
    <3> HIDE DEF m
    <3>3. RQ_NQS * (k - m) = 1
          BY <1>1, <1>2, <3>2
    <3>4. CASE k - m >= 1
      <4>1. RQ_NQS * (k - m - 1) >= 0
            BY <1>1, <1>2, <3>2, <3>4
      <4>2. RQ_NQS * (k - m - 1) = 1 - RQ_NQS
            BY <1>1, <1>2, <3>2, <3>3
      <4>. QED  BY <1>1, <4>1, <4>2
    <3>5. CASE k - m <= 0
      <4>1. RQ_NQS * (k - m) <= 0
            BY <1>1, <1>2, <3>2, <3>5
      <4>. QED  BY <3>3, <4>1
    <3>. QED  BY <1>2, <3>2, <3>4, <3>5
  <2>. QED  BY <1>1, <1>6, <2>1, <2>3
<1>. QED  BY <1>1, <1>5, <1>6

\* tdq_runq_add keeps away from the slot that drains, unless it puts a
\* preempted thread at its head or lends it a priority.
LEMMA ClosedSlot ==
    ASSUME NEW q \in GoodTdq, NEW t, NEW pri \in 0 .. PRI_MAX_IDLE,
           NEW how \in {"BORING", "YIELDING"}, q.idx # q.ridx
    PROVE  QueueFor(t, pri) = "timeshare" => SlotFor(q, t, pri, how) # q.ridx
<1> DEFINE range  == PRI_MAX_BATCH - PRI_MIN_BATCH + 1
           offset == (RQ_NQS * (pri - PRI_MIN_BATCH)) \div range
           slot   == (offset + q.idx) % RQ_NQS
<1>1. q.idx \in Slots /\ q.ridx \in Slots
      BY DEF GoodTdq, TdqType
<1>2. RQ_NQS > 1 /\ RQ_NQS \in Nat
      BY <1>1, RunQueueAssumption DEF Slots
<1>3. CASE slot = q.ridx
  <2> HIDE DEF slot
  <2>1. TimeshareSlot(q, pri, how) = ((slot - 1) % 256) % RQ_NQS
        BY <1>3, Zenon DEF TimeshareSlot, slot
  <2>2. slot \in Slots
        BY <1>1, <1>3
  <2>. QED  BY <1>2, <1>3, <2>1, <2>2, StepBack DEF SlotFor
<1>4. CASE slot # q.ridx
  <2> HIDE DEF slot
  <2>1. TimeshareSlot(q, pri, how) = slot
        BY <1>4, Zenon DEF TimeshareSlot, slot
  <2>. QED  BY <1>4, <2>1 DEF SlotFor
<1>. QED  BY <1>3, <1>4


LEMMA DrainQType ==
    ASSUME NEW h \in St, NEW s \in St
    PROVE  DrainQ(h, s) \in Seq(Threads) /\ h.tdq.ridx \in Slots /\ "timeshare" \in Queues
<1>1. h.tdq.ridx \in Slots /\ s.tdq.runq \in [Queues -> ExactRunQ] /\ "timeshare" \in Queues
      BY DEF St, GoodTdq, TdqType, Queues
<1>2. s.tdq.runq["timeshare"] \in RunQ
      BY <1>1 DEF ExactRunQ
<1>. QED  BY <1>1, <1>2 DEF DrainQ, QueueAt, RunQ

LEMMA StillWithin == ASSUME NEW h, NEW s, Still(h, s) PROVE Within(h, s)
BY DEF Still, Within, Held

LEMMA AlikeWithin ==
    ASSUME NEW h \in St, NEW s, NEW u, Alike(s, u)
    PROVE  /\ Within(h, s) => Within(h, u)
           /\ Still(h, s) => Still(h, u)
<1>1. h.tdq.ridx \in Slots /\ "timeshare" \in Queues
      BY DrainQType
<1>2. DrainQ(h, u) = DrainQ(h, s) /\ u.tdq.idx = s.tdq.idx /\ u.tdq.ridx = s.tdq.ridx
      BY <1>1 DEF Alike, DrainQ
<1>. QED  BY <1>2 DEF Within, Still, Draining

\* The same for a change of the loads, or of the threads alone.
LEMMA SameWithin ==
    ASSUME NEW h \in St, NEW s, NEW u, u.tdq.idx = s.tdq.idx, u.tdq.ridx = s.tdq.ridx,
           \A queue \in Queues, i \in Slots : QueueAt(u, queue, i) = QueueAt(s, queue, i)
    PROVE  /\ Within(h, s) => Within(h, u)
           /\ Still(h, s) => Still(h, u)
<1>1. h.tdq.ridx \in Slots /\ "timeshare" \in Queues
      BY DrainQType
<1>2. DrainQ(h, u) = DrainQ(h, s)
      BY <1>1 DEF DrainQ
<1>. QED  BY <1>2 DEF Within, Still, Draining

LEMMA AddWithin ==
    ASSUME NEW h \in St, NEW s \in St, NEW t \in Threads, Within(h, s),
           NEW how \in {"BORING", "YIELDING", "PREEMPTED"}, how = "PREEMPTED" => Still(h, s),
           NEW nice \in NiceValues, NEW u, u = tdq_runq_add(s, t, how, nice)
    PROVE  Within(h, u)
<1> DEFINE queue == QueueFor(t, s.td[t].priority)
           slot  == SlotFor(s.tdq, t, s.td[t].priority, how)
           ridx  == h.tdq.ridx
<1>1. Added(s, t, how, u)
      BY AddResult
<1>2. u.tdq.idx = s.tdq.idx /\ u.tdq.ridx = s.tdq.ridx
      BY <1>1 DEF Added
<1>3. ridx \in Slots /\ "timeshare" \in Queues
      /\ DrainQ(h, h) \in Seq(Threads) /\ DrainQ(h, s) \in Seq(Threads)
      BY DrainQType
<1>4. DrainQ(h, u) = IF "timeshare" = queue /\ ridx = slot
                     THEN (IF how = "PREEMPTED" THEN <<t>> \o DrainQ(h, s)
                                                ELSE Append(DrainQ(h, s), t))
                     ELSE DrainQ(h, s)
      BY <1>1, <1>3 DEF Added, DrainQ
<1> HIDE DEF queue, slot, ridx
<1>5. ASSUME Draining(h, u) PROVE Held(DrainQ(h, h), DrainQ(h, u))
  <2>1. Draining(h, s) /\ Held(DrainQ(h, h), DrainQ(h, s)) /\ s.tdq.idx # s.tdq.ridx
        /\ s.tdq.ridx = ridx
        BY <1>2, <1>5 DEF Draining, Within, ridx
  <2>2. CASE how = "PREEMPTED"
    <3>1. DrainQ(h, s) = DrainQ(h, h)
          BY <2>2 DEF Still
    <3>2. Held(DrainQ(h, h), <<t>> \o DrainQ(h, h))
          BY <1>3, SeqHeld
    <3>. QED  BY <1>4, <2>1, <2>2, <3>1, <3>2
  <2>3. CASE how \in {"BORING", "YIELDING"}
    <3>1. s.tdq \in GoodTdq /\ s.td[t].priority \in 0 .. PRI_MAX_IDLE
          BY DEF St, TdType
    <3>2. queue = "timeshare" => slot # ridx
          BY <2>1, <2>3, <3>1, ClosedSlot DEF queue, slot
    <3>3. DrainQ(h, u) = DrainQ(h, s)
          BY <1>4, <3>2
    <3>. QED  BY <2>1, <3>3
  <2>. QED  BY <2>2, <2>3
<1>. QED  BY <1>2, <1>5 DEF Within

LEMMA RemWithin ==
    ASSUME NEW h \in St, NEW s, Sound(s), Within(h, s), NEW t \in Threads,
           NEW state \in {"OFF", "RUNNING"}, NEW u, u = Off(s, t, state)
    PROVE  Within(h, u)
<1> DEFINE queue == s.td[t].ts_runq
           slot  == s.td[t].rqindex
           ridx  == h.tdq.ridx
<1>1. s \in St
      BY DEF Sound
<1>2. Taken(s, t, state, u)
      BY <1>1, RemResult
<1>3. u.tdq.idx = s.tdq.idx /\ u.tdq.ridx \in {s.tdq.ridx, s.tdq.idx}
      BY <1>2 DEF Taken
<1>4. ridx \in Slots /\ "timeshare" \in Queues
      /\ DrainQ(h, h) \in Seq(Threads) /\ DrainQ(h, s) \in Seq(Threads)
      BY <1>1, DrainQType
<1>5. DrainQ(h, u) = IF "timeshare" = queue /\ ridx = slot
                     THEN RemoveFirst(DrainQ(h, s), t) ELSE DrainQ(h, s)
      BY <1>2, <1>4 DEF Taken, DrainQ
<1> HIDE DEF queue, slot, ridx
<1>6. DrainQ(h, u) = DrainQ(h, s) \/ Len(DrainQ(h, u)) = Len(DrainQ(h, s)) - 1
      BY <1>4, <1>5, RemoveContents
<1>7. ASSUME Draining(h, u) PROVE Held(DrainQ(h, h), DrainQ(h, u))
  <2>1. Draining(h, s)
        BY <1>3, <1>7 DEF Draining, Within
  <2>2. Held(DrainQ(h, h), DrainQ(h, s))
        BY <2>1 DEF Within
  <2>. QED  BY <1>4, <1>6, <2>2, SeqHeld
<1>. QED  BY <1>3, <1>7 DEF Within

LEMMA ChooseWithin ==
    ASSUME NEW h \in St, NEW s, Sound(s), Within(h, s), NEW r, NEW u, u = choosethread(s, r)
    PROVE  Within(h, u)
<1> DEFINE a   == AfterChoice(s, r)
           t   == ChosenThread(s, r)
           off == tdq_runq_rem(a, t)
           w   == Off(a, t, "RUNNING")
<1>1. s \in St /\ a \in St /\ Alike(s, a) /\ Sound(a)
      BY AfterChoiceType, AfterChoiceAlike, AlikeSound DEF Sound
<1>2. Within(h, a)
      BY <1>1, AlikeWithin
<1>3. CASE t = IdleThread
  <2>1. u = [a EXCEPT !.tdq.lowpri = PRI_MAX_IDLE]
        BY <1>3 DEF choosethread
  <2> HIDE DEF a
  <2>2. Alike(a, u)
        BY <1>1, <2>1, AlikeFields
  <2>. QED  BY <1>2, <2>2, AlikeWithin
<1>4. CASE t # IdleThread
  <2>1. t \in Threads
        BY <1>4, ChoiceQueued DEF ChosenThread
  <2>2. u = [off EXCEPT !.tdq.lowpri = s.td[t].priority, !.td[t].state = "RUNNING"]
        BY <1>4 DEF choosethread
  <2>3. w = [off EXCEPT !.td[t].state = "RUNNING"]
        BY DEF Off
  <2> HIDE DEF a, t
  <2>4. off \in St
        BY <1>1, <2>1, RemType
  <2> HIDE DEF off, w
  <2>5. u = [w EXCEPT !.tdq.lowpri = s.td[t].priority]
        BY <2>2, <2>3, <2>4 DEF St
  <2>6. w \in St
        BY <1>1, <2>1, RemResult DEF w
  <2>7. Within(h, w)
        BY <1>1, <1>2, <2>1, RemWithin DEF w
  <2>8. Alike(w, u)
        BY <2>5, <2>6, AlikeFields
  <2>. QED  BY <2>7, <2>8, AlikeWithin
<1>. QED  BY <1>3, <1>4

LEMMA SchedRemWithin ==
    ASSUME NEW h \in St, NEW s, Sound(s), Within(h, s), NEW t \in Threads, NEW r,
           NEW u, u = sched_rem(s, t, r)
    PROVE  Within(h, u)
<1> DEFINE rem  == tdq_runq_rem(s, t)
           off  == Off(s, t, "OFF")
           less == tdq_load_rem(off, t)
           w    == Removed(s, t)
<1>1. s \in St
      BY DEF Sound
<1>2. rem \in St
      BY <1>1, RemType
<1>3. w = less
  <2>1. w = [tdq_load_rem(rem, t) EXCEPT !.td[t].state = "OFF"]
        BY DEF Removed
  <2>2. off = [rem EXCEPT !.td[t].state = "OFF"]
        BY DEF Off
  <2> HIDE DEF rem
  <2>. QED  BY <1>2, <2>1, <2>2 DEF tdq_load_rem, St
<1>4. off \in St /\ Within(h, off)
      BY <1>1, RemResult, RemWithin
<1> HIDE DEF off
<1>5. less \in St /\ Counted(off, off.tdq.load - 1, off.tdq.sysload - SysLoadOf(t), less)
      BY <1>4, LoadRemResult
<1> HIDE DEF less, w
<1>6. w \in St /\ Within(h, w)
      BY <1>3, <1>4, <1>5, SameWithin DEF Counted
<1>7. Alike(w, tdq_setlowpri(w, curthread, r))
      BY <1>6, SetlowpriAlike
<1>8. u = tdq_setlowpri(w, curthread, r) \/ u = w
      BY DEF sched_rem, w
<1>. QED  BY <1>6, <1>7, <1>8, AlikeWithin

LEMMA TdqAddWithin ==
    ASSUME NEW h \in St, NEW s \in St, NEW t \in Threads, Within(h, s),
           NEW how \in {"BORING", "YIELDING", "PREEMPTED"}, how = "PREEMPTED" => Still(h, s),
           NEW nice \in NiceValues, NEW u, u = tdq_add(s, t, how, nice)
    PROVE  Within(h, u)
<1> DEFINE pri == IF s.td[t].priority < s.tdq.lowpri THEN s.td[t].priority ELSE s.tdq.lowpri
           low == [s EXCEPT !.tdq.lowpri = pri]
           v   == tdq_runq_add(low, t, how, nice)
<1>1. pri \in 0 .. PRI_MAX_IDLE
      BY DEF St, GoodTdq, TdqType, TdType
<1>2. low \in St /\ Alike(s, low)
  <2> HIDE DEF pri
  <2>. QED  BY <1>1, LowpriType, AlikeFields
<1>3. u = tdq_load_add(v, t)
      BY DEF tdq_add
<1> HIDE DEF low
<1>4. Within(h, low) /\ (how = "PREEMPTED" => Still(h, low))
      BY <1>2, AlikeWithin
<1>5. Within(h, v) /\ v \in St
      BY <1>2, <1>4, AddWithin, AddType
<1> HIDE DEF v
<1>6. Counted(v, v.tdq.load + 1, v.tdq.sysload + SysLoadOf(t), u)
      BY <1>3, <1>5, LoadAddResult
<1>. QED  BY <1>5, <1>6, SameWithin DEF Counted


\* What DrainingSlotClosed says of a step.
DrainAfter ==
    LET old == tdq.runq["timeshare"].rq_queues[tdq.ridx]
        new == tdq'.runq["timeshare"].rq_queues[tdq.ridx]
    IN  tdq.idx # tdq.ridx /\ tdq'.idx = tdq.idx /\ tdq'.ridx = tdq.ridx
        /\ old # <<>> /\ new # <<>> /\ Len(new) > Len(old) /\ new[Len(new)] # old[Len(old)]
        => \E t \in Queued : td'[t].priority < td[t].priority

LEMMA WithinStep ==
    ASSUME QInv, NEW s \in St, Within(Here, s), tdq' = s.tdq
    PROVE  DrainAfter
<1> DEFINE old == tdq.runq["timeshare"].rq_queues[tdq.ridx]
           new == tdq'.runq["timeshare"].rq_queues[tdq.ridx]
<1>1. Here \in St /\ Here.tdq = tdq
      BY DEF QInv, Steady, Sound, Here
<1>2. DrainQ(Here, Here) = old /\ DrainQ(Here, s) = new
      BY <1>1 DEF DrainQ, QueueAt
<1>3. old \in Seq(Threads) /\ new \in Seq(Threads)
  <2> HIDE DEF old, new
  <2>. QED  BY <1>1, <1>2, DrainQType
<1>4. Len(old) \in Nat /\ Len(new) \in Nat
  <2> HIDE DEF old, new
  <2>. QED  BY <1>3, LenProperties
<1>5. ASSUME tdq.idx # tdq.ridx, tdq'.idx = tdq.idx, tdq'.ridx = tdq.ridx,
             old # <<>>, Len(new) > Len(old), new[Len(new)] # old[Len(old)]
      PROVE  FALSE
  <2>1. Held(old, new)
        BY <1>1, <1>2, <1>5 DEF Within, Draining
  <2> HIDE DEF old, new
  <2>. QED  BY <1>4, <1>5, <2>1 DEF Held
<1>. QED  BY <1>5, Zenon DEF DrainAfter

LEMMA StillHere == Still(Here, Here)
BY DEF Still

LEMMA UnchangedDrain ==
    ASSUME QInv, \/ tdq' = tdq
                 \/ Panic
    PROVE  DrainAfter
<1>1. Here \in St /\ Within(Here, Here) /\ tdq' = Here.tdq
      BY StillHere, StillWithin DEF QInv, Steady, Sound, Here, Panic
<1>. QED  BY <1>1, WithinStep

LEMMA ChooseDrain ==
    ASSUME QInv, NEW s, Sound(s), Within(Here, s), Choose(s)
    PROVE  DrainAfter
<1>1. PICK r \in Randoms : SwitchTo(s, r) \/ Panic
      BY DEF Choose
<1>2. CASE SwitchTo(s, r)
  <2> DEFINE u == choosethread(s, r)
  <2>1. Here \in St
        BY DEF QInv, Steady, Sound
  <2>2. u \in St
        BY ChoosethreadType DEF Sound
  <2>3. Within(Here, u)
        BY <2>1, ChooseWithin
  <2>4. tdq' = u.tdq
        BY <1>2 DEF SwitchTo, Put
  <2> HIDE DEF u
  <2>. QED  BY <2>2, <2>3, <2>4, WithinStep
<1>. QED  BY <1>1, <1>2, UnchangedDrain

LEMMA ArrivalsWithin ==
    ASSUME QInv, NEW t \in Threads, NEW how \in {"BORING", "YIELDING", "PREEMPTED"},
           NEW s \in Arrivals(t, how)
    PROVE  Within(Here, s)
<1>1. PICK pri \in Prios, pin \in BOOLEAN, slice \in UsedTicks, nice \in NiceValues :
          s = tdq_add(Arriving(t, pri, pin, slice), t, how, nice)
      BY DEF Arrivals
<1> DEFINE d == [OffThread EXCEPT !.priority = pri, !.pinned = pin, !.slice = slice]
           a == Arriving(t, pri, pin, slice)
<1>2. d \in TdType
  <2>1. pri \in 0 .. PRI_MAX_IDLE /\ slice \in Nat
        BY TdqAssumption, QuantumFacts
  <2>. QED  BY <2>1, OffType DEF TdType
<1>3. Here \in St
      BY DEF QInv, Steady, Sound
<1>4. a = [Here EXCEPT !.td[t] = d]
      BY DEF Arriving
<1> HIDE DEF a, d
<1>5. a \in St /\ a.tdq = Here.tdq
  <2>1. [Here EXCEPT !.td[t] = d] \in St
        BY <1>2, <1>3, FieldTypes
  <2>. QED  BY <1>3, <1>4, <2>1 DEF St
<1>6. Still(Here, a)
      BY <1>5 DEF Still, DrainQ, QueueAt
<1>7. Within(Here, a)
      BY <1>6, StillWithin
<1>. QED  BY <1>1, <1>3, <1>5, <1>6, <1>7, TdqAddWithin DEF a

LEMMA ArrivalDrain ==
    ASSUME IInv, QInv, NEW t \in Threads, CanArrive(t),
           NEW how \in {"BORING", "YIELDING", "PREEMPTED"}, NEW s \in Arrivals(t, how)
    PROVE  /\ Put(s) => DrainAfter
           /\ \A ipi \in BOOLEAN : Put([s EXCEPT !.tdq.ipipending = ipi]) => DrainAfter
           /\ Choose(s) => DrainAfter
<1>1. s \in St /\ Sound(s) /\ Within(Here, s) /\ Here \in St
      BY ArrivalsSteady, ArrivalsWithin DEF Steady, Sound, IInv
<1>2. ASSUME Put(s) PROVE DrainAfter
      BY <1>1, <1>2, WithinStep DEF Put
<1>3. ASSUME NEW ipi \in BOOLEAN, Put([s EXCEPT !.tdq.ipipending = ipi]) PROVE DrainAfter
  <2> DEFINE u == [s EXCEPT !.tdq.ipipending = ipi]
  <2>1. u \in St
        BY <1>1, IpiType
  <2>2. Alike(s, u)
        BY <1>1, AlikeFields
  <2>3. tdq' = u.tdq
        BY <1>3 DEF Put
  <2> HIDE DEF u
  <2>4. Within(Here, u)
        BY <1>1, <2>2, AlikeWithin
  <2>. QED  BY <2>1, <2>3, <2>4, WithinStep
<1>. QED  BY <1>1, <1>2, <1>3, ChooseDrain

LEMMA ArrivalsDrain ==
    ASSUME IInv, QInv, NEW t \in Threads, SchedAdd(t) \/ RemoteAdd(t) \/ MoveIn(t) \/ IdleSteal(t)
    PROVE  DrainAfter
<1>1. CanArrive(t)
      BY DEF SchedAdd, RemoteAdd, MoveIn, IdleSteal
<1>2. CASE SchedAdd(t)
      BY <1>1, <1>2, ArrivalDrain DEF SchedAdd
<1>3. CASE RemoteAdd(t)
  <2>1. PICK how \in {"BORING", "YIELDING", "PREEMPTED"} :
            \E s \in Arrivals(t, how) : \E ipi \in NotifyOutcomes(s, t) :
               Put([s EXCEPT !.tdq.ipipending = ipi])
        BY <1>3 DEF RemoteAdd
  <2>2. PICK s \in Arrivals(t, how) : \E ipi \in NotifyOutcomes(s, t) :
               Put([s EXCEPT !.tdq.ipipending = ipi])
        BY <2>1
  <2>3. PICK ipi \in NotifyOutcomes(s, t) : Put([s EXCEPT !.tdq.ipipending = ipi])
        BY <2>2
  <2>4. s \in St
        BY ArrivalsType
  <2>5. ipi \in BOOLEAN
        BY <2>4, NotifyType
  <2>. QED  BY <1>1, <2>3, <2>5, ArrivalDrain
<1>4. CASE MoveIn(t)
      BY <1>1, <1>4, ArrivalDrain DEF MoveIn
<1>5. CASE IdleSteal(t)
      BY <1>1, <1>5, ArrivalDrain DEF IdleSteal
<1>. QED  BY <1>2, <1>3, <1>4, <1>5

LEMMA StealOutDrain == ASSUME IInv, QInv, StealOut PROVE DrainAfter
<1>1. PICK allowed \in SUBSET Threads, r \in Randoms, t \in Queued :
          \/ tdq' = sched_rem(Here, t, r).tdq
          \/ Panic
      BY DEF StealOut
<1>2. CASE tdq' = sched_rem(Here, t, r).tdq
  <2> DEFINE u == sched_rem(Here, t, r)
  <2>1. Here \in St /\ Sound(Here) /\ t \in Threads /\ curthread \in Threads \cup {IdleThread}
        BY DEF QInv, Steady, Sound, Queued, IInv, TypeOK
  <2>2. u \in St
        BY <2>1, SchedRemType
  <2>3. Within(Here, u)
        BY <2>1, StillHere, StillWithin, SchedRemWithin
  <2>4. tdq' = u.tdq
        BY <1>2
  <2> HIDE DEF u
  <2>. QED  BY <2>2, <2>3, <2>4, WithinStep
<1>. QED  BY <1>1, <1>2, UnchangedDrain

\* The running thread goes back to a queue and another one is chosen.
LEMMA SwitchDrain ==
    ASSUME QInv, window = "none", curthread \in Threads,
           NEW s \in St, Alike(Here, s),
           NEW how \in {"YIELDING", "PREEMPTED"}, NEW nice \in NiceValues,
           Choose(tdq_runq_add(s, curthread, how, nice))
    PROVE  DrainAfter
<1> DEFINE u == tdq_runq_add(s, curthread, how, nice)
<1>1. Sound(s) /\ s.td[curthread].state = "RUNNING" /\ Here \in St
      BY Current, AlikeSound DEF QInv, Steady, Sound, Alike
<1>2. Still(Here, s) /\ Within(Here, s)
      BY <1>1, StillHere, AlikeWithin, StillWithin
<1>3. Sound(u)
      BY <1>1, AddSound
<1>4. Within(Here, u)
      BY <1>1, <1>2, AddWithin
<1>5. Choose(u)
      OBVIOUS
<1> HIDE DEF u
<1>. QED  BY <1>3, <1>4, <1>5, ChooseDrain

LEMMA SwitchOutDrain == ASSUME QInv, NEW preempt, SwitchOut(preempt) PROVE DrainAfter
<1> DEFINE how == IF preempt /\ "SLICEEND" \notin flags THEN "PREEMPTED" ELSE "YIELDING"
<1>1. PICK nice \in NiceValues : Choose(tdq_runq_add(Here, curthread, how, nice))
      BY DEF SwitchOut
<1>2. how \in {"YIELDING", "PREEMPTED"}
      OBVIOUS
<1> HIDE DEF how
<1>3. Here \in St /\ Alike(Here, Here) /\ window = "none" /\ curthread \in Threads
      BY AlikeItself DEF QInv, Steady, Sound, SwitchOut, Running
<1>. QED  BY <1>1, <1>2, <1>3, SwitchDrain

LEMMA SchedPreemptDrain == ASSUME IInv, QInv, SchedPreempt PROVE DrainAfter
<1> DEFINE s == [Here EXCEPT !.tdq.ipipending = FALSE]
<1>1. s \in St /\ Alike(Here, s) /\ Here \in St
  <2>1. Here \in St
        BY DEF IInv
  <2>2. s \in St
        BY <2>1, IpiType
  <2>3. Alike(Here, s)
        BY <2>1, AlikeFields
  <2>. QED  BY <2>1, <2>2, <2>3
<1>2. \/ Put(s)
      \/ Choose(s)
      \/ /\ curthread # IdleThread
         /\ \E nice \in NiceValues :
               Choose(tdq_runq_add(s, curthread,
                   IF "SLICEEND" \in flags THEN "YIELDING" ELSE "PREEMPTED", nice))
  <2> HIDE DEF s
  <2>. QED  BY DEF SchedPreempt, s
<1>3. window = "none"
      BY DEF SchedPreempt, Running
<1> HIDE DEF s
<1>4. Within(Here, s) /\ Sound(s)
      BY <1>1, StillHere, StillWithin, AlikeWithin, AlikeSound DEF QInv, Steady
<1>5. CASE Put(s)
      BY <1>1, <1>4, <1>5, WithinStep DEF Put
<1>6. CASE Choose(s)
      BY <1>4, <1>6, ChooseDrain
<1>7. CASE /\ curthread # IdleThread
           /\ \E nice \in NiceValues :
                 Choose(tdq_runq_add(s, curthread,
                     IF "SLICEEND" \in flags THEN "YIELDING" ELSE "PREEMPTED", nice))
  <2> DEFINE how == IF "SLICEEND" \in flags THEN "YIELDING" ELSE "PREEMPTED"
  <2>1. PICK nice \in NiceValues : Choose(tdq_runq_add(s, curthread, how, nice))
        BY <1>7
  <2>2. how \in {"YIELDING", "PREEMPTED"} /\ curthread \in Threads
        BY <1>7 DEF IInv, TypeOK
  <2> HIDE DEF how
  <2>. QED  BY <1>1, <1>3, <2>1, <2>2, SwitchDrain
<1>. QED  BY <1>2, <1>5, <1>6, <1>7


LEMMA IdleSwitchDrain == ASSUME QInv, IdleSwitch PROVE DrainAfter
<1>1. Sound(Here) /\ Within(Here, Here) /\ Choose(Here)
      BY StillHere, StillWithin DEF QInv, Steady, IdleSwitch
<1>. QED  BY <1>1, ChooseDrain

LEMMA GoneWithin ==
    ASSUME NEW s \in St, Within(Here, s), Here \in St
    PROVE  Within(Here, Gone(s))
<1>1. Gone(s).tdq = s.tdq
      BY DEF Gone, St
<1>2. \A queue \in Queues, i \in Slots : QueueAt(Gone(s), queue, i) = QueueAt(s, queue, i)
      BY <1>1 DEF QueueAt
<1>. QED  BY <1>1, <1>2, SameWithin

LEMMA LeavingDrain ==
    ASSUME IInv, QInv, window = "none", curthread \in Threads
    PROVE  /\ Put(Leaving) => DrainAfter
           /\ Choose(Gone(Leaving)) => DrainAfter
<1> DEFINE w == tdq_load_rem(Here, curthread)
           d == [OffThread EXCEPT !.priority = td[curthread].priority]
           u == Leaving
<1>1. Here \in St /\ Within(Here, Here)
      BY StillHere, StillWithin DEF IInv
<1>2. w \in St /\ Counted(Here, Here.tdq.load - 1, Here.tdq.sysload - SysLoadOf(curthread), w)
      BY <1>1, LoadRemResult
<1>3. u = [w EXCEPT !.td[curthread] = d]
      BY DEF Leaving
<1>4. /\ Steady(u) /\ On(u) = On(Here) \ {curthread} /\ u \in St
      BY LeavingSteady, SteadyType
<1> HIDE DEF w, d, u
<1>5. u.tdq = w.tdq
      BY <1>2, <1>3 DEF St
<1>6. Within(Here, u)
  <2>1. u.tdq.idx = Here.tdq.idx /\ u.tdq.ridx = Here.tdq.ridx
        BY <1>2, <1>5 DEF Counted
  <2>2. \A queue \in Queues, i \in Slots : QueueAt(u, queue, i) = QueueAt(Here, queue, i)
        BY <1>2, <1>5 DEF Counted, QueueAt
  <2>. QED  BY <1>1, <2>1, <2>2, SameWithin
<1>7. ASSUME Put(u) PROVE DrainAfter
      BY <1>4, <1>6, <1>7, WithinStep DEF Put
<1>8. ASSUME Choose(Gone(u)) PROVE DrainAfter
  <2>1. Sound(Gone(u))
        BY <1>4, GoneSteady DEF Steady
  <2>2. Within(Here, Gone(u))
        BY <1>1, <1>4, <1>6, GoneWithin
  <2>. QED  BY <1>8, <2>1, <2>2, ChooseDrain
<1>. QED  BY <1>7, <1>8 DEF u

LEMMA LeaveDrain == ASSUME IInv, QInv, Sleep \/ Exit \/ SwitchMigrate PROVE DrainAfter
<1>1. window = "none" /\ curthread \in Threads
      BY DEF Sleep, Exit, SwitchMigrate, Running
<1>. QED  BY <1>1, LeavingDrain DEF Sleep, Exit, SwitchMigrate

LEMMA EndWindowDrain == ASSUME QInv, EndWindow PROVE DrainAfter
<1>1. Steady(Here) /\ Here \in St /\ curthread \notin On(Here) /\ Within(Here, Here)
      BY StillHere, StillWithin DEF QInv, EndWindow, Steady, Sound
<1>2. CASE Choose(Gone(Here))
  <2>1. Sound(Gone(Here)) /\ Within(Here, Gone(Here))
        BY <1>1, GoneSteady, GoneWithin DEF Steady
  <2>. QED  BY <1>2, <2>1, ChooseDrain
<1>3. CASE \E t \in Threads : CanArrive(t) /\ \E s \in Arrivals(t, "YIELDING") : Choose(Gone(s))
  <2>1. PICK t \in Threads :
            CanArrive(t) /\ \E s \in Arrivals(t, "YIELDING") : Choose(Gone(s))
        BY <1>3
  <2>2. PICK s \in Arrivals(t, "YIELDING") : Choose(Gone(s))
        BY <2>1
  <2>3. Steady(s) /\ On(s) = On(Here) \cup {t} /\ s \in St
        BY <2>1, ArrivalsSteady, SteadyType
  <2>4. curthread \notin On(s)
        BY <1>1, <2>1, <2>3 DEF CanArrive
  <2>5. Sound(Gone(s))
        BY <2>3, <2>4, GoneSteady DEF Steady
  <2>6. Within(Here, Gone(s))
        BY <1>1, <2>3, ArrivalsWithin, GoneWithin
  <2>. QED  BY <2>2, <2>5, <2>6, ChooseDrain
<1>. QED  BY <1>2, <1>3 DEF EndWindow

LEMMA PriorityDrain ==
    ASSUME IInv, QInv, NEW prio \in Prios, RunningPriority(prio) \/ UserRet(prio)
    PROVE  DrainAfter
<1> DEFINE s == [Here EXCEPT !.td[curthread].priority = prio]
           low == [s EXCEPT !.tdq.lowpri = prio]
<1>1. window = "none" /\ curthread \in Threads /\ Here \in St
      BY DEF RunningPriority, UserRet, Running, IInv
<1>2. s.tdq = Here.tdq /\ s \in St /\ prio \in 0 .. PRI_MAX_IDLE
  <2>1. s \in St
        BY <1>1, RunningPrioritySteady, SteadyType
  <2>2. s.tdq = Here.tdq
        BY DEF Here
  <2>. QED  BY <2>1, <2>2, TdqAssumption
<1>3. \/ Put(low)
      \/ Put(s)
      \/ \E r \in Randoms : Put(tdq_setlowpri(s, curthread, r))
      \/ tdq' = tdq
      \/ Panic
  <2> HIDE DEF s
  <2>. QED  BY DEF RunningPriority, UserRet, s
<1> HIDE DEF s
<1>4. Within(Here, s)
  <2>1. Still(Here, s)
        BY <1>2 DEF Still, DrainQ, QueueAt
  <2>. QED  BY <2>1, StillWithin
<1>5. ASSUME NEW u \in St, Alike(s, u), Put(u) PROVE DrainAfter
  <2>1. Within(Here, u)
        BY <1>1, <1>4, <1>5, AlikeWithin
  <2>. QED  BY <1>5, <2>1, WithinStep DEF Put
<1>6. CASE Put(low)
  <2>1. low \in St
        BY <1>2, LowpriType
  <2>2. Alike(s, low)
        BY <1>2, AlikeFields
  <2> HIDE DEF low
  <2>. QED  BY <1>5, <1>6, <2>1, <2>2
<1>7. CASE Put(s)
      BY <1>2, <1>5, <1>7, AlikeItself
<1>8. CASE \E r \in Randoms : Put(tdq_setlowpri(s, curthread, r))
  <2>1. PICK r \in Randoms : Put(tdq_setlowpri(s, curthread, r))
        BY <1>8
  <2>2. tdq_setlowpri(s, curthread, r) \in St /\ Alike(s, tdq_setlowpri(s, curthread, r))
        BY <1>1, <1>2, SetlowpriType, SetlowpriAlike
  <2>. QED  BY <1>5, <2>1, <2>2
<1>. QED  BY <1>3, <1>6, <1>7, <1>8, UnchangedDrain

\* Where the thread joins the slot with a priority lent to it, its own
\* priority is the witness.
LEMMA RequeueDrain ==
    ASSUME IInv, QInv, NEW t \in Queued, NEW prio \in 0 .. PRI_MAX_IDLE,
           NEW how, how = "BORING" \/ prio < td[t].priority,
           Requeue(t, prio, how)
    PROVE  DrainAfter
<1> DEFINE w(r) == sched_rem(Here, t, r)
           s(r) == [w(r) EXCEPT !.td[t].priority = prio]
           a(r, nice) == tdq_add(s(r), t, how, nice)
<1>1. PICK r \in Randoms, nice \in NiceValues :
          \/ Panic
          \/ tdq' = s(r).tdq
          \/ Put(a(r, nice))
          \/ \E ipi \in NotifyOutcomes(a(r, nice), t) :
                 Put([a(r, nice) EXCEPT !.tdq.ipipending = ipi])
      BY DEF Requeue
<1>2. /\ t \in Threads /\ Sound(Here) /\ Here \in St
      /\ curthread \in Threads \cup {IdleThread}
      BY DEF Queued, QInv, Steady, Sound, IInv, TypeOK
<1>3. w(r) \in St /\ Within(Here, w(r))
      BY <1>2, SchedRemType, SchedRemWithin, StillHere, StillWithin
<1> HIDE DEF w
<1>4. s(r) \in St /\ s(r).tdq = w(r).tdq /\ s(r).td[t].priority = prio
  <2>1. s(r) \in St
        BY <1>2, <1>3, FieldTypes
  <2>2. w(r).td \in [Threads -> TdType] /\ w(r).td[t] \in TdType
        BY <1>2, <1>3 DEF St
  <2>3. s(r).td = [w(r).td EXCEPT ![t] = [w(r).td[t] EXCEPT !.priority = prio]]
        /\ s(r).tdq = w(r).tdq
        BY <1>3 DEF St
  <2> HIDE DEF s
  <2>. QED  BY <1>2, <2>1, <2>2, <2>3 DEF TdType
<1> HIDE DEF s
<1>5. Within(Here, s(r))
  <2>1. \A queue \in Queues, i \in Slots : QueueAt(s(r), queue, i) = QueueAt(w(r), queue, i)
        BY <1>4 DEF QueueAt
  <2>. QED  BY <1>2, <1>3, <1>4, <2>1, SameWithin
<1>6. a(r, nice) \in St
      BY <1>2, <1>4, TdqAddType
<1>7. a(r, nice).td[t].priority = prio
  <2> DEFINE pri == IF s(r).td[t].priority < s(r).tdq.lowpri
                    THEN s(r).td[t].priority ELSE s(r).tdq.lowpri
             low == [s(r) EXCEPT !.tdq.lowpri = pri]
             v   == tdq_runq_add(low, t, how, nice)
  <2>1. pri \in 0 .. PRI_MAX_IDLE
        BY <1>2, <1>4 DEF St, GoodTdq, TdqType, TdType
  <2>2. low \in St /\ Alike(s(r), low)
    <3> HIDE DEF pri
    <3>. QED  BY <1>4, <2>1, LowpriType, AlikeFields
  <2>3. a(r, nice) = tdq_load_add(v, t)
        BY DEF tdq_add
  <2> HIDE DEF low, a
  <2>4. Added(low, t, how, v) /\ v \in St
        BY <1>2, <2>2, AddResult, AddType
  <2> HIDE DEF v
  <2>5. v.td[t].priority = prio
        BY <1>4, <2>2, <2>4 DEF Added, Alike
  <2>6. Counted(v, v.tdq.load + 1, v.tdq.sysload + SysLoadOf(t), a(r, nice))
        BY <2>3, <2>4, LoadAddResult
  <2>. QED  BY <2>5, <2>6 DEF Counted
<1>8. how = "BORING" => Within(Here, a(r, nice))
      BY <1>2, <1>4, <1>5, TdqAddWithin
<1> HIDE DEF a
<1>9. ASSUME NEW u \in St, Alike(a(r, nice), u), Put(u) PROVE DrainAfter
  <2>1. CASE how = "BORING"
    <3>1. Within(Here, u)
          BY <1>2, <1>8, <1>9, <2>1, AlikeWithin
    <3>. QED  BY <1>9, <3>1, WithinStep DEF Put
  <2>2. CASE prio < td[t].priority
    <3>1. td'[t].priority = prio
          BY <1>7, <1>9 DEF Put, Alike
    <3>. QED  BY <2>2, <3>1 DEF DrainAfter
  <2>. QED  BY <2>1, <2>2
<1>10. CASE tdq' = s(r).tdq
       BY <1>4, <1>5, <1>10, WithinStep
<1>11. CASE Put(a(r, nice))
       BY <1>6, <1>9, <1>11, AlikeItself
<1>12. CASE \E ipi \in NotifyOutcomes(a(r, nice), t) :
                Put([a(r, nice) EXCEPT !.tdq.ipipending = ipi])
  <2>1. PICK ipi \in NotifyOutcomes(a(r, nice), t) :
            Put([a(r, nice) EXCEPT !.tdq.ipipending = ipi])
        BY <1>12
  <2>2. [a(r, nice) EXCEPT !.tdq.ipipending = ipi] \in St
        BY <1>6, NotifyType, IpiType
  <2>3. Alike(a(r, nice), [a(r, nice) EXCEPT !.tdq.ipipending = ipi])
        BY <1>6, AlikeFields
  <2>. QED  BY <1>9, <2>1, <2>2, <2>3
<1>. QED  BY <1>1, <1>10, <1>11, <1>12, UnchangedDrain

LEMMA SchedClockDrain == ASSUME IInv, SchedClock PROVE DrainAfter
<1> DEFINE i == ClockIndexes(tdq)
<1>1. tdq' = [tdq EXCEPT !.idx = i.idx, !.ridx = i.ridx] /\ tdq \in TdqType
      BY DEF SchedClock, IInv, TypeOK
<1> HIDE DEF i
<1>2. tdq'.runq = tdq.runq
      BY <1>1 DEF TdqType
<1> DEFINE old == tdq.runq["timeshare"].rq_queues[tdq.ridx]
<1>3. DrainAfter <=>
        (tdq.idx # tdq.ridx /\ tdq'.idx = tdq.idx /\ tdq'.ridx = tdq.ridx
         /\ old # <<>> /\ Len(old) > Len(old) /\ old[Len(old)] # old[Len(old)]
         => \E t \in Queued : td'[t].priority < td[t].priority)
      BY <1>2, Zenon DEF DrainAfter
<1>. QED  BY <1>3

LEMMA NextDrain == IInv /\ QInv /\ [Next]_vars => DrainAfter
<1> SUFFICES ASSUME IInv, QInv, [Next]_vars PROVE DrainAfter
    OBVIOUS
<1>1. CASE \E t \in Threads : SchedAdd(t) \/ RemoteAdd(t) \/ MoveIn(t) \/ IdleSteal(t)
      BY <1>1, ArrivalsDrain
<1>2. CASE StealOut
      BY <1>2, StealOutDrain
<1>3. CASE Relinquish \/ Ast \/ OwedPreempt
      BY <1>3, SwitchOutDrain DEF Relinquish, Ast, OwedPreempt
<1>4. CASE IdleSwitch
      BY <1>4, IdleSwitchDrain
<1>5. CASE SchedPreempt
      BY <1>5, SchedPreemptDrain
<1>6. CASE Sleep \/ Exit \/ SwitchMigrate \/ EndWindow
      BY <1>6, LeaveDrain, EndWindowDrain
<1>7. CASE \E prio \in Prios : RunningPriority(prio) \/ UserRet(prio)
      BY <1>7, PriorityDrain
<1>8. CASE \E t \in Threads, prio \in Prios : QueuedWorse(t, prio) \/ QueuedBetter(t, prio)
  <2>1. PICK t \in Threads, prio \in Prios : QueuedWorse(t, prio) \/ QueuedBetter(t, prio)
        BY <1>8
  <2>2. prio \in 0 .. PRI_MAX_IDLE
        BY TdqAssumption
  <2>3. CASE QueuedWorse(t, prio)
        BY <2>3, UnchangedDrain DEF QueuedWorse
  <2>4. CASE QueuedBetter(t, prio)
    <3>1. t \in Queued /\ prio < td[t].priority /\ Requeue(t, prio, "BORROWING")
          BY <2>4 DEF QueuedBetter
    <3>. QED  BY <2>2, <3>1, RequeueDrain
  <2>. QED  BY <2>1, <2>3, <2>4
<1>9. CASE \E t \in Threads : Affinity(t)
  <2>1. PICK t \in Threads : Affinity(t)
        BY <1>9
  <2>2. td[t].priority \in 0 .. PRI_MAX_IDLE
        BY DEF IInv, TypeOK, TdType
  <2>. QED  BY <2>1, <2>2, RequeueDrain DEF Affinity
<1>10. CASE AffinityRunning \/ Pin
       BY <1>10, UnchangedDrain DEF AffinityRunning, Pin
<1>11. CASE SchedClock
       BY <1>11, SchedClockDrain
<1>12. CASE UNCHANGED vars
       BY <1>12, UnchangedDrain DEF vars
<1>. QED  BY <1>1, <1>2, <1>3, <1>4, <1>5, <1>6, <1>7, <1>8, <1>9, <1>10, <1>11, <1>12 DEF Next

-----------------------------------------------------------------------------
(* The theorems *)

LEMMA InitIInv == Init => IInv
<1> SUFFICES ASSUME Init PROVE IInv
    OBVIOUS
<1>1. runq_init \in ExactRunQ /\ runq_init \in RunQ
      BY InitExact DEF ExactRunQ
<1>2. 0 \in Slots /\ PRI_MAX_IDLE \in 0 .. PRI_MAX_IDLE
      BY SlotsClosed, TdqAssumption
<1>3. tdq \in GoodTdq /\ tdq \in TdqType
      BY <1>1, <1>2 DEF Init, GoodTdq, TdqType
<1>4. td \in [Threads -> TdType]
      BY OffType DEF Init
<1>. QED  BY <1>3, <1>4 DEF Init, IInv, TypeOK, Here, St

LEMMA NextIInv == IInv /\ [Next]_vars => IInv'
<1> SUFFICES ASSUME IInv, [Next]_vars PROVE IInv'
    OBVIOUS
<1>1. CASE \E t \in Threads : SchedAdd(t) \/ RemoteAdd(t) \/ MoveIn(t) \/ IdleSteal(t)
      BY <1>1, SchedAddStep, RemoteAddStep, MoveInStep, IdleStealStep
<1>2. CASE StealOut
      BY <1>2, StealOutStep
<1>3. CASE Relinquish \/ Ast \/ OwedPreempt
      BY <1>3, SwitchOutStep DEF Relinquish, Ast, OwedPreempt
<1>4. CASE IdleSwitch
      BY <1>4, IdleSwitchStep
<1>5. CASE SchedPreempt
      BY <1>5, SchedPreemptStep
<1>6. CASE Sleep \/ Exit \/ SwitchMigrate \/ EndWindow
      BY <1>6, SleepStep, ExitStep, SwitchMigrateStep, EndWindowStep
<1>7. CASE \E prio \in Prios : RunningPriority(prio) \/ UserRet(prio)
      BY <1>7, RunningPriorityStep, UserRetStep
<1>8. CASE \E t \in Threads, prio \in Prios : QueuedWorse(t, prio) \/ QueuedBetter(t, prio)
  <2>1. PICK t \in Threads, prio \in Prios : QueuedWorse(t, prio) \/ QueuedBetter(t, prio)
        BY <1>8
  <2>2. prio \in 0 .. PRI_MAX_IDLE
        BY TdqAssumption
  <2>. QED  BY <2>1, <2>2, QueuedWorseStep, RequeueStep DEF QueuedBetter
<1>9. CASE \E t \in Threads : Affinity(t)
  <2>1. PICK t \in Threads : Affinity(t)
        BY <1>9
  <2>2. td[t].priority \in 0 .. PRI_MAX_IDLE
        BY DEF IInv, TypeOK, TdType
  <2>. QED  BY <2>1, <2>2, RequeueStep DEF Affinity
<1>10. CASE AffinityRunning \/ Pin \/ SchedClock
      BY <1>10, AffinityRunningStep, PinStep, SchedClockStep
<1>11. CASE UNCHANGED vars
      BY <1>11 DEF vars, IInv, TypeOK, Here
<1>. QED  BY <1>1, <1>2, <1>3, <1>4, <1>5, <1>6, <1>7, <1>8, <1>9, <1>10, <1>11 DEF Next

LEMMA InitQInv == Init => QInv
<1> SUFFICES ASSUME Init PROVE QInv
    OBVIOUS
<1>1. Here \in St /\ Here.td = [t \in Threads |-> OffThread]
      BY InitIInv DEF IInv, Init, Here
<1>2. \A t \in Threads : Here.td[t] = OffThread
      BY <1>1
<1>3. On(Here) = {} /\ Movable(Here) = {} /\ Runners(Here) = {}
      BY <1>2, OffFields DEF On, Movable, Runners
<1>4. \A queue \in Queues, i \in Slots : QueueAt(Here, queue, i) = <<>>
      BY DEF QueueAt, Here, Init, runq_init
<1>5. Placed(Here)
  <2>1. Range(<<>>) = {} /\ IsInjective(<<>>)
        BY DEF Range, IsInjective
  <2>2. \A t \in Threads : Here.td[t].state # "RUNQ"
        BY <1>2, OffFields
  <2>. QED  BY <1>4, <2>1, <2>2 DEF Placed
<1>6. Transferred(Here)
      BY <1>2, <1>3, OffFields, FS_EmptySet DEF Transferred, Init, Here
<1>7. Fits(Here) /\ Slices(Here)
      BY <1>2, OffFields DEF Fits, Slices
<1>8. Sound(Here)
      BY <1>1, <1>3, <1>5, <1>6, <1>7, FS_EmptySet DEF Sound
<1>9. Loaded(Here, On(Here))
  <2>1. On(Here) \ NoLoad = {} /\ Cardinality({}) = 0
        BY <1>3, FS_EmptySet
  <2>2. Here.tdq.load = 0 /\ Here.tdq.sysload = 0
        BY DEF Init, Here
  <2>. QED  BY <1>3, <2>1, <2>2 DEF Loaded
<1>. QED  BY <1>3, <1>8, <1>9 DEF QInv, Steady, Init

LEMMA NextQInv == IInv /\ QInv /\ [Next]_vars => QInv' /\ IdleAfter
<1> SUFFICES ASSUME IInv, QInv, [Next]_vars PROVE QInv' /\ IdleAfter
    OBVIOUS
<1>1. CASE \E t \in Threads : SchedAdd(t) \/ RemoteAdd(t) \/ MoveIn(t) \/ IdleSteal(t)
      BY <1>1, SchedAddQInv, RemoteAddQInv, MoveInQInv, IdleStealQInv
<1>2. CASE StealOut
      BY <1>2, StealOutQInv
<1>3. CASE Relinquish \/ Ast \/ OwedPreempt
      BY <1>3, SwitchOutQInv DEF Relinquish, Ast, OwedPreempt
<1>4. CASE IdleSwitch
      BY <1>4, IdleSwitchQInv
<1>5. CASE SchedPreempt
      BY <1>5, SchedPreemptQInv
<1>6. CASE Sleep \/ Exit \/ SwitchMigrate \/ EndWindow
      BY <1>6, SleepQInv, ExitQInv, SwitchMigrateQInv, EndWindowQInv
<1>7. CASE \E prio \in Prios : RunningPriority(prio) \/ UserRet(prio)
      BY <1>7, RunningPriorityQInv, UserRetQInv
<1>8. CASE \E t \in Threads, prio \in Prios : QueuedWorse(t, prio) \/ QueuedBetter(t, prio)
  <2>1. PICK t \in Threads, prio \in Prios : QueuedWorse(t, prio) \/ QueuedBetter(t, prio)
        BY <1>8
  <2>2. prio \in 0 .. PRI_MAX_IDLE
        BY TdqAssumption
  <2>. QED  BY <2>1, <2>2, QueuedWorseQInv, RequeueQInv DEF QueuedBetter
<1>9. CASE \E t \in Threads : Affinity(t)
  <2>1. PICK t \in Threads : Affinity(t)
        BY <1>9
  <2>2. td[t].priority \in 0 .. PRI_MAX_IDLE
        BY DEF IInv, TypeOK, TdType
  <2>. QED  BY <2>1, <2>2, RequeueQInv DEF Affinity
<1>10. CASE AffinityRunning \/ Pin \/ SchedClock
       BY <1>10, AffinityRunningQInv, PinQInv, SchedClockQInv
<1>11. CASE UNCHANGED vars
  <2>1. Here' = Here /\ UNCHANGED <<curthread, window>>
        BY <1>11 DEF vars, Here
  <2>. QED  BY <2>1, QuietStep DEF QInv
<1>. QED  BY <1>1, <1>2, <1>3, <1>4, <1>5, <1>6, <1>7, <1>8, <1>9, <1>10, <1>11 DEF Next

LEMMA Invariance == Spec => []IInv
BY InitIInv, NextIInv, PTL DEF Spec

LEMMA QueuesInvariance == Spec => [](IInv /\ QInv)
<1>1. Init => IInv /\ QInv
      BY InitIInv, InitQInv
<1>2. IInv /\ QInv /\ [Next]_vars => (IInv /\ QInv)'
      BY NextIInv, NextQInv
<1>. QED  BY <1>1, <1>2, PTL DEF Spec

\* Type correctness, whatever the other processors add and steal: in
\* particular tdq_runq_add never computes a slot the run queue does not have.
THEOREM TypeCorrect == Spec => []TypeOK
<1>1. IInv => TypeOK
      BY DEF IInv
<1>. QED  BY <1>1, Invariance, PTL

\* The status bits are exact for any number of queues and threads, so
\* runq_choose and runq_choose_from never take the head of an empty queue
\* (kern_switch.c:514 "no thread on busy queue").
THEOREM BitsExact == Spec => []StatusBitsExact
<1>1. IInv => StatusBitsExact
      BY DEF IInv, Here, St, GoodTdq, ExactRunQ, StatusBitsExact
<1>. QED  BY <1>1, Invariance, PTL

\* "a one slot difference between idx and ridx" (sched_ule.c:523), for any
\* number of slots: sched_clock is the only place the insert index moves and
\* it waits for a removal index that has fallen behind.
THEOREM SlotApart == Spec => []OneSlotApart
<1>1. IInv => OneSlotApart
      BY DEF IInv, Here, St, GoodTdq, OneSlotApart
<1>. QED  BY <1>1, Invariance, PTL

\* What tdq_runq_add records of a thread stays true until tdq_runq_rem uses
\* it, and every count follows, for any number of threads, queues and
\* priorities: whatever is stolen, lent a priority, requeued, drawn in the
\* lottery and passed over, or added in the windows in which sched_switch has
\* dropped the lock (sched_ule.c:456, 567, 1396, 1436).
THEOREM QueuesAlwaysSound == Spec => []TdqSound
<1>1. QInv => TdqSound
  <2> SUFFICES ASSUME QInv PROVE TdqSound
      OBVIOUS
  <2>1. /\ Here.td = td /\ Here.tdq = tdq /\ Here \in St
        /\ Placed(Here) /\ Transferred(Here) /\ Fits(Here) /\ Loaded(Here, On(Here))
        BY DEF QInv, Steady, Sound, Here
  <2>2. QueuesMatchThreads
    <3>1. /\ \A queue \in Queues, i \in Slots :
                IsInjective(tdq.runq[queue].rq_queues[i])
          /\ \A t \in Threads, queue \in Queues, i \in Slots :
                t \in Range(tdq.runq[queue].rq_queues[i]) <=>
                    td[t].state = "RUNQ" /\ td[t].ts_runq = queue /\ td[t].rqindex = i
          BY <2>1 DEF Placed, QueueAt
    <3>2. \A t \in Threads : td[t].state = "RUNNING" <=> t \in Runners(Here)
          BY <2>1 DEF Runners
    <3>3. Runners(Here) = IF window = "none" THEN {curthread} \ {IdleThread} ELSE {}
          BY DEF QInv
    <3>4. \A t \in Threads : t \in Runners(Here) <=> t = curthread /\ window = "none"
          BY <3>3, TdqAssumption
    <3>. QED  BY <3>1, <3>2, <3>4 DEF QueuesMatchThreads
  <2>3. StatusBitsExact
        BY <2>1 DEF St, GoodTdq, ExactRunQ, StatusBitsExact
  <2>4. LoadExact
        BY <2>1 DEF Loaded, On, LoadExact
  <2>5. TransferableExact
    <3>1. Movable(Here) = {t \in Queued : ~td[t].pinned}
          BY <2>1 DEF Movable, Queued
    <3>. QED  BY <2>1, <3>1 DEF Transferred, TransferableExact
  <2>6. PriorityFitsQueue
        BY <2>1 DEF Fits, PriorityFitsQueue, Queued
  <2>. QED  BY <2>2, <2>3, <2>4, <2>5, <2>6 DEF TdqSound
<1>. QED  BY <1>1, QueuesInvariance, PTL

\* A running thread is never charged a whole quantum, whatever loads its slice
\* began and goes on under (sched_ule.c:2500): tdq_slice never gives more than
\* sched_slice, because sched_slice_min is a fraction of it.  Only where that
\* fraction is nothing, a quantum under SLICE_MIN_DIVISOR ticks, may a child of
\* sched_fork_thread (2334) be charged one in full, and never more.
THEOREM SliceBounded == Spec => []SliceWithinQuantum
<1>1. QInv => SliceWithinQuantum
  <2> SUFFICES ASSUME QInv PROVE SliceWithinQuantum
      OBVIOUS
  <2>1. \A t \in Threads : td[t].slice \in UsedTicks
        BY DEF QInv, Steady, Sound, Slices, Here
  <2>. QED  BY <2>1, QuantumFacts DEF SliceWithinQuantum
<1>. QED  BY <1>1, QueuesInvariance, PTL

\* tdq_choose gives nothing, and the idle thread the processor, only when
\* realtime, timeshare and idle queue hold no thread (sched_ule.c:1382).  It
\* says nothing of the lottery queue: when its counter total_proc is 0, or no
\* total of tickets reaches the number drawn, lotteryq_choose gives none
\* (kern_switch.c:552, 562), and the ordinary threads queued there wait while
\* the idle thread runs.
THEOREM IdleIsLast == Spec => IdleOnlyWithoutWork
<1> DEFINE A == curthread # IdleThread /\ curthread' = IdleThread
                => \A t \in Threads : td'[t].state = "RUNQ" => td'[t].ts_runq = "lottery"
<1>1. IInv /\ QInv /\ [Next]_vars => A
      BY NextQInv DEF IdleAfter
<1>2. Spec => [][A]_vars
      BY <1>1, QueuesInvariance, PTL DEF Spec
<1>. QED  BY <1>2 DEF IdleOnlyWithoutWork

\* While the removal slot drains, only a lent priority lets a thread join its
\* tail (sched_ule.c:523): insertion steps back from the slot, also where the
\* unsigned char wraps, and a preempted thread goes to its head.
THEOREM SlotCloses == Spec => DrainingSlotClosed
<1>1. IInv /\ QInv /\ [Next]_vars => DrainAfter
      BY NextDrain
<1>2. Spec => [][DrainAfter]_vars
      BY <1>1, QueuesInvariance, PTL DEF Spec
<1>. QED  BY <1>2 DEF DrainingSlotClosed, DrainAfter
=============================================================================
