------------------------------ MODULE RunQueue ------------------------------
(***************************************************************************)
(* The run queue of asgn2/kern_switch.c and asgn2/runq.h: RQ_NQS FIFO      *)
(* queues with a status bit each, and the four lottery counters the        *)
(* assignment added to struct runq.  A run queue is a value; each C        *)
(* function that updates one is an operator from the old value to the new. *)
(***************************************************************************)
EXTENDS Integers, FiniteSets, SequencesExt

CONSTANTS
    Threads,     \* the threads a queue may hold
    NULL,        \* the null thread pointer
    RQ_NQS,      \* number of queues in a run queue
    Word         \* 2^64: the unsigned counters wrap here

\* sys/param: the u_char arithmetic on queue indexes relies on RQ_NQS
\* dividing 256 (runq.h has 64).
ASSUME RunQueueAssumption ==
    /\ NULL \notin Threads
    /\ RQ_NQS \in Nat \ {0} /\ 256 % RQ_NQS = 0
    /\ Word \in Nat \ {0}

Slots == 0 .. RQ_NQS - 1

\* struct runq.  total_proc is a signed int, the ticket counters are uint64_t.
RunQ == [rq_queues   : [Slots -> Seq(Threads)],
         rq_status   : SUBSET Slots,
         num_tickets : Nat,
         total_proc  : Int,
         max_tickets : Nat,
         min_tickets : Nat]

runq_init == [rq_queues   |-> [i \in Slots |-> <<>>],
              rq_status   |-> {},
              num_tickets |-> 0,
              total_proc  |-> 0,
              max_tickets |-> 0,
              min_tickets |-> 0]

-----------------------------------------------------------------------------
(* Insertion and removal *)

\* Mutant of runq_add_pri: without the status bit.
runq_add_pri_nobit(rq, td, pri, preempted) ==
    [rq EXCEPT !.rq_queues[pri] = IF preempted THEN <<td>> \o @ ELSE Append(@, td)]

runq_add_pri(rq, td, pri, preempted) ==
    [rq EXCEPT !.rq_status = @ \cup {pri},
               !.rq_queues[pri] = IF preempted THEN <<td>> \o @
                                               ELSE Append(@, td)]

\* Mutant of runq_remove: takes the head, whichever thread was named.
runq_remove_head(rq, td, pri) ==
    LET rest == Tail(rq.rq_queues[pri])
    IN  [rq EXCEPT !.rq_queues[pri] = rest,
                   !.rq_status = IF rest = <<>> THEN @ \ {pri} ELSE @]

\* TAILQ_REMOVE, then the status bit when the queue has become empty.
runq_remove(rq, td, pri) ==
    LET rest == RemoveFirst(rq.rq_queues[pri], td)
    IN  [rq EXCEPT !.rq_queues[pri] = rest,
                   !.rq_status = IF rest = <<>> THEN @ \ {pri} ELSE @]

\* What runq_remove_idx leaves in *idx: one further when the queue at *idx
\* was the one emptied.
runq_remove_idx(rq, td, pri, idx) ==
    IF idx = pri /\ runq_remove(rq, td, pri).rq_queues[pri] = <<>>
    THEN (pri + 1) % RQ_NQS
    ELSE idx

-----------------------------------------------------------------------------
(* Selection: nothing below changes the queues themselves. *)

\* The status bits in the order a scan that starts at pri and wraps meets them.
runq_findbit_from(rq, pri) ==
    LET ahead == {i \in rq.rq_status : i >= pri}
    IN  IF ahead # {} THEN Min(ahead) ELSE Min(rq.rq_status)

runq_choose_from(rq, idx) ==
    IF rq.rq_status = {} THEN NULL
    ELSE rq.rq_queues[runq_findbit_from(rq, idx)][1]

runq_choose(rq) == runq_choose_from(rq, 0)

\* random() % num_tickets + 1, with r the value of random().
rng(r, num_tickets) == (r % num_tickets) + 1

\* The holder of the winning ticket: the first thread at which the running
\* sum of tickets reaches the winner, or NULL when the sum never does.
LotteryWinner(rq, tickets, winner) ==
    LET q          == rq.rq_queues[0]
        Counter(k) == SumFunctionOnSet([i \in DOMAIN q |-> tickets[q[i]]], 1 .. k)
        reached    == {k \in DOMAIN q : Counter(k) >= winner}
    IN  IF reached = {} THEN NULL ELSE q[Min(reached)]

\* lotteryq_choose draws only when it counts a thread; r % 0 traps.
lotteryq_choose_traps(rq) == rq.total_proc # 0 /\ rq.num_tickets = 0

lotteryq_choose(rq, tickets, r) ==
    IF rq.total_proc = 0 THEN NULL
    ELSE LotteryWinner(rq, tickets, rng(r, rq.num_tickets))

\* The winner is discounted where it is drawn, though it stays on the queue.
LotteryDiscount(rq, tickets, td) ==
    [rq EXCEPT !.total_proc = @ - 1,
               !.num_tickets = (@ - tickets[td]) % Word]
=============================================================================
