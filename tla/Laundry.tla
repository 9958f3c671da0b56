------------------------------ MODULE Laundry -------------------------------
(***************************************************************************)
(* The laundry thread (vm_pageout_laundry_worker, asgn3/vm_pageout.c) and  *)
(* the requests the page daemons of all domains post to it at the end of   *)
(* their scans of the inactive queue.                                      *)
(*                                                                         *)
(* A step is what is done under the laundry queue's lock, or one read      *)
(* without it.  How much is short comes and goes as it will.               *)
(***************************************************************************)
EXTENDS Integers, FiniteSetsExt

CONSTANTS
    Posters,             \* the page daemons
    MaxTarget,           \* bound on what is short, in pages
    BackgroundTarget,    \* vm_background_launder_target
    BackgroundRate,      \* vm_background_launder_rate, per turn of the loop
    LaunderCycles        \* VM_LAUNDER_RATE / VM_INACT_SCAN_RATE

ASSUME LaundryAssumption ==
    /\ MaxTarget \in Nat \ {0} /\ LaunderCycles \in Nat \ {0}
    /\ BackgroundTarget \in Nat \ {0} /\ BackgroundRate \in Nat \ {0}

VARIABLES
    vm_laundry_request,
    shortage,            \* vm_paging_target() and the deficit: what the daemons lack
    poster,              \* per page daemon: the end of its scan
    worker               \* the laundry thread's place and local variables

laundryVars == <<vm_laundry_request, shortage, poster, worker>>

-----------------------------------------------------------------------------
(* vm_pageout_scan, where it is done with the inactive queue *)

\* "vm_laundry_request == VM_LAUNDRY_IDLE", without the lock, after a scan that
\* has freed what was short or has not.
ScanDone(p) ==
    /\ poster[p] = "scans" /\ vm_laundry_request = "IDLE"
    /\ \/ shortage > 0 /\ poster' = [poster EXCEPT ![p] = "missed"]
       \/ poster' = [poster EXCEPT ![p] = "met"]
    /\ UNCHANGED <<vm_laundry_request, shortage, worker>>

\* Mutant of Posted: does not look whether a shortfall has been posted.
Posted_blind(p) == IF poster[p] = "missed" THEN "SHORTFALL" ELSE "BACKGROUND"

Posted(p) ==
    IF poster[p] = "missed" \/ vm_laundry_request = "SHORTFALL" THEN "SHORTFALL"
                                                               ELSE "BACKGROUND"

\* The request, with the lock, and the wakeup.
Post(p) ==
    /\ poster[p] \in {"missed", "met"} /\ poster' = [poster EXCEPT ![p] = "scans"]
    /\ vm_laundry_request' = Posted(p)
    /\ worker' = [worker EXCEPT !.pc = IF @ = "asleep" THEN "answer" ELSE @]
    /\ UNCHANGED shortage

\* Pages are freed and allocated all the time.
ShortageChanges ==
    /\ shortage' \in 0 .. MaxTarget
    /\ UNCHANGED <<vm_laundry_request, poster, worker>>

-----------------------------------------------------------------------------
(* vm_pageout_laundry_worker *)

\* What is laundered in a turn, and the variables it leaves.
Turn(w, launder) ==
    {[w EXCEPT !.launder = launder, !.pc = IF launder > 0 THEN "launder" ELSE "check"]}

\* A turn of a shortfall launders its share of what is left of the target.
ShortfallTurn(w) ==
    Turn([w EXCEPT !.cycle = @ - 1, !.shortfall = 0], w.target \div w.cycle)

\* Background laundering starts when enough is dirty since a page daemon was
\* last woken, and stops when none was woken for a whole maximum.
BackgroundTurn(w) ==
    UNION {Turn([w EXCEPT !.target = target], Min({BackgroundRate, target})) :
              target \in IF w.target = 0 THEN {0, BackgroundTarget} ELSE {0, w.target}}

Turns ==
    CASE worker.shortfall > 0 ->
            ShortfallTurn([worker EXCEPT !.in_shortfall = TRUE, !.cycle = LaunderCycles,
                                         !.target = worker.shortfall])
      [] worker.shortfall <= 0 /\ ~worker.in_shortfall -> BackgroundTurn(worker)
      [] worker.shortfall <= 0 /\ worker.in_shortfall /\ (worker.cycle = 0 \/ shortage <= 0) ->
            BackgroundTurn([worker EXCEPT !.in_shortfall = FALSE, !.cycle = 0, !.target = 0])
      [] OTHER -> ShortfallTurn(worker)

LaundryDecides ==
    /\ worker.pc = "decide" /\ worker' \in Turns
    /\ UNCHANGED <<vm_laundry_request, shortage, poster>>

\* vm_pageout_launder reports what it has handed to the pagers, which may be
\* nothing, or a cluster more than it was asked for; then a pause.
Launders ==
    /\ worker.pc = "launder"
    /\ \E n \in 0 .. worker.launder + 1 :
          worker' = [worker EXCEPT !.pc = "check", !.launder = 0, !.target = @ - Min({n, @})]
    /\ UNCHANGED <<vm_laundry_request, shortage, poster>>

\* Mutant of NothingToDo: the request is not looked at.
NothingToDo_deaf == worker.target = 0

NothingToDo == worker.target = 0 /\ vm_laundry_request = "IDLE"

LaundrySleeps ==
    /\ worker.pc = "check" /\ NothingToDo /\ worker' = [worker EXCEPT !.pc = "asleep"]
    /\ UNCHANGED <<vm_laundry_request, shortage, poster>>

\* "start a shortfall laundering unless we're already in the middle of one"
StartsShortfall ==
    vm_laundry_request = "SHORTFALL" /\ (~worker.in_shortfall \/ worker.cycle = 0)

\* The request is answered when there is no target; with the lock it was
\* looked at with.
LaundryAnswers ==
    /\ worker.pc = "answer" \/ (worker.pc = "check" /\ ~NothingToDo)
    /\ worker' = [worker EXCEPT !.pc = "decide",
                                !.shortfall = IF StartsShortfall THEN shortage ELSE 0,
                                !.target = IF StartsShortfall THEN 0 ELSE @]
    /\ vm_laundry_request' =
          IF StartsShortfall \/ worker.target = 0 THEN "IDLE" ELSE vm_laundry_request
    /\ UNCHANGED <<shortage, poster>>

-----------------------------------------------------------------------------

LaundryInit ==
    /\ vm_laundry_request = "IDLE" /\ shortage = 0
    /\ poster = [p \in Posters |-> "scans"]
    /\ worker = [pc |-> "decide", target |-> 0, shortfall |-> 0, launder |-> 0,
                 in_shortfall |-> FALSE, cycle |-> 0]

WorkerStep == LaundryDecides \/ Launders \/ LaundrySleeps \/ LaundryAnswers

LaundryNext ==
    \/ \E p \in Posters : ScanDone(p) \/ Post(p)
    \/ WorkerStep \/ ShortageChanges

\* The page daemons, once they have read the request, and the laundry thread
\* get to run.
LaundryFairness ==
    /\ \A p \in Posters : WF_laundryVars(Post(p))
    /\ WF_laundryVars(WorkerStep)

LaundrySpec == LaundryInit /\ [][LaundryNext]_laundryVars /\ LaundryFairness

-----------------------------------------------------------------------------
(* Properties *)

\* Every field has its type; in particular no target goes below 0 and no share
\* of one is taken by a cycle of 0 (vm_pageout.c:960, 989).
LaundryTypeOK ==
    /\ vm_laundry_request \in {"IDLE", "BACKGROUND", "SHORTFALL"}
    /\ shortage \in 0 .. MaxTarget
    /\ poster \in [Posters -> {"scans", "missed", "met"}]
    /\ worker.pc \in {"decide", "launder", "check", "asleep", "answer"}
    /\ worker.target \in Nat /\ worker.shortfall \in Nat /\ worker.launder \in Nat
    /\ worker.in_shortfall \in BOOLEAN /\ worker.cycle \in 0 .. LaunderCycles

\* The laundry thread does not sleep on a request, whoever posts when
\* (vm_pageout.c:1058, 1370).
RequestSeen == LaundryTypeOK /\ (worker.pc = "asleep" => vm_laundry_request = "IDLE")

\* A shortfall that one domain has posted is not turned into background
\* laundering by another (vm_pageout.c:1377).
ShortfallKept ==
    [][vm_laundry_request = "SHORTFALL" => vm_laundry_request' # "BACKGROUND"]_laundryVars

\* If pages stay short and scans go on to miss their targets, or one that did
\* waits for its answer, the laundry thread keeps laundering for them, although
\* requests that come in the middle of a shortfall are answered with nothing
\* (vm_pageout.c:1067).
ShortageLaundered ==
    (/\ <>[](shortage > 0)
     /\ []<>(vm_laundry_request = "SHORTFALL" \/ \E p \in Posters : poster[p] = "missed"))
        => []<>(worker.pc = "launder" /\ worker.in_shortfall)
=============================================================================
