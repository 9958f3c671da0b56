------------------------------ MODULE PageQueues ----------------------------
(***************************************************************************)
(* The paging queues of one domain and what moves pages between them       *)
(* (asgn3/vm_page.c), with the two scans that run over them: the page      *)
(* daemon's over the inactive and then the active queue, and the laundry   *)
(* thread's over the laundry (asgn3/vm_pageout.c).                         *)
(*                                                                         *)
(* A step is what a thread does between two points at which another may    *)
(* get in: with a page lock and perhaps the lock of the page's object, or  *)
(* with a queue lock, which a scan drops and takes again at its markers.   *)
(* A page queue lock that is taken and released within a step is not       *)
(* shown.  Any thread that is neither scan is the user.                    *)
(***************************************************************************)
EXTENDS Integers, Sequences, FiniteSets, SequencesExt, FiniteSetsExt

CONSTANTS
    Pages, Objects,
    NoPage, NoObject, NoOne,
    Vnode,               \* objects of type OBJT_VNODE; the others swap
    Ops                  \* what users do here, to split the work of TLC

VARIABLES
    pg,          \* per page: the fields of struct vm_page, and its data
    q,           \* per queue: pages and markers
    cnt,         \* per queue: pq_cnt
    plock,       \* per page: who has its lock
    olock,       \* per object: who has its lock
    scan,        \* per scan: where it is
    user,        \* the user's page, object and place
    dead,        \* objects with OBJ_DEAD
    panicked

vars == <<pg, q, cnt, plock, olock, scan, user, dead, panicked>>

Queues   == {"inactive", "active", "laundry"}
Scanners == {"daemon", "launderer"}
Markers  == {"inacthead", "vmd_marker", "laundry_marker", "daemon", "launderer"}
Owners   == Scanners \cup {"user", NoOne}

\* The lists' NULL and the markers are no pages; a free lock has no owner.
ASSUME PageQueuesAssumption ==
    /\ IsFiniteSet(Pages) /\ NoPage \notin Pages /\ NoObject \notin Objects
    /\ (Pages \cup {NoPage}) \cap Markers = {} /\ NoOne \notin Scanners \cup {"user"}
    /\ Vnode \subseteq Objects

PageType ==
    [object : Objects \cup {NoObject}, queue : Queues \cup {"none"},
     wire : 0 .. 1, hold : 0 .. 1, busy : {"no", "s", "x"},
     valid : BOOLEAN, dirty : BOOLEAN,     \* m->valid, m->dirty: all or nothing
     mapped : BOOLEAN, mod : BOOLEAN,      \* a writable mapping; its modified bit
     data : {"saved", "unsaved", "saving"},\* what the backing store lacks
     free : BOOLEAN,                       \* on the free lists
     unholdfree : BOOLEAN]                 \* PG_UNHOLDFREE

FreePage ==
    [object |-> NoObject, queue |-> "none", wire |-> 0, hold |-> 0, busy |-> "no",
     valid |-> FALSE, dirty |-> FALSE, mapped |-> FALSE, mod |-> FALSE,
     data |-> "saved", free |-> TRUE, unholdfree |-> FALSE]

Idle == [pc |-> "idle", m |-> NoPage, object |-> NoObject,
         maxscan |-> 0, target |-> 0, cluster |-> {}, paged |-> 0]

Init ==
    /\ pg = [p \in Pages |-> FreePage]
    /\ q = [x \in Queues |-> IF x = "inactive" THEN <<"inacthead">> ELSE <<>>]
    /\ cnt = [x \in Queues |-> 0]
    /\ plock = [p \in Pages |-> NoOne] /\ olock = [o \in Objects |-> NoOne]
    /\ scan = [s \in Scanners |-> Idle]
    /\ user = [pc |-> "idle", p |-> NoPage, object |-> NoObject]
    /\ dead = {} /\ panicked = FALSE

Here == [pg |-> pg, q |-> q, cnt |-> cnt]
Put(s) == pg' = s.pg /\ q' = s.q /\ cnt' = s.cnt

-----------------------------------------------------------------------------
(* Operations on a page whose lock is held, as functions of pages and queues *)

Position(seq, e)       == SelectInSeq(seq, LAMBDA x : x = e)
InsertAfter(seq, a, e)  == InsertAt(seq, Position(seq, a) + 1, e)
InsertBefore(seq, a, e) == InsertAt(seq, Position(seq, a), e)
NextOf(seq, e) == LET i == Position(seq, e) IN IF i = Len(seq) THEN NoPage ELSE seq[i + 1]
PrevOf(seq, e) == LET i == Position(seq, e) IN IF i = 1 THEN NoPage ELSE seq[i - 1]

vm_page_dequeue(s, p) ==
    LET x == s.pg[p].queue
    IN  [pg  |-> [s.pg EXCEPT ![p].queue = "none"],
         q   |-> [s.q EXCEPT ![x] = RemoveFirst(@, p)],
         cnt |-> [s.cnt EXCEPT ![x] = @ - 1]]

vm_page_remque(s, p) == IF s.pg[p].queue = "none" THEN s ELSE vm_page_dequeue(s, p)

vm_page_enqueue(s, x, p) ==
    [pg  |-> [s.pg EXCEPT ![p].queue = x],
     q   |-> [s.q EXCEPT ![x] = Append(@, p)],
     cnt |-> [s.cnt EXCEPT ![x] = @ + 1]]

vm_page_requeue(s, p) ==
    [s EXCEPT !.q[s.pg[p].queue] = Append(RemoveFirst(@, p), p)]

\* vm_page_activate and vm_page_launder: a wired page stays off the queues.
MoveTo(s, x, p) ==
    IF s.pg[p].queue = x \/ s.pg[p].wire # 0 THEN s
    ELSE vm_page_enqueue(vm_page_remque(s, p), x, p)

\* Mutant of vm_page_deactivate: counts a page that was inactive twice.
vm_page_deactivate_twice(s, p, noreuse) ==
    IF (s.pg[p].queue = "inactive" /\ ~noreuse) \/ s.pg[p].wire # 0 THEN s
    ELSE [pg  |-> [s.pg EXCEPT ![p].queue = "inactive"],
          q   |-> [vm_page_remque(s, p).q EXCEPT !["inactive"] =
                       IF noreuse THEN InsertBefore(@, "inacthead", p) ELSE Append(@, p)],
          cnt |-> [s.cnt EXCEPT !["inactive"] = @ + 1]]

\* To the tail of the inactive queue, or with noreuse near its head.
vm_page_deactivate(s, p, noreuse) ==
    LET off == vm_page_remque(s, p)
    IN  IF (s.pg[p].queue = "inactive" /\ ~noreuse) \/ s.pg[p].wire # 0 THEN s
        ELSE [pg  |-> [off.pg EXCEPT ![p].queue = "inactive"],
              q   |-> [off.q EXCEPT !["inactive"] =
                           IF noreuse THEN InsertBefore(@, "inacthead", p) ELSE Append(@, p)],
              cnt |-> [off.cnt EXCEPT !["inactive"] = @ + 1]]

vm_page_wire(s, p) == [vm_page_remque(s, p) EXCEPT !.pg[p].wire = @ + 1]

\* With object NULL the page is put on no queue.
vm_page_unwire(s, p, x) ==
    LET less == [s EXCEPT !.pg[p].wire = @ - 1]
    IN  IF x = "none" \/ s.pg[p].object = NoObject THEN less ELSE vm_page_enqueue(less, x, p)

\* vm_page_free_prep, vm_page_free_toq: a busy or wired page panics; a held
\* one is freed by the last vm_page_unhold.
FreePanics(s, p) == s.pg[p].busy = "s" \/ s.pg[p].wire # 0

vm_page_free(s, p) ==
    LET off == vm_page_remque(s, p)
    IN  [off EXCEPT !.pg[p] =
            [FreePage EXCEPT !.hold = s.pg[p].hold, !.free = s.pg[p].hold = 0,
                             !.unholdfree = s.pg[p].hold # 0]]

vm_page_unhold(s, p) ==
    [s EXCEPT !.pg[p] = IF s.pg[p].unholdfree THEN FreePage ELSE [@ EXCEPT !.hold = 0]]

\* vm_page_test_dirty; pmap_remove_all and pmap_remove_write, which hand the
\* modified bit over to m->dirty.
vm_page_test_dirty(s, p) == [s EXCEPT !.pg[p].dirty = @ \/ s.pg[p].mod]

\* Mutant of pmap_remove: the modified bit goes with the mapping.
pmap_remove_lost(s, p) ==
    [s EXCEPT !.pg[p] = [@ EXCEPT !.mod = FALSE, !.mapped = FALSE]]

pmap_remove(s, p) ==
    [s EXCEPT !.pg[p] = [s.pg[p] EXCEPT !.dirty = s.pg[p].dirty \/ s.pg[p].mod,
                                      !.mod = FALSE, !.mapped = FALSE]]

Undirty(s, p, data) == [s EXCEPT !.pg[p] = [@ EXCEPT !.dirty = FALSE, !.data = data]]

\* vm_page_advise: MADV_FREE gives up what m->dirty stands for and leaves the
\* modified bit of the mappings.
vm_page_advise(s, p, advice) ==
    LET f == IF advice = "FREE"
             THEN Undirty(s, p, IF s.pg[p].mod THEN "unsaved" ELSE "saved")
             ELSE vm_page_test_dirty(s, p)
    IN  CASE advice = "WILLNEED"                       -> MoveTo(s, "active", p)
          [] advice # "WILLNEED" /\ ~f.pg[p].dirty     -> vm_page_deactivate(f, p, TRUE)
          [] OTHER                                     -> MoveTo(f, "laundry", p)

-----------------------------------------------------------------------------
(* Locks *)

Free(lock) == lock = NoOne
Busied(p)  == pg[p].busy # "no"

\* The queue a scan runs over, and whether it holds that queue's lock now.
QueueOf(s) == CASE s = "launderer"                                  -> "laundry"
                [] s = "daemon" /\ scan[s].pc \in {"active", "activelock"} -> "active"
                [] OTHER                                            -> "inactive"
Running(s) == scan[s].pc \in {"scan", "active"}
QueueFree(x) == \A s \in Scanners : Running(s) => QueueOf(s) # x

\* Every turn of a scan counts against maxscan, also one that meets a marker.
Count(s) == IF Running(s) THEN scan[s].maxscan - 1 ELSE scan[s].maxscan

\* A scan goes on with the next page.
Continue(s, next) ==
    scan' = [scan EXCEPT ![s] = [@ EXCEPT !.m = next, !.object = NoObject, !.maxscan = Count(s),
                                          !.pc = IF QueueOf(s) = "active" THEN "active"
                                                                          ELSE "scan"]]

\* It has the page and object locks and keeps its place with a marker; the
\* daemon takes the page off the queue at once.
Marker(s) == IF s = "daemon" THEN "vmd_marker" ELSE "laundry_marker"

Claim(s, m, object, queues) ==
    LET marked == [Here EXCEPT !.q = [queues EXCEPT ![QueueOf(s)] =
                                     InsertAfter(queues[QueueOf(s)], m, Marker(s))]]
    IN  /\ Put(IF s = "daemon" THEN vm_page_dequeue(marked, m) ELSE marked)
        /\ plock' = [plock EXCEPT ![m] = s]
        /\ olock' = [olock EXCEPT ![object] = s]
        /\ scan' = [scan EXCEPT ![s] = [@ EXCEPT !.pc = "test", !.m = m, !.object = object,
                                                 !.maxscan = Count(s)]]

\* It leaves the page alone: held, busy, or no longer where it was.
Skip(s, next, queues) ==
    /\ q' = queues /\ Continue(s, next)
    /\ UNCHANGED <<pg, cnt, plock, olock>>

\* It drops the queue lock to wait for another, with a marker behind the page.
WaitFor(s, m, pc, queues) ==
    /\ q' = [queues EXCEPT ![QueueOf(s)] = InsertAfter(@, m, s)]
    /\ scan' = [scan EXCEPT ![s] = [@ EXCEPT !.pc = pc, !.m = m, !.object = pg[m].object,
                                          !.maxscan = Count(s)]]
    /\ UNCHANGED <<pg, cnt, plock, olock>>

\* With the lock of that object too.
HaveObject(s, m, object, next, queues) ==
    IF Busied(m) \/ pg[m].hold # 0 THEN Skip(s, next, queues) ELSE Claim(s, m, object, queues)

\* With the page lock: VM_OBJECT_TRYWLOCK, or wait for the object.
HavePage(s, m, next, queues) ==
    CASE pg[m].hold # 0 -> Skip(s, next, queues)
      [] pg[m].hold = 0 /\ Free(olock[pg[m].object]) -> HaveObject(s, m, pg[m].object, next, queues)
      [] OTHER -> WaitFor(s, m, "objectlock", queues)

\* The page has kept its place in front of the scan's marker.
Unchanged(s, m) == PrevOf(q[QueueOf(s)], s) = m

\* Mutant of SameObject: the object is not compared.
SameObject_any(s, m) == TRUE

SameObject(s, m) == pg[m].object = scan[s].object

Unmarked(s) == [q EXCEPT ![QueueOf(s)] = RemoveFirst(@, s)]

-----------------------------------------------------------------------------
(* The two scans *)

\* The inactive scan of vm_pageout_scan with a page shortage, and
\* vm_pageout_launder with a number of pages to launder.
ScanStart(s) ==
    /\ scan[s].pc = "idle"
    /\ \E target \in 1 .. Cardinality(Pages) :
          scan' = [scan EXCEPT ![s] = [Idle EXCEPT !.pc = "scan", !.target = target,
                       !.m = IF q[QueueOf(s)] = <<>> THEN NoPage ELSE q[QueueOf(s)][1],
                       !.maxscan = cnt[QueueOf(s)]]]
    /\ UNCHANGED <<pg, q, cnt, plock, olock, user, dead, panicked>>

ScanDone(s) == scan[s].m = NoPage \/ scan[s].maxscan <= 0 \/ scan[s].target <= 0

\* The daemon turns to the active queue; the launderer is done.  min_scan may
\* let it visit one page more than the queue held.
ScanEnd(s) ==
    /\ scan[s].pc = "scan" /\ ScanDone(s)
    /\ scan' = [scan EXCEPT ![s] =
           IF s = "launderer" THEN Idle
           ELSE [Idle EXCEPT !.pc = "active", !.maxscan = cnt["active"] + 1,
                             !.m = IF q["active"] = <<>> THEN NoPage ELSE q["active"][1]]]
    /\ UNCHANGED <<pg, q, cnt, plock, olock, user, dead, panicked>>

\* One turn of the loop with the queue lock: a marker is passed over, a page
\* is taken if vm_page_trylock succeeds (vm_pageout_page_lock).
ScanPage(s) ==
    LET m    == scan[s].m
        next == NextOf(q[QueueOf(s)], m)
    IN  /\ scan[s].pc = "scan" /\ ~ScanDone(s)
        /\ \/ m \in Markers /\ Skip(s, next, q)
           \/ m \in Pages /\ Free(plock[m]) /\ HavePage(s, m, next, q)
           \/ m \in Pages /\ ~Free(plock[m]) /\ WaitFor(s, m, "pagelock", q)
        /\ UNCHANGED <<user, dead, panicked>>

\* vm_pageout_page_lock, second half: the page lock, then the queue lock.
PageLock(s) ==
    LET m    == scan[s].m
        next == NextOf(q[QueueOf(s)], s)
    IN  /\ scan[s].pc = "pagelock" /\ Free(plock[m])
        /\ IF Unchanged(s, m) THEN HavePage(s, m, next, Unmarked(s))
                              ELSE Skip(s, next, Unmarked(s))
        /\ UNCHANGED <<user, dead, panicked>>

\* vm_pageout_fallback_object_lock, second half: the object lock, then the
\* page lock, then the queue lock.
ObjectLock(s) ==
    LET m    == scan[s].m
        next == NextOf(q[QueueOf(s)], s)
    IN  /\ scan[s].pc = "objectlock" /\ Free(olock[scan[s].object]) /\ Free(plock[m])
        /\ IF SameObject(s, m) /\ Unchanged(s, m)
           THEN HaveObject(s, m, scan[s].object, next, Unmarked(s))
           ELSE Skip(s, next, Unmarked(s))
        /\ UNCHANGED <<user, dead, panicked>>

\* ref_count is not 0 while a page of the object is mapped.
RefCounts(o) ==
    IF \E p \in Pages : pg[p].object = o /\ pg[p].mapped THEN {TRUE} ELSE BOOLEAN

\* With page and object locked: an invalid page is free to go; a page of a
\* mapped object is tested and, if clean, its mappings are removed, which may
\* still find it modified.
TestDirty(s) ==
    LET m == scan[s].m
        f == vm_page_test_dirty(Here, m)
    IN  /\ scan[s].pc = "test"
        /\ \E refs \in RefCounts(scan[s].object) :
              LET tested == pg[m].valid /\ refs
              IN  /\ Put(IF tested THEN f ELSE Here)
                  /\ scan' = [scan EXCEPT ![s].pc =
                         IF tested /\ ~f.pg[m].dirty THEN "unmap" ELSE "decide"]
        /\ UNCHANGED <<plock, olock, user, dead, panicked>>

\* Mutant of RemoveMappings: the mappings stay.
RemoveMappings_none(s) ==
    /\ scan[s].pc = "unmap" /\ scan' = [scan EXCEPT ![s].pc = "decide"]
    /\ UNCHANGED <<pg, q, cnt, plock, olock, user, dead, panicked>>

RemoveMappings(s) ==
    /\ scan[s].pc = "unmap"
    /\ Put(pmap_remove(Here, scan[s].m))
    /\ scan' = [scan EXCEPT ![s].pc = "decide"]
    /\ UNCHANGED <<plock, olock, user, dead, panicked>>

Reclaimable(m) == ~pg[m].valid \/ ~pg[m].dirty

UnlockBoth(s) ==
    /\ plock' = [plock EXCEPT ![scan[s].m] = NoOne]
    /\ olock' = [olock EXCEPT ![scan[s].object] = NoOne]

\* The page daemon frees the page or sends it to the laundry; one of a dead
\* object is left to the thread that destroys it.
DaemonDecide ==
    LET s == "daemon"  m == scan[s].m
    IN  /\ scan[s].pc = "decide" /\ UnlockBoth(s) /\ UNCHANGED <<user, dead>>
        /\ \/ /\ Reclaimable(m)
              /\ Put(vm_page_free(Here, m)) /\ panicked' = (panicked \/ FreePanics(Here, m))
              /\ scan' = [scan EXCEPT ![s].pc = "next", ![s].target = @ - 1]
           \/ /\ ~Reclaimable(m) /\ QueueFree("laundry")
              /\ Put(IF scan[s].object \in dead THEN Here ELSE MoveTo(Here, "laundry", m))
              /\ scan' = [scan EXCEPT ![s].pc = "next"] /\ UNCHANGED panicked

\* Back to the queue lock and the marker.
ScanNext(s) ==
    LET x == QueueOf(s)
    IN  /\ scan[s].pc = "next"
        /\ q' = [q EXCEPT ![x] = RemoveFirst(@, Marker(s))]
        /\ scan' = [scan EXCEPT ![s] = [@ EXCEPT !.pc = "scan", !.object = NoObject,
                                                 !.m = NextOf(q[x], Marker(s))]]
        /\ UNCHANGED <<pg, cnt, plock, olock, user, dead, panicked>>

\* One turn over the active queue, with its lock and the page lock: every page
\* leaves, to the inactive queue, or to the laundry if it is dirty and the
\* inactive queue is short.
ActiveTake(m, next, queues) ==
    LET off == vm_page_dequeue([Here EXCEPT !.q = queues], m)
    IN  /\ \/ Put(vm_page_deactivate(off, m, FALSE))
           \/ pg[m].dirty /\ QueueFree("laundry") /\ Put(MoveTo(off, "laundry", m))
        /\ Continue("daemon", next) /\ UNCHANGED <<plock, olock>>

ActivePage ==
    LET s == "daemon"  m == scan[s].m
    IN  /\ scan[s].pc = "active" /\ m # NoPage /\ scan[s].maxscan > 0
        /\ \/ Free(plock[m]) /\ ActiveTake(m, NextOf(q["active"], m), q)
           \/ ~Free(plock[m]) /\ WaitFor(s, m, "activelock", q)
        /\ UNCHANGED <<user, dead, panicked>>

ActiveLock ==
    LET s == "daemon"  m == scan[s].m  next == NextOf(q["active"], s)
    IN  /\ scan[s].pc = "activelock" /\ Free(plock[m])
        /\ IF Unchanged(s, m) THEN ActiveTake(m, next, Unmarked(s))
                              ELSE Skip(s, next, Unmarked(s))
        /\ UNCHANGED <<user, dead, panicked>>

\* The scan ends with the queue, or earlier when nothing is short.
ActiveEnd ==
    /\ scan["daemon"].pc = "active" /\ scan' = [scan EXCEPT !["daemon"] = Idle]
    /\ UNCHANGED <<pg, q, cnt, plock, olock, user, dead, panicked>>

-----------------------------------------------------------------------------
(* Laundering: vm_pageout_clean, vm_pageout_cluster and vm_pageout_flush *)

L == scan["launderer"]
LScan(f) == scan' = [scan EXCEPT !["launderer"] = f]

\* The launderer frees a clean page, drops one of a dead object, requeues one
\* it may not swap out, and cleans the others: at once, or for a vnode's page
\* after waiting for the vnode with both locks dropped.
LaunderDecide ==
    LET m == L.m
        object == L.object
    IN  /\ L.pc = "decide" /\ UNCHANGED <<user, dead>>
        /\ \/ /\ Reclaimable(m)
              /\ Put(vm_page_free(Here, m)) /\ panicked' = (panicked \/ FreePanics(Here, m))
              /\ UnlockBoth("launderer") /\ LScan([L EXCEPT !.pc = "next"])
           \/ /\ ~Reclaimable(m) /\ (object \in dead \/ object \notin Vnode)
              /\ \/ object \in dead /\ Put(Here)
                 \/ object \notin dead /\ Put(vm_page_requeue(Here, m))
              /\ UnlockBoth("launderer") /\ LScan([L EXCEPT !.pc = "next"])
              /\ UNCHANGED panicked
           \/ /\ ~Reclaimable(m) /\ object \notin dead /\ object \in Vnode
              /\ UnlockBoth("launderer") /\ LScan([L EXCEPT !.pc = "vnode"])
              /\ UNCHANGED <<pg, q, cnt, panicked>>
           \/ /\ ~Reclaimable(m) /\ object \notin dead /\ object \notin Vnode
              /\ LScan([L EXCEPT !.pc = "cluster"])
              /\ UNCHANGED <<pg, q, cnt, plock, olock, panicked>>

\* Mutant of StillDirty: what may have happened meanwhile is not tested.
StillDirty_any(m, object) == TRUE

StillDirty(m, object) ==
    /\ pg[m].queue = "laundry" /\ pg[m].object = object /\ pg[m].dirty
    /\ ~Busied(m) /\ pg[m].hold = 0

\* The vnode, the object and the page are locked again, or the vnode cannot
\* be had, or it has lost its object.
VnodeLock ==
    /\ L.pc = "vnode" /\ UNCHANGED <<pg, q, cnt, user, dead, panicked>>
    /\ \/ LScan([L EXCEPT !.pc = "next"]) /\ UNCHANGED <<plock, olock>>
       \/ /\ Free(olock[L.object]) /\ Free(plock[L.m])
          /\ \/ /\ StillDirty(L.m, L.object) /\ LScan([L EXCEPT !.pc = "cluster"])
                /\ plock' = [plock EXCEPT ![L.m] = "launderer"]
                /\ olock' = [olock EXCEPT ![L.object] = "launderer"]
             \/ /\ ~StillDirty(L.m, L.object) /\ LScan([L EXCEPT !.pc = "next"])
                /\ UNCHANGED <<plock, olock>>

\* vm_pageout_cluster: the page is write protected and unlocked, then
\* neighbours of the object join it.
Cluster ==
    /\ L.pc = "cluster"
    /\ Put(pmap_remove(Here, L.m)) /\ plock' = [plock EXCEPT ![L.m] = NoOne]
    /\ LScan([L EXCEPT !.pc = "grow", !.cluster = {L.m}])
    /\ UNCHANGED <<olock, user, dead, panicked>>

Grow(p) ==
    LET f == vm_page_test_dirty(Here, p)
    IN  /\ L.pc = "grow" /\ p \notin L.cluster /\ pg[p].object = L.object
        /\ ~Busied(p) /\ Free(plock[p])
        /\ \/ /\ f.pg[p].dirty /\ pg[p].queue = "laundry" /\ pg[p].hold = 0
              /\ Put(pmap_remove(Here, p)) /\ LScan([L EXCEPT !.cluster = @ \cup {p}])
           \/ /\ ~(f.pg[p].dirty /\ pg[p].queue = "laundry" /\ pg[p].hold = 0)
              /\ Put(f) /\ UNCHANGED scan
        /\ UNCHANGED <<plock, olock, user, dead, panicked>>

\* vm_pageout_flush: every page of the cluster is shared busied and handed to
\* the pager, which unlocks the object while it writes.
Flush ==
    /\ L.pc = "grow"
    /\ panicked' = (panicked \/ \E p \in L.cluster : pg[p].busy = "x")
    /\ pg' = [p \in Pages |-> IF p \notin L.cluster THEN pg[p]
                              ELSE [pg[p] EXCEPT !.busy = "s",
                                    !.data = IF @ = "unsaved" THEN "saving" ELSE @]]
    /\ LScan([L EXCEPT !.pc = "put"])
    /\ olock' = [olock EXCEPT ![L.object] = NoOne]
    /\ UNCHANGED <<q, cnt, plock, user, dead>>

\* The pager returns with the object locked; what it has to say of each page
\* comes one page at a time, under the page's lock.
PutReturns ==
    /\ L.pc = "put" /\ Free(olock[L.object])
    /\ olock' = [olock EXCEPT ![L.object] = "launderer"]
    /\ LScan([L EXCEPT !.pc = "result"])
    /\ UNCHANGED <<pg, q, cnt, plock, user, dead, panicked>>

Saved(d) == IF d = "saving" THEN "saved" ELSE d

\* Out of the laundry, if it is still there; no longer busy; could not be
\* written, so its data are where they were.
Out(s, p)     == IF pg[p].queue = "laundry" THEN vm_page_deactivate(s, p, TRUE) ELSE s
Unbusy(s, p)  == [s EXCEPT !.pg[p].busy = "no"]
Unsaved(p)    == [Here EXCEPT !.pg[p].data = IF @ = "saving" THEN "unsaved" ELSE @]

Written(p) == Unbusy(Out(Undirty(Here, p, Saved(pg[p].data)), p), p)
Failed(p)  == Unbusy(MoveTo(Unsaved(p), "active", p), p)

\* Per status: what becomes of the page, and whether it counts as paged out.
\* VM_PAGER_PEND leaves it busy; VM_PAGER_BAD pretends that it was written.
Results(p) ==
    {<<Written(p), 1>>, <<Here, 1>>,
     <<Unbusy(Out(Undirty(Here, p, "saved"), p), p), 0>>,
     <<Failed(p), 0>>, <<Unbusy(Unsaved(p), p), 0>>}

Result(p) ==
    /\ L.pc = "result" /\ p \in L.cluster /\ Free(plock[p])
    /\ QueueFree("inactive") /\ QueueFree("active")
    /\ \E r \in Results(p) :
          /\ Put(r[1])
          /\ LScan([L EXCEPT !.cluster = @ \ {p}, !.paged = @ + r[2]])
    /\ UNCHANGED <<plock, olock, user, dead, panicked>>

\* "maxscan -= numpagedout - 1": the page the scan met was counted before.
FlushEnd ==
    /\ L.pc = "result" /\ L.cluster = {}
    /\ LScan([L EXCEPT !.pc = "next", !.paged = 0, !.target = @ - L.paged,
                       !.maxscan = IF L.paged = 0 THEN @ ELSE @ - (L.paged - 1)])
    /\ olock' = [olock EXCEPT ![L.object] = NoOne]
    /\ UNCHANGED <<pg, q, cnt, plock, user, dead, panicked>>

\* A write the pager had only started comes to its end.
WriteDone(p) ==
    /\ pg[p].busy = "s" /\ p \notin L.cluster /\ Free(plock[p])
    /\ QueueFree("inactive") /\ QueueFree("active") /\ QueueFree("laundry")
    /\ Put(Written(p)) \/ Put(Failed(p))
    /\ UNCHANGED <<plock, olock, scan, user, dead, panicked>>

-----------------------------------------------------------------------------
(* Users: a fault, a system call or the death of a process *)

\* vm_page_alloc: from the free lists into an object, exclusive busied.
Alloc(p, o) ==
    /\ "alloc" \in Ops /\ pg[p].free /\ o \notin dead /\ Free(olock[o])
    /\ pg' = [pg EXCEPT ![p] = [FreePage EXCEPT !.object = o, !.busy = "x", !.free = FALSE]]
    /\ UNCHANGED <<q, cnt, plock, olock, scan, user, dead, panicked>>

\* A store through a writable mapping, at any time.
Write(p) ==
    /\ pg[p].mapped
    /\ pg' = [pg EXCEPT ![p] = [@ EXCEPT !.mod = TRUE, !.data = "unsaved"]]
    /\ UNCHANGED <<q, cnt, plock, olock, scan, user, dead, panicked>>

\* The page lock, after the lock of the object for what needs it.
UserLock(p) ==
    /\ user.pc = "idle" /\ ~pg[p].free /\ Free(plock[p])
    /\ plock' = [plock EXCEPT ![p] = "user"]
    /\ \/ /\ pg[p].object # NoObject /\ Free(olock[pg[p].object])
          /\ olock' = [olock EXCEPT ![pg[p].object] = "user"]
          /\ user' = [pc |-> "locked", p |-> p, object |-> pg[p].object]
       \/ /\ UNCHANGED olock
          /\ user' = [pc |-> "locked", p |-> p, object |-> NoObject]
    /\ UNCHANGED <<pg, q, cnt, scan, dead, panicked>>

UserUnlocks ==
    /\ user' = [pc |-> "idle", p |-> NoPage, object |-> NoObject]
    /\ plock' = [plock EXCEPT ![user.p] = NoOne]
    /\ olock' = [o \in Objects |-> IF o = user.object THEN NoOne ELSE olock[o]]
    /\ UNCHANGED <<scan, dead, panicked>>

\* What needs the page lock alone.
PageOps(p) ==
    LET owned == pg[p].object # NoObject
    IN  (IF owned
         THEN {<<"activate", MoveTo(Here, "active", p)>>,
               <<"deactivate", vm_page_deactivate(Here, p, FALSE)>>,
               <<"noreuse", vm_page_deactivate(Here, p, TRUE)>>,
               <<"launder", MoveTo(Here, "laundry", p)>>}
         ELSE {})
        \cup (IF pg[p].queue # "none" THEN {<<"requeue", vm_page_requeue(Here, p)>>} ELSE {})
        \cup (IF owned /\ pg[p].wire = 0 THEN {<<"wire", vm_page_wire(Here, p)>>} ELSE {})
        \cup (IF pg[p].wire = 1
              THEN {<<"wire", vm_page_unwire(Here, p, x)>> : x \in {"none", "inactive", "active"}}
              ELSE {})
        \cup (IF owned /\ pg[p].hold = 0 THEN {<<"hold", [Here EXCEPT !.pg[p].hold = 1]>>} ELSE {})
        \cup (IF pg[p].hold = 1 THEN {<<"hold", vm_page_unhold(Here, p)>>} ELSE {})

\* vm_page_try_to_free
TryToFree(s, p) ==
    LET f == pmap_remove(s, p)
    IN  IF s.pg[p].dirty \/ s.pg[p].hold # 0 \/ s.pg[p].wire # 0 \/ s.pg[p].busy # "no" THEN s
        ELSE IF f.pg[p].dirty THEN f ELSE vm_page_free(f, p)

\* To another object, whose store has nothing of the page.
vm_page_rename(s, p, o) ==
    [s EXCEPT !.pg[p] = [@ EXCEPT !.object = o, !.dirty = TRUE, !.data = "unsaved"]]

\* What needs the object lock too: busying, filling, mapping, advice, moving
\* to another object, freeing.
ObjectOps(p) ==
    (IF pg[p].busy = "no" THEN {<<"busy", [Here EXCEPT !.pg[p].busy = "x"]>>} ELSE {})
    \cup (IF pg[p].busy = "x"
          THEN {<<"busy", Unbusy([Here EXCEPT !.pg[p].valid = v \/ @], p)>> : v \in BOOLEAN}
          ELSE {})
    \cup (IF pg[p].valid /\ pg[p].busy # "s" /\ user.object \notin dead
          THEN {<<"map", [Here EXCEPT !.pg[p].mapped = TRUE]>>} ELSE {})
    \cup (IF pg[p].valid
          THEN {<<"advise", vm_page_advise(Here, p, a)>> : a \in {"FREE", "DONTNEED", "WILLNEED"}}
          ELSE {})
    \cup (IF pg[p].valid /\ pg[p].busy = "no"
          THEN {<<"rename", vm_page_rename(Here, p, o)>> :
                   o \in {o \in Objects \ dead : Free(olock[o])}} ELSE {})
    \cup {<<"free", TryToFree(Here, p)>>}
    \cup (IF ~FreePanics(Here, p) /\ ~pg[p].mapped THEN {<<"free", vm_page_free(Here, p)>>} ELSE {})

\* A queue operation waits for a scan that has the queue's lock.
QueuesFree(f, p) ==
    \A x \in {pg[p].queue, f.pg[p].queue} : x = "none" \/ f.q = q \/ QueueFree(x)

UserOp ==
    /\ user.pc = "locked"
    /\ \E f \in PageOps(user.p) \cup (IF user.object = NoObject THEN {} ELSE ObjectOps(user.p)) :
          f[1] \in Ops /\ QueuesFree(f[2], user.p) /\ Put(f[2])
    /\ UserUnlocks

UserNothing == user.pc = "locked" /\ UserUnlocks /\ UNCHANGED <<pg, q, cnt>>

\* An object dies when nothing maps it any more; its pages are freed one by
\* one, and the structure is used again.
ObjectDies(o) ==
    /\ "free" \in Ops /\ o \notin dead /\ Free(olock[o])
    /\ \A p \in Pages : pg[p].object = o => ~pg[p].mapped
    /\ dead' = dead \cup {o}
    /\ UNCHANGED <<pg, q, cnt, plock, olock, scan, user, panicked>>

ObjectReused(o) ==
    /\ o \in dead /\ \A p \in Pages : pg[p].object # o
    /\ dead' = dead \ {o}
    /\ UNCHANGED <<pg, q, cnt, plock, olock, scan, user, panicked>>

-----------------------------------------------------------------------------

ScanStep(s) ==
    \/ ScanStart(s) \/ ScanEnd(s) \/ ScanPage(s) \/ PageLock(s) \/ ObjectLock(s)
    \/ TestDirty(s) \/ RemoveMappings(s) \/ ScanNext(s)

DaemonStep == DaemonDecide \/ ActivePage \/ ActiveLock \/ ActiveEnd

LaunderStep ==
    \/ LaunderDecide \/ VnodeLock \/ Cluster \/ Flush \/ PutReturns \/ FlushEnd
    \/ \E p \in Pages : Grow(p) \/ Result(p)

UserStep ==
    \/ UserOp \/ UserNothing
    \/ \E o \in Objects : ObjectDies(o) \/ ObjectReused(o)
    \/ \E p \in Pages : Write(p) \/ UserLock(p) \/ \E o \in Objects : Alloc(p, o)

Next ==
    /\ ~panicked
    /\ \/ \E s \in Scanners : ScanStep(s)
       \/ DaemonStep \/ LaunderStep \/ UserStep
       \/ \E p \in Pages : WriteDone(p)

Spec == Init /\ [][Next]_vars

-----------------------------------------------------------------------------
(* Properties *)

TypeOK ==
    /\ pg \in [Pages -> PageType]
    /\ \A x \in Queues : q[x] \in Seq(Pages \cup Markers) /\ cnt[x] \in Nat
    /\ plock \in [Pages -> Owners] /\ olock \in [Objects -> Owners]
    /\ \A s \in Scanners : scan[s].m \in Pages \cup Markers \cup {NoPage}

\* A page is on the one queue m->queue names, once, and on no queue while it
\* is wired or free; pq_cnt counts the pages of each queue but no marker
\* (vm_page.c:2686 finds the queue lock through m->queue).
QueuesExact ==
    /\ \A x \in Queues :
          /\ \A i, j \in 1 .. Len(q[x]) : q[x][i] = q[x][j] => i = j
          /\ \A p \in Pages : Position(q[x], p) # 0 <=> pg[p].queue = x
          /\ cnt[x] = Quantify(Pages, LAMBDA p : pg[p].queue = x)
    /\ \A p \in Pages : pg[p].wire # 0 \/ pg[p].object = NoObject => pg[p].queue = "none"

\* A marker is in a queue exactly while its scan has dropped that queue's lock
\* (vm_pageout.c:267, 309, 765, 1275), and the one for noreuse always.
MarkersExact ==
    /\ Position(q["inactive"], "inacthead") # 0
    /\ \A s \in Scanners, x \in Queues :
          /\ Position(q[x], s) # 0 <=>
                 x = QueueOf(s) /\ scan[s].pc \in {"pagelock", "objectlock", "activelock"}
          /\ Position(q[x], Marker(s)) # 0 <=>
                 x = QueueOf(s) /\ scan[s].pc \notin {"idle", "scan", "active",
                                                     "pagelock", "objectlock", "activelock"}

\* Every queue holds what it should: the types, the pages and the markers.
QueuesSound == TypeOK /\ QueuesExact /\ MarkersExact

\* A page that a scan is about to reclaim is the one it met in the queue: it
\* has its lock and the lock of the object the page belongs to, and nobody
\* holds, wires or busies the page (vm_pageout.c:281 "the wrong object lock").
ScanOwnsItsPage ==
    \A s \in Scanners : scan[s].pc \in {"test", "unmap", "decide"} =>
        LET m == scan[s].m
        IN  /\ plock[m] = s /\ olock[scan[s].object] = s /\ pg[m].object = scan[s].object
            /\ ~Busied(m) /\ pg[m].hold = 0 /\ pg[m].wire = 0

\* What the backing store lacks, m->dirty or the modified bit of a mapping
\* knows of: also when a store hits the page during the tests of a scan, the
\* removal of its mappings or a write to the store.
NothingForgotten ==
    \A p \in Pages : pg[p].data # "saved" => pg[p].dirty \/ pg[p].mod

\* No page is freed while shared busy or wired, and no page that laundering
\* has chosen turns out to be exclusive busied (vm_page.c:2892, 2921).
NeverPanics == ~panicked

\* A scan frees a page only when the backing store has all of it
\* (vm_pageout.c:1344 "Clean pages can be freed").
FreedWhenSaved ==
    [][\A p \in Pages : scan' # scan /\ pg[p].object # NoObject /\ pg'[p].object = NoObject
                        => pg[p].data = "saved"]_vars
=============================================================================
