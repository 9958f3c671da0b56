--------------------------- MODULE PageQueuesProofs -------------------------
(***************************************************************************)
(* Theorems of PageQueues for any number of pages and objects: the lists   *)
(* and the fields of pages agree, a scan keeps what it claimed across the  *)
(* locks it drops, and nothing is freed before it is saved.  A lemma says  *)
(* what each function does to its page (Moved), one what each action keeps *)
(* of the actor that takes it, and one what it leaves to the others.       *)
(***************************************************************************)
EXTENDS PageQueues, LibraryFacts, FiniteSetTheorems

-----------------------------------------------------------------------------
(* Places in a list *)

\* Position finds an element exactly when the list has it.
LEMMA PositionFound ==
    ASSUME NEW S, NEW seq \in Seq(S), NEW e
    PROVE  /\ Position(seq, e) \in 0 .. Len(seq)
           /\ Position(seq, e) # 0 <=> e \in Range(seq)
           /\ Position(seq, e) # 0 => seq[Position(seq, e)] = e
<1> DEFINE I == {i \in 1 .. Len(seq) : seq[i] = e}
<1>1. Len(seq) \in Nat /\ DOMAIN seq = 1 .. Len(seq)
      BY LenProperties
<1>2. Position(seq, e) = IF I # {} THEN Min(I) ELSE 0
      BY DEF Position, SelectInSeq
<1>3. e \in Range(seq) <=> I # {}
      BY <1>1 DEF Range
<1>4. CASE I = {}
      BY <1>1, <1>2, <1>3, <1>4
<1>5. CASE I # {}
  <2>1. I \in SUBSET Nat
        OBVIOUS
  <2>2. Min(I) \in I
        BY <1>5, <2>1, MinIsLeast
  <2>. QED  BY <1>1, <1>2, <1>3, <1>5, <2>2
<1>. QED  BY <1>4, <1>5

\* TAILQ_INSERT_TAIL of a page.
LEMMA TailContents ==
    ASSUME NEW seq \in Seq(Pages \cup Markers), NEW e \in Pages, NEW l, l = Append(seq, e)
    PROVE  /\ l \in Seq(Pages \cup Markers)
           /\ Range(l) = Range(seq) \cup {e}
           /\ IsInjective(seq) /\ e \notin Range(seq) => IsInjective(l)
<1> DEFINE S == Pages \cup Markers
<1>1. seq \in Seq(S) /\ e \in S
      OBVIOUS
<1>2. SUFFICES /\ l \in Seq(S)
               /\ Range(l) = Range(seq) \cup {e}
               /\ IsInjective(seq) /\ e \notin Range(seq) => IsInjective(l)
      OBVIOUS
<1> HIDE DEF S
<1>3. l = Append(seq, e)
      OBVIOUS
<1>. QED  BY <1>1, <1>3, AppendContents, Zenon

LEMMA AfterContents ==
    ASSUME NEW S, NEW seq \in Seq(S), NEW a \in Range(seq), NEW e \in S
    PROVE  /\ InsertAfter(seq, a, e) \in Seq(S)
           /\ Range(InsertAfter(seq, a, e)) = Range(seq) \cup {e}
           /\ IsInjective(seq) /\ e \notin Range(seq) => IsInjective(InsertAfter(seq, a, e))
<1>1. Len(seq) \in Nat
      BY LenProperties
<1>2. Position(seq, a) + 1 \in 1 .. Len(seq) + 1
      BY <1>1, PositionFound
<1>. QED  BY <1>2, InsertAtContents DEF InsertAfter

LEMMA BeforeContents ==
    ASSUME NEW S, NEW seq \in Seq(S), NEW a \in Range(seq), NEW e \in S
    PROVE  /\ InsertBefore(seq, a, e) \in Seq(S)
           /\ Range(InsertBefore(seq, a, e)) = Range(seq) \cup {e}
           /\ IsInjective(seq) /\ e \notin Range(seq) => IsInjective(InsertBefore(seq, a, e))
<1>1. Len(seq) \in Nat
      BY LenProperties
<1>2. Position(seq, a) \in 1 .. Len(seq) + 1
      BY <1>1, PositionFound
<1>. QED  BY <1>2, InsertAtContents DEF InsertBefore

\* TAILQ_NEXT: another element of the list, or none.
LEMMA NextContents ==
    ASSUME NEW S, NEW seq \in Seq(S), IsInjective(seq), NEW e \in Range(seq)
    PROVE  NextOf(seq, e) = NoPage \/ NextOf(seq, e) \in Range(seq) \ {e}
<1> DEFINE i == Position(seq, e)
<1>1. Len(seq) \in Nat /\ DOMAIN seq = 1 .. Len(seq)
      BY LenProperties
<1>2. i \in 1 .. Len(seq) /\ seq[i] = e
      BY <1>1, PositionFound
<1>3. NextOf(seq, e) = IF i = Len(seq) THEN NoPage ELSE seq[i + 1]
      BY DEF NextOf
<1> HIDE DEF i
<1>4. CASE i # Len(seq)
  <2>1. i \in Nat /\ 1 <= i /\ i < Len(seq)
    <3>1. Len(seq) \in Nat /\ i \in 1 .. Len(seq)
          BY <1>1, <1>2
    <3>. QED  BY <3>1, <1>4
  <2>2. i + 1 \in 1 .. Len(seq) /\ i + 1 # i
        BY <1>1, <2>1
  <2>3. seq[i + 1] # e
        BY <1>1, <1>2, <2>2 DEF IsInjective
  <2>. QED  BY <1>1, <1>3, <1>4, <2>2, <2>3 DEF Range
<1>. QED  BY <1>3, <1>4

\* TAILQ_PREV of an element: what it is before is not what it is after.
LEMMA PrevContents ==
    ASSUME NEW S, NEW seq \in Seq(S), IsInjective(seq), NEW e \in Range(seq),
           NEW m, m # NoPage, PrevOf(seq, e) = m
    PROVE  m \in Range(seq) \ {e} /\ NextOf(seq, e) # m
<1> DEFINE i == Position(seq, e)
<1>1. Len(seq) \in Nat /\ DOMAIN seq = 1 .. Len(seq)
      BY LenProperties
<1>2. i \in 1 .. Len(seq) /\ seq[i] = e
      BY <1>1, PositionFound
<1>3. /\ NextOf(seq, e) = IF i = Len(seq) THEN NoPage ELSE seq[i + 1]
      /\ PrevOf(seq, e) = IF i = 1 THEN NoPage ELSE seq[i - 1]
      BY DEF NextOf, PrevOf
<1> HIDE DEF i
<1>4. i # 1 /\ seq[i - 1] = m
      BY <1>3
<1>5. i - 1 \in 1 .. Len(seq) /\ i - 1 # i /\ i - 1 # i + 1
      BY <1>1, <1>2, <1>4
<1>6. m \in Range(seq) /\ m # e
      BY <1>1, <1>2, <1>4, <1>5 DEF Range, IsInjective
<1>7. CASE i # Len(seq)
  <2>1. i \in Nat /\ 1 <= i /\ i < Len(seq)
    <3>1. Len(seq) \in Nat /\ i \in 1 .. Len(seq)
          BY <1>1, <1>2
    <3>. QED  BY <3>1, <1>7
  <2>2. i + 1 \in 1 .. Len(seq)
        BY <1>1, <2>1
  <2>3. seq[i + 1] # m
        BY <1>1, <1>4, <1>5, <2>2 DEF IsInjective
  <2>. QED  BY <1>3, <1>6, <1>7, <2>3
<1>. QED  BY <1>3, <1>6, <1>7

-----------------------------------------------------------------------------
(* Pages and queues that agree *)

States == [pg : [Pages -> PageType], q : [Queues -> Seq(Pages \cup Markers)],
           cnt : [Queues -> Nat]]

\* A page that was freed while held, and waits for vm_page_unhold.
HeldPage ==
    [object |-> NoObject, queue |-> "none", wire |-> 0, hold |-> 1, busy |-> "no",
     valid |-> FALSE, dirty |-> FALSE, mapped |-> FALSE, mod |-> FALSE,
     data |-> "saved", free |-> FALSE, unholdfree |-> TRUE]

\* What the fields of struct vm_page say of each other.
Sane(r) ==
    /\ r.object = NoObject => r \in {FreePage, HeldPage}
    /\ r.object # NoObject => ~r.free /\ ~r.unholdfree
    /\ r.wire # 0 => r.queue = "none"
    /\ r.mod => r.mapped
    /\ r.mapped => r.valid
    /\ r.data # "saved" => r.valid /\ (r.dirty \/ r.mod)

\* A page on its way to the store is mapped by no one.
Writing(r) == r.busy = "s" => ~r.mapped /\ r.data # "unsaved"

On(s, x) == {p \in Pages : s.pg[p].queue = x}

\* Each list has its pages once, and "inacthead" is where vm_page_domain_init
\* put it.
Listed(s, x) ==
    /\ IsInjective(s.q[x])
    /\ \A p \in Pages : p \in Range(s.q[x]) <=> s.pg[p].queue = x
    /\ s.cnt[x] = Cardinality(On(s, x))
    /\ "inacthead" \in Range(s.q[x]) <=> x = "inactive"

Sound(s) ==
    /\ s \in States
    /\ \A x \in Queues : Listed(s, x)
    /\ \A p \in Pages : Sane(s.pg[p])

\* t is s with another place, or other fields, of page p.
Moved(s, t, p) ==
    /\ Sound(t)
    /\ \A o \in Pages \ {p} : t.pg[o] = s.pg[o]
    /\ \A x \in Queues : t.q[x] # s.q[x] => x \in {s.pg[p].queue, t.pg[p].queue}
    /\ \A x \in Queues, k \in Markers : k \in Range(t.q[x]) <=> k \in Range(s.q[x])

\* A page whose fields are the same but for m->queue.
Alike(r, u) == u = [r EXCEPT !.queue = u.queue]

LEMMA Apart == Pages \cap Markers = {} /\ NoPage \notin Pages /\ "none" \notin Queues
BY PageQueuesAssumption DEF Queues

\* A page without an object is on no queue and has nothing to lose.
LEMMA Ownerless ==
    ASSUME NEW r \in {FreePage, HeldPage}
    PROVE  /\ r \in PageType /\ Sane(r) /\ r.object = NoObject /\ r.queue = "none" /\ r.wire = 0
           /\ r.busy = "no" /\ ~r.valid /\ ~r.dirty /\ ~r.mapped /\ ~r.mod /\ r.data = "saved"
           /\ r.free <=> r = FreePage
<1>1. CASE r = FreePage
  <2>1. ~FreePage.valid /\ ~FreePage.dirty /\ ~FreePage.mapped /\ ~FreePage.mod /\ FreePage.free
        BY Zenon DEF FreePage
  <2>. QED  BY <1>1, <2>1 DEF PageType, FreePage, Sane
<1>2. CASE r = HeldPage
  <2>1. ~HeldPage.valid /\ ~HeldPage.dirty /\ ~HeldPage.mapped /\ ~HeldPage.mod /\ ~HeldPage.free
        BY Zenon DEF HeldPage
  <2>2. FreePage.free
        BY Zenon DEF FreePage
  <2>. QED  BY <1>2, <2>1, <2>2 DEF PageType, HeldPage, Sane
<1>. QED  BY <1>1, <1>2

\* Page p has the fields of r.
Edit(s, p, r) == [s EXCEPT !.pg[p] = r]

LEMMA EditMoved ==
    ASSUME NEW s, Sound(s), NEW p \in Pages, NEW r \in PageType, Sane(r),
           r.queue = s.pg[p].queue, NEW u, u = Edit(s, p, r)
    PROVE  Moved(s, u, p) /\ u.pg[p] = r /\ u.q = s.q
<1>1. s \in States
      BY DEF Sound
<1>2. /\ u \in States /\ u.q = s.q /\ u.cnt = s.cnt /\ u.pg[p] = r
      /\ \A o \in Pages \ {p} : u.pg[o] = s.pg[o]
      BY <1>1 DEF States, Edit
<1>3. \A o \in Pages : u.pg[o].queue = s.pg[o].queue
      BY <1>2
<1>4. ASSUME NEW x \in Queues PROVE Listed(u, x)
  <2>1. On(u, x) = On(s, x)
        BY <1>3 DEF On
  <2>2. Listed(s, x)
        BY DEF Sound
  <2>. QED  BY <1>2, <1>3, <2>1, <2>2 DEF Listed
<1>5. \A o \in Pages : Sane(u.pg[o])
      BY <1>2 DEF Sound
<1>. QED  BY <1>2, <1>4, <1>5 DEF Sound, Moved

\* TAILQ_REMOVE and vm_pagequeue_cnt_dec.
LEMMA DequeueMoved ==
    ASSUME NEW s, Sound(s), NEW p \in Pages, s.pg[p].queue \in Queues,
           NEW u, u = vm_page_dequeue(s, p)
    PROVE  /\ Moved(s, u, p)
           /\ u.pg[p] = [s.pg[p] EXCEPT !.queue = "none"]
           /\ \A x \in Queues : Range(u.q[x]) = Range(s.q[x]) \ {p}
<1> DEFINE x == s.pg[p].queue
           r == [s.pg[p] EXCEPT !.queue = "none"]
           l == RemoveFirst(s.q[x], p)
<1>1. /\ s \in States /\ x \in Queues /\ s.pg[p] \in PageType /\ s.q[x] \in Seq(Pages \cup Markers)
      /\ IsFiniteSet(Pages)
      BY PageQueuesAssumption DEF Sound, States
<1>2. l \in Seq(Pages \cup Markers) /\ IsInjective(l) /\ Range(l) = Range(s.q[x]) \ {p}
      BY <1>1, RemoveFirstType, RemoveContents DEF Sound, Listed
<1>3. r \in PageType /\ r.queue = "none" /\ Sane(r)
  <2>1. Sane(s.pg[p])
        BY DEF Sound
  <2>2. s.pg[p].object # NoObject
        BY <1>1, <2>1, Apart, Ownerless DEF Sane
  <2>. QED  BY <1>1, <2>1, <2>2 DEF PageType, Sane
<1>4. /\ p \in On(s, x) /\ IsFiniteSet(On(s, x)) /\ s.cnt[x] = Cardinality(On(s, x))
      /\ Cardinality(On(s, x) \ {p}) = Cardinality(On(s, x)) - 1
      /\ Cardinality(On(s, x)) - 1 \in Nat
  <2>1. p \in On(s, x) /\ IsFiniteSet(On(s, x))
        BY <1>1, FS_Subset DEF On
  <2>2. s.cnt[x] = Cardinality(On(s, x))
        BY <1>1 DEF Sound, Listed
  <2>3. Cardinality(On(s, x) \ {p}) = Cardinality(On(s, x)) - 1 /\ IsFiniteSet(On(s, x) \ {p})
        BY <2>1, FS_RemoveElement
  <2>4. Cardinality(On(s, x) \ {p}) \in Nat
        BY <2>3, FS_CardinalityType
  <2>. QED  BY <2>1, <2>2, <2>3, <2>4
<1>5. u = [pg  |-> [s.pg EXCEPT ![p] = r], q |-> [s.q EXCEPT ![x] = l],
           cnt |-> [s.cnt EXCEPT ![x] = @ - 1]]
      BY DEF vm_page_dequeue
<1> HIDE DEF r, l
<1>6. /\ u \in States /\ u.pg[p] = r /\ \A o \in Pages \ {p} : u.pg[o] = s.pg[o]
      /\ u.q[x] = l /\ u.cnt[x] = s.cnt[x] - 1
      /\ \A y \in Queues \ {x} : u.q[y] = s.q[y] /\ u.cnt[y] = s.cnt[y]
  <2>1. s.cnt[x] - 1 \in Nat
        BY <1>4
  <2>. QED  BY <1>1, <1>2, <1>3, <1>5, <2>1 DEF States
<1>7. On(u, x) = On(s, x) \ {p} /\ \A y \in Queues \ {x} : On(u, y) = On(s, y)
      BY <1>1, <1>3, <1>6, Apart DEF On
<1>8. \A y \in Queues : Range(u.q[y]) = Range(s.q[y]) \ {p}
  <2>1. ASSUME NEW y \in Queues \ {x} PROVE p \notin Range(s.q[y])
        BY DEF Sound, Listed
  <2>. QED  BY <1>2, <1>6, <2>1
<1>9. ASSUME NEW y \in Queues PROVE Listed(u, y)
  <2>1. Listed(s, y)
        BY DEF Sound
  <2>2. IsInjective(u.q[y])
        BY <1>2, <1>6, <2>1 DEF Listed
  <2>3. \A o \in Pages : o \in Range(u.q[y]) <=> u.pg[o].queue = y
        BY <1>3, <1>6, <1>8, <2>1, Apart DEF Listed
  <2>4. u.cnt[y] = Cardinality(On(u, y))
        BY <1>4, <1>6, <1>7, <2>1 DEF Listed
  <2>5. "inacthead" \in Range(u.q[y]) <=> y = "inactive"
        BY <1>8, <2>1, Apart DEF Listed, Markers
  <2>. QED  BY <2>2, <2>3, <2>4, <2>5 DEF Listed
<1>10. \A o \in Pages : Sane(u.pg[o])
      BY <1>3, <1>6 DEF Sound
<1>11. \A y \in Queues, k \in Markers : k \in Range(u.q[y]) <=> k \in Range(s.q[y])
      BY <1>8, Apart
<1>. QED  BY <1>6, <1>8, <1>9, <1>10, <1>11 DEF Sound, Moved, r

\* A list that gained page p, at whichever end, and vm_pagequeue_cnt_inc.
Enlisted(s, x, l, p) ==
    [pg  |-> [s.pg EXCEPT ![p].queue = x], q |-> [s.q EXCEPT ![x] = l],
     cnt |-> [s.cnt EXCEPT ![x] = @ + 1]]

LEMMA EnlistMoved ==
    ASSUME NEW s, Sound(s), NEW p \in Pages, NEW x \in Queues,
           s.pg[p].queue = "none", s.pg[p].object # NoObject, s.pg[p].wire = 0,
           NEW l \in Seq(Pages \cup Markers), IsInjective(l), Range(l) = Range(s.q[x]) \cup {p},
           NEW u, u = Enlisted(s, x, l, p)
    PROVE  Moved(s, u, p) /\ u.pg[p] = [s.pg[p] EXCEPT !.queue = x]
<1> DEFINE r == [s.pg[p] EXCEPT !.queue = x]
<1>1. s \in States /\ s.pg[p] \in PageType /\ IsFiniteSet(Pages)
      BY PageQueuesAssumption DEF Sound, States
<1>2. r \in PageType /\ r.queue = x /\ Sane(r)
  <2>1. Sane(s.pg[p])
        BY DEF Sound
  <2>. QED  BY <1>1, <2>1 DEF PageType, Sane
<1>3. /\ p \notin On(s, x) /\ IsFiniteSet(On(s, x)) /\ s.cnt[x] = Cardinality(On(s, x))
      /\ Cardinality(On(s, x) \cup {p}) = Cardinality(On(s, x)) + 1
      /\ Cardinality(On(s, x)) \in Nat
  <2>1. p \notin On(s, x) /\ IsFiniteSet(On(s, x))
        BY <1>1, FS_Subset, Apart DEF On
  <2>2. s.cnt[x] = Cardinality(On(s, x))
        BY DEF Sound, Listed
  <2>3. Cardinality(On(s, x) \cup {p}) = Cardinality(On(s, x)) + 1
        BY <2>1, FS_AddElement
  <2>. QED  BY <2>1, <2>2, <2>3, FS_CardinalityType
<1>4. u = [pg  |-> [s.pg EXCEPT ![p] = r], q |-> [s.q EXCEPT ![x] = l],
           cnt |-> [s.cnt EXCEPT ![x] = @ + 1]]
      BY DEF Enlisted
<1> HIDE DEF r
<1>5. /\ u \in States /\ u.pg[p] = r /\ \A o \in Pages \ {p} : u.pg[o] = s.pg[o]
      /\ u.q[x] = l /\ u.cnt[x] = s.cnt[x] + 1
      /\ \A y \in Queues \ {x} : u.q[y] = s.q[y] /\ u.cnt[y] = s.cnt[y]
  <2>1. s.cnt[x] + 1 \in Nat
        BY <1>3
  <2>2. /\ u.pg = [s.pg EXCEPT ![p] = r] /\ u.q = [s.q EXCEPT ![x] = l]
        /\ u.cnt = [s.cnt EXCEPT ![x] = @ + 1]
        BY <1>4
  <2>3. /\ u.pg \in [Pages -> PageType] /\ u.q \in [Queues -> Seq(Pages \cup Markers)]
        /\ u.cnt \in [Queues -> Nat] /\ u \in States
    <3>1. /\ s.pg \in [Pages -> PageType] /\ s.q \in [Queues -> Seq(Pages \cup Markers)]
          /\ s.cnt \in [Queues -> Nat]
          BY <1>1 DEF States
    <3>2. u.pg \in [Pages -> PageType] /\ u.q \in [Queues -> Seq(Pages \cup Markers)]
          BY <1>2, <2>2, <3>1
    <3>3. u.cnt \in [Queues -> Nat]
          BY <2>1, <2>2, <3>1
    <3>. QED  BY <1>4, <3>2, <3>3 DEF States
  <2>. QED  BY <1>1, <2>2, <2>3 DEF States
<1>6. On(u, x) = On(s, x) \cup {p} /\ \A y \in Queues \ {x} : On(u, y) = On(s, y)
      BY <1>1, <1>2, <1>5, Apart DEF On
<1>7. ASSUME NEW y \in Queues PROVE Listed(u, y)
  <2>1. Listed(s, y)
        BY DEF Sound
  <2>2. IsInjective(u.q[y])
        BY <1>5, <2>1 DEF Listed
  <2>3. \A o \in Pages : o \in Range(u.q[y]) <=> u.pg[o].queue = y
        BY <1>2, <1>5, <2>1, Apart DEF Listed
  <2>4. u.cnt[y] = Cardinality(On(u, y))
        BY <1>3, <1>5, <1>6, <2>1 DEF Listed
  <2>5. "inacthead" \in Range(u.q[y]) <=> y = "inactive"
        BY <1>5, <2>1, Apart DEF Listed, Markers
  <2>. QED  BY <2>2, <2>3, <2>4, <2>5 DEF Listed
<1>8. \A o \in Pages : Sane(u.pg[o])
      BY <1>2, <1>5 DEF Sound
<1>9. ASSUME NEW y \in Queues, NEW k \in Markers
      PROVE  k \in Range(u.q[y]) <=> k \in Range(s.q[y])
  <2>1. k # p
        BY Apart
  <2>2. CASE y = x
        BY <1>5, <2>1, <2>2
  <2>3. CASE y # x
        BY <1>5, <2>3
  <2>. QED  BY <2>2, <2>3
<1>. QED  BY <1>2, <1>5, <1>7, <1>8, <1>9 DEF Sound, Moved, r

\* Two changes of one page, of which the first leaves its queue or none, or the
\* second leaves the queues alone.
LEMMA MovedOn ==
    ASSUME NEW s, NEW f, NEW t, NEW p \in Pages, Moved(s, f, p), Moved(f, t, p),
           \/ f.pg[p].queue \in {"none", s.pg[p].queue}
           \/ t.q = f.q /\ t.pg[p].queue = f.pg[p].queue
    PROVE  Moved(s, t, p)
<1>1. ASSUME NEW x \in Queues, t.q[x] # s.q[x] PROVE x \in {s.pg[p].queue, t.pg[p].queue}
      BY <1>1, Apart DEF Moved
<1>. QED  BY <1>1 DEF Moved

LEMMA Unmoved ==
    ASSUME NEW s, Sound(s), NEW p \in Pages
    PROVE  Moved(s, s, p) /\ Alike(s.pg[p], s.pg[p])
<1>1. s.pg[p] \in PageType
      BY DEF Sound, States
<1>. QED  BY <1>1 DEF Moved, Alike, PageType

LEMMA RemqueMoved ==
    ASSUME NEW s, Sound(s), NEW p \in Pages, NEW u, u = vm_page_remque(s, p)
    PROVE  /\ Moved(s, u, p)
           /\ u.pg[p] = [s.pg[p] EXCEPT !.queue = "none"]
           /\ \A x \in Queues : Range(u.q[x]) = Range(s.q[x]) \ {p}
<1>1. s.pg[p] \in PageType
      BY DEF Sound, States
<1>2. CASE s.pg[p].queue = "none"
  <2>1. u = s
        BY <1>2 DEF vm_page_remque
  <2>2. \A x \in Queues : p \notin Range(s.q[x])
        BY <1>2, Apart DEF Sound, Listed
  <2>3. s.pg[p] = [s.pg[p] EXCEPT !.queue = "none"]
        BY <1>1, <1>2 DEF PageType
  <2>. QED  BY <2>1, <2>2, <2>3, Unmoved
<1>3. CASE s.pg[p].queue # "none"
  <2>1. s.pg[p].queue \in Queues
        BY <1>1, <1>3 DEF PageType
  <2>2. u = vm_page_dequeue(s, p)
        BY <1>3 DEF vm_page_remque
  <2>. QED  BY <2>1, <2>2, DequeueMoved
<1>. QED  BY <1>2, <1>3

LEMMA EnqueueMoved ==
    ASSUME NEW s, Sound(s), NEW p \in Pages, NEW x \in Queues,
           s.pg[p].queue = "none", s.pg[p].object # NoObject, s.pg[p].wire = 0,
           NEW u, u = vm_page_enqueue(s, x, p)
    PROVE  Moved(s, u, p) /\ u.pg[p] = [s.pg[p] EXCEPT !.queue = x]
<1> DEFINE old == s.q[x]
           l   == Append(old, p)
<1>1. old \in Seq(Pages \cup Markers) /\ IsInjective(old) /\ p \notin Range(old)
      BY Apart DEF Sound, States, Listed
<1>2. u = Enlisted(s, x, l, p)
      BY DEF vm_page_enqueue, Enlisted
<1> HIDE DEF old
<1>3. l \in Seq(Pages \cup Markers) /\ IsInjective(l) /\ Range(l) = Range(old) \cup {p}
      BY <1>1, TailContents
<1> HIDE DEF l
<1>4. Range(l) = Range(s.q[x]) \cup {p}
      BY <1>3 DEF old
<1>. QED  BY <1>2, <1>3, <1>4, EnlistMoved

LEMMA MoveToMoved ==
    ASSUME NEW s, Sound(s), NEW p \in Pages, NEW x \in Queues, s.pg[p].object # NoObject,
           NEW u, u = MoveTo(s, x, p)
    PROVE  Moved(s, u, p) /\ Alike(s.pg[p], u.pg[p])
<1> DEFINE off == vm_page_remque(s, p)
<1>1. s.pg[p] \in PageType
      BY DEF Sound, States
<1>2. CASE s.pg[p].queue = x \/ s.pg[p].wire # 0
      BY <1>2, Unmoved DEF MoveTo
<1>3. CASE ~(s.pg[p].queue = x \/ s.pg[p].wire # 0)
  <2>1. Moved(s, off, p) /\ off.pg[p] = [s.pg[p] EXCEPT !.queue = "none"]
        BY RemqueMoved, Zenon
  <2>2. u = vm_page_enqueue(off, x, p)
        BY <1>3 DEF MoveTo
  <2> HIDE DEF off
  <2>3. /\ off.pg[p].queue = "none" /\ off.pg[p].object # NoObject /\ off.pg[p].wire = 0
        /\ Sound(off)
        BY <1>1, <1>3, <2>1 DEF PageType, Moved
  <2>4. Moved(off, u, p) /\ u.pg[p] = [off.pg[p] EXCEPT !.queue = x]
        BY <2>2, <2>3, EnqueueMoved
  <2>5. Moved(s, u, p)
        BY <2>1, <2>3, <2>4, MovedOn
  <2>6. Alike(s.pg[p], u.pg[p])
        BY <1>1, <2>1, <2>4 DEF PageType, Alike
  <2>. QED  BY <2>5, <2>6
<1>. QED  BY <1>2, <1>3

\* A page that is not wired gets there.
LEMMA MoveToLands ==
    ASSUME NEW s, Sound(s), NEW p \in Pages, NEW x \in Queues, s.pg[p].object # NoObject,
           s.pg[p].wire = 0, s.pg[p].queue # x, NEW u, u = MoveTo(s, x, p)
    PROVE  u.pg[p].queue = x
<1> DEFINE off == vm_page_remque(s, p)
<1>1. s.pg[p] \in PageType
      BY DEF Sound, States
<1>2. Moved(s, off, p) /\ off.pg[p] = [s.pg[p] EXCEPT !.queue = "none"]
      BY RemqueMoved, Zenon
<1>3. u = vm_page_enqueue(off, x, p)
      BY DEF MoveTo
<1> HIDE DEF off
<1>4. /\ off.pg[p].queue = "none" /\ off.pg[p].object # NoObject /\ off.pg[p].wire = 0
      /\ Sound(off) /\ off.pg[p] \in PageType
      BY <1>1, <1>2 DEF PageType, Moved
<1>5. u.pg[p] = [off.pg[p] EXCEPT !.queue = x]
      BY <1>3, <1>4, EnqueueMoved
<1>. QED  BY <1>4, <1>5 DEF PageType

LEMMA DeactivateMoved ==
    ASSUME NEW s, Sound(s), NEW p \in Pages, NEW noreuse \in BOOLEAN, s.pg[p].object # NoObject,
           NEW u, u = vm_page_deactivate(s, p, noreuse)
    PROVE  /\ Moved(s, u, p) /\ Alike(s.pg[p], u.pg[p])
           /\ u.pg[p].queue \in {s.pg[p].queue, "inactive"}
<1> DEFINE off == vm_page_remque(s, p)
           old == off.q["inactive"]
           l   == IF noreuse THEN InsertBefore(old, "inacthead", p) ELSE Append(old, p)
<1>1. s.pg[p] \in PageType /\ "inactive" \in Queues
      BY DEF Sound, States, Queues
<1>2. CASE (s.pg[p].queue = "inactive" /\ ~noreuse) \/ s.pg[p].wire # 0
      BY <1>2, Unmoved DEF vm_page_deactivate
<1>3. CASE ~((s.pg[p].queue = "inactive" /\ ~noreuse) \/ s.pg[p].wire # 0)
  <2>1. Moved(s, off, p) /\ off.pg[p] = [s.pg[p] EXCEPT !.queue = "none"]
        BY RemqueMoved, Zenon
  <2>2. u = Enlisted(off, "inactive", l, p)
        BY <1>3, Zenon DEF vm_page_deactivate, Enlisted
  <2>3. /\ off.pg[p].queue = "none" /\ off.pg[p].object # NoObject /\ off.pg[p].wire = 0
        /\ Sound(off)
    <3> HIDE DEF off
    <3>. QED  BY <1>1, <1>3, <2>1 DEF PageType, Moved
  <2> HIDE DEF off
  <2>4. /\ old \in Seq(Pages \cup Markers) /\ IsInjective(old) /\ p \notin Range(old)
        /\ "inacthead" \in Range(old)
        BY <1>1, <2>3, Apart DEF Sound, States, Listed
  <2> HIDE DEF old
  <2>5. l \in Seq(Pages \cup Markers) /\ IsInjective(l) /\ Range(l) = Range(old) \cup {p}
    <3>1. CASE noreuse
          BY <2>4, <3>1, BeforeContents
    <3>2. CASE ~noreuse
      <4>1. l = Append(old, p)
            BY <3>2
      <4> HIDE DEF l
      <4>. QED  BY <2>4, <4>1, TailContents
    <3>. QED  BY <3>1, <3>2
  <2> HIDE DEF l
  <2>6. Moved(off, u, p) /\ u.pg[p] = [off.pg[p] EXCEPT !.queue = "inactive"]
    <3>1. Range(l) = Range(off.q["inactive"]) \cup {p}
          BY <2>5 DEF old
    <3>. QED  BY <1>1, <2>2, <2>3, <2>5, <3>1, EnlistMoved
  <2>7. Moved(s, u, p)
        BY <2>1, <2>3, <2>6, MovedOn
  <2>8. Alike(s.pg[p], u.pg[p])
        BY <1>1, <2>1, <2>6 DEF PageType, Alike
  <2>9. u.pg[p].queue = "inactive"
        BY <2>3, <2>6 DEF PageType, Moved, Sound, States
  <2>. QED  BY <2>7, <2>8, <2>9
<1>. QED  BY <1>2, <1>3

LEMMA RequeueMoved ==
    ASSUME NEW s, Sound(s), NEW p \in Pages, NEW u, u = vm_page_requeue(s, p)
    PROVE  Moved(s, u, p) /\ u.pg = s.pg
<1> DEFINE x    == s.pg[p].queue
           rest == RemoveFirst(s.q[x], p)
           l    == Append(rest, p)
<1>1. /\ s \in States /\ s.pg[p] \in PageType /\ x \in Queues \cup {"none"}
      BY DEF Sound, States, PageType
<1>2. CASE x = "none"
  <2>1. "none" \notin DOMAIN s.q
        BY <1>1, Apart DEF States
  <2>2. [s.q EXCEPT ![x] = l] = s.q
        BY <1>1, <1>2, <2>1 DEF States
  <2>3. u = [s EXCEPT !.q = [s.q EXCEPT ![x] = l]]
        BY DEF vm_page_requeue
  <2>4. u = s
        BY <1>1, <2>2, <2>3 DEF States
  <2>. QED  BY <2>4, Unmoved
<1>3. CASE x \in Queues
  <2>1. u = [s EXCEPT !.q = [s.q EXCEPT ![x] = l]]
        BY DEF vm_page_requeue
  <2>2. s.q[x] \in Seq(Pages \cup Markers) /\ IsInjective(s.q[x]) /\ p \in Range(s.q[x])
        BY <1>1, <1>3 DEF Sound, States, Listed
  <2>3. /\ rest \in Seq(Pages \cup Markers) /\ IsInjective(rest)
        /\ Range(rest) = Range(s.q[x]) \ {p}
        BY <2>2, RemoveFirstType, RemoveContents
  <2> HIDE DEF rest
  <2>4. p \notin Range(rest)
        BY <2>3
  <2>5. l \in Seq(Pages \cup Markers) /\ IsInjective(l) /\ Range(l) = Range(rest) \cup {p}
        BY <2>3, <2>4, TailContents
  <2> HIDE DEF l, x
  <2>6. Range(l) = Range(s.q[x])
        BY <2>2, <2>3, <2>5
  <2>7. /\ u \in States /\ u.pg = s.pg /\ u.cnt = s.cnt /\ u.q[x] = l
        /\ \A y \in Queues \ {x} : u.q[y] = s.q[y]
        BY <1>1, <1>3, <2>1, <2>5 DEF States
  <2>8. \A y \in Queues : Range(u.q[y]) = Range(s.q[y]) /\ IsInjective(u.q[y])
        BY <2>5, <2>6, <2>7 DEF Sound, Listed
  <2>9. ASSUME NEW y \in Queues PROVE Listed(u, y)
    <3>1. Listed(s, y) /\ On(u, y) = On(s, y)
          BY <2>7 DEF Sound, On
    <3>. QED  BY <2>7, <2>8, <3>1 DEF Listed
  <2>10. \A o \in Pages : Sane(u.pg[o])
        BY <2>7 DEF Sound
  <2>. QED  BY <2>7, <2>8, <2>9, <2>10 DEF Sound, Moved, x
<1>. QED  BY <1>1, <1>2, <1>3

-----------------------------------------------------------------------------
(* What each function does to the fields of its page *)

\* Its object, its references and its being busy, valid and free.
Fixed(r, u) ==
    /\ u.object = r.object /\ u.wire = r.wire /\ u.hold = r.hold /\ u.busy = r.busy
    /\ u.valid = r.valid /\ u.free = r.free /\ u.unholdfree = r.unholdfree

\* What a user does to the fields of a page with its lock alone, and with the
\* lock of its object too.
Settled(r, u) ==
    /\ Writing(u)
    /\ r.busy = "s" => u.busy = "s" /\ u.object = r.object

Light(r, u) ==
    r.object # NoObject =>
        u.object = r.object /\ u.busy = r.busy /\ u.mapped = r.mapped /\ u.data = r.data

LEMMA AlikeFixed ==
    ASSUME NEW r \in PageType, NEW u, Alike(r, u)
    PROVE  /\ Fixed(r, u)
           /\ u.mapped = r.mapped /\ u.mod = r.mod /\ u.dirty = r.dirty /\ u.data = r.data
BY DEF Alike, Fixed, PageType

LEMMA TestDirtyMoved ==
    ASSUME NEW s, Sound(s), NEW p \in Pages, NEW u, u = vm_page_test_dirty(s, p)
    PROVE  /\ Moved(s, u, p) /\ u.q = s.q /\ Fixed(s.pg[p], u.pg[p])
           /\ u.pg[p].queue = s.pg[p].queue /\ u.pg[p].data = s.pg[p].data
           /\ u.pg[p].mapped = s.pg[p].mapped /\ u.pg[p].mod = s.pg[p].mod
           /\ u.pg[p].dirty <=> s.pg[p].dirty \/ s.pg[p].mod
<1> DEFINE o == s.pg[p]
           b == o.dirty \/ o.mod
           r == [o EXCEPT !.dirty = b]
<1>1. o \in PageType /\ s \in States
      BY DEF Sound, States
<1>2. u = Edit(s, p, r)
      BY Zenon DEF vm_page_test_dirty, Edit
<1>3. b \in BOOLEAN /\ (b <=> o.dirty \/ o.mod)
      OBVIOUS
<1>4. Sane(o)
      BY DEF Sound
<1>5. o \in {FreePage, HeldPage} => ~o.dirty /\ ~o.mod
      BY Ownerless
<1> HIDE DEF b, o
<1>6. /\ r \in PageType /\ r.dirty = b /\ r.queue = o.queue /\ Fixed(o, r)
      /\ r.mapped = o.mapped /\ r.mod = o.mod /\ r.data = o.data
      BY <1>1, <1>3 DEF PageType, Fixed
<1>7. r.object = NoObject => r = o
  <2>1. o \in {FreePage, HeldPage} => b = o.dirty
        BY <1>1, <1>3, <1>5 DEF PageType
  <2>. QED  BY <1>1, <1>4, <1>6, <2>1 DEF PageType, Sane, Fixed
<1> HIDE DEF r
<1>8. Sane(r)
      BY <1>3, <1>4, <1>6, <1>7 DEF Sane, Fixed
<1>9. Moved(s, u, p) /\ u.pg[p] = r /\ u.q = s.q
  <2>1. r.queue = s.pg[p].queue
        BY <1>6 DEF o
  <2>. QED  BY <1>2, <1>6, <1>8, <2>1, EditMoved
<1>. QED  BY <1>3, <1>6, <1>9 DEF o

LEMMA PmapRemoveMoved ==
    ASSUME NEW s, Sound(s), NEW p \in Pages, NEW u, u = pmap_remove(s, p)
    PROVE  /\ Moved(s, u, p) /\ u.q = s.q /\ Fixed(s.pg[p], u.pg[p])
           /\ u.pg[p].queue = s.pg[p].queue /\ u.pg[p].data = s.pg[p].data
           /\ ~u.pg[p].mapped /\ ~u.pg[p].mod
           /\ u.pg[p].dirty <=> s.pg[p].dirty \/ s.pg[p].mod
<1> DEFINE o == s.pg[p]
           b == o.dirty \/ o.mod
           r == [o EXCEPT !.dirty = b, !.mod = FALSE, !.mapped = FALSE]
<1>1. o \in PageType /\ s \in States
      BY DEF Sound, States
<1>2. u = Edit(s, p, r)
      BY Zenon DEF pmap_remove, Edit
<1>3. b \in BOOLEAN /\ (b <=> o.dirty \/ o.mod)
      OBVIOUS
<1>4. Sane(o)
      BY DEF Sound
<1>5. o \in {FreePage, HeldPage} => ~o.dirty /\ ~o.mod /\ ~o.mapped
      BY Ownerless
<1> HIDE DEF b, o
<1>6. /\ r \in PageType /\ r.dirty = b /\ r.queue = o.queue /\ Fixed(o, r)
      /\ ~r.mapped /\ ~r.mod /\ r.data = o.data
      BY <1>1, <1>3 DEF PageType, Fixed
<1>7. r.object = NoObject => r = o
  <2>1. o \in {FreePage, HeldPage} => b = o.dirty /\ o.mod = FALSE /\ o.mapped = FALSE
        BY <1>1, <1>3, <1>5 DEF PageType
  <2>2. r.object = o.object
        BY <1>6 DEF Fixed
  <2>3. r.object = NoObject => o \in {FreePage, HeldPage}
        BY <1>4, <2>2 DEF Sane
  <2>4. ASSUME r.object = NoObject PROVE r = [o EXCEPT !.dirty = o.dirty, !.mod = o.mod, !.mapped = o.mapped]
        BY <2>1, <2>3, <2>4
  <2>. QED  BY <1>1, <2>4 DEF PageType
<1> HIDE DEF r
<1>8. Sane(r)
      BY <1>3, <1>4, <1>6, <1>7 DEF Sane, Fixed
<1>9. Moved(s, u, p) /\ u.pg[p] = r /\ u.q = s.q
  <2>1. r.queue = s.pg[p].queue
        BY <1>6 DEF o
  <2>. QED  BY <1>2, <1>6, <1>8, <2>1, EditMoved
<1>. QED  BY <1>3, <1>6, <1>9 DEF o

LEMMA UndirtyMoved ==
    ASSUME NEW s, Sound(s), NEW p \in Pages, NEW data \in {"saved", "unsaved", "saving"},
           data # "saved" => s.pg[p].mod, s.pg[p].object # NoObject,
           NEW u, u = Undirty(s, p, data)
    PROVE  /\ Moved(s, u, p) /\ u.q = s.q /\ Fixed(s.pg[p], u.pg[p])
           /\ u.pg[p].queue = s.pg[p].queue /\ u.pg[p].data = data
           /\ u.pg[p].mapped = s.pg[p].mapped /\ u.pg[p].mod = s.pg[p].mod
           /\ ~u.pg[p].dirty
<1> DEFINE o == s.pg[p]
           r == [o EXCEPT !.dirty = FALSE, !.data = data]
<1>1. o \in PageType /\ s \in States
      BY DEF Sound, States
<1>2. u = Edit(s, p, r)
      BY Zenon DEF Undirty, Edit
<1>3. Sane(o) /\ o.object # NoObject /\ (data # "saved" => o.mod)
      BY DEF Sound
<1> HIDE DEF o
<1>4. /\ r \in PageType /\ ~r.dirty /\ r.queue = o.queue /\ Fixed(o, r)
      /\ r.mapped = o.mapped /\ r.mod = o.mod /\ r.data = data
      BY <1>1 DEF PageType, Fixed
<1> HIDE DEF r
<1>5. Sane(r)
      BY <1>3, <1>4 DEF Sane, Fixed
<1>6. Moved(s, u, p) /\ u.pg[p] = r /\ u.q = s.q
  <2>1. r.queue = s.pg[p].queue
        BY <1>4 DEF o
  <2>. QED  BY <1>2, <1>4, <1>5, <2>1, EditMoved
<1>. QED  BY <1>4, <1>6 DEF o

\* vm_page_xunbusy and vm_page_sunbusy: the lock goes, the page stays where it is.
LEMMA UnbusyMoved ==
    ASSUME NEW s, Sound(s), NEW p \in Pages, s.pg[p].object # NoObject,
           NEW u, u = Unbusy(s, p)
    PROVE  /\ Moved(s, u, p) /\ u.q = s.q
           /\ u.pg[p] = [s.pg[p] EXCEPT !.busy = "no"]
<1> DEFINE o == s.pg[p]
           r == [o EXCEPT !.busy = "no"]
<1>1. o \in PageType /\ s \in States
      BY DEF Sound, States
<1>2. u = Edit(s, p, r)
      BY Zenon DEF Unbusy, Edit
<1>3. Sane(o) /\ o.object # NoObject
      BY DEF Sound
<1> HIDE DEF o
<1>4. r \in PageType /\ r.queue = o.queue /\ Sane(r)
      BY <1>1, <1>3 DEF PageType, Sane
<1>5. r.queue = s.pg[p].queue
      BY <1>4 DEF o
<1>6. Moved(s, u, p) /\ u.pg[p] = r /\ u.q = s.q
  <2> HIDE DEF r
  <2>. QED  BY <1>2, <1>4, <1>5, EditMoved
<1>. QED  BY <1>6 DEF o

LEMMA HoldFields ==
    ASSUME NEW o \in PageType, NEW h \in 0 .. 1, NEW f \in BOOLEAN, NEW w \in BOOLEAN,
           NEW v \in PageType, v.hold = h, v.free = f, v.unholdfree = w,
           v.object = o.object, v.queue = o.queue, v.wire = o.wire, v.busy = o.busy,
           v.valid = o.valid, v.dirty = o.dirty, v.mapped = o.mapped, v.mod = o.mod,
           v.data = o.data
    PROVE  [o EXCEPT !.hold = h, !.free = f, !.unholdfree = w] = v
<1> DEFINE a == [o EXCEPT !.hold = h, !.free = f, !.unholdfree = w]
<1>1. /\ a \in PageType /\ a.hold = h /\ a.free = f /\ a.unholdfree = w
      /\ a.object = o.object /\ a.queue = o.queue /\ a.wire = o.wire
      /\ a.busy = o.busy /\ a.valid = o.valid /\ a.dirty = o.dirty
      /\ a.mapped = o.mapped /\ a.mod = o.mod /\ a.data = o.data
      BY DEF PageType
<1> HIDE DEF a
<1>2. a = v
      BY <1>1 DEF PageType
<1>. QED  BY <1>2 DEF a

LEMMA FreeOrHeld ==
    /\ [FreePage EXCEPT !.hold = 0, !.free = TRUE, !.unholdfree = FALSE] = FreePage
    /\ [FreePage EXCEPT !.hold = 1, !.free = FALSE, !.unholdfree = TRUE] = HeldPage
<1>1. FreePage \in PageType /\ HeldPage \in PageType
      BY Ownerless
<1>2. /\ FreePage.free = TRUE /\ FreePage.unholdfree = FALSE
      /\ HeldPage.free = FALSE /\ HeldPage.unholdfree = TRUE
      /\ HeldPage.valid = FreePage.valid /\ HeldPage.dirty = FreePage.dirty
      /\ HeldPage.mapped = FreePage.mapped /\ HeldPage.mod = FreePage.mod
      BY Zenon DEF FreePage, HeldPage
<1>3. /\ FreePage.hold = 0 /\ HeldPage.hold = 1
      /\ HeldPage.object = FreePage.object /\ HeldPage.queue = FreePage.queue
      /\ HeldPage.wire = FreePage.wire /\ HeldPage.busy = FreePage.busy
      /\ HeldPage.data = FreePage.data
      BY DEF FreePage, HeldPage
<1>4. 0 \in 0 .. 1 /\ 1 \in 0 .. 1 /\ TRUE \in BOOLEAN /\ FALSE \in BOOLEAN
      OBVIOUS
<1>5. [FreePage EXCEPT !.hold = 0, !.free = TRUE, !.unholdfree = FALSE] = FreePage
  <2> DEFINE o == FreePage
  <2>1. o \in PageType /\ o.hold = 0 /\ o.free = TRUE /\ o.unholdfree = FALSE
        BY <1>1, <1>2, <1>3
  <2> HIDE DEF o
  <2>2. [o EXCEPT !.hold = 0, !.free = TRUE, !.unholdfree = FALSE] = o
        BY <2>1 DEF PageType
  <2>. QED  BY <2>2 DEF o
<1>6. [FreePage EXCEPT !.hold = 1, !.free = FALSE, !.unholdfree = TRUE] = HeldPage
      BY <1>1, <1>2, <1>3, <1>4, HoldFields, Zenon
<1>. QED  BY <1>5, <1>6

\* vm_page_free_prep: nothing remains but what a holder needs.
LEMMA FreeMoved ==
    ASSUME NEW s, Sound(s), NEW p \in Pages, NEW u, u = vm_page_free(s, p)
    PROVE  Moved(s, u, p) /\ u.pg[p] \in {FreePage, HeldPage}
<1> DEFINE off == vm_page_remque(s, p)
           h   == s.pg[p].hold
           f   == h = 0
           w   == h # 0
           r   == [FreePage EXCEPT !.hold = h, !.free = f, !.unholdfree = w]
<1>1. h \in 0 .. 1
      BY DEF Sound, States, PageType
<1>2. Moved(s, off, p) /\ off.pg[p] = [s.pg[p] EXCEPT !.queue = "none"]
      BY RemqueMoved
<1>3. u = Edit(off, p, r)
      BY Zenon DEF vm_page_free, Edit
<1>4. r \in {FreePage, HeldPage}
  <2>1. CASE h = 0
    <3>1. f = TRUE /\ w = FALSE
          BY <2>1
    <3> HIDE DEF f, w, h
    <3>2. r = [FreePage EXCEPT !.hold = 0, !.free = TRUE, !.unholdfree = FALSE]
          BY <2>1, <3>1
    <3> HIDE DEF r
    <3>. QED  BY <3>2, FreeOrHeld
  <2>2. CASE h = 1
    <3>1. f = FALSE /\ w = TRUE
          BY <2>2
    <3> HIDE DEF f, w, h
    <3>2. r = [FreePage EXCEPT !.hold = 1, !.free = FALSE, !.unholdfree = TRUE]
          BY <2>2, <3>1
    <3> HIDE DEF r
    <3>. QED  BY <3>2, FreeOrHeld
  <2>. QED  BY <1>1, <2>1, <2>2
<1> HIDE DEF off, h, r
<1>5. off.pg[p].queue = "none" /\ Sound(off)
  <2>1. s.pg[p] \in PageType
        BY DEF Sound, States
  <2>. QED  BY <1>2, <2>1 DEF PageType, Moved
<1>6. r \in PageType /\ Sane(r) /\ r.queue = "none"
      BY <1>4, Ownerless
<1>7. Moved(off, u, p) /\ u.pg[p] = r
      BY <1>3, <1>5, <1>6, EditMoved
<1>8. Moved(s, u, p)
      BY <1>2, <1>5, <1>7, MovedOn
<1>. QED  BY <1>4, <1>7, <1>8

LEMMA UnholdMoved ==
    ASSUME NEW s, Sound(s), NEW p \in Pages, NEW u, u = vm_page_unhold(s, p), s.pg[p].hold = 1
    PROVE  /\ Moved(s, u, p) /\ u.q = s.q
           /\ s.pg[p].object = NoObject => u.pg[p] = FreePage
           /\ s.pg[p].object # NoObject => u.pg[p] = [s.pg[p] EXCEPT !.hold = 0]
<1> DEFINE o == s.pg[p]
           r == IF o.unholdfree THEN FreePage ELSE [o EXCEPT !.hold = 0]
<1>1. o \in PageType /\ Sane(o)
      BY DEF Sound, States
<1>2. u = Edit(s, p, r)
      BY Zenon DEF vm_page_unhold, Edit
<1>3. FreePage.hold = 0 /\ HeldPage.unholdfree /\ o.hold = 1
  <2>1. HeldPage.unholdfree
        BY Zenon DEF HeldPage
  <2>. QED  BY <2>1 DEF FreePage
<1>4. r \in PageType /\ Sane(r) /\ r.queue = o.queue
      /\ (o.object = NoObject => r = FreePage)
      /\ (o.object # NoObject => r = [o EXCEPT !.hold = 0])
  <2> HIDE DEF o
  <2>1. CASE o.object = NoObject
    <3>1. o = HeldPage
          BY <1>1, <1>3, <2>1 DEF Sane
    <3>2. r = FreePage
          BY <1>3, <3>1
    <3>. QED  BY <2>1, <3>1, <3>2, Ownerless
  <2>2. CASE o.object # NoObject
    <3>1. r = [o EXCEPT !.hold = 0]
          BY <1>1, <2>2 DEF Sane
    <3>. QED  BY <1>1, <2>2, <3>1 DEF PageType, Sane
  <2>. QED  BY <2>1, <2>2
<1>5. r.queue = s.pg[p].queue
      BY <1>4
<1>6. Moved(s, u, p) /\ u.pg[p] = r /\ u.q = s.q
  <2> HIDE DEF r
  <2>. QED  BY <1>2, <1>4, <1>5, EditMoved
<1>. QED  BY <1>4, <1>6

\* vm_page_wire, and vm_page_unwire of a page that has an object.
LEMMA WireMoved ==
    ASSUME NEW s, Sound(s), NEW p \in Pages, s.pg[p].object # NoObject, s.pg[p].wire = 0,
           NEW u, u = vm_page_wire(s, p)
    PROVE  Moved(s, u, p) /\ Light(s.pg[p], u.pg[p])
<1> DEFINE off == vm_page_remque(s, p)
           o   == off.pg[p]
           r   == [o EXCEPT !.wire = 1]
<1>1. s.pg[p] \in PageType
      BY DEF Sound, States
<1>2. Moved(s, off, p) /\ o = [s.pg[p] EXCEPT !.queue = "none"]
      BY RemqueMoved
<1>3. u = [off EXCEPT !.pg[p] = [off.pg[p] EXCEPT !.wire = off.pg[p].wire + 1]]
      BY Zenon DEF vm_page_wire
<1> HIDE DEF off
<1>4. Sound(off) /\ Sane(o) /\ o \in PageType /\ o.object # NoObject /\ o.wire = 0 /\ o.queue = "none"
      BY <1>1, <1>2 DEF Moved, Sound, States, PageType
<1>5. u = Edit(off, p, r)
  <2>1. off.pg[p].wire + 1 = 1
        BY <1>4
  <2>. QED  BY <1>3, <2>1, Zenon DEF Edit
<1>6. r \in PageType /\ Sane(r) /\ r.queue = off.pg[p].queue
      BY <1>4 DEF PageType, Sane
<1>7. Moved(off, u, p) /\ u.pg[p] = r
  <2> HIDE DEF r
  <2>. QED  BY <1>4, <1>5, <1>6, EditMoved
<1>8. Moved(s, u, p)
      BY <1>2, <1>4, <1>7, MovedOn
<1>9. u.pg[p] = [s.pg[p] EXCEPT !.queue = "none", !.wire = 1]
      BY <1>1, <1>2, <1>7 DEF PageType
<1>. QED  BY <1>1, <1>8, <1>9 DEF PageType, Light

LEMMA UnwireMoved ==
    ASSUME NEW s, Sound(s), NEW p \in Pages, s.pg[p].wire = 1, NEW x \in Queues \cup {"none"},
           NEW u, u = vm_page_unwire(s, p, x)
    PROVE  Moved(s, u, p) /\ Light(s.pg[p], u.pg[p]) /\ s.pg[p].object # NoObject
<1> DEFINE o    == s.pg[p]
           r    == [o EXCEPT !.wire = 0]
           less == [s EXCEPT !.pg[p].wire = @ - 1]
<1>1. o \in PageType /\ Sane(o)
      BY DEF Sound, States
<1>2. o.object # NoObject /\ o.queue = "none"
      BY <1>1, Ownerless DEF Sane, PageType
<1>3. less = Edit(s, p, r)
  <2>1. less = [s EXCEPT !.pg[p] = [s.pg[p] EXCEPT !.wire = s.pg[p].wire - 1]]
        OBVIOUS
  <2>2. s.pg[p].wire - 1 = 0
        OBVIOUS
  <2>. QED  BY <2>1, <2>2, Zenon DEF Edit
<1>4. r \in PageType /\ Sane(r) /\ r.queue = s.pg[p].queue /\ r.queue = "none" /\ r.wire = 0
      /\ r.object # NoObject
      BY <1>1, <1>2 DEF PageType, Sane
<1> HIDE DEF less
<1>5. Moved(s, less, p) /\ less.pg[p] = r
  <2>1. r \in PageType /\ Sane(r) /\ r.queue = s.pg[p].queue
        BY <1>4
  <2> HIDE DEF r, o
  <2>. QED  BY <1>3, <2>1, EditMoved
<1>6. CASE x = "none"
  <2>1. u = less
        BY <1>6 DEF vm_page_unwire, less
  <2>2. Moved(s, u, p) /\ u.pg[p] = r
        BY <1>5, <2>1
  <2>3. Light(o, r)
        BY <1>1 DEF PageType, Light
  <2> HIDE DEF r
  <2>. QED  BY <1>2, <2>2, <2>3
<1>7. CASE x # "none"
  <2>1. u = vm_page_enqueue(less, x, p) /\ x \in Queues
        BY <1>2, <1>7 DEF vm_page_unwire, less
  <2>2. /\ Sound(less) /\ less.pg[p].queue = "none" /\ less.pg[p].object # NoObject
        /\ less.pg[p].wire = 0
    <3> HIDE DEF r
    <3>. QED  BY <1>4, <1>5 DEF Moved
  <2>3. Moved(less, u, p) /\ u.pg[p] = [less.pg[p] EXCEPT !.queue = x]
        BY <2>1, <2>2, EnqueueMoved
  <2>4. Moved(s, u, p)
        BY <1>5, <2>2, <2>3, MovedOn
  <2>5. u.pg[p] = [o EXCEPT !.wire = 0, !.queue = x]
        BY <1>1, <1>5, <2>3 DEF PageType
  <2>6. Light(o, u.pg[p])
        BY <1>1, <2>5 DEF PageType, Light
  <2>. QED  BY <1>2, <2>4, <2>6
<1>. QED  BY <1>6, <1>7

LEMMA LightSettled ==
    ASSUME NEW r \in PageType, Sane(r), Writing(r), NEW u, Sane(u), Light(r, u),
           r.object = NoObject => u.object = NoObject
    PROVE  Settled(r, u)
<1>1. CASE r.object = NoObject
  <2>1. r \in {FreePage, HeldPage} /\ u \in {FreePage, HeldPage}
        BY <1>1 DEF Sane
  <2>2. r.busy = "no" /\ u.busy = "no"
        BY <2>1, Ownerless
  <2>. QED  BY <2>2 DEF Settled, Writing
<1>2. CASE r.object # NoObject
      BY <1>2 DEF Light, Settled, Writing
<1>. QED  BY <1>1, <1>2

LEMMA AdviseMoved ==
    ASSUME NEW s, Sound(s), NEW p \in Pages, s.pg[p].object # NoObject, Writing(s.pg[p]),
           NEW advice \in {"FREE", "DONTNEED", "WILLNEED"},
           NEW u, u = vm_page_advise(s, p, advice)
    PROVE  Moved(s, u, p) /\ Settled(s.pg[p], u.pg[p])
<1> DEFINE o    == s.pg[p]
           data == IF s.pg[p].mod THEN "unsaved" ELSE "saved"
           f    == IF advice = "FREE" THEN Undirty(s, p, data) ELSE vm_page_test_dirty(s, p)
           e    == f.pg[p]
<1>1. o \in PageType /\ Sane(o)
      BY DEF Sound, States
<1>2. \/ advice = "WILLNEED" /\ u = MoveTo(s, "active", p)
      \/ u = vm_page_deactivate(f, p, TRUE)
      \/ u = MoveTo(f, "laundry", p)
  <2>1. u = CASE advice = "WILLNEED"                   -> MoveTo(s, "active", p)
              [] advice # "WILLNEED" /\ ~f.pg[p].dirty -> vm_page_deactivate(f, p, TRUE)
              [] OTHER                                 -> MoveTo(f, "laundry", p)
        BY Zenon DEF vm_page_advise
  <2> HIDE DEF f
  <2>. QED  BY <2>1
<1>3. /\ Moved(s, f, p) /\ Fixed(o, e) /\ e.queue = o.queue /\ e.mapped = o.mapped
      /\ o.busy = "s" => e.data # "unsaved"
  <2>1. CASE advice = "FREE"
    <3>1. f = Undirty(s, p, data) /\ data \in {"saved", "unsaved", "saving"}
          /\ (data # "saved" => o.mod) /\ (o.busy = "s" => data # "unsaved")
      <4>1. o.mod => o.busy # "s"
            BY <1>1 DEF Sane, Writing
      <4>. QED  BY <2>1, <4>1
    <3> HIDE DEF f, data
    <3>. QED  BY <3>1, UndirtyMoved
  <2>2. CASE advice # "FREE"
    <3>1. f = vm_page_test_dirty(s, p)
          BY <2>2
    <3> HIDE DEF f
    <3>. QED  BY <3>1, TestDirtyMoved DEF Writing
  <2>. QED  BY <2>1, <2>2
<1> HIDE DEF f
<1>4. Sound(f) /\ e \in PageType /\ e.object # NoObject
      BY <1>3 DEF Moved, Sound, States, Fixed
<1>5. \A t : Alike(o, t.pg[p]) => Settled(o, t.pg[p])
      BY <1>1, AlikeFixed DEF Fixed, Settled, Writing
<1>6. \A t : Alike(e, t.pg[p]) => Settled(o, t.pg[p])
      BY <1>3, <1>4, AlikeFixed DEF Fixed, Settled, Writing
<1>7. "active" \in Queues /\ "laundry" \in Queues /\ TRUE \in BOOLEAN
      BY DEF Queues
<1>8. CASE u = MoveTo(s, "active", p)
      BY <1>5, <1>7, <1>8, MoveToMoved
<1>9. CASE u = vm_page_deactivate(f, p, TRUE)
  <2>1. Moved(f, u, p) /\ Alike(e, u.pg[p])
        BY <1>4, <1>7, <1>9, DeactivateMoved
  <2>. QED  BY <1>3, <1>6, <2>1, MovedOn
<1>10. CASE u = MoveTo(f, "laundry", p)
  <2>1. Moved(f, u, p) /\ Alike(e, u.pg[p])
        BY <1>4, <1>7, <1>10, MoveToMoved
  <2>. QED  BY <1>3, <1>6, <2>1, MovedOn
<1>. QED  BY <1>2, <1>8, <1>9, <1>10

\* vm_page_try_to_free: a page that is wired or busy stays.
LEMMA TryToFreeMoved ==
    ASSUME NEW s, Sound(s), NEW p \in Pages, Writing(s.pg[p]), NEW u, u = TryToFree(s, p)
    PROVE  Moved(s, u, p) /\ Settled(s.pg[p], u.pg[p])
<1> DEFINE f == pmap_remove(s, p)
           o == s.pg[p]
<1>1. Moved(s, f, p) /\ Fixed(o, f.pg[p]) /\ f.pg[p].queue = o.queue /\ ~f.pg[p].mapped
      /\ f.pg[p].data = o.data
      BY PmapRemoveMoved
<1>2. \/ u = s
      \/ u = f /\ o.busy = "no"
      \/ u = vm_page_free(f, p) /\ o.busy = "no"
  <2>1. u = IF o.dirty \/ o.hold # 0 \/ o.wire # 0 \/ o.busy # "no" THEN s
            ELSE IF f.pg[p].dirty THEN f ELSE vm_page_free(f, p)
        BY Zenon DEF TryToFree
  <2> HIDE DEF f, o
  <2>. QED  BY <2>1
<1> HIDE DEF f
<1>3. CASE u = s
      BY <1>3, Unmoved DEF Settled
<1>4. CASE u = f /\ o.busy = "no"
      BY <1>1, <1>4 DEF Settled, Writing, Fixed
<1>5. CASE u = vm_page_free(f, p) /\ o.busy = "no"
  <2>1. Moved(f, u, p) /\ u.pg[p] \in {FreePage, HeldPage}
        BY <1>1, <1>5, FreeMoved DEF Moved
  <2>2. Moved(s, u, p)
        BY <1>1, <2>1, MovedOn
  <2>3. u.pg[p].busy = "no"
        BY <2>1, Ownerless
  <2>. QED  BY <1>5, <2>2, <2>3 DEF Settled, Writing
<1>. QED  BY <1>2, <1>3, <1>4, <1>5

-----------------------------------------------------------------------------
(* What the pager and the user leave *)

LEMMA HereFields == Here.pg = pg /\ Here.q = q /\ Here.cnt = cnt
BY DEF Here

\* A page the pager is done with: no longer busy, and still of its object.
Done(u, p) ==
    /\ Moved(Here, u, p)
    /\ u.pg[p].busy = "no" /\ u.pg[p].object = pg[p].object

LEMMA UnbusyDone ==
    ASSUME NEW s, NEW p \in Pages, Moved(Here, s, p), s.pg[p].object = pg[p].object,
           pg[p].object # NoObject
    PROVE  Done(Unbusy(s, p), p)
<1> DEFINE u == Unbusy(s, p)
<1>1. Sound(s) /\ s.pg[p] \in PageType
      BY DEF Moved, Sound, States
<1>2. Moved(s, u, p) /\ u.q = s.q /\ u.pg[p] = [s.pg[p] EXCEPT !.busy = "no"]
      BY <1>1, UnbusyMoved
<1> HIDE DEF u
<1>3. /\ u.pg[p].busy = "no" /\ u.pg[p].object = pg[p].object
      /\ u.pg[p].queue = s.pg[p].queue
      BY <1>1, <1>2 DEF PageType
<1>4. Moved(Here, u, p)
      BY <1>2, <1>3, MovedOn
<1>. QED  BY <1>3, <1>4 DEF Done, u

\* Out of the laundry and not busy: written, or thought to be.
LEMMA CleanedDone ==
    ASSUME Sound(Here), NEW p \in Pages, pg[p].object # NoObject
    PROVE  Done(Unbusy(Out(Undirty(Here, p, "saved"), p), p), p)
<1> DEFINE f == Undirty(Here, p, "saved")
           t == Out(f, p)
<1>1. /\ Moved(Here, f, p) /\ Fixed(pg[p], f.pg[p]) /\ f.pg[p].queue = pg[p].queue
      BY UndirtyMoved, HereFields
<1>2. t = f \/ t = vm_page_deactivate(f, p, TRUE)
      BY DEF Out
<1> HIDE DEF f, t
<1>3. Sound(f) /\ f.pg[p] \in PageType /\ f.pg[p].object # NoObject
      BY <1>1 DEF Moved, Sound, States, Fixed
<1>4. Moved(Here, t, p) /\ t.pg[p].object = pg[p].object
  <2>1. CASE t = f
        BY <1>1, <2>1 DEF Fixed
  <2>2. CASE t = vm_page_deactivate(f, p, TRUE)
    <3>1. Moved(f, t, p) /\ Alike(f.pg[p], t.pg[p])
          BY <1>3, <2>2, DeactivateMoved
    <3>2. t.pg[p].object = pg[p].object
          BY <1>1, <1>3, <3>1, AlikeFixed DEF Fixed
    <3>3. Moved(Here, t, p)
          BY <1>1, <3>1, HereFields, MovedOn
    <3>. QED  BY <3>2, <3>3
  <2>. QED  BY <1>2, <2>1, <2>2
<1>. QED  BY <1>4, UnbusyDone DEF t, f

LEMMA UnsavedMoved ==
    ASSUME Sound(Here), NEW p \in Pages
    PROVE  /\ Moved(Here, Unsaved(p), p) /\ Fixed(pg[p], Unsaved(p).pg[p])
           /\ Unsaved(p).pg[p].queue = pg[p].queue
<1> DEFINE o    == pg[p]
           data == IF o.data = "saving" THEN "unsaved" ELSE o.data
           r    == [o EXCEPT !.data = data]
<1>1. o \in PageType /\ Sane(o)
      BY HereFields DEF Sound, States
<1>2. Unsaved(p) = Edit(Here, p, r)
      BY HereFields, Zenon DEF Unsaved, Edit
<1>3. data \in {"saved", "unsaved", "saving"} /\ (data # "saved" => o.data # "saved")
      BY <1>1 DEF PageType
<1> HIDE DEF data, o
<1>4. r \in PageType /\ r.queue = o.queue /\ Fixed(o, r) /\ r.data = data
      /\ r.mapped = o.mapped /\ r.mod = o.mod /\ r.dirty = o.dirty
      BY <1>1, <1>3 DEF PageType, Fixed
<1>5. r.object = NoObject => r = o
  <2>1. o \in {FreePage, HeldPage} => data = o.data
        BY <1>3, Ownerless
  <2>. QED  BY <1>1, <1>4, <2>1 DEF PageType, Sane, Fixed
<1>6. Sane(r)
      BY <1>1, <1>3, <1>4, <1>5 DEF Sane, Fixed
<1>7. r.queue = Here.pg[p].queue
      BY <1>4, HereFields DEF o
<1>8. Moved(Here, Unsaved(p), p) /\ Unsaved(p).pg[p] = r
  <2> HIDE DEF r
  <2>. QED  BY <1>2, <1>4, <1>6, <1>7, EditMoved
<1>. QED  BY <1>4, <1>8 DEF o

LEMMA ResultDone ==
    ASSUME Sound(Here), NEW p \in Pages, pg[p].object # NoObject, pg[p].busy = "s",
           Writing(pg[p])
    PROVE  /\ Done(Written(p), p) /\ Done(Failed(p), p)
           /\ \A r \in Results(p) : r[1] = Here \/ Done(r[1], p)
<1>1. pg[p].data \in {"saved", "saving"}
      BY HereFields DEF Sound, States, PageType, Writing
<1>2. Saved(pg[p].data) = "saved"
      BY <1>1 DEF Saved
<1>3. Done(Written(p), p)
      BY <1>2, CleanedDone DEF Written
<1>4. Done(Unbusy(Unsaved(p), p), p)
      BY UnsavedMoved, UnbusyDone DEF Fixed
<1>5. Done(Failed(p), p)
  <2> DEFINE f == Unsaved(p)
             t == MoveTo(f, "active", p)
  <2>1. Moved(Here, f, p) /\ Fixed(pg[p], f.pg[p]) /\ f.pg[p].queue = pg[p].queue
        BY UnsavedMoved
  <2> HIDE DEF f
  <2>2. Sound(f) /\ f.pg[p] \in PageType /\ f.pg[p].object # NoObject
        BY <2>1 DEF Moved, Sound, States, Fixed
  <2>3. Moved(f, t, p) /\ Alike(f.pg[p], t.pg[p])
        BY <2>2, MoveToMoved DEF Queues
  <2> HIDE DEF t
  <2>4. t.pg[p].object = pg[p].object
        BY <2>1, <2>2, <2>3, AlikeFixed DEF Fixed
  <2>5. Moved(Here, t, p)
        BY <2>1, <2>3, HereFields, MovedOn
  <2>. QED  BY <2>4, <2>5, UnbusyDone DEF Failed, t, f
<1>. QED  BY <1>3, <1>4, <1>5, CleanedDone DEF Results
-----------------------------------------------------------------------------
(* What a user does with a page *)

\* vm_page_hold.
LEMMA HoldMoved ==
    ASSUME NEW s, Sound(s), NEW p \in Pages, s.pg[p].object # NoObject,
           NEW u, u = Edit(s, p, [s.pg[p] EXCEPT !.hold = 1])
    PROVE  /\ Moved(s, u, p) /\ Light(s.pg[p], u.pg[p])
           /\ u.pg[p].queue = s.pg[p].queue
<1> DEFINE o == s.pg[p]
           r == [o EXCEPT !.hold = 1]
<1>1. o \in PageType /\ Sane(o) /\ o.object # NoObject
      BY DEF Sound, States
<1>2. u = Edit(s, p, r)
      OBVIOUS
<1> HIDE DEF o
<1>3. r \in PageType /\ r.queue = o.queue /\ Sane(r) /\ Light(o, r)
      BY <1>1 DEF PageType, Sane, Light
<1>4. r.queue = s.pg[p].queue
      BY <1>3 DEF o
<1> HIDE DEF r
<1>5. Moved(s, u, p) /\ u.pg[p] = r
  <2>1. r \in PageType /\ Sane(r)
        BY <1>3
  <2>. QED  BY <1>2, <1>4, <2>1, EditMoved
<1>. QED  BY <1>3, <1>4, <1>5 DEF o

\* The fields of page p change, but for its queue, to those of r.
LEMMA FieldsMoved ==
    ASSUME Sound(Here), NEW p \in Pages, NEW r \in PageType, Sane(r), Writing(r),
           pg[p].busy # "s", r.queue = pg[p].queue, NEW u, u = Edit(Here, p, r)
    PROVE  Moved(Here, u, p) /\ Settled(pg[p], u.pg[p])
<1>1. Moved(Here, u, p) /\ u.pg[p] = r
      BY HereFields, EditMoved
<1>. QED  BY <1>1 DEF Settled

\* vm_page_xbusy, and the end of a fault or of I/O on an exclusive busy page.
LEMMA BusyMoved ==
    ASSUME Sound(Here), NEW p \in Pages, Writing(pg[p]), pg[p].object # NoObject, NEW u,
           \/ pg[p].busy = "no" /\ u = [Here EXCEPT !.pg[p].busy = "x"]
           \/ /\ pg[p].busy = "x"
              /\ \E v \in BOOLEAN : u = Unbusy([Here EXCEPT !.pg[p].valid = v \/ @], p)
    PROVE  Moved(Here, u, p) /\ Settled(pg[p], u.pg[p])
<1> DEFINE o == pg[p]
<1>1. o \in PageType /\ Sane(o) /\ o.object # NoObject
      BY HereFields DEF Sound, States
<1>2. CASE o.busy = "no" /\ u = [Here EXCEPT !.pg[p].busy = "x"]
  <2> DEFINE r == [o EXCEPT !.busy = "x"]
  <2>1. u = Edit(Here, p, r)
        BY <1>2, HereFields, Zenon DEF Edit
  <2> HIDE DEF o
  <2>2. r \in PageType /\ Sane(r) /\ Writing(r) /\ r.queue = o.queue /\ o.busy # "s"
        BY <1>1, <1>2 DEF PageType, Sane, Writing
  <2>3. r.queue = pg[p].queue /\ pg[p].busy # "s"
        BY <2>2 DEF o
  <2> HIDE DEF r
  <2>. QED  BY <2>1, <2>2, <2>3, FieldsMoved
<1>3. ASSUME o.busy = "x", NEW v \in BOOLEAN, u = Unbusy([Here EXCEPT !.pg[p].valid = v \/ @], p)
      PROVE  Moved(Here, u, p) /\ Settled(o, u.pg[p])
  <2> DEFINE b == v \/ o.valid
             c == [o EXCEPT !.valid = b]
             f == [Here EXCEPT !.pg[p].valid = v \/ @]
             r == [c EXCEPT !.busy = "no"]
  <2>1. f = Edit(Here, p, c)
        BY HereFields, Zenon DEF Edit
  <2>2. b \in BOOLEAN /\ (o.valid => b)
        OBVIOUS
  <2> HIDE DEF b, o
  <2>3. c \in PageType /\ Sane(c) /\ c.queue = o.queue /\ c.object = o.object
        BY <1>1, <2>2 DEF PageType, Sane
  <2>4. c.queue = Here.pg[p].queue /\ c.object # NoObject
        BY <1>1, <2>3, HereFields DEF o
  <2>5. r \in PageType /\ Writing(r) /\ r.queue = c.queue
        BY <2>3 DEF PageType, Writing
  <2> HIDE DEF c, f
  <2>6. Moved(Here, f, p) /\ f.pg[p] = c
        BY <2>1, <2>3, <2>4, EditMoved
  <2>7. Sound(f) /\ f.pg[p].object # NoObject /\ u = Unbusy(f, p)
        BY <1>3, <2>4, <2>6 DEF Moved, f
  <2>8. Moved(f, u, p) /\ u.q = f.q /\ u.pg[p] = r
        BY <2>6, <2>7, UnbusyMoved DEF r
  <2> HIDE DEF r
  <2>9. Moved(Here, u, p)
        BY <2>5, <2>6, <2>8, MovedOn
  <2>. QED  BY <1>3, <2>5, <2>8, <2>9 DEF Settled
<1>. QED  BY <1>2, <1>3

LEMMA MapMoved ==
    ASSUME Sound(Here), NEW p \in Pages, pg[p].valid, pg[p].busy # "s", pg[p].object # NoObject,
           NEW u, u = [Here EXCEPT !.pg[p].mapped = TRUE]
    PROVE  Moved(Here, u, p) /\ Settled(pg[p], u.pg[p])
<1> DEFINE o == pg[p]
           r == [o EXCEPT !.mapped = TRUE]
<1>1. o \in PageType /\ Sane(o)
      BY HereFields DEF Sound, States
<1>2. u = Edit(Here, p, r)
      BY HereFields, Zenon DEF Edit
<1>3. o.valid /\ o.busy # "s" /\ o.object # NoObject
      OBVIOUS
<1> HIDE DEF o
<1>4. r \in PageType /\ Sane(r) /\ Writing(r) /\ r.queue = o.queue
      BY <1>1, <1>3 DEF PageType, Sane, Writing
<1>5. r.queue = pg[p].queue
      BY <1>4 DEF o
<1> HIDE DEF r
<1>. QED  BY <1>2, <1>4, <1>5, FieldsMoved

LEMMA RenameMoved ==
    ASSUME Sound(Here), NEW p \in Pages, pg[p].valid, pg[p].busy = "no", pg[p].object # NoObject,
           NEW b \in Objects, NEW u, u = vm_page_rename(Here, p, b)
    PROVE  Moved(Here, u, p) /\ Settled(pg[p], u.pg[p])
<1> DEFINE o == pg[p]
           r == [o EXCEPT !.object = b, !.dirty = TRUE, !.data = "unsaved"]
<1>1. o \in PageType /\ Sane(o) /\ b # NoObject
      BY HereFields, PageQueuesAssumption DEF Sound, States
<1>2. u = Edit(Here, p, r)
      BY HereFields, Zenon DEF Edit, vm_page_rename
<1>3. o.valid /\ o.busy = "no" /\ o.object # NoObject
      OBVIOUS
<1> HIDE DEF o
<1>4. r \in PageType /\ Sane(r) /\ Writing(r) /\ r.queue = o.queue
      BY <1>1, <1>3 DEF PageType, Sane, Writing
<1>5. r.queue = pg[p].queue /\ pg[p].busy # "s"
      BY <1>4 DEF o
<1> HIDE DEF r
<1>. QED  BY <1>2, <1>4, <1>5, FieldsMoved

\* The operations that need the page lock alone.
LEMMA PageOpsMoved ==
    ASSUME Sound(Here), NEW p \in Pages, Writing(pg[p]), NEW f \in PageOps(p), NEW u, u = f[2]
    PROVE  /\ Moved(Here, u, p) /\ Settled(pg[p], u.pg[p])
           /\ Light(pg[p], u.pg[p])
<1> DEFINE o == pg[p]
<1>1. o \in PageType /\ Sane(o)
      BY HereFields DEF Sound, States
<1>2. \/ /\ o.object # NoObject
         /\ \/ u = MoveTo(Here, "active", p) \/ u = MoveTo(Here, "laundry", p)
            \/ u = vm_page_deactivate(Here, p, FALSE) \/ u = vm_page_deactivate(Here, p, TRUE)
            \/ o.wire = 0 /\ u = vm_page_wire(Here, p)
            \/ u = [Here EXCEPT !.pg[p].hold = 1]
      \/ u = vm_page_requeue(Here, p)
      \/ o.wire = 1 /\ \E x \in Queues \cup {"none"} : u = vm_page_unwire(Here, p, x)
      \/ o.hold = 1 /\ u = vm_page_unhold(Here, p)
  <2> DEFINE held  == [Here EXCEPT !.pg[p].hold = 1]
             tail  == vm_page_deactivate(Here, p, FALSE)
             head  == vm_page_deactivate(Here, p, TRUE)
             owned == pg[p].object # NoObject
             S1 == IF owned
                   THEN {<<"activate", MoveTo(Here, "active", p)>>,
                         <<"deactivate", tail>>, <<"noreuse", head>>,
                         <<"launder", MoveTo(Here, "laundry", p)>>}
                   ELSE {}
             S2 == IF pg[p].queue # "none" THEN {<<"requeue", vm_page_requeue(Here, p)>>} ELSE {}
             S3 == IF owned /\ pg[p].wire = 0 THEN {<<"wire", vm_page_wire(Here, p)>>} ELSE {}
             S4 == IF pg[p].wire = 1
                   THEN {<<"wire", vm_page_unwire(Here, p, x)>> : x \in {"none", "inactive", "active"}}
                   ELSE {}
             S5 == IF owned /\ pg[p].hold = 0 THEN {<<"hold", held>>} ELSE {}
             S6 == IF pg[p].hold = 1 THEN {<<"hold", vm_page_unhold(Here, p)>>} ELSE {}
  <2>1. PageOps(p) = S1 \cup S2 \cup S3 \cup S4 \cup S5 \cup S6
        BY Zenon DEF PageOps
  <2> HIDE DEF held, tail, head
  <2>2. f \in S1 =>
          /\ o.object # NoObject
          /\ \/ u = MoveTo(Here, "active", p) \/ u = MoveTo(Here, "laundry", p)
             \/ u = tail \/ u = head
        OBVIOUS
  <2>3. f \in S2 => u = vm_page_requeue(Here, p)
        OBVIOUS
  <2>4. f \in S3 => o.object # NoObject /\ o.wire = 0 /\ u = vm_page_wire(Here, p)
        OBVIOUS
  <2>5. f \in S4 => o.wire = 1 /\ \E x \in Queues \cup {"none"} : u = vm_page_unwire(Here, p, x)
        BY DEF Queues
  <2>6. f \in S5 => o.object # NoObject /\ u = held
        OBVIOUS
  <2>7. f \in S6 => o.hold = 1 /\ u = vm_page_unhold(Here, p)
        OBVIOUS
  <2> HIDE DEF S1, S2, S3, S4, S5, S6
  <2>. QED  BY <2>1, <2>2, <2>3, <2>4, <2>5, <2>6, <2>7, Zenon DEF held, tail, head
<1>3. SUFFICES /\ Moved(Here, u, p) /\ Light(o, u.pg[p])
               /\ o.object = NoObject => u.pg[p].object = NoObject
  <2>1. ASSUME Moved(Here, u, p) PROVE Sane(u.pg[p])
        BY <2>1 DEF Moved, Sound
  <2>. QED  BY <1>1, <1>3, <2>1, LightSettled
<1>4. ASSUME Moved(Here, u, p), Alike(o, u.pg[p])
      PROVE  Light(o, u.pg[p]) /\ (o.object = NoObject => u.pg[p].object = NoObject)
      BY <1>1, <1>4, AlikeFixed DEF Light, Fixed
<1>5. CASE /\ o.object # NoObject
           /\ u = MoveTo(Here, "active", p) \/ u = MoveTo(Here, "laundry", p)
  <2>1. PICK x \in Queues : u = MoveTo(Here, x, p)
        BY <1>5 DEF Queues
  <2>. QED  BY <1>4, <1>5, <2>1, HereFields, MoveToMoved
<1>6. CASE /\ o.object # NoObject
           /\ u = vm_page_deactivate(Here, p, FALSE) \/ u = vm_page_deactivate(Here, p, TRUE)
  <2>1. PICK b \in BOOLEAN : u = vm_page_deactivate(Here, p, b)
        BY <1>6
  <2>. QED  BY <1>4, <1>6, <2>1, HereFields, DeactivateMoved
<1>7. CASE o.object # NoObject /\ o.wire = 0 /\ u = vm_page_wire(Here, p)
      BY <1>7, HereFields, WireMoved
<1>8. CASE o.object # NoObject /\ u = [Here EXCEPT !.pg[p].hold = 1]
  <2>1. u = Edit(Here, p, [Here.pg[p] EXCEPT !.hold = 1])
        BY <1>8, Zenon DEF Edit
  <2>. QED  BY <1>8, <2>1, HereFields, HoldMoved
<1>9. CASE u = vm_page_requeue(Here, p)
      BY <1>9, HereFields, RequeueMoved DEF Light
<1>10. ASSUME o.wire = 1, NEW x \in Queues \cup {"none"}, u = vm_page_unwire(Here, p, x)
       PROVE  Moved(Here, u, p) /\ Light(o, u.pg[p]) /\ o.object # NoObject
      BY <1>10, HereFields, UnwireMoved
<1>11. CASE o.hold = 1 /\ u = vm_page_unhold(Here, p)
  <2>1. /\ Moved(Here, u, p) /\ u.q = Here.q
        /\ o.object = NoObject => u.pg[p] = FreePage
        /\ o.object # NoObject => u.pg[p] = [o EXCEPT !.hold = 0]
        BY <1>11, HereFields, UnholdMoved
  <2>2. FreePage.object = NoObject
        BY DEF FreePage
  <2> HIDE DEF o
  <2>. QED  BY <1>1, <2>1, <2>2 DEF Light, PageType
<1>. QED  BY <1>2, <1>5, <1>6, <1>7, <1>8, <1>9, <1>10, <1>11

\* Those that need the lock of its object too.
LEMMA ObjectOpsMoved ==
    ASSUME Sound(Here), NEW p \in Pages, Writing(pg[p]), pg[p].object # NoObject,
           NEW f \in ObjectOps(p), NEW u, u = f[2]
    PROVE  Moved(Here, u, p) /\ Settled(pg[p], u.pg[p])
<1>1. \/ pg[p].busy = "no" /\ u = [Here EXCEPT !.pg[p].busy = "x"]
      \/ /\ pg[p].busy = "x"
         /\ \E v \in BOOLEAN : u = Unbusy([Here EXCEPT !.pg[p].valid = v \/ @], p)
      \/ /\ pg[p].valid /\ pg[p].busy # "s"
         /\ u = [Here EXCEPT !.pg[p].mapped = TRUE]
      \/ \E a \in {"FREE", "DONTNEED", "WILLNEED"} : u = vm_page_advise(Here, p, a)
      \/ /\ pg[p].valid /\ pg[p].busy = "no"
         /\ \E b \in Objects : u = vm_page_rename(Here, p, b)
      \/ u = TryToFree(Here, p)
      \/ pg[p].busy # "s" /\ u = vm_page_free(Here, p)
  <2> DEFINE busied == [Here EXCEPT !.pg[p].busy = "x"]
             filled(v) == Unbusy([Here EXCEPT !.pg[p].valid = v \/ @], p)
             mapped == [Here EXCEPT !.pg[p].mapped = TRUE]
             S1 == IF pg[p].busy = "no" THEN {<<"busy", busied>>} ELSE {}
             S2 == IF pg[p].busy = "x" THEN {<<"busy", filled(v)>> : v \in BOOLEAN} ELSE {}
             S3 == IF pg[p].valid /\ pg[p].busy # "s" /\ user.object \notin dead
                   THEN {<<"map", mapped>>} ELSE {}
             S4 == IF pg[p].valid
                   THEN {<<"advise", vm_page_advise(Here, p, a)>> :
                             a \in {"FREE", "DONTNEED", "WILLNEED"}} ELSE {}
             S5 == IF pg[p].valid /\ pg[p].busy = "no"
                   THEN {<<"rename", vm_page_rename(Here, p, o)>> :
                             o \in {o \in Objects \ dead : Free(olock[o])}} ELSE {}
             S6 == {<<"free", TryToFree(Here, p)>>}
             S7 == IF ~FreePanics(Here, p) /\ ~pg[p].mapped
                   THEN {<<"free", vm_page_free(Here, p)>>} ELSE {}
  <2>1. ObjectOps(p) = S1 \cup S2 \cup S3 \cup S4 \cup S5 \cup S6 \cup S7
        BY Zenon DEF ObjectOps
  <2> HIDE DEF busied, filled, mapped
  <2>2. f \in S1 => pg[p].busy = "no" /\ u = busied
        OBVIOUS
  <2>3. f \in S2 => pg[p].busy = "x" /\ \E v \in BOOLEAN : u = filled(v)
        OBVIOUS
  <2>4. f \in S3 => pg[p].valid /\ pg[p].busy # "s" /\ u = mapped
        OBVIOUS
  <2>5. f \in S4 => \E a \in {"FREE", "DONTNEED", "WILLNEED"} : u = vm_page_advise(Here, p, a)
        OBVIOUS
  <2>6. f \in S5 => /\ pg[p].valid /\ pg[p].busy = "no"
                    /\ \E b \in Objects : u = vm_page_rename(Here, p, b)
        OBVIOUS
  <2>7. f \in S6 => u = TryToFree(Here, p)
        OBVIOUS
  <2>8. f \in S7 => pg[p].busy # "s" /\ u = vm_page_free(Here, p)
        BY HereFields DEF FreePanics
  <2> HIDE DEF S1, S2, S3, S4, S5, S6, S7
  <2>. QED  BY <2>1, <2>2, <2>3, <2>4, <2>5, <2>6, <2>7, <2>8, Zenon DEF busied, filled, mapped
<1>2. CASE pg[p].busy # "s" /\ u = vm_page_free(Here, p)
  <2>1. Moved(Here, u, p) /\ u.pg[p] \in {FreePage, HeldPage}
        BY <1>2, FreeMoved
  <2>2. u.pg[p].busy = "no"
        BY <2>1, Ownerless
  <2>. QED  BY <1>2, <2>1, <2>2 DEF Settled, Writing
<1>3. CASE u = TryToFree(Here, p)
      BY <1>3, HereFields, TryToFreeMoved
<1>4. ASSUME NEW a \in {"FREE", "DONTNEED", "WILLNEED"}, u = vm_page_advise(Here, p, a)
      PROVE  Moved(Here, u, p) /\ Settled(pg[p], u.pg[p])
      BY <1>4, HereFields, AdviseMoved
<1>. QED  BY <1>1, <1>2, <1>3, <1>4, BusyMoved, MapMoved, RenameMoved

-----------------------------------------------------------------------------
(* The inductive invariant *)

Memory == Sound(Here) /\ \A p \in Pages : Writing(pg[p])

Locks == plock \in [Pages -> Owners] /\ olock \in [Objects -> Owners]

\* Where a scan may be: only the launderer cleans, only the daemon has two queues.
Pcs(s) ==
    {"idle", "scan", "pagelock", "objectlock", "test", "unmap", "decide", "next"}
    \cup IF s = "daemon" THEN {"active", "activelock"}
         ELSE {"vnode", "cluster", "grow", "put", "result"}

AllPcs == Pcs("daemon") \cup Pcs("launderer")
Spots  == Pages \cup Markers \cup {NoPage}

ScanRecords ==
    [pc : AllPcs, m : Spots, object : Objects \cup {NoObject}, maxscan : Int, target : Int,
     cluster : SUBSET Pages, paged : Int]

Scans == scan \in [Scanners -> ScanRecords] /\ \A s \in Scanners : scan[s].pc \in Pcs(s)

Waiting == {"pagelock", "objectlock", "activelock"}
Claimed == {"test", "unmap", "decide", "cluster"}
Away    == Claimed \cup {"vnode", "grow", "put", "result", "next"}

\* The markers of scan s are where it is.
Marked(s) ==
    \A x \in Queues :
       /\ s \in Range(q[x]) <=> x = QueueOf(s) /\ scan[s].pc \in Waiting
       /\ Marker(s) \in Range(q[x]) <=> x = QueueOf(s) /\ scan[s].pc \in Away

\* What a scan will look at next is in its queue; what it waits for is a page.
At(s) ==
    /\ Running(s) => scan[s].m = NoPage \/ scan[s].m \in Range(q[QueueOf(s)])
    /\ scan[s].pc \in Waiting \cup {"vnode"} => scan[s].m \in Pages /\ scan[s].object \in Objects
    /\ scan[s].pc \in {"grow", "put", "result"} => scan[s].object \in Objects

\* The page a scan has claimed: locked with its object, and left alone.
Claims(s) ==
    scan[s].pc \in Claimed =>
        LET m == scan[s].m
        IN  /\ m \in Pages /\ scan[s].object \in Objects
            /\ plock[m] = s /\ olock[scan[s].object] = s /\ pg[m].object = scan[s].object
            /\ pg[m].busy = "no" /\ pg[m].hold = 0 /\ pg[m].wire = 0
            /\ pg[m].queue = IF s = "daemon" THEN "none" ELSE "laundry"
            /\ scan[s].pc = "decide" => pg[m].dirty \/ ~pg[m].mapped

Place(s) == Marked(s) /\ At(s) /\ Claims(s)

UserClaims ==
    /\ user.pc \in {"idle", "locked"}
    /\ user.pc = "locked" =>
          /\ user.p \in Pages /\ plock[user.p] = "user" /\ ~pg[user.p].free
          /\ user.object \in Objects \cup {NoObject}
          /\ user.object \in Objects =>
                olock[user.object] = "user" /\ pg[user.p].object = user.object

\* The pages of the cluster: of the locked object while it grows and while the
\* results come in, busy as long as the pager may have them.
Busying ==
    /\ L.cluster # {} => L.pc \in {"grow", "put", "result"}
    /\ L.pc \in {"grow", "result"} => olock[L.object] = "launderer"
    /\ \A p \in L.cluster :
          /\ pg[p].object = L.object /\ ~pg[p].mapped
          /\ pg[p].busy = IF L.pc = "grow" THEN "no" ELSE "s"

IInv ==
    /\ Memory /\ Locks /\ Scans
    /\ \A s \in Scanners : Place(s)
    /\ UserClaims /\ Busying /\ ~panicked

\* What a step of a scan does to a page that it takes from its object.
Freed ==
    \A p \in Pages : scan' # scan /\ pg[p].object # NoObject /\ pg'[p].object = NoObject
                     => pg[p].data = "saved"

-----------------------------------------------------------------------------
(* What the step of one leaves of the others *)

Actors == Scanners \cup {"user"}

\* What w has locked stays locked and of its object, and what it has claimed
\* stays as it is.
Keeps(w) ==
    /\ \A p \in Pages : plock[p] = w => plock'[p] = w
    /\ \A o \in Objects : olock[o] = w => olock'[o] = w
    /\ \A p \in Pages : plock[p] = w /\ ~pg[p].free =>
          /\ ~pg'[p].free /\ pg'[p].object = pg[p].object
          /\ olock[pg[p].object] = w =>
                /\ pg'[p].busy = pg[p].busy /\ pg'[p].hold = pg[p].hold
                /\ pg'[p].wire = pg[p].wire /\ pg'[p].queue = pg[p].queue
                /\ pg[p].dirty \/ ~pg[p].mapped => pg'[p].dirty \/ ~pg'[p].mapped

\* Actor a changes its own locks, takes free ones, and changes pages whose lock
\* it has or takes.
Acts(a) ==
    /\ \A p \in Pages : plock'[p] = plock[p] \/ plock[p] \in {a, NoOne}
    /\ \A o \in Objects : olock'[o] = olock[o] \/ olock[o] \in {a, NoOne}
    /\ \A p \in Pages : pg'[p] = pg[p] \/ plock[p] \in {a, NoOne}

LEMMA ActsKeeps ==
    ASSUME NEW a \in Actors, Acts(a), NEW w \in Actors \ {a}
    PROVE  Keeps(w)
<1>1. w # NoOne
      BY PageQueuesAssumption DEF Actors
<1>. QED  BY <1>1 DEF Acts, Keeps

\* The lists are as scan s knows them.
ListsKept(s) ==
    /\ \A x \in Queues, k \in {s, Marker(s)} : k \in Range(q'[x]) <=> k \in Range(q[x])
    /\ Running(s) => q'[QueueOf(s)] = q[QueueOf(s)]

LEMMA QueueIs ==
    /\ QueueOf("launderer") = "laundry" /\ QueueOf("launderer")' = "laundry"
    /\ QueueOf("daemon") = IF scan["daemon"].pc \in {"active", "activelock"}
                           THEN "active" ELSE "inactive"
    /\ QueueOf("daemon")' = IF scan'["daemon"].pc \in {"active", "activelock"}
                            THEN "active" ELSE "inactive"
    /\ \A s \in Scanners : QueueOf(s) \in Queues /\ QueueOf(s)' \in Queues
BY DEF QueueOf, Scanners, Queues

LEMMA OwnedPage ==
    ASSUME Sound(Here), NEW p \in Pages
    PROVE  /\ pg[p] \in PageType /\ Sane(pg[p])
           /\ pg[p].free => pg[p].object = NoObject
           /\ pg[p].queue # "none" => pg[p].object \in Objects /\ pg[p].wire = 0
<1>1. pg[p] \in PageType /\ Sane(pg[p])
      BY HereFields DEF Sound, States
<1>2. pg[p] \in {FreePage, HeldPage} => pg[p].queue = "none"
      BY Ownerless
<1>. QED  BY <1>1, <1>2 DEF Sane, PageType

LEMMA PlaceKept ==
    ASSUME Memory, NEW s \in Scanners, Place(s), scan'[s] = scan[s], ListsKept(s), Keeps(s)
    PROVE  Place(s)'
<1>1. QueueOf(s)' = QueueOf(s) /\ QueueOf(s) \in Queues
      BY QueueIs DEF Scanners
<1>2. Marked(s)'
      BY <1>1 DEF Place, Marked, ListsKept
<1>3. At(s)'
      BY <1>1 DEF Place, At, ListsKept, Running
<1>4. Claims(s)'
  <2>1. CASE scan[s].pc \notin Claimed
        BY <2>1 DEF Claims
  <2>2. CASE scan[s].pc \in Claimed
    <3> DEFINE m == scan[s].m
    <3>1. /\ m \in Pages /\ scan[s].object \in Objects
          /\ plock[m] = s /\ olock[scan[s].object] = s /\ pg[m].object = scan[s].object
          /\ pg[m].busy = "no" /\ pg[m].hold = 0 /\ pg[m].wire = 0
          /\ pg[m].queue = IF s = "daemon" THEN "none" ELSE "laundry"
          /\ scan[s].pc = "decide" => pg[m].dirty \/ ~pg[m].mapped
          BY <2>2 DEF Place, Claims
    <3>2. ~pg[m].free
          BY <3>1, OwnedPage, PageQueuesAssumption DEF Memory
    <3>3. /\ plock'[m] = s /\ olock'[scan[s].object] = s /\ pg'[m].object = pg[m].object
          /\ pg'[m].busy = pg[m].busy /\ pg'[m].hold = pg[m].hold
          /\ pg'[m].wire = pg[m].wire /\ pg'[m].queue = pg[m].queue
          /\ pg[m].dirty \/ ~pg[m].mapped => pg'[m].dirty \/ ~pg'[m].mapped
          BY <3>1, <3>2 DEF Keeps
    <3>. QED  BY <3>1, <3>3 DEF Claims
  <2>. QED  BY <2>1, <2>2
<1>. QED  BY <1>2, <1>3, <1>4 DEF Place

LEMMA UserKept ==
    ASSUME Memory, UserClaims, user' = user, Keeps("user")
    PROVE  UserClaims'
BY DEF UserClaims, Keeps

LEMMA ClusterKept ==
    ASSUME Scans, \A s \in Scanners : Place(s), Busying, scan'["launderer"] = scan["launderer"],
           \A o \in Objects : olock[o] = "launderer" => olock'[o] = "launderer",
           \A p \in L.cluster : /\ pg'[p].object = pg[p].object /\ pg'[p].busy = pg[p].busy
                                /\ ~pg'[p].mapped
    PROVE  Busying'
<1>1. L' = L
      BY DEF L
<1>2. L.pc \in {"grow", "result"} => L.object \in Objects
      BY DEF L, Place, At, Scanners
<1>. QED  BY <1>1, <1>2 DEF Busying

LEMMA ScanSet ==
    ASSUME Scans, NEW s \in Scanners, NEW r \in ScanRecords, r.pc \in Pcs(s),
           scan' = [scan EXCEPT ![s] = r]
    PROVE  Scans' /\ scan'[s] = r /\ \A t \in Scanners \ {s} : scan'[t] = scan[t]
BY DEF Scans

LEMMA PutHere ==
    ASSUME NEW t \in States, Put(t)
    PROVE  Here' = t
BY DEF States, Put, Here

\* A step, of actor a or of nobody, that leaves the others what is theirs.
LEMMA OthersKept ==
    ASSUME IInv, NEW a \in Actors \cup {NoOne}, \A w \in Actors \ {a} : Keeps(w),
           Memory', Locks', Scans', ~panicked',
           \A t \in Scanners \ {a} : scan'[t] = scan[t] /\ ListsKept(t),
           a \in Scanners => Place(a)', a = "user" => UserClaims', a # "user" => user' = user,
           Busying'
    PROVE  IInv'
<1>1. ASSUME NEW t \in Scanners PROVE Place(t)'
  <2>1. CASE t = a
        BY <2>1
  <2>2. CASE t # a
    <3>1. Keeps(t) /\ scan'[t] = scan[t] /\ ListsKept(t) /\ Memory /\ Place(t)
          BY <2>2 DEF IInv, Actors
    <3>. QED  BY <3>1, PlaceKept
  <2>. QED  BY <2>1, <2>2
<1>2. UserClaims'
  <2>1. CASE a = "user"
        BY <2>1
  <2>2. CASE a # "user"
    <3>1. Keeps("user") /\ user' = user /\ Memory /\ UserClaims
          BY <2>2 DEF IInv, Actors
    <3>. QED  BY <3>1, UserKept
  <2>. QED  BY <2>1, <2>2
<1>. QED  BY <1>1, <1>2 DEF IInv

\* The step of actor a, once it is known what becomes of its own.
LEMMA StepKeeps ==
    ASSUME IInv, NEW a \in Actors, Acts(a), Memory', Locks', Scans', ~panicked',
           \A t \in Scanners \ {a} : scan'[t] = scan[t] /\ ListsKept(t),
           a \in Scanners => Place(a)', a = "user" => UserClaims', a # "user" => user' = user,
           Busying'
    PROVE  IInv'
<1>1. \A w \in Actors \ {a} : Keeps(w)
      BY ActsKeeps
<1>2. a \in Actors \cup {NoOne}
      OBVIOUS
<1>. QED  BY <1>1, <1>2, OthersKept

\* Page p moved, or has other fields.
Moves(p) ==
    /\ Memory'
    /\ \A o \in Pages \ {p} : pg'[o] = pg[o]
    /\ \A x \in Queues : q'[x] # q[x] => x \in {pg[p].queue, pg'[p].queue}
    /\ \A x \in Queues, k \in Markers : k \in Range(q'[x]) <=> k \in Range(q[x])

LEMMA MovedMoves ==
    ASSUME Memory, NEW p \in Pages, NEW t, Moved(Here, t, p), Writing(t.pg[p]), Put(t)
    PROVE  Moves(p) /\ pg' = t.pg /\ q' = t.q
<1>1. t \in States /\ Sound(t)
      BY DEF Moved, Sound
<1>2. Here' = t
      BY <1>1, PutHere
<1>3. pg' = t.pg /\ q' = t.q
      BY DEF Put
<1>4. Sound(Here)'
      BY <1>1, <1>2
<1>5. \A o \in Pages \ {p} : pg'[o] = pg[o]
      BY <1>3, HereFields DEF Moved
<1>6. \A o \in Pages : Writing(pg'[o])
      BY <1>3, <1>5 DEF Memory
<1>. QED  BY <1>3, <1>4, <1>5, <1>6, HereFields DEF Moved, Moves, Memory

LEMMA MovesLists ==
    ASSUME NEW p, Moves(p), NEW s \in Scanners,
           Running(s) => q' = q \/ QueueOf(s) \notin {pg[p].queue, pg'[p].queue}
    PROVE  ListsKept(s)
<1>1. s \in Markers /\ Marker(s) \in Markers /\ QueueOf(s) \in Queues
      BY QueueIs DEF Scanners, Markers, Marker
<1>. QED  BY <1>1 DEF Moves, ListsKept

\* A page of nobody, or not of the cluster.
LEMMA MovesCluster ==
    ASSUME IInv, NEW p \in Pages, Moves(p), scan'["launderer"] = scan["launderer"],
           \A o \in Objects : olock[o] = "launderer" => olock'[o] = "launderer",
           p \in L.cluster => /\ pg'[p].object = pg[p].object /\ pg'[p].busy = pg[p].busy
                              /\ ~pg'[p].mapped
    PROVE  Busying'
<1>1. \A o \in L.cluster : /\ pg'[o].object = pg[o].object /\ pg'[o].busy = pg[o].busy
                           /\ ~pg'[o].mapped
      BY DEF IInv, Busying, Moves, Scans, ScanRecords, L, Scanners
<1>. QED  BY <1>1, ClusterKept DEF IInv

LEMMA StaysAway ==
    ASSUME NEW s \in Scanners, Marked(s), scan[s].pc \in Away, scan'[s].pc \in Away,
           \A x \in Queues, k \in Markers : k \in Range(q'[x]) <=> k \in Range(q[x])
    PROVE  Marked(s)'
<1>1. s \in Markers /\ Marker(s) \in Markers
      BY DEF Scanners, Markers, Marker
<1>2. QueueOf(s)' = QueueOf(s)
      BY QueueIs DEF Scanners, Away, Claimed
<1>3. scan[s].pc \notin Waiting /\ scan'[s].pc \notin Waiting
      BY DEF Away, Claimed, Waiting
<1>. QED  BY <1>1, <1>2, <1>3 DEF Marked

\* A page that a scan has claimed is not in the cluster.
LEMMA ClaimedApart ==
    ASSUME IInv, NEW s \in Scanners, scan[s].pc \in Claimed
    PROVE  /\ scan[s].m \in Pages \ L.cluster /\ pg[scan[s].m].object # NoObject
           /\ L.pc \in {"grow", "result"} => L.object # scan[s].object \/ s = "launderer"
<1> DEFINE m == scan[s].m
<1>1. /\ m \in Pages /\ scan[s].object \in Objects /\ pg[m].object = scan[s].object
      /\ olock[scan[s].object] = s /\ pg[m].busy = "no"
      BY DEF IInv, Place, Claims
<1>2. CASE s = "launderer"
      BY <1>1, <1>2, PageQueuesAssumption DEF IInv, Busying, L, Claimed
<1>3. CASE s = "daemon"
      BY <1>1, <1>3, PageQueuesAssumption DEF IInv, Busying
<1>. QED  BY <1>2, <1>3 DEF Scanners

\* A scan goes somewhere else and leaves all else alone.
LEMMA OnlyScan ==
    ASSUME IInv, NEW s \in Scanners, NEW r \in ScanRecords, r.pc \in Pcs(s),
           scan' = [scan EXCEPT ![s] = r], pg' = pg, q' = q, cnt' = cnt, plock' = plock,
           olock' = olock, user' = user, panicked' = panicked,
           Place(s)', s = "launderer" => Busying'
    PROVE  IInv' /\ Freed
<1>1. Scans' /\ \A t \in Scanners \ {s} : scan'[t] = scan[t]
      BY ScanSet DEF IInv
<1>2. Acts(s) /\ \A t \in Scanners \ {s} : ListsKept(t)
      BY DEF Acts, ListsKept
<1>3. Memory' /\ Locks' /\ ~panicked'
      BY DEF IInv, Memory, Locks, Here
<1>4. Busying'
  <2>1. CASE s = "launderer"
        BY <2>1
  <2>2. CASE s # "launderer"
        BY <1>1, <2>2, ClusterKept DEF IInv, Busying, Scanners
  <2>. QED  BY <2>1, <2>2
<1>5. s \in Actors /\ s # "user"
      BY DEF Scanners, Actors
<1>6. Freed
      BY DEF Freed
<1>. QED  BY <1>1, <1>2, <1>3, <1>4, <1>5, <1>6, StepKeeps

LEMMA QueueTypes ==
    ASSUME Memory, NEW x \in Queues
    PROVE  /\ q[x] \in Seq(Pages \cup Markers) /\ IsInjective(q[x]) /\ cnt[x] \in Nat
           /\ \A p \in Pages : p \in Range(q[x]) <=> pg[p].queue = x
           /\ q[x] # <<>> => q[x][1] \in Range(q[x])
           /\ Range(q[x]) \subseteq Pages \cup Markers
<1>1. /\ q[x] \in Seq(Pages \cup Markers) /\ IsInjective(q[x]) /\ cnt[x] \in Nat
      /\ \A p \in Pages : p \in Range(q[x]) <=> pg[p].queue = x
      BY HereFields DEF Memory, Sound, States, Listed
<1>2. /\ Len(q[x]) \in Nat /\ DOMAIN q[x] = 1 .. Len(q[x]) /\ (q[x] # <<>> => Len(q[x]) # 0)
      /\ \A i \in 1 .. Len(q[x]) : q[x][i] \in Pages \cup Markers
  <2> DEFINE S == Pages \cup Markers
             l == q[x]
  <2>1. l \in Seq(S)
        BY <1>1
  <2> HIDE DEF S, l
  <2>2. /\ Len(l) \in Nat /\ DOMAIN l = 1 .. Len(l) /\ (l # <<>> => Len(l) # 0)
        /\ \A i \in 1 .. Len(l) : l[i] \in S
        BY <2>1, LenProperties, EmptySeq, ElementOfSeq
  <2>. QED  BY <2>2 DEF S, l
<1>3. q[x] # <<>> => 1 \in 1 .. Len(q[x])
      BY <1>2
<1>. QED  BY <1>1, <1>2, <1>3 DEF Range

\* No marker of a scan with its queue's lock, or of one that rests.
LEMMA Unplaced ==
    ASSUME IInv, NEW s \in Scanners, scan[s].pc \notin Waiting \cup Away
    PROVE  \A x \in Queues : s \notin Range(q[x]) /\ Marker(s) \notin Range(q[x])
BY DEF IInv, Place, Marked

LEMMA Unmarks ==
    ASSUME NEW s \in Scanners, scan'[s].pc \notin Waiting \cup Away,
           \A x \in Queues : s \notin Range(q'[x]) /\ Marker(s) \notin Range(q'[x])
    PROVE  Marked(s)' /\ Claims(s)'
BY DEF Marked, Away, Claims

LEMMA AllPcsAre ==
    /\ AllPcs = {"idle", "scan", "pagelock", "objectlock", "test", "unmap", "decide", "next",
                 "active", "activelock", "vnode", "cluster", "grow", "put", "result"}
    /\ \A s \in Scanners : Pcs(s) \subseteq AllPcs
BY DEF AllPcs, Pcs, Scanners

LEMMA IdleRecord ==
    /\ Idle \in ScanRecords /\ Idle.pc = "idle" /\ Idle.cluster = {} /\ Idle.m = NoPage
    /\ \A s \in Scanners : Idle.pc \in Pcs(s)
BY DEF Idle, ScanRecords, AllPcs, Spots, Pcs

\* A scan that has its queue's lock, or ends, and has no cluster.
LEMMA ScanRests ==
    ASSUME IInv, NEW s \in Scanners, scan[s].pc \notin Waiting \cup Away,
           NEW r \in ScanRecords, r.pc \in {"idle", "scan"} \/ (r.pc = "active" /\ s = "daemon"),
           r.cluster = {}, scan' = [scan EXCEPT ![s] = r],
           r.pc # "idle" => r.m = NoPage \/ r.m \in Range(q[QueueOf(s)']),
           pg' = pg, q' = q, cnt' = cnt, plock' = plock, olock' = olock, user' = user,
           panicked' = panicked
    PROVE  IInv' /\ Freed
<1>1. scan'[s] = r /\ r.pc \in Pcs(s)
      BY DEF IInv, Scans, Pcs
<1>2. Marked(s)' /\ Claims(s)'
      BY <1>1, Unplaced, Unmarks DEF Waiting, Away, Claimed
<1>3. At(s)'
      BY <1>1, QueueIs DEF At, Running, Waiting
<1>4. s = "launderer" => Busying'
      BY <1>1 DEF Busying, L
<1>. QED  BY <1>1, <1>2, <1>3, <1>4, OnlyScan DEF Place

LEMMA ScanStartKeeps ==
    ASSUME IInv, NEW s \in Scanners, ScanStart(s)
    PROVE  IInv' /\ Freed
<1>1. PICK target \in 1 .. Cardinality(Pages) :
        scan' = [scan EXCEPT ![s] = [Idle EXCEPT !.pc = "scan", !.target = target,
                     !.m = IF q[QueueOf(s)] = <<>> THEN NoPage ELSE q[QueueOf(s)][1],
                     !.maxscan = cnt[QueueOf(s)]]]
      BY DEF ScanStart
<1> DEFINE x == QueueOf(s)
           m == IF q[x] = <<>> THEN NoPage ELSE q[x][1]
           r == [Idle EXCEPT !.pc = "scan", !.target = target, !.m = m, !.maxscan = cnt[x]]
<1>2. /\ scan[s].pc = "idle" /\ pg' = pg /\ q' = q /\ cnt' = cnt /\ plock' = plock
      /\ olock' = olock /\ user' = user /\ panicked' = panicked
      BY DEF ScanStart
<1>3. /\ x \in Queues /\ cnt[x] \in Nat
      /\ m = NoPage \/ m \in Range(q[x])
      /\ m \in Pages \cup Markers \cup {NoPage}
  <2>1. x \in Queues /\ Memory
        BY QueueIs DEF IInv
  <2> HIDE DEF x
  <2>2. /\ cnt[x] \in Nat /\ Range(q[x]) \subseteq Pages \cup Markers
        /\ q[x] # <<>> => q[x][1] \in Range(q[x])
        BY <2>1, QueueTypes
  <2>. QED  BY <2>1, <2>2
<1>4. scan' = [scan EXCEPT ![s] = r]
      BY <1>1
<1> HIDE DEF m, x
<1>5. r \in ScanRecords /\ r.pc = "scan" /\ r.cluster = {} /\ r.m = m
  <2>1. cnt[x] \in Int /\ target \in Int /\ m \in Spots /\ "scan" \in AllPcs
        BY <1>3, AllPcsAre DEF Spots
  <2>. QED  BY <2>1, IdleRecord DEF ScanRecords
<1> HIDE DEF r
<1>6. scan'[s] = r
      BY <1>4 DEF IInv, Scans
<1>7. QueueOf(s)' = x
      BY <1>2, <1>5, <1>6, QueueIs DEF x, Scanners
<1>8. scan[s].pc \notin Waiting \cup Away
      BY <1>2 DEF Waiting, Away, Claimed
<1>9. r.m = NoPage \/ r.m \in Range(q[QueueOf(s)'])
      BY <1>3, <1>5, <1>7
<1>10. /\ r.pc \in {"idle", "scan"} \/ (r.pc = "active" /\ s = "daemon")
       /\ r.cluster = {} /\ r \in ScanRecords
       BY <1>5
<1>. QED  BY <1>2, <1>4, <1>8, <1>9, <1>10, ScanRests

LEMMA ScanEndKeeps ==
    ASSUME IInv, NEW s \in Scanners, ScanEnd(s)
    PROVE  IInv' /\ Freed
<1> DEFINE m == IF q["active"] = <<>> THEN NoPage ELSE q["active"][1]
           a == [Idle EXCEPT !.pc = "active", !.maxscan = cnt["active"] + 1, !.m = m]
           r == IF s = "launderer" THEN Idle ELSE a
<1>1. /\ scan[s].pc = "scan" /\ pg' = pg /\ q' = q /\ cnt' = cnt /\ plock' = plock
      /\ olock' = olock /\ user' = user /\ panicked' = panicked
      /\ scan' = [scan EXCEPT ![s] = r]
      BY DEF ScanEnd
<1>2. /\ cnt["active"] + 1 \in Int
      /\ m = NoPage \/ m \in Range(q["active"])
      /\ m \in Pages \cup Markers \cup {NoPage}
  <2>1. "active" \in Queues /\ Memory
        BY DEF Queues, IInv
  <2>2. /\ cnt["active"] \in Nat /\ Range(q["active"]) \subseteq Pages \cup Markers
        /\ q["active"] # <<>> => q["active"][1] \in Range(q["active"])
        BY <2>1, QueueTypes
  <2>. QED  BY <2>1, <2>2
<1> HIDE DEF m
<1>3. a \in ScanRecords /\ a.pc = "active" /\ a.cluster = {} /\ a.m = m
  <2>1. cnt["active"] + 1 \in Int /\ m \in Spots /\ "active" \in AllPcs
        BY <1>2, AllPcsAre DEF Spots
  <2>. QED  BY <2>1, IdleRecord DEF ScanRecords
<1> HIDE DEF a
<1>4. /\ r \in ScanRecords /\ r.cluster = {}
      /\ r.pc = "idle" \/ (s = "daemon" /\ r.pc = "active" /\ r.m = m)
  <2>1. s = "launderer" => r = Idle
        OBVIOUS
  <2>2. s # "launderer" => r = a
        OBVIOUS
  <2>3. s = "launderer" \/ s = "daemon"
        BY DEF Scanners
  <2> HIDE DEF r
  <2>4. CASE s = "launderer"
        BY <2>1, <2>4, IdleRecord
  <2>5. CASE s = "daemon"
        BY <1>3, <2>2, <2>5
  <2>. QED  BY <2>3, <2>4, <2>5
<1> HIDE DEF r
<1>5. scan'[s] = r
      BY <1>1 DEF IInv, Scans
<1>6. r.pc # "idle" => QueueOf(s)' = "active" /\ r.m = m
      BY <1>4, <1>5, QueueIs
<1>7. scan[s].pc \notin Waiting \cup Away
      BY <1>1 DEF Waiting, Away, Claimed
<1>. QED  BY <1>1, <1>2, <1>4, <1>6, <1>7, ScanRests

LEMMA ActiveEndKeeps ==
    ASSUME IInv, ActiveEnd
    PROVE  IInv' /\ Freed
<1>1. /\ scan["daemon"].pc = "active" /\ pg' = pg /\ q' = q /\ cnt' = cnt /\ plock' = plock
      /\ olock' = olock /\ user' = user /\ panicked' = panicked
      /\ scan' = [scan EXCEPT !["daemon"] = Idle] /\ "daemon" \in Scanners
      BY DEF ActiveEnd, Scanners
<1>2. scan["daemon"].pc \notin Waiting \cup Away
      BY <1>1 DEF Waiting, Away, Claimed
<1>. QED  BY <1>1, <1>2, IdleRecord, ScanRests

-----------------------------------------------------------------------------
(* A scan with a page it has claimed *)

LEMMA PcSet ==
    ASSUME Scans, NEW s \in Scanners, NEW pc \in Pcs(s),
           scan' = [scan EXCEPT ![s] = [scan[s] EXCEPT !.pc = pc]]
    PROVE  /\ Scans' /\ scan'[s].pc = pc /\ scan'[s].m = scan[s].m
           /\ scan'[s].object = scan[s].object /\ scan'[s].cluster = scan[s].cluster
           /\ \A t \in Scanners \ {s} : scan'[t] = scan[t]
<1>1. pc \in AllPcs /\ scan[s] \in ScanRecords
      BY AllPcsAre DEF Scans
<1> DEFINE r == [scan[s] EXCEPT !.pc = pc]
<1>2. /\ r \in ScanRecords /\ r.pc = pc /\ r.m = scan[s].m /\ r.object = scan[s].object
      /\ r.cluster = scan[s].cluster
      BY <1>1 DEF ScanRecords
<1> HIDE DEF r
<1>. QED  BY <1>2, ScanSet DEF r

\* It tests the page, or removes its mappings.
LEMMA HoldsOn ==
    ASSUME IInv, NEW s \in Scanners, scan[s].pc \in Claimed, NEW m, m = scan[s].m,
           Moves(m), q' = q, plock' = plock, olock' = olock, user' = user, panicked' = panicked,
           NEW pc \in {"unmap", "decide"}, scan' = [scan EXCEPT ![s] = [scan[s] EXCEPT !.pc = pc]],
           Fixed(pg[m], pg'[m]), pg'[m].queue = pg[m].queue,
           pc = "decide" => pg'[m].dirty \/ ~pg'[m].mapped
    PROVE  IInv' /\ Freed
<1>1. /\ m \in Pages /\ scan[s].object \in Objects
      /\ plock[m] = s /\ olock[scan[s].object] = s /\ pg[m].object = scan[s].object
      /\ pg[m].busy = "no" /\ pg[m].hold = 0 /\ pg[m].wire = 0
      /\ pg[m].queue = IF s = "daemon" THEN "none" ELSE "laundry"
      BY DEF IInv, Place, Claims
<1>2. pc \in Pcs(s) /\ Scans
      BY DEF Pcs, IInv
<1>3. /\ Scans' /\ scan'[s].pc = pc /\ scan'[s].m = m
      /\ scan'[s].object = scan[s].object /\ scan'[s].cluster = scan[s].cluster
      /\ \A t \in Scanners \ {s} : scan'[t] = scan[t]
      BY <1>2, PcSet
<1>4. Acts(s)
      BY <1>1 DEF Acts, Moves
<1>5. Memory' /\ Locks' /\ ~panicked'
      BY DEF Moves, IInv, Locks
<1>6. \A t \in Scanners : ListsKept(t)
      BY MovesLists
<1>7. Place(s)'
  <2>1. Marked(s) /\ scan[s].pc \in Away /\ scan'[s].pc \in Away
        BY <1>3 DEF IInv, Place, Away, Claimed
  <2>2. Marked(s)'
        BY <2>1, StaysAway DEF Moves
  <2>3. At(s)'
        BY <1>3 DEF At, Running, Waiting
  <2>4. Claims(s)'
        BY <1>1, <1>3 DEF Claims, Fixed
  <2>. QED  BY <2>2, <2>3, <2>4 DEF Place
<1>8. Busying'
  <2>1. CASE s = "launderer"
    <3>1. L.cluster = {} /\ L'.cluster = {} /\ L'.pc = pc
          BY <1>3, <2>1 DEF IInv, Busying, L, Claimed
    <3>. QED  BY <3>1 DEF Busying
  <2>2. CASE s # "launderer"
    <3>1. m \notin L.cluster /\ scan'["launderer"] = scan["launderer"]
          BY <1>3, <2>2, ClaimedApart DEF Scanners
    <3>. QED  BY <1>1, <3>1, MovesCluster
  <2>. QED  BY <2>1, <2>2
<1>9. s \in Actors /\ s # "user"
      BY DEF Scanners, Actors
<1>10. Freed
      BY <1>1, PageQueuesAssumption DEF Freed, Moves, Fixed
<1>. QED  BY <1>3, <1>4, <1>5, <1>6, <1>7, <1>8, <1>9, <1>10, StepKeeps

LEMMA TestDirtyKeeps ==
    ASSUME IInv, NEW s \in Scanners, TestDirty(s)
    PROVE  IInv' /\ Freed
<1> DEFINE m == scan[s].m
           f == vm_page_test_dirty(Here, m)
<1>1. PICK refs \in RefCounts(scan[s].object) :
         LET tested == pg[m].valid /\ refs
         IN  /\ Put(IF tested THEN f ELSE Here)
             /\ scan' = [scan EXCEPT ![s].pc =
                    IF tested /\ ~f.pg[m].dirty THEN "unmap" ELSE "decide"]
      BY DEF TestDirty
<1> DEFINE tested == pg[m].valid /\ refs
           t  == IF tested THEN f ELSE Here
           pc == IF tested /\ ~f.pg[m].dirty THEN "unmap" ELSE "decide"
<1>2. /\ Put(t) /\ scan' = [scan EXCEPT ![s] = [scan[s] EXCEPT !.pc = pc]]
      /\ scan[s].pc = "test" /\ plock' = plock /\ olock' = olock /\ user' = user
      /\ panicked' = panicked
      BY <1>1 DEF TestDirty
<1>3. /\ m \in Pages /\ pg[m].object = scan[s].object /\ pg[m].busy = "no"
      /\ Sound(Here) /\ Memory
      BY <1>2 DEF IInv, Memory, Place, Claims, Claimed
<1>4. scan[s].pc \in Claimed /\ pc \in {"unmap", "decide"}
      BY <1>2 DEF Claimed
<1>5. /\ Moved(Here, f, m) /\ f.q = Here.q /\ Fixed(Here.pg[m], f.pg[m])
      /\ f.pg[m].queue = Here.pg[m].queue
      BY <1>3, TestDirtyMoved
<1>6. Moved(Here, Here, m) /\ Fixed(pg[m], pg[m])
      BY <1>3, Unmoved DEF Fixed
<1>7. refs \in BOOLEAN /\ (~refs => ~pg[m].mapped)
      BY <1>1, <1>3 DEF RefCounts
<1> HIDE DEF f, m
<1>8. /\ Moved(Here, t, m) /\ t.q = q /\ Fixed(pg[m], t.pg[m])
      /\ t.pg[m].queue = pg[m].queue
      BY <1>5, <1>6, HereFields
<1>9. pc = "decide" => t.pg[m].dirty \/ ~t.pg[m].mapped
  <2>1. pg[m].mapped => pg[m].valid
        BY <1>3, OwnedPage DEF Sane
  <2>2. CASE tested
        BY <2>2
  <2>3. CASE ~tested
        BY <1>7, <2>1, <2>3, HereFields
  <2>. QED  BY <2>2, <2>3
<1> HIDE DEF t, pc
<1>10. Writing(t.pg[m])
      BY <1>3, <1>8 DEF Writing, Fixed
<1>11. Moves(m) /\ pg' = t.pg /\ q' = q
      BY <1>2, <1>3, <1>8, <1>10, MovedMoves
<1>12. Fixed(pg[m], pg'[m]) /\ pg'[m].queue = pg[m].queue
       /\ (pc = "decide" => pg'[m].dirty \/ ~pg'[m].mapped)
      BY <1>8, <1>9, <1>11
<1>13. m = scan[s].m
      BY DEF m
<1>. QED  BY <1>2, <1>4, <1>11, <1>12, <1>13, HoldsOn

LEMMA RemoveMappingsKeeps ==
    ASSUME IInv, NEW s \in Scanners, RemoveMappings(s)
    PROVE  IInv' /\ Freed
<1> DEFINE m == scan[s].m
           t == pmap_remove(Here, m)
<1>1. /\ Put(t) /\ scan' = [scan EXCEPT ![s] = [scan[s] EXCEPT !.pc = "decide"]]
      /\ scan[s].pc = "unmap" /\ plock' = plock /\ olock' = olock /\ user' = user
      /\ panicked' = panicked
      BY DEF RemoveMappings
<1>2. m \in Pages /\ pg[m].busy = "no" /\ Sound(Here) /\ Memory /\ scan[s].pc \in Claimed
      BY <1>1 DEF IInv, Memory, Place, Claims, Claimed
<1>3. /\ Moved(Here, t, m) /\ t.q = Here.q /\ Fixed(Here.pg[m], t.pg[m])
      /\ t.pg[m].queue = Here.pg[m].queue /\ ~t.pg[m].mapped
      BY <1>2, PmapRemoveMoved
<1> HIDE DEF t, m
<1>4. Writing(t.pg[m])
      BY <1>2, <1>3, HereFields DEF Writing, Fixed
<1>5. Moves(m) /\ pg' = t.pg /\ q' = q
      BY <1>1, <1>2, <1>3, <1>4, HereFields, MovedMoves
<1>6. Fixed(pg[m], pg'[m]) /\ pg'[m].queue = pg[m].queue /\ ~pg'[m].mapped
      BY <1>3, <1>5, HereFields
<1>7. m = scan[s].m
      BY DEF m
<1>. QED  BY <1>1, <1>2, <1>5, <1>6, <1>7, HoldsOn

\* It unlocks the page and the object, and goes back to the queue or waits for
\* the vnode.
LEMMA LetsGo ==
    ASSUME IInv, NEW s \in Scanners, scan[s].pc = "decide", NEW m, m = scan[s].m,
           Moves(m), UnlockBoth(s), user' = user, ~panicked',
           NEW r \in ScanRecords, r.pc = "next" \/ (r.pc = "vnode" /\ s = "launderer"),
           r.m = m, r.object = scan[s].object, r.cluster = scan[s].cluster,
           scan' = [scan EXCEPT ![s] = r],
           pg'[m].queue \in {pg[m].queue, "none", "laundry"},
           pg'[m].queue = "laundry" => s = "launderer" \/ QueueFree("laundry"),
           pg'[m].object = NoObject => pg[m].data = "saved"
    PROVE  IInv' /\ Freed
<1>1. /\ m \in Pages /\ scan[s].object \in Objects
      /\ plock[m] = s /\ olock[scan[s].object] = s /\ pg[m].object = scan[s].object
      /\ pg[m].queue = IF s = "daemon" THEN "none" ELSE "laundry"
      BY DEF IInv, Place, Claims, Claimed
<1>2. r.pc \in Pcs(s) /\ Scans
      BY DEF Pcs, IInv
<1>3. /\ Scans' /\ scan'[s] = r /\ \A t \in Scanners \ {s} : scan'[t] = scan[t]
      BY <1>2, ScanSet
<1>4. Acts(s)
      BY <1>1 DEF Acts, Moves, UnlockBoth, IInv, Locks
<1>5. Memory' /\ Locks'
      BY <1>1 DEF Moves, IInv, Locks, UnlockBoth, Owners
<1>6. ASSUME NEW t \in Scanners \ {s} PROVE ListsKept(t)
  <2>1. CASE s = "launderer"
    <3>1. QueueOf(t) \in {"inactive", "active"}
          BY <2>1, QueueIs DEF Scanners
    <3>. QED  BY <1>1, <2>1, <3>1, MovesLists
  <2>2. CASE s = "daemon"
    <3>1. t = "launderer" /\ QueueOf(t) = "laundry"
          BY <2>2, QueueIs DEF Scanners
    <3>2. Running(t) => ~QueueFree("laundry")
          BY <3>1 DEF QueueFree
    <3>3. Running(t) => QueueOf(t) \notin {pg[m].queue, pg'[m].queue}
          BY <1>1, <2>2, <3>1, <3>2
    <3>. QED  BY <3>3, MovesLists
  <2>. QED  BY <2>1, <2>2 DEF Scanners
<1>7. Place(s)'
  <2>1. Marked(s) /\ scan[s].pc \in Away /\ scan'[s].pc \in Away
        BY <1>3 DEF IInv, Place, Away, Claimed
  <2>2. Marked(s)'
        BY <2>1, StaysAway DEF Moves
  <2>3. At(s)'
        BY <1>1, <1>3 DEF At, Running, Waiting
  <2>4. Claims(s)'
        BY <1>3 DEF Claims, Claimed
  <2>. QED  BY <2>2, <2>3, <2>4 DEF Place
<1>8. Busying'
  <2>1. CASE s = "launderer"
    <3>1. L.cluster = {} /\ L'.cluster = {} /\ L'.pc \in {"next", "vnode"}
          BY <1>3, <2>1 DEF IInv, Busying, L
    <3>. QED  BY <3>1 DEF Busying
  <2>2. CASE s # "launderer"
    <3>1. m \notin L.cluster /\ scan'["launderer"] = scan["launderer"]
          BY <1>3, <2>2, ClaimedApart DEF Scanners, Claimed
    <3>2. \A o \in Objects : olock[o] = "launderer" => olock'[o] = "launderer"
          BY <1>1, <2>2 DEF UnlockBoth, IInv, Locks
    <3>. QED  BY <1>1, <3>1, <3>2, MovesCluster
  <2>. QED  BY <2>1, <2>2
<1>9. s \in Actors /\ s # "user"
      BY DEF Scanners, Actors
<1>10. Freed
      BY <1>1 DEF Freed, Moves
<1>. QED  BY <1>3, <1>4, <1>5, <1>6, <1>7, <1>8, <1>9, <1>10, StepKeeps

\* A page to be reclaimed has nothing that the store lacks.
LEMMA ReclaimedSaved ==
    ASSUME IInv, NEW s \in Scanners, scan[s].pc = "decide", Reclaimable(scan[s].m)
    PROVE  pg[scan[s].m].data = "saved" /\ ~FreePanics(Here, scan[s].m)
<1> DEFINE m == scan[s].m
<1>1. /\ m \in Pages /\ pg[m].busy = "no" /\ pg[m].wire = 0
      /\ pg[m].dirty \/ ~pg[m].mapped
      BY DEF IInv, Place, Claims, Claimed
<1>2. Sane(pg[m])
      BY <1>1, OwnedPage DEF IInv, Memory
<1>. QED  BY <1>1, <1>2, HereFields DEF Reclaimable, Sane, FreePanics

\* It frees the page.
LEMMA FreesPage ==
    ASSUME IInv, NEW s \in Scanners, scan[s].pc = "decide", NEW m, m = scan[s].m,
           Put(vm_page_free(Here, m))
    PROVE  Moves(m) /\ pg'[m].queue = "none"
<1> DEFINE t == vm_page_free(Here, m)
<1>1. m \in Pages /\ Sound(Here) /\ Memory
      BY DEF IInv, Memory, Place, Claims, Claimed
<1>2. Moved(Here, t, m) /\ t.pg[m] \in {FreePage, HeldPage}
      BY <1>1, FreeMoved
<1> HIDE DEF t
<1>3. t.pg[m].queue = "none" /\ Writing(t.pg[m])
      BY <1>2, Ownerless DEF Writing
<1>4. Put(t)
      BY DEF t
<1>. QED  BY <1>1, <1>2, <1>3, <1>4, MovedMoves

\* It moves the page to the laundry, or leaves it, or requeues it.
LEMMA ShiftsPage ==
    ASSUME IInv, NEW s \in Scanners, scan[s].pc = "decide", NEW m, m = scan[s].m,
           NEW t, t = Here \/ t = MoveTo(Here, "laundry", m) \/ t = vm_page_requeue(Here, m),
           Put(t)
    PROVE  /\ Moves(m) /\ pg'[m].queue \in {pg[m].queue, "laundry"}
           /\ pg'[m].object # NoObject
<1>1. /\ m \in Pages /\ Sound(Here) /\ Memory /\ pg[m] \in PageType /\ pg[m].wire = 0
      /\ pg[m].object # NoObject /\ pg[m].busy = "no"
      BY HereFields, PageQueuesAssumption DEF IInv, Memory, Place, Claims, Claimed, Sound, States
<1>2. CASE t = Here \/ t = vm_page_requeue(Here, m)
  <2>1. Moved(Here, t, m) /\ t.pg = pg
        BY <1>1, <1>2, HereFields, Unmoved, RequeueMoved
  <2>2. Writing(t.pg[m])
        BY <1>1, <2>1 DEF Writing
  <2>. QED  BY <1>1, <2>1, <2>2, MovedMoves
<1>3. CASE t = MoveTo(Here, "laundry", m)
  <2>1. Moved(Here, t, m) /\ Alike(pg[m], t.pg[m])
    <3>1. "laundry" \in Queues /\ Here.pg[m].object # NoObject
          BY <1>1, HereFields DEF Queues
    <3>. QED  BY <1>1, <1>3, <3>1, HereFields, MoveToMoved
  <2>2. /\ Writing(t.pg[m]) /\ t.pg[m].object # NoObject
    <3>1. Fixed(pg[m], t.pg[m])
          BY <1>1, <2>1, AlikeFixed
    <3>. QED  BY <1>1, <3>1 DEF Writing, Fixed
  <2>3. t.pg[m].queue = "laundry"
    <3>1. CASE pg[m].queue = "laundry"
          BY <1>3, <3>1, HereFields DEF MoveTo
    <3>2. CASE pg[m].queue # "laundry"
      <4>1. /\ "laundry" \in Queues /\ Here.pg[m].object # NoObject /\ Here.pg[m].wire = 0
            /\ Here.pg[m].queue # "laundry"
            BY <1>1, <3>2, HereFields DEF Queues
      <4>. QED  BY <1>1, <1>3, <4>1, MoveToLands
    <3>. QED  BY <3>1, <3>2
  <2>. QED  BY <1>1, <2>1, <2>2, <2>3, MovedMoves
<1>. QED  BY <1>2, <1>3

Decided(a, pc, n) == [a EXCEPT !.pc = pc, !.target = n]

LEMMA DecidedRecord ==
    ASSUME NEW a \in ScanRecords, NEW n \in Int, NEW pc \in AllPcs, NEW b, b = Decided(a, pc, n)
    PROVE  /\ b \in ScanRecords /\ b.pc = pc /\ b.m = a.m /\ b.object = a.object
           /\ b.cluster = a.cluster
BY DEF ScanRecords, Decided

LEMMA DaemonDecideKeeps ==
    ASSUME IInv, DaemonDecide
    PROVE  IInv' /\ Freed
<1> DEFINE s == "daemon"
           m == scan[s].m
           o == scan[s]
<1>1. /\ s \in Scanners /\ o.pc = "decide" /\ UnlockBoth(s) /\ user' = user
      /\ o \in ScanRecords /\ "next" \in AllPcs
      BY AllPcsAre DEF DaemonDecide, Scanners, IInv, Scans
<1>2. CASE /\ Reclaimable(m) /\ Put(vm_page_free(Here, m))
           /\ panicked' = (panicked \/ FreePanics(Here, m))
           /\ scan' = [scan EXCEPT ![s].pc = "next", ![s].target = scan[s].target - 1]
  <2> DEFINE r == [o EXCEPT !.pc = "next", !.target = o.target - 1]
  <2>1. pg[m].data = "saved" /\ ~panicked'
        BY <1>1, <1>2, ReclaimedSaved DEF IInv
  <2>2. Moves(m) /\ pg'[m].queue = "none"
        BY <1>1, <1>2, FreesPage
  <2>3. scan' = [scan EXCEPT ![s] = r]
        BY <1>2
  <2>4. r \in ScanRecords /\ r.pc = "next" /\ r.m = m /\ r.object = o.object /\ r.cluster = o.cluster
    <3>2. o.target - 1 \in Int
          BY <1>1 DEF ScanRecords
    <3> HIDE DEF o
    <3>3. r \in ScanRecords /\ r.pc = "next" /\ r.m = o.m /\ r.object = o.object /\ r.cluster = o.cluster
      <4> DEFINE n == o.target - 1
      <4>1. o \in ScanRecords /\ "next" \in AllPcs /\ n \in Int /\ r = Decided(o, "next", n)
            BY <1>1, <3>2, Zenon DEF Decided
      <4> HIDE DEF n, r
      <4>. QED  BY ONLY <4>1, DecidedRecord
    <3>. QED  BY <3>3 DEF o
  <2> HIDE DEF r
  <2>5. m = scan[s].m
        OBVIOUS
  <2> HIDE DEF m
  <2>6. /\ pg'[m].queue \in {pg[m].queue, "none", "laundry"}
        /\ pg'[m].queue = "laundry" => s = "launderer" \/ QueueFree("laundry")
        /\ pg'[m].object = NoObject => pg[m].data = "saved"
        BY <2>1, <2>2
  <2>. QED  BY <1>1, <2>1, <2>2, <2>3, <2>4, <2>5, <2>6, LetsGo
<1>3. CASE /\ QueueFree("laundry")
           /\ Put(IF scan[s].object \in dead THEN Here ELSE MoveTo(Here, "laundry", m))
           /\ scan' = [scan EXCEPT ![s].pc = "next"] /\ panicked' = panicked
  <2> DEFINE t == IF scan[s].object \in dead THEN Here ELSE MoveTo(Here, "laundry", m)
             r == [o EXCEPT !.pc = "next"]
  <2>1. t = Here \/ t = MoveTo(Here, "laundry", m) \/ t = vm_page_requeue(Here, m)
        OBVIOUS
  <2>2. Put(t) /\ scan' = [scan EXCEPT ![s] = r] /\ ~panicked'
        BY <1>3 DEF IInv
  <2> HIDE DEF t
  <2>3. r \in ScanRecords /\ r.pc = "next" /\ r.m = m /\ r.object = o.object /\ r.cluster = o.cluster
        BY <1>1 DEF ScanRecords
  <2> HIDE DEF r
  <2>4. m = scan[s].m
        OBVIOUS
  <2> HIDE DEF m
  <2>5. Moves(m) /\ pg'[m].queue \in {pg[m].queue, "laundry"} /\ pg'[m].object # NoObject
        BY <1>1, <2>1, <2>2, <2>4, ShiftsPage
  <2>6. /\ pg'[m].queue \in {pg[m].queue, "none", "laundry"}
        /\ pg'[m].queue = "laundry" => s = "launderer" \/ QueueFree("laundry")
        /\ pg'[m].object = NoObject => pg[m].data = "saved"
        BY <1>3, <2>5
  <2>. QED  BY <1>1, <2>2, <2>3, <2>4, <2>5, <2>6, LetsGo
<1>. QED  BY <1>2, <1>3 DEF DaemonDecide

LEMMA LaunderDecideKeeps ==
    ASSUME IInv, LaunderDecide
    PROVE  IInv' /\ Freed
<1> DEFINE s == "launderer"
           m == L.m
           o == scan[s]
           r(pc) == [L EXCEPT !.pc = pc]
<1>1. /\ s \in Scanners /\ o.pc = "decide" /\ user' = user /\ L = o
      /\ o \in ScanRecords /\ m = o.m
      BY DEF LaunderDecide, Scanners, IInv, Scans, L
<1>2. ASSUME NEW pc \in AllPcs
      PROVE  /\ r(pc) \in ScanRecords /\ r(pc).pc = pc /\ r(pc).m = m /\ r(pc).object = o.object
             /\ r(pc).cluster = o.cluster
      BY <1>1 DEF ScanRecords
<1>3. {"next", "vnode", "cluster"} \subseteq AllPcs
      BY AllPcsAre
<1> HIDE DEF r, m
<1>4. CASE /\ Reclaimable(m) /\ Put(vm_page_free(Here, m))
           /\ panicked' = (panicked \/ FreePanics(Here, m))
           /\ UnlockBoth(s) /\ scan' = [scan EXCEPT ![s] = r("next")]
  <2>1. pg[m].data = "saved" /\ ~panicked'
        BY <1>1, <1>4, ReclaimedSaved DEF IInv
  <2>2. Moves(m) /\ pg'[m].queue = "none"
        BY <1>1, <1>4, FreesPage
  <2>3. /\ pg'[m].queue \in {pg[m].queue, "none", "laundry"}
        /\ pg'[m].queue = "laundry" => s = "launderer" \/ QueueFree("laundry")
        /\ pg'[m].object = NoObject => pg[m].data = "saved"
        BY <2>1, <2>2
  <2>4. /\ r("next") \in ScanRecords /\ r("next").pc = "next" /\ r("next").m = m
        /\ r("next").object = o.object /\ r("next").cluster = o.cluster
        BY <1>2, <1>3
  <2>. QED  BY <1>1, <1>4, <2>1, <2>2, <2>3, <2>4, LetsGo
<1>5. ASSUME Put(Here) \/ Put(vm_page_requeue(Here, m)), panicked' = panicked, UnlockBoth(s),
             NEW pc \in {"next", "vnode"}, scan' = [scan EXCEPT ![s] = r(pc)]
      PROVE  IInv' /\ Freed
  <2>1. Moves(m) /\ pg'[m].queue \in {pg[m].queue, "laundry"} /\ pg'[m].object # NoObject
        BY <1>1, <1>5, ShiftsPage
  <2>2. /\ pg'[m].queue \in {pg[m].queue, "none", "laundry"}
        /\ pg'[m].queue = "laundry" => s = "launderer" \/ QueueFree("laundry")
        /\ pg'[m].object = NoObject => pg[m].data = "saved"
        BY <2>1
  <2>3. /\ r(pc) \in ScanRecords /\ r(pc).m = m
        /\ r(pc).object = o.object /\ r(pc).cluster = o.cluster
        /\ r(pc).pc = "next" \/ (r(pc).pc = "vnode" /\ s = "launderer")
        BY <1>2, <1>3
  <2>4. ~panicked'
        BY <1>5 DEF IInv
  <2>. QED  BY <1>1, <1>5, <2>1, <2>2, <2>3, <2>4, LetsGo
<1>6. CASE /\ scan' = [scan EXCEPT ![s] = r("cluster")]
           /\ UNCHANGED <<pg, q, cnt, plock, olock, panicked>>
  <2>1. /\ r("cluster") \in ScanRecords /\ r("cluster").pc = "cluster" /\ r("cluster").m = m
        /\ r("cluster").object = o.object /\ r("cluster").cluster = o.cluster
        BY <1>2, <1>3
  <2>2. scan'[s] = r("cluster") /\ r("cluster").pc \in Pcs(s)
        BY <1>1, <1>6, <2>1 DEF IInv, Scans, Pcs
  <2>3. Marked(s)'
    <3>1. Marked(s) /\ scan[s].pc \in Away /\ scan'[s].pc \in Away
          BY <1>1, <2>1, <2>2 DEF IInv, Place, Away, Claimed
    <3>. QED  BY <1>1, <1>6, <3>1, StaysAway
  <2>4. At(s)'
        BY <2>1, <2>2 DEF At, Running, Waiting
  <2>5. Claims(s)'
    <3>1. Claims(s)
          BY <1>1 DEF IInv, Place
    <3>. QED  BY <1>1, <1>6, <2>1, <2>2, <3>1 DEF Claims, Claimed
  <2>6. Busying'
    <3>1. L.cluster = {} /\ L'.cluster = {} /\ L'.pc = "cluster"
          BY <1>1, <2>1, <2>2 DEF IInv, Busying, L
    <3>. QED  BY <3>1 DEF Busying
  <2>. QED  BY <1>1, <1>6, <2>1, <2>2, <2>3, <2>4, <2>5, <2>6, OnlyScan DEF Place
<1>. QED
  <2>1. Put(Here) <=> UNCHANGED <<pg, q, cnt>>
        BY HereFields DEF Put
  <2>. QED  BY <1>1, <1>4, <1>5, <1>6, <2>1 DEF LaunderDecide, LScan, r, m

-----------------------------------------------------------------------------
(* Laundering *)

\* The launderer goes on, with the queue's lock dropped.
LEMMA LaunderKeeps ==
    ASSUME IInv, L.pc \in Away, NEW r \in ScanRecords, r.pc \in Away \cap Pcs("launderer"),
           LScan(r), Acts("launderer"), Memory', Locks', ListsKept("daemon"),
           \A x \in Queues, k \in Markers : k \in Range(q'[x]) <=> k \in Range(q[x]),
           user' = user, ~panicked', At("launderer")', Claims("launderer")', Busying'
    PROVE  IInv'
<1> DEFINE s == "launderer"
<1>1. s \in Scanners /\ scan' = [scan EXCEPT ![s] = r] /\ r.pc \in Pcs(s) /\ Scans /\ L = scan[s]
      BY DEF Scanners, LScan, IInv, L
<1>2. Scans' /\ scan'[s] = r /\ \A t \in Scanners \ {s} : scan'[t] = scan[t]
      BY <1>1, ScanSet
<1>3. Marked(s)'
      BY <1>1, <1>2, StaysAway DEF IInv, Place
<1>4. \A t \in Scanners \ {s} : ListsKept(t)
      BY DEF Scanners
<1>5. s \in Actors /\ s # "user"
      BY DEF Scanners, Actors
<1>6. Place(s)'
      BY <1>3 DEF Place
<1>. QED  BY <1>2, <1>4, <1>5, <1>6, StepKeeps

LEMMA LIs ==
    ASSUME IInv
    PROVE  /\ L = scan["launderer"] /\ L \in ScanRecords /\ "launderer" \in Scanners
           /\ \A r : LScan(r) => L' = r /\ scan'["launderer"] = r
BY DEF L, LScan, IInv, Scans, Scanners

LEMMA VnodeLockKeeps ==
    ASSUME IInv, VnodeLock
    PROVE  IInv' /\ Freed
<1> DEFINE s == "launderer"
           n == [L EXCEPT !.pc = "next"]
           r == [L EXCEPT !.pc = "cluster"]
<1>1. /\ L.pc = "vnode" /\ L = scan[s] /\ L \in ScanRecords /\ s \in Scanners
      /\ pg' = pg /\ q' = q /\ cnt' = cnt /\ user' = user /\ panicked' = panicked
      BY LIs DEF VnodeLock
<1>2. L.m \in Pages /\ L.object \in Objects /\ L.cluster = {}
      BY <1>1 DEF IInv, Place, At, Busying
<1>3. CASE LScan(n) /\ plock' = plock /\ olock' = olock
  <2>1. n \in ScanRecords /\ n.pc = "next" /\ n.cluster = {}
        BY <1>1, <1>2, AllPcsAre DEF ScanRecords
  <2> HIDE DEF n
  <2>2. L' = n /\ scan'[s] = n /\ scan' = [scan EXCEPT ![s] = n] /\ n.pc \in Pcs(s)
        BY <1>3, <2>1, LIs DEF LScan, Pcs
  <2>3. Marked(s)'
    <3>1. Marked(s) /\ scan[s].pc \in Away /\ scan'[s].pc \in Away
          BY <1>1, <2>1, <2>2 DEF IInv, Place, Away
    <3>. QED  BY <1>1, <3>1, StaysAway
  <2>4. At(s)' /\ Claims(s)' /\ Busying'
        BY <2>1, <2>2 DEF At, Claims, Busying, Running, Waiting, Claimed
  <2>. QED  BY <1>1, <1>3, <2>1, <2>2, <2>3, <2>4, OnlyScan DEF Place
<1>4. CASE /\ Free(olock[L.object]) /\ Free(plock[L.m])
           /\ StillDirty(L.m, L.object) /\ LScan(r)
           /\ plock' = [plock EXCEPT ![L.m] = s] /\ olock' = [olock EXCEPT ![L.object] = s]
  <2>1. /\ r \in ScanRecords /\ r.pc = "cluster" /\ r.m = L.m /\ r.object = L.object
        /\ r.cluster = {}
        BY <1>1, <1>2, AllPcsAre DEF ScanRecords
  <2> HIDE DEF r
  <2>2. L' = r /\ scan'[s] = r
        BY <1>4, LIs
  <2>3. Acts(s) /\ Locks'
        BY <1>1, <1>2, <1>4 DEF Acts, Free, IInv, Locks, Owners, Scanners
  <2>4. Memory' /\ ListsKept("daemon")
        BY <1>1 DEF IInv, Memory, Here, ListsKept
  <2>5. pg[L.m].wire = 0
        BY <1>2, <1>4, OwnedPage DEF IInv, Memory, StillDirty
  <2>6. Claims(s)'
        BY <1>1, <1>2, <1>4, <2>1, <2>2, <2>5
        DEF Claims, StillDirty, Busied, IInv, Locks
  <2>7. At(s)' /\ Busying'
        BY <2>1, <2>2 DEF At, Busying, Running, Waiting
  <2>8. L.pc \in Away /\ r.pc \in Away \cap Pcs("launderer") /\ ~panicked'
        BY <1>1, <2>1 DEF Away, Claimed, Pcs, IInv
  <2>9. \A x \in Queues, k \in Markers : k \in Range(q'[x]) <=> k \in Range(q[x])
        BY <1>1
  <2>10. Freed
        BY <1>1 DEF Freed
  <2>. QED  BY <1>1, <1>4, <2>1, <2>3, <2>4, <2>6, <2>7, <2>8, <2>9, <2>10, LaunderKeeps
<1>. QED  BY <1>3, <1>4 DEF VnodeLock

LEMMA ClusterKeeps ==
    ASSUME IInv, Cluster
    PROVE  IInv' /\ Freed
<1> DEFINE s == "launderer"
           m == L.m
           t == pmap_remove(Here, m)
           r == [L EXCEPT !.pc = "grow", !.cluster = {m}]
<1>1. /\ L.pc = "cluster" /\ L = scan[s] /\ L \in ScanRecords /\ s \in Scanners
      /\ Put(t) /\ plock' = [plock EXCEPT ![m] = NoOne] /\ LScan(r)
      /\ olock' = olock /\ user' = user /\ ~panicked'
      BY LIs DEF Cluster, IInv
<1>2. /\ m \in Pages /\ L.object \in Objects /\ plock[m] = s /\ olock[L.object] = s
      /\ pg[m].object = L.object /\ pg[m].busy = "no" /\ Sound(Here) /\ Memory
      BY <1>1 DEF IInv, Memory, Place, Claims, Claimed
<1>3. /\ Moved(Here, t, m) /\ t.q = Here.q /\ Fixed(Here.pg[m], t.pg[m])
      /\ ~t.pg[m].mapped
      BY <1>2, PmapRemoveMoved
<1>4. /\ r \in ScanRecords /\ r.pc = "grow" /\ r.m = m /\ r.object = L.object
      /\ r.cluster = {m}
      BY <1>1, <1>2, AllPcsAre DEF ScanRecords
<1> HIDE DEF t, r, m
<1>5. Writing(t.pg[m])
      BY <1>2, <1>3, HereFields DEF Writing, Fixed
<1>6. Moves(m) /\ pg' = t.pg /\ q' = q
      BY <1>1, <1>2, <1>3, <1>5, HereFields, MovedMoves
<1>7. pg'[m].object = L.object /\ pg'[m].busy = "no" /\ ~pg'[m].mapped
      BY <1>2, <1>3, <1>6, HereFields DEF Fixed
<1>8. L' = r /\ scan'[s] = r
      BY <1>1, LIs
<1>9. Acts(s) /\ Locks' /\ Memory' /\ ListsKept("daemon")
  <2>1. Acts(s) /\ Locks' /\ Memory'
        BY <1>1, <1>2, <1>6 DEF Acts, IInv, Locks, Owners, Moves
  <2>2. "daemon" \in Scanners
        BY DEF Scanners
  <2>. QED  BY <1>6, <2>1, <2>2, MovesLists
<1>10. At(s)' /\ Claims(s)' /\ Busying'
       BY <1>1, <1>2, <1>4, <1>7, <1>8 DEF At, Claims, Busying, Running, Waiting, Claimed
<1>11. L.pc \in Away /\ r.pc \in Away \cap Pcs("launderer")
       BY <1>1, <1>4 DEF Away, Claimed, Pcs
<1>12. Freed
       BY <1>2, <1>6, <1>7, PageQueuesAssumption DEF Freed, Moves
<1>. QED  BY <1>1, <1>4, <1>6, <1>9, <1>10, <1>11, <1>12, LaunderKeeps DEF Moves

LEMMA GrowKeeps ==
    ASSUME IInv, NEW p \in Pages, Grow(p)
    PROVE  IInv' /\ Freed
<1> DEFINE s == "launderer"
           f == vm_page_test_dirty(Here, p)
           t == pmap_remove(Here, p)
           r == [L EXCEPT !.cluster = L.cluster \cup {p}]
<1>1. /\ L.pc = "grow" /\ L = scan[s] /\ L \in ScanRecords /\ s \in Scanners
      /\ p \notin L.cluster /\ pg[p].object = L.object /\ plock[p] = NoOne
      /\ plock' = plock /\ olock' = olock /\ user' = user /\ panicked' = panicked
      BY LIs DEF Grow, Free
<1>2. /\ L.object \in Objects /\ olock[L.object] = s /\ pg[p].busy = "no"
      /\ Sound(Here) /\ Memory
      BY <1>1 DEF IInv, Memory, Place, At, Busying, Grow, Busied
<1>3. CASE Put(t) /\ LScan(r)
  <2>1. /\ Moved(Here, t, p) /\ t.q = Here.q /\ Fixed(Here.pg[p], t.pg[p])
        /\ ~t.pg[p].mapped
        BY <1>2, PmapRemoveMoved
  <2>2. /\ r \in ScanRecords /\ r.pc = "grow" /\ r.m = L.m /\ r.object = L.object
        /\ r.cluster = L.cluster \cup {p}
        BY <1>1 DEF ScanRecords
  <2> HIDE DEF t, r
  <2>3. Writing(t.pg[p])
        BY <1>2, <2>1, HereFields DEF Writing, Fixed
  <2>4. Moves(p) /\ pg' = t.pg /\ q' = q
        BY <1>2, <1>3, <2>1, <2>3, HereFields, MovedMoves
  <2>5. pg'[p].object = L.object /\ pg'[p].busy = "no" /\ ~pg'[p].mapped
        BY <1>1, <1>2, <2>1, <2>4, HereFields DEF Fixed
  <2>6. L' = r /\ scan'[s] = r
        BY <1>3, LIs
  <2>7. Acts(s) /\ Locks' /\ Memory' /\ ListsKept("daemon")
    <3>1. Acts(s) /\ Locks' /\ Memory'
          BY <1>1, <2>4 DEF Acts, IInv, Locks, Moves
    <3>2. "daemon" \in Scanners
          BY DEF Scanners
    <3>. QED  BY <2>4, <3>1, <3>2, MovesLists
  <2>8. At(s)' /\ Claims(s)'
        BY <1>2, <2>2, <2>6 DEF At, Claims, Running, Waiting, Claimed
  <2>9. Busying'
    <3>1. \A o \in L.cluster : o \in Pages \ {p} /\ pg'[o] = pg[o]
          BY <1>1, <2>4 DEF Moves, ScanRecords
    <3>2. \A o \in r.cluster : /\ pg'[o].object = L.object /\ ~pg'[o].mapped
                               /\ pg'[o].busy = "no"
          BY <1>1, <2>2, <2>5, <3>1 DEF IInv, Busying
    <3>. QED  BY <1>1, <1>2, <2>2, <2>6, <3>2 DEF Busying
  <2>10. L.pc \in Away /\ r.pc \in Away \cap Pcs("launderer") /\ ~panicked'
         BY <1>1, <2>2 DEF Away, Pcs, IInv
  <2>11. Freed
         BY <1>2, <2>4, <2>5, PageQueuesAssumption DEF Freed, Moves
  <2>. QED  BY <1>1, <1>3, <2>2, <2>4, <2>7, <2>8, <2>9, <2>10, <2>11, LaunderKeeps DEF Moves
<1>4. CASE Put(f) /\ UNCHANGED scan
  <2>1. Moved(Here, f, p) /\ f.q = Here.q /\ Fixed(Here.pg[p], f.pg[p])
        BY <1>2, TestDirtyMoved
  <2> HIDE DEF f
  <2>2. Writing(f.pg[p])
        BY <1>2, <2>1, HereFields DEF Writing, Fixed
  <2>3. Moves(p) /\ pg' = f.pg /\ q' = q
        BY <1>2, <1>4, <2>1, <2>2, HereFields, MovedMoves
  <2>4. pg'[p].object = L.object
        BY <1>1, <2>1, <2>3, HereFields DEF Fixed
  <2>5. Acts(s) /\ Locks' /\ Memory' /\ Scans' /\ ~panicked'
        BY <1>1, <1>4, <2>3 DEF Acts, IInv, Locks, Moves, Scans
  <2>6. \A x \in Scanners : ListsKept(x)
        BY <2>3, MovesLists
  <2>7. Place(s)'
    <3>1. Marked(s)'
          BY <1>1, <1>4, <2>3, StaysAway DEF IInv, Place, Moves, Away
    <3>2. At(s)' /\ Claims(s)'
          BY <1>1, <1>2, <1>4 DEF At, Claims, Running, Waiting, Claimed
    <3>. QED  BY <3>1, <3>2 DEF Place
  <2>8. Busying'
        BY <1>1, <1>4, <2>3, MovesCluster
  <2>9. s \in Actors /\ s # "user"
        BY DEF Scanners, Actors
  <2>10. Freed
         BY <1>4 DEF Freed
  <2>. QED  BY <1>1, <1>4, <2>5, <2>6, <2>7, <2>8, <2>9, <2>10, StepKeeps
<1>. QED  BY <1>3, <1>4 DEF Grow

\* A page of the cluster as the pager gets it.
Handed(r) == [r EXCEPT !.busy = "s", !.data = IF r.data = "unsaved" THEN "saving" ELSE r.data]

LEMMA HandedOver ==
    ASSUME NEW a \in PageType, Sane(a), a.object # NoObject, ~a.mapped, a.busy = "no"
    PROVE  /\ Handed(a) \in PageType /\ Sane(Handed(a)) /\ Writing(Handed(a)) /\ ~Handed(a).mapped
           /\ Handed(a).queue = a.queue /\ Handed(a).object = a.object /\ Handed(a).busy = "s"
           /\ Handed(a).free = a.free
<1> DEFINE d == IF a.data = "unsaved" THEN "saving" ELSE a.data
<1>1. d \in {"saved", "saving"} /\ (d # "saved" => a.data # "saved")
      BY DEF PageType
<1>2. Handed(a) = [a EXCEPT !.busy = "s", !.data = d]
      BY DEF Handed
<1> HIDE DEF d
<1>3. ASSUME NEW b, b = [a EXCEPT !.busy = "s", !.data = d]
      PROVE  /\ b \in PageType /\ b.data = d /\ b.busy = "s" /\ b.object = a.object
             /\ b.wire = a.wire /\ b.queue = a.queue /\ b.mod = a.mod /\ b.mapped = a.mapped
             /\ b.dirty = a.dirty /\ b.valid = a.valid /\ b.free = a.free
             /\ b.unholdfree = a.unholdfree
      BY <1>1, <1>3 DEF PageType
<1>4. Sane(Handed(a))
      BY <1>1, <1>2, <1>3 DEF Sane
<1>. QED  BY <1>1, <1>2, <1>3, <1>4 DEF Writing

LEMMA FlushKeeps ==
    ASSUME IInv, Flush
    PROVE  IInv' /\ Freed
<1> DEFINE s == "launderer"
           r == [L EXCEPT !.pc = "put"]
<1>1. /\ L.pc = "grow" /\ L = scan[s] /\ L \in ScanRecords /\ s \in Scanners
      /\ pg' = [p \in Pages |-> IF p \notin L.cluster THEN pg[p] ELSE Handed(pg[p])] /\ LScan(r)
      /\ q' = q /\ cnt' = cnt /\ plock' = plock /\ user' = user
      /\ olock' = [olock EXCEPT ![L.object] = NoOne]
      /\ panicked' = (panicked \/ \E p \in L.cluster : pg[p].busy = "x")
      BY LIs DEF Flush, Handed
<1>2. /\ L.object \in Objects /\ olock[L.object] = s /\ Sound(Here) /\ Memory
      /\ \A p \in L.cluster : p \in Pages /\ pg[p].object = L.object /\ pg[p].busy = "no"
                              /\ ~pg[p].mapped
      BY <1>1 DEF IInv, Memory, Place, At, Busying, ScanRecords
<1>3. ASSUME NEW p \in L.cluster
      PROVE  /\ Handed(pg[p]) \in PageType /\ Sane(Handed(pg[p])) /\ Writing(Handed(pg[p])) /\ ~Handed(pg[p]).mapped
             /\ Handed(pg[p]).queue = pg[p].queue /\ Handed(pg[p]).object = pg[p].object /\ Handed(pg[p]).busy = "s"
             /\ Handed(pg[p]).free = pg[p].free
  <2>1. pg[p] \in PageType /\ Sane(pg[p]) /\ pg[p].object \in Objects /\ ~pg[p].mapped
        /\ pg[p].busy = "no"
        BY <1>2, OwnedPage
  <2>2. pg[p].object # NoObject
        BY <2>1, PageQueuesAssumption
  <2>. QED  BY <2>1, <2>2, HandedOver
<1>4. r \in ScanRecords /\ r.pc = "put" /\ r.object = L.object /\ r.cluster = L.cluster
      BY <1>1, AllPcsAre DEF ScanRecords
<1> HIDE DEF r
<1>5. /\ \A p \in Pages \ L.cluster : pg'[p] = pg[p]
      /\ \A p \in L.cluster : pg'[p] = Handed(pg[p])
      BY <1>1, <1>2
<1>6. \A p \in Pages : /\ pg'[p] \in PageType /\ Sane(pg'[p]) /\ Writing(pg'[p])
                       /\ pg'[p].queue = pg[p].queue /\ pg'[p].object = pg[p].object
                       /\ pg'[p].free = pg[p].free
      BY <1>2, <1>3, <1>5, OwnedPage DEF Memory
<1>7. Memory'
  <2> DEFINE h == [pg |-> pg', q |-> q, cnt |-> cnt]
  <2>1. Here' = h /\ h.pg = pg' /\ h.q = q /\ h.cnt = cnt
        BY <1>1 DEF Here
  <2>2. pg' \in [Pages -> PageType]
        BY <1>1, <1>6
  <2>3. h \in States
        BY <1>2, <2>2, HereFields DEF Sound, States
  <2> HIDE DEF h
  <2>4. ASSUME NEW x \in Queues PROVE Listed(h, x)
    <3>1. On(h, x) = On(Here, x)
          BY <1>6, <2>1, HereFields DEF On
    <3>2. Listed(Here, x)
          BY <1>2 DEF Sound
    <3>. QED  BY <1>6, <2>1, <3>1, <3>2, HereFields DEF Listed
  <2>. QED  BY <1>6, <2>1, <2>3, <2>4 DEF Memory, Sound
<1>8. L' = r /\ scan'[s] = r /\ scan' = [scan EXCEPT ![s] = r] /\ r.pc \in Pcs(s)
      BY <1>1, <1>4, LIs DEF LScan, Pcs
<1>9. Scans' /\ \A t \in Scanners \ {s} : scan'[t] = scan[t]
      BY <1>1, <1>4, <1>8, ScanSet DEF IInv
<1>10. ASSUME NEW w \in Actors \ {s} PROVE Keeps(w)
  <2>1. w # NoOne /\ w # s
        BY PageQueuesAssumption DEF Actors
  <2>2. \A o \in Objects : olock[o] = w => o # L.object /\ olock'[o] = w
        BY <1>1, <1>2, <2>1 DEF IInv, Locks
  <2>3. \A p \in Pages : pg[p].object \in Objects /\ olock[pg[p].object] = w => p \notin L.cluster
        BY <1>2, <2>2
  <2>4. \A p \in Pages : ~pg[p].free /\ plock[p] = w /\ olock[pg[p].object] = w => pg'[p] = pg[p]
    <3>1. ASSUME NEW p \in L.cluster PROVE olock[pg[p].object] = s
          BY <1>2
    <3>. QED  BY <1>5, <2>1, <3>1
  <2>. QED  BY <1>1, <1>6, <2>2, <2>4 DEF Keeps
<1>11. Locks' /\ ~panicked'
       BY <1>1, <1>2 DEF IInv, Locks, Owners
<1>12. \A t \in Scanners : ListsKept(t)
       BY <1>1 DEF ListsKept
<1>13. Place(s)'
  <2>1. Marked(s)'
        BY <1>1, <1>4, <1>8, StaysAway DEF IInv, Place, Away
  <2>2. At(s)' /\ Claims(s)'
        BY <1>2, <1>4, <1>8 DEF At, Claims, Running, Waiting, Claimed
  <2>. QED  BY <2>1, <2>2 DEF Place
<1>14. Busying'
  <2>1. \A p \in L.cluster : pg'[p].object = L.object /\ ~pg'[p].mapped /\ pg'[p].busy = "s"
        BY <1>2, <1>3, <1>5
  <2>2. L'.cluster = L.cluster /\ L'.object = L.object /\ L'.pc = "put"
        BY <1>4, <1>8
  <2>. QED  BY <2>1, <2>2 DEF Busying
<1>15. s \in Actors \cup {NoOne} /\ s # "user"
       BY DEF Scanners, Actors
<1>16. Freed
       BY <1>6 DEF Freed
<1>. QED  BY <1>1, <1>7, <1>9, <1>10, <1>11, <1>12, <1>13, <1>14, <1>15, <1>16, OthersKept

LEMMA PutReturnsKeeps ==
    ASSUME IInv, PutReturns
    PROVE  IInv' /\ Freed
<1> DEFINE s == "launderer"
           r == [L EXCEPT !.pc = "result"]
<1>1. /\ L.pc = "put" /\ L = scan[s] /\ L \in ScanRecords /\ s \in Scanners
      /\ olock[L.object] = NoOne /\ olock' = [olock EXCEPT ![L.object] = s] /\ LScan(r)
      /\ pg' = pg /\ q' = q /\ cnt' = cnt /\ plock' = plock /\ user' = user
      /\ panicked' = panicked
      BY LIs DEF PutReturns, Free
<1>2. L.object \in Objects
      BY <1>1 DEF IInv, Place, At
<1>3. r \in ScanRecords /\ r.pc = "result" /\ r.object = L.object /\ r.cluster = L.cluster
      BY <1>1, AllPcsAre DEF ScanRecords
<1> HIDE DEF r
<1>4. L' = r /\ scan'[s] = r
      BY <1>1, LIs
<1>5. Acts(s) /\ Locks' /\ Memory' /\ ListsKept("daemon") /\ ~panicked'
      BY <1>1 DEF Acts, IInv, Locks, Owners, Scanners, Memory, Here, ListsKept
<1>6. At(s)' /\ Claims(s)'
      BY <1>2, <1>3, <1>4 DEF At, Claims, Running, Waiting, Claimed
<1>7. Busying'
  <2>1. olock'[L.object] = s
        BY <1>1, <1>2 DEF IInv, Locks
  <2>. QED  BY <1>1, <1>3, <1>4, <2>1 DEF Busying, IInv
<1>8. L.pc \in Away /\ r.pc \in Away \cap Pcs("launderer")
      BY <1>1, <1>3 DEF Away, Pcs
<1>9. Freed
      BY <1>1 DEF Freed
<1>. QED  BY <1>1, <1>3, <1>5, <1>6, <1>7, <1>8, <1>9, LaunderKeeps

LEMMA ResultKeeps ==
    ASSUME IInv, NEW p \in Pages, Result(p)
    PROVE  IInv' /\ Freed
<1> DEFINE s == "launderer"
<1>1. PICK e \in Results(p) : Put(e[1]) /\ LScan([L EXCEPT !.cluster = L.cluster \ {p},
                                                          !.paged = L.paged + e[2]])
      BY DEF Result
<1> DEFINE u == e[1]
           r == [L EXCEPT !.cluster = L.cluster \ {p}, !.paged = L.paged + e[2]]
<1>2. /\ L.pc = "result" /\ L = scan[s] /\ L \in ScanRecords /\ s \in Scanners
      /\ p \in L.cluster /\ plock[p] = NoOne /\ Put(u) /\ LScan(r)
      /\ plock' = plock /\ olock' = olock /\ user' = user /\ panicked' = panicked
      /\ QueueFree("inactive") /\ QueueFree("active")
      BY <1>1, LIs DEF Result, Free
<1>3. /\ L.object \in Objects /\ olock[L.object] = s /\ pg[p].busy = "s"
      /\ pg[p].object = L.object /\ pg[p].object # NoObject /\ Sound(Here) /\ Memory
      /\ Writing(pg[p])
      BY <1>2, PageQueuesAssumption DEF IInv, Memory, Place, At, Busying
<1>4. u = Here \/ Done(u, p)
      BY <1>1, <1>3, ResultDone
<1>5. e[2] \in Int
      BY <1>1 DEF Results
<1>6. r \in ScanRecords /\ r.pc = "result" /\ r.object = L.object /\ r.cluster = L.cluster \ {p}
  <2> DEFINE n == L.paged + e[2]
  <2>1. n \in Int
        BY <1>2, <1>5 DEF ScanRecords
  <2> HIDE DEF n
  <2>2. ASSUME NEW b, b = [L EXCEPT !.cluster = L.cluster \ {p}, !.paged = n]
        PROVE  b \in ScanRecords /\ b.pc = "result" /\ b.object = L.object /\ b.cluster = L.cluster \ {p}
        BY <1>2, <2>1, <2>2 DEF ScanRecords
  <2>. QED  BY <2>2 DEF n
<1> HIDE DEF u, r
<1>7. /\ Moved(Here, u, p) /\ Writing(u.pg[p]) /\ u.pg[p].object = L.object
  <2>1. CASE u = Here
        BY <1>3, <2>1, HereFields, Unmoved
  <2>2. CASE Done(u, p)
        BY <1>3, <2>2 DEF Done, Writing
  <2>. QED  BY <1>4, <2>1, <2>2
<1>8. Moves(p) /\ pg' = u.pg /\ q' = u.q
      BY <1>2, <1>3, <1>7, MovedMoves
<1>9. L' = r /\ scan'[s] = r
      BY <1>2, LIs
<1>10. Acts(s) /\ Locks' /\ Memory' /\ ListsKept("daemon")
  <2>1. Acts(s) /\ Locks' /\ Memory'
        BY <1>2, <1>8 DEF Acts, IInv, Locks, Moves
  <2>2. "daemon" \in Scanners /\ ~Running("daemon")
        BY <1>2, QueueIs DEF Scanners, QueueFree
  <2>. QED  BY <1>8, <2>1, <2>2, MovesLists
<1>11. At(s)' /\ Claims(s)'
      BY <1>3, <1>6, <1>9 DEF At, Claims, Running, Waiting, Claimed
<1>12. Busying'
  <2>1. \A o \in r.cluster : o \in Pages \ {p} /\ pg'[o] = pg[o] /\ o \in L.cluster
        BY <1>2, <1>6, <1>8 DEF Moves, ScanRecords
  <2>. QED  BY <1>2, <1>3, <1>6, <1>9, <2>1 DEF IInv, Busying
<1>13. L.pc \in Away /\ r.pc \in Away \cap Pcs("launderer") /\ ~panicked'
      BY <1>2, <1>6 DEF Away, Pcs, IInv
<1>14. Freed
      BY <1>3, <1>7, <1>8 DEF Freed, Moves
<1>. QED  BY <1>2, <1>6, <1>8, <1>10, <1>11, <1>12, <1>13, <1>14, LaunderKeeps DEF Moves

LEMMA FlushEndKeeps ==
    ASSUME IInv, FlushEnd
    PROVE  IInv' /\ Freed
<1> DEFINE s == "launderer"
           t == L.target - L.paged
           n == IF L.paged = 0 THEN L.maxscan ELSE L.maxscan - (L.paged - 1)
           r == [L EXCEPT !.pc = "next", !.paged = 0, !.target = t, !.maxscan = n]
<1>1. /\ L.pc = "result" /\ L = scan[s] /\ L \in ScanRecords /\ s \in Scanners
      /\ L.cluster = {} /\ LScan(r) /\ olock' = [olock EXCEPT ![L.object] = NoOne]
      /\ pg' = pg /\ q' = q /\ cnt' = cnt /\ plock' = plock /\ user' = user
      /\ panicked' = panicked
      BY LIs DEF FlushEnd
<1>2. L.object \in Objects /\ olock[L.object] = s
      BY <1>1 DEF IInv, Place, At, Busying
<1>3. t \in Int /\ n \in Int
      BY <1>1 DEF ScanRecords
<1> HIDE DEF t, n
<1>4. r \in ScanRecords /\ r.pc = "next" /\ r.cluster = {}
  <2>1. "next" \in AllPcs /\ 0 \in Int
        BY AllPcsAre
  <2> DEFINE c == [L EXCEPT !.pc = "next", !.paged = 0]
  <2>2. c \in ScanRecords /\ c.pc = "next" /\ c.cluster = {}
        BY <1>1, <2>1 DEF ScanRecords
  <2>3. r = [c EXCEPT !.target = t, !.maxscan = n]
        OBVIOUS
  <2> HIDE DEF c, r
  <2>. QED  BY <1>3, <2>2, <2>3 DEF ScanRecords
<1> HIDE DEF r
<1>5. L' = r /\ scan'[s] = r
      BY <1>1, LIs
<1>6. Acts(s) /\ Locks' /\ Memory' /\ ListsKept("daemon") /\ ~panicked'
      BY <1>1, <1>2 DEF Acts, IInv, Locks, Owners, Memory, Here, ListsKept
<1>7. At(s)' /\ Claims(s)' /\ Busying'
      BY <1>4, <1>5 DEF At, Claims, Busying, Running, Waiting, Claimed
<1>8. L.pc \in Away /\ r.pc \in Away \cap Pcs("launderer")
      BY <1>1, <1>4 DEF Away, Pcs
<1>9. Freed
      BY <1>1 DEF Freed
<1>. QED  BY <1>1, <1>4, <1>6, <1>7, <1>8, <1>9, LaunderKeeps

\* A step of nobody, on a page that nobody has locked.
LEMMA WriteDoneKeeps ==
    ASSUME IInv, NEW p \in Pages, WriteDone(p)
    PROVE  IInv' /\ Freed
<1>1. PICK u : (u = Written(p) \/ u = Failed(p)) /\ Put(u)
      BY DEF WriteDone
<1>2. /\ pg[p].busy = "s" /\ p \notin L.cluster /\ plock[p] = NoOne
      /\ plock' = plock /\ olock' = olock /\ scan' = scan /\ user' = user
      /\ panicked' = panicked
      /\ \A x \in Queues : QueueFree(x)
      BY DEF WriteDone, Free, Queues
<1>3. Sound(Here) /\ Memory /\ Writing(pg[p]) /\ pg[p].object # NoObject
  <2>1. Sound(Here) /\ Memory /\ Writing(pg[p])
        BY DEF IInv, Memory
  <2>2. Sane(pg[p])
        BY <2>1, OwnedPage
  <2>. QED  BY <1>2, <2>1, <2>2, Ownerless DEF Sane
<1>4. Done(u, p)
      BY <1>1, <1>2, <1>3, ResultDone
<1>5. Moves(p) /\ pg' = u.pg /\ q' = u.q
      BY <1>1, <1>3, <1>4, MovedMoves DEF Done, Writing
<1>6. ASSUME NEW w \in Actors PROVE Keeps(w)
  <2>1. w # NoOne
        BY PageQueuesAssumption DEF Actors
  <2>. QED  BY <1>2, <1>5, <2>1 DEF Keeps, Moves
<1>7. \A t \in Scanners : scan'[t] = scan[t] /\ ListsKept(t)
  <2>1. \A t \in Scanners : ~Running(t)
        BY <1>2, QueueIs DEF QueueFree
  <2>. QED  BY <1>2, <1>5, <2>1, MovesLists
<1>8. Memory' /\ Locks' /\ Scans' /\ ~panicked'
      BY <1>2, <1>5 DEF IInv, Locks, Moves, Scans
<1>9. Busying'
      BY <1>2, <1>5, MovesCluster
<1>10. NoOne \in Actors \cup {NoOne} /\ NoOne \notin Scanners /\ NoOne # "user"
      BY PageQueuesAssumption
<1>11. Freed
      BY <1>2 DEF Freed
<1>. QED  BY <1>2, <1>6, <1>7, <1>8, <1>9, <1>10, <1>11, OthersKept

-----------------------------------------------------------------------------
(* Users *)

\* Page p, which nobody else has locked or claimed, gets the fields of r.
LEMMA ChangesPage ==
    ASSUME IInv, NEW p \in Pages, NEW r \in PageType, Sane(r), Writing(r),
           pg' = [pg EXCEPT ![p] = r], r.queue = pg[p].queue,
           q' = q, cnt' = cnt, plock' = plock, olock' = olock, scan' = scan, user' = user,
           panicked' = panicked, p \notin L.cluster,
           ~pg[p].free => /\ ~r.free /\ r.object = pg[p].object /\ r.busy = pg[p].busy
                          /\ r.hold = pg[p].hold /\ r.wire = pg[p].wire
                          /\ pg[p].dirty \/ ~pg[p].mapped => r.dirty \/ ~r.mapped
    PROVE  IInv' /\ Freed
<1> DEFINE t == Edit(Here, p, r)
<1>1. Sound(Here) /\ Memory
      BY DEF IInv, Memory
<1>2. /\ Moved(Here, t, p) /\ t.q = Here.q /\ t.pg[p] = r
      BY <1>1, HereFields, EditMoved
<1>3. Put(t)
  <2>1. t.pg = [pg EXCEPT ![p] = r] /\ t.q = q /\ t.cnt = cnt
        BY DEF Edit, Here
  <2>. QED  BY <2>1 DEF Put
<1> HIDE DEF t
<1>4. Moves(p) /\ pg'[p] = r
      BY <1>1, <1>2, <1>3, MovedMoves
<1>5. ASSUME NEW w \in Actors PROVE Keeps(w)
      BY <1>4 DEF Keeps, Moves
<1>6. \A x \in Scanners : scan'[x] = scan[x] /\ ListsKept(x)
      BY DEF ListsKept
<1>7. Memory' /\ Locks' /\ Scans' /\ ~panicked'
      BY <1>4 DEF IInv, Locks, Moves, Scans
<1>8. Busying'
      BY <1>4, MovesCluster
<1>9. NoOne \in Actors \cup {NoOne} /\ NoOne \notin Scanners /\ NoOne # "user"
      BY PageQueuesAssumption
<1>10. Freed
      BY DEF Freed
<1>. QED  BY <1>5, <1>6, <1>7, <1>8, <1>9, <1>10, OthersKept

LEMMA AllocKeeps ==
    ASSUME IInv, NEW p \in Pages, NEW o \in Objects, Alloc(p, o)
    PROVE  IInv' /\ Freed
<1> DEFINE r == [FreePage EXCEPT !.object = o, !.busy = "x", !.free = FALSE]
<1>1. /\ pg[p].free /\ pg' = [pg EXCEPT ![p] = r]
      /\ q' = q /\ cnt' = cnt /\ plock' = plock /\ olock' = olock /\ scan' = scan
      /\ user' = user /\ panicked' = panicked
      BY DEF Alloc
<1>2. /\ r.object = o /\ r.busy = "x" /\ ~r.free /\ ~r.unholdfree /\ r.queue = "none"
      /\ r.wire = 0 /\ ~r.mod /\ ~r.mapped /\ r.data = "saved" /\ r \in PageType
  <2>1. ~FreePage.unholdfree
        BY Zenon DEF FreePage
  <2>2. /\ FreePage \in PageType /\ FreePage.queue = "none" /\ FreePage.wire = 0
        /\ ~FreePage.mapped /\ ~FreePage.mod /\ FreePage.data = "saved"
        BY Ownerless
  <2> DEFINE z == FALSE
  <2>3. z \in BOOLEAN /\ ~z /\ r = [FreePage EXCEPT !.object = o, !.busy = "x", !.free = z]
        OBVIOUS
  <2> HIDE DEF r, z
  <2>. QED  BY <2>1, <2>2, <2>3 DEF PageType
<1> HIDE DEF r
<1>3. Sane(r) /\ Writing(r)
      BY <1>2, PageQueuesAssumption DEF Sane, Writing
<1>4. pg[p].object = NoObject /\ pg[p].queue = "none"
      BY <1>1, OwnedPage, Ownerless DEF IInv, Memory, Sane
<1>5. p \notin L.cluster
      BY <1>4, PageQueuesAssumption, LIs DEF IInv, Busying, Place, At
<1>. QED  BY <1>1, <1>2, <1>3, <1>4, <1>5, ChangesPage

LEMMA WriteKeeps ==
    ASSUME IInv, NEW p \in Pages, Write(p)
    PROVE  IInv' /\ Freed
<1> DEFINE r == [pg[p] EXCEPT !.mod = TRUE, !.data = "unsaved"]
<1>1. /\ pg[p].mapped /\ pg' = [pg EXCEPT ![p] = r]
      /\ q' = q /\ cnt' = cnt /\ plock' = plock /\ olock' = olock /\ scan' = scan
      /\ user' = user /\ panicked' = panicked
      BY DEF Write
<1>2. pg[p] \in PageType /\ Sane(pg[p]) /\ Writing(pg[p])
      BY OwnedPage DEF IInv, Memory
<1>3. pg[p].object # NoObject /\ pg[p].valid /\ pg[p].busy # "s"
      BY <1>1, <1>2, Ownerless DEF Sane, Writing
<1>4. p \notin L.cluster
      BY <1>1 DEF IInv, Busying
<1>5. ASSUME NEW a \in PageType, Sane(a), a.object # NoObject, a.mapped, a.valid, a.busy # "s",
             NEW b, b = [a EXCEPT !.mod = TRUE, !.data = "unsaved"]
      PROVE  /\ b \in PageType /\ Sane(b) /\ Writing(b) /\ b.queue = a.queue
             /\ b.object = a.object /\ b.busy = a.busy /\ b.hold = a.hold /\ b.wire = a.wire
             /\ b.free = a.free /\ b.dirty = a.dirty /\ b.mapped
  <2>1. /\ b \in PageType /\ b.queue = a.queue
        /\ b.object = a.object /\ b.busy = a.busy /\ b.hold = a.hold /\ b.wire = a.wire
        /\ b.free = a.free /\ b.unholdfree = a.unholdfree /\ b.dirty = a.dirty
        /\ b.mapped = a.mapped /\ b.valid = a.valid /\ b.mod
        BY <1>5 DEF PageType
  <2>. QED  BY <1>5, <2>1 DEF Sane, Writing
<1>6. /\ r \in PageType /\ Sane(r) /\ Writing(r) /\ r.queue = pg[p].queue
      /\ r.object = pg[p].object /\ r.busy = pg[p].busy /\ r.hold = pg[p].hold
      /\ r.wire = pg[p].wire /\ r.free = pg[p].free /\ r.dirty = pg[p].dirty /\ r.mapped
      BY <1>1, <1>2, <1>3, <1>5
<1> HIDE DEF r
<1>. QED  BY <1>1, <1>4, <1>6, ChangesPage

LEMMA UserLockKeeps ==
    ASSUME IInv, NEW p \in Pages, UserLock(p)
    PROVE  IInv' /\ Freed
<1>1. /\ user.pc = "idle" /\ ~pg[p].free /\ plock[p] = NoOne
      /\ plock' = [plock EXCEPT ![p] = "user"]
      /\ pg' = pg /\ q' = q /\ cnt' = cnt /\ scan' = scan /\ panicked' = panicked
      BY DEF UserLock, Free
<1>2. PICK o : /\ user' = [pc |-> "locked", p |-> p, object |-> o]
               /\ \/ /\ o \in Objects /\ o = pg[p].object /\ olock[o] = NoOne
                     /\ olock' = [olock EXCEPT ![o] = "user"]
                  \/ o = NoObject /\ olock' = olock
  <2>1. pg[p] \in PageType
        BY OwnedPage DEF IInv, Memory
  <2>2. pg[p].object \in Objects \cup {NoObject}
        BY <2>1 DEF PageType
  <2>3. CASE /\ pg[p].object # NoObject /\ Free(olock[pg[p].object])
             /\ olock' = [olock EXCEPT ![pg[p].object] = "user"]
             /\ user' = [pc |-> "locked", p |-> p, object |-> pg[p].object]
        BY <2>2, <2>3 DEF Free
  <2>4. CASE /\ UNCHANGED olock
             /\ user' = [pc |-> "locked", p |-> p, object |-> NoObject]
        BY <2>4
  <2>. QED  BY <2>3, <2>4 DEF UserLock
<1>3. Acts("user") /\ Locks'
      BY <1>1, <1>2 DEF Acts, IInv, Locks, Owners
<1>4. Memory' /\ Scans' /\ ~panicked'
      BY <1>1 DEF IInv, Memory, Here, Scans
<1>5. \A x \in Scanners : scan'[x] = scan[x] /\ ListsKept(x)
      BY <1>1 DEF ListsKept
<1>6. UserClaims'
      BY <1>1, <1>2, PageQueuesAssumption DEF UserClaims, IInv, Locks
<1>7. Busying'
  <2>1. \A x \in Objects : olock[x] = "launderer" => olock'[x] = "launderer"
        BY <1>2, PageQueuesAssumption DEF IInv, Locks, Scanners
  <2>. QED  BY <1>1, <2>1, ClusterKept, LIs DEF IInv, Busying
<1>8. "user" \in Actors /\ "user" \notin Scanners
      BY DEF Actors, Scanners
<1>9. Freed
      BY <1>1 DEF Freed
<1>. QED  BY <1>3, <1>4, <1>5, <1>6, <1>7, <1>8, <1>9, StepKeeps

\* The user unlocks what it has locked.
LEMMA Unlocked ==
    ASSUME IInv, user.pc = "locked", UserUnlocks
    PROVE  /\ user.p \in Pages /\ plock[user.p] = "user" /\ ~pg[user.p].free
           /\ user.object \in Objects \cup {NoObject}
           /\ user.object \in Objects =>
                 olock[user.object] = "user" /\ pg[user.p].object = user.object
           /\ Locks' /\ Scans' /\ scan' = scan /\ ~panicked' /\ UserClaims'
           /\ \A p \in Pages : plock'[p] = plock[p] \/ plock[p] = "user"
           /\ \A o \in Objects : olock'[o] = olock[o] \/ olock[o] = "user"
<1>1. /\ user.p \in Pages /\ plock[user.p] = "user" /\ ~pg[user.p].free
      /\ user.object \in Objects \cup {NoObject}
      /\ user.object \in Objects =>
            olock[user.object] = "user" /\ pg[user.p].object = user.object
      BY DEF IInv, UserClaims
<1>2. /\ user'.pc = "idle" /\ plock' = [plock EXCEPT ![user.p] = NoOne]
      /\ olock' = [o \in Objects |-> IF o = user.object THEN NoOne ELSE olock[o]]
      /\ scan' = scan /\ panicked' = panicked
      BY DEF UserUnlocks
<1>3. Locks' /\ Scans' /\ ~panicked' /\ UserClaims'
      BY <1>1, <1>2 DEF IInv, Locks, Scans, UserClaims, Owners
<1>. QED  BY <1>1, <1>2, <1>3 DEF IInv, Locks

LEMMA UserNothingKeeps ==
    ASSUME IInv, UserNothing
    PROVE  IInv' /\ Freed
<1>1. /\ user.pc = "locked" /\ UserUnlocks /\ pg' = pg /\ q' = q /\ cnt' = cnt
      BY DEF UserNothing
<1>2. /\ Locks' /\ Scans' /\ scan' = scan /\ ~panicked' /\ UserClaims'
      /\ \A p \in Pages : plock'[p] = plock[p] \/ plock[p] = "user"
      /\ \A o \in Objects : olock'[o] = olock[o] \/ olock[o] = "user"
      BY <1>1, Unlocked
<1>3. Acts("user") /\ Memory' /\ \A x \in Scanners : ListsKept(x)
      BY <1>1, <1>2 DEF Acts, IInv, Memory, Here, ListsKept
<1>4. Busying'
      BY <1>1, <1>2, ClusterKept, LIs DEF IInv, Busying
<1>5. "user" \in Actors /\ "user" \notin Scanners
      BY DEF Actors, Scanners
<1>6. Freed
      BY <1>2 DEF Freed
<1>. QED  BY <1>2, <1>3, <1>4, <1>5, <1>6, StepKeeps

LEMMA UserOpKeeps ==
    ASSUME IInv, UserOp
    PROVE  IInv' /\ Freed
<1> DEFINE p == user.p
<1>1. PICK f \in PageOps(p) \cup (IF user.object = NoObject THEN {} ELSE ObjectOps(p)) :
         QueuesFree(f[2], p) /\ Put(f[2])
      BY DEF UserOp
<1> DEFINE u == f[2]
<1>2. user.pc = "locked" /\ UserUnlocks /\ Put(u) /\ QueuesFree(u, p)
      BY <1>1 DEF UserOp
<1>3. /\ p \in Pages /\ plock[p] = "user"
      /\ user.object \in Objects \cup {NoObject}
      /\ user.object \in Objects => olock[user.object] = "user" /\ pg[p].object = user.object
      /\ Locks' /\ Scans' /\ scan' = scan /\ ~panicked' /\ UserClaims'
      /\ \A x \in Pages : plock'[x] = plock[x] \/ plock[x] = "user"
      /\ \A x \in Objects : olock'[x] = olock[x] \/ olock[x] = "user"
      BY <1>2, Unlocked
<1>4. Sound(Here) /\ Memory /\ Writing(pg[p])
      BY <1>3 DEF IInv, Memory
<1>5. /\ Moved(Here, u, p) /\ Settled(pg[p], u.pg[p])
      /\ Light(pg[p], u.pg[p]) \/ user.object \in Objects
  <2>1. CASE f \in PageOps(p)
        BY <1>3, <1>4, <2>1, PageOpsMoved
  <2>2. CASE f \in ObjectOps(p) /\ user.object # NoObject
    <3>1. pg[p].object # NoObject /\ user.object \in Objects
          BY <1>3, <2>2, PageQueuesAssumption
    <3>. QED  BY <1>3, <1>4, <2>2, <3>1, ObjectOpsMoved
  <2>. QED  BY <1>1, <2>1, <2>2
<1> HIDE DEF u, p
<1>6. Moves(p) /\ pg' = u.pg /\ q' = u.q
      BY <1>2, <1>3, <1>4, <1>5, MovedMoves DEF Settled
<1>7. Acts("user")
      BY <1>3, <1>6 DEF Acts, Moves
<1>8. ASSUME NEW t \in Scanners PROVE ListsKept(t)
  <2>1. QueueOf(t) \in Queues /\ QueueOf(t) # "none"
        BY QueueIs DEF Queues
  <2>2. Running(t) /\ QueueOf(t) \in {pg[p].queue, u.pg[p].queue} => q' = q
        BY <1>2, <1>6, <2>1 DEF QueuesFree, QueueFree
  <2>. QED  BY <1>6, <2>2, MovesLists
<1>9. Busying'
  <2>1. ASSUME p \in L.cluster
        PROVE  pg'[p].object = pg[p].object /\ pg'[p].busy = pg[p].busy /\ ~pg'[p].mapped
    <3>1. /\ L.pc \in {"grow", "put", "result"} /\ pg[p].object = L.object /\ ~pg[p].mapped
          /\ pg[p].busy = (IF L.pc = "grow" THEN "no" ELSE "s")
          /\ L.pc = "grow" => olock[L.object] = "launderer"
          /\ L.object # NoObject
          BY <2>1, LIs, PageQueuesAssumption DEF IInv, Busying, Place, At
    <3>2. CASE L.pc = "grow"
      <4>1. Light(pg[p], pg'[p])
            BY <1>3, <1>5, <1>6, <3>1, <3>2
      <4>. QED  BY <3>1, <4>1 DEF Light
    <3>3. CASE L.pc # "grow"
      <4>1. Settled(pg[p], pg'[p]) /\ pg[p].busy = "s"
            BY <1>5, <1>6, <3>1, <3>3
      <4>. QED  BY <4>1 DEF Settled, Writing
    <3>. QED  BY <3>2, <3>3
  <2>. QED  BY <1>3, <1>6, <2>1, MovesCluster
<1>10. "user" \in Actors /\ "user" \notin Scanners
      BY DEF Actors, Scanners
<1>11. Freed
      BY <1>3 DEF Freed
<1>12. Memory'
      BY <1>6 DEF Moves
<1>. QED  BY <1>3, <1>7, <1>8, <1>9, <1>10, <1>11, <1>12, StepKeeps

\* An object dies, or is used again: no list, page or lock changes.
LEMMA ObjectKeeps ==
    ASSUME IInv, UNCHANGED <<pg, q, cnt, plock, olock, scan, user, panicked>>
    PROVE  IInv' /\ Freed
<1>1. Acts("user") /\ \A x \in Scanners : ListsKept(x)
      BY DEF Acts, ListsKept
<1>2. Memory' /\ Locks' /\ Scans' /\ ~panicked' /\ UserClaims'
      BY DEF IInv, Memory, Here, Locks, Scans, UserClaims
<1>3. Busying'
      BY ClusterKept, LIs DEF IInv, Busying
<1>4. "user" \in Actors /\ "user" \notin Scanners
      BY DEF Actors, Scanners
<1>5. Freed
      BY DEF Freed
<1>. QED  BY <1>1, <1>2, <1>3, <1>4, <1>5, StepKeeps

-----------------------------------------------------------------------------
(* Markers *)

\* Lists with the same members but for the markers of scan s in its own queue.
Relists(s, l) ==
    /\ l \in [Queues -> Seq(Pages \cup Markers)]
    /\ \A x \in Queues : IsInjective(l[x])
    /\ \A x \in Queues, k \in (Pages \cup Markers) \ {s, Marker(s)} :
          k \in Range(l[x]) <=> k \in Range(q[x])
    /\ \A x \in Queues \ {QueueOf(s)} : l[x] = q[x]

\* The same without these markers.
Unlisted(s, l) ==
    /\ Relists(s, l)
    /\ \A x \in Queues : s \notin Range(l[x]) /\ Marker(s) \notin Range(l[x])

LEMMA MarkersApart ==
    ASSUME NEW s \in Scanners
    PROVE  /\ s \in Markers /\ Marker(s) \in Markers /\ s # Marker(s)
           /\ "inacthead" \in Markers \ {s, Marker(s)}
           /\ \A p \in Pages : p \notin {s, Marker(s)}
           /\ \A t \in Scanners \ {s} : /\ {t, Marker(t)} \cap {s, Marker(s)} = {}
                                        /\ QueueOf(t) # QueueOf(s)
<1>1. /\ s \in Markers /\ Marker(s) \in Markers /\ s # Marker(s)
      /\ "inacthead" \in Markers \ {s, Marker(s)}
      BY DEF Scanners, Markers, Marker
<1>2. \A p \in Pages : p \notin {s, Marker(s)}
      BY <1>1, Apart
<1>3. ASSUME NEW t \in Scanners \ {s}
      PROVE  {t, Marker(t)} \cap {s, Marker(s)} = {} /\ QueueOf(t) # QueueOf(s)
  <2>1. {t, Marker(t)} \cap {s, Marker(s)} = {}
        BY DEF Scanners, Marker
  <2>2. QueueOf(t) # QueueOf(s)
        BY QueueIs DEF Scanners
  <2>. QED  BY <2>1, <2>2
<1>. QED  BY <1>1, <1>2, <1>3

LEMMA RelistedSound ==
    ASSUME Sound(Here), NEW s \in Scanners, NEW l, Relists(s, l),
           NEW h, h = [Here EXCEPT !.q = l]
    PROVE  Sound(h) /\ h.pg = pg /\ h.q = l /\ h.cnt = cnt
<1>1. h.pg = pg /\ h.q = l /\ h.cnt = cnt
      BY DEF Here
<1>2. h \in States
      BY <1>1, HereFields DEF Sound, States, Relists, Here
<1>3. ASSUME NEW x \in Queues PROVE Listed(h, x)
  <2>1. Listed(Here, x) /\ On(h, x) = On(Here, x)
        BY <1>1, HereFields DEF Sound, On
  <2>2. \A p \in Pages : p \in Range(l[x]) <=> p \in Range(q[x])
        BY MarkersApart DEF Relists
  <2>3. "inacthead" \in Range(l[x]) <=> "inacthead" \in Range(q[x])
        BY MarkersApart DEF Relists
  <2>. QED  BY <1>1, <2>1, <2>2, <2>3, HereFields DEF Listed, Relists
<1>. QED  BY <1>1, <1>2, <1>3, HereFields DEF Sound

LEMMA RelistedMemory ==
    ASSUME Memory, NEW s \in Scanners, Relists(s, q'), pg' = pg, cnt' = cnt
    PROVE  Memory'
<1> DEFINE h == [Here EXCEPT !.q = q']
<1>1. Sound(h)
      BY RelistedSound DEF Memory
<1>2. Here' = h
      BY DEF Here
<1> HIDE DEF h
<1>. QED  BY <1>1, <1>2 DEF Memory

LEMMA RelistedOthers ==
    ASSUME NEW s \in Scanners, Relists(s, q'), NEW t \in Scanners \ {s}
    PROVE  ListsKept(t)
<1>1. /\ {t, Marker(t)} \cap {s, Marker(s)} = {} /\ QueueOf(t) # QueueOf(s)
      /\ QueueOf(t) \in Queues /\ t \in Markers /\ Marker(t) \in Markers
      BY MarkersApart, QueueIs
<1>. QED  BY <1>1 DEF Relists, ListsKept

\* A scan with its queue's lock, and one that takes it back.
LEMMA RunningUnlisted ==
    ASSUME IInv, NEW s \in Scanners, scan[s].pc \notin Waiting \cup Away
    PROVE  Unlisted(s, q)
<1>1. q \in [Queues -> Seq(Pages \cup Markers)] /\ \A x \in Queues : IsInjective(q[x])
      BY HereFields DEF IInv, Memory, Sound, States, Listed
<1>. QED  BY <1>1, Unplaced DEF Unlisted, Relists

\* Marker k is the only one of scan s, and in its queue; it leaves that queue.
OnlyMark(s, k) ==
    \A x \in Queues, j \in {s, Marker(s)} : j \in Range(q[x]) => x = QueueOf(s) /\ j = k

Leaves(x, k) == [q EXCEPT ![x] = RemoveFirst(q[x], k)]

LEMMA UnmarkedUnlisted ==
    ASSUME IInv, NEW s \in Scanners, NEW k \in {s, Marker(s)},
           OnlyMark(s, k), NEW l, l = Leaves(QueueOf(s), k)
    PROVE  Unlisted(s, l) /\ \A x \in Queues : Range(l[x]) = Range(q[x]) \ {k}
<1> DEFINE S == Pages \cup Markers
<1>1. q \in [Queues -> Seq(S)] /\ \A x \in Queues : IsInjective(q[x])
      BY HereFields DEF IInv, Memory, Sound, States, Listed
<1>2. QueueOf(s) \in Queues
      BY QueueIs
<1> HIDE DEF S
<1> DEFINE y == q[QueueOf(s)]
           r == RemoveFirst(y, k)
<1>3. y \in Seq(S) /\ IsInjective(y)
      BY <1>1, <1>2
<1>4. r \in Seq(S) /\ IsInjective(r) /\ Range(r) = Range(y) \ {k}
  <2> HIDE DEF y
  <2>. QED  BY <1>3, RemoveFirstType, RemoveContents
<1> HIDE DEF r
<1>5. l = [q EXCEPT ![QueueOf(s)] = r]
      BY DEF r, Leaves
<1>6. /\ l \in [Queues -> Seq(S)] /\ l[QueueOf(s)] = r
      /\ \A x \in Queues \ {QueueOf(s)} : l[x] = q[x]
      BY <1>1, <1>2, <1>4, <1>5
<1>7. \A x \in Queues : IsInjective(l[x]) /\ Range(l[x]) = Range(q[x]) \ {k}
  <2>1. \A x \in Queues \ {QueueOf(s)} : k \notin Range(q[x])
        BY DEF OnlyMark
  <2>. QED  BY <1>1, <1>4, <1>6, <2>1
<1>8. Relists(s, l)
      BY <1>6, <1>7 DEF Relists, S
<1>. QED  BY <1>4, <1>6, <1>7, <1>8 DEF Unlisted, OnlyMark

LEMMA UnmarkedLists ==
    ASSUME IInv, NEW s \in Scanners, scan[s].pc \in Waiting
    PROVE  Unlisted(s, Unmarked(s)) /\ \A x \in Queues : Range(Unmarked(s)[x]) = Range(q[x]) \ {s}
<1> DEFINE l == Unmarked(s)
<1>1. OnlyMark(s, s)
      BY DEF IInv, Place, Marked, Waiting, Away, Claimed, OnlyMark
<1>2. s \in {s, Marker(s)} /\ l = Leaves(QueueOf(s), s)
      BY DEF Unmarked, Leaves
<1> HIDE DEF l
<1>3. Unlisted(s, l) /\ \A x \in Queues : Range(l[x]) = Range(q[x]) \ {s}
      BY <1>1, <1>2, UnmarkedUnlisted
<1>. QED  BY <1>3 DEF l

\* A marker behind page m.
Enters(queues, x, m, k) == [queues EXCEPT ![x] = InsertAfter(queues[x], m, k)]

LEMMA Inserted ==
    ASSUME NEW s \in Scanners, NEW queues, Unlisted(s, queues),
           NEW m \in Range(queues[QueueOf(s)]), NEW k \in {s, Marker(s)},
           NEW l, l = Enters(queues, QueueOf(s), m, k)
    PROVE  /\ Relists(s, l)
           /\ \A x \in Queues, j \in {s, Marker(s)} : j \in Range(l[x]) <=> x = QueueOf(s) /\ j = k
<1> DEFINE S == Pages \cup Markers
<1>1. queues \in [Queues -> Seq(S)] /\ \A x \in Queues : IsInjective(queues[x])
      BY DEF Unlisted, Relists
<1>2. QueueOf(s) \in Queues /\ k \in S
      BY QueueIs, MarkersApart
<1> HIDE DEF S
<1> DEFINE y == queues[QueueOf(s)]
           r == InsertAfter(y, m, k)
<1>3. y \in Seq(S) /\ IsInjective(y) /\ m \in Range(y) /\ k \notin Range(y)
      BY <1>1, <1>2 DEF Unlisted
<1>4. r \in Seq(S) /\ IsInjective(r) /\ Range(r) = Range(y) \cup {k}
  <2> HIDE DEF y
  <2>. QED  BY <1>2, <1>3, AfterContents
<1> HIDE DEF r
<1>5. l = [queues EXCEPT ![QueueOf(s)] = r]
      BY DEF r, Enters
<1>6. /\ l \in [Queues -> Seq(S)] /\ l[QueueOf(s)] = r
      /\ \A x \in Queues \ {QueueOf(s)} : l[x] = queues[x]
      BY <1>1, <1>2, <1>4, <1>5
<1>7. \A x \in Queues : IsInjective(l[x])
      BY <1>1, <1>4, <1>6
<1>8. \A x \in Queues, j \in (Pages \cup Markers) \ {s, Marker(s)} :
         j \in Range(l[x]) <=> j \in Range(queues[x])
      BY <1>4, <1>6
<1>9. Relists(s, l)
      BY <1>6, <1>7, <1>8 DEF Relists, Unlisted, S
<1>10. \A x \in Queues, j \in {s, Marker(s)} : j \in Range(l[x]) <=> x = QueueOf(s) /\ j = k
  <2>1. \A x \in Queues, j \in {s, Marker(s)} : j \notin Range(queues[x])
        BY DEF Unlisted
  <2>. QED  BY <1>2, <1>4, <1>6, <2>1
<1>. QED  BY <1>9, <1>10

-----------------------------------------------------------------------------
(* Turns of a scan *)

LEMMA CountIs ==
    ASSUME Scans, NEW s \in Scanners
    PROVE  Count(s) \in Int /\ scan[s] \in ScanRecords
<1>1. scan[s] \in ScanRecords
      BY DEF Scans
<1>2. scan[s].maxscan \in Int
      BY <1>1 DEF ScanRecords
<1>3. scan[s].maxscan - 1 \in Int
      BY <1>2
<1>. QED  BY <1>1, <1>2, <1>3 DEF Count

LEMMA ContinueIs ==
    ASSUME Scans, NEW s \in Scanners, NEW next \in Spots, Continue(s, next)
    PROVE  \E r \in ScanRecords :
              /\ scan' = [scan EXCEPT ![s] = r]
              /\ r.pc = IF QueueOf(s) = "active" THEN "active" ELSE "scan"
              /\ r.m = next /\ r.cluster = scan[s].cluster /\ r.pc \in Pcs(s)
<1> DEFINE pc == IF QueueOf(s) = "active" THEN "active" ELSE "scan"
           a  == [scan[s] EXCEPT !.m = next, !.object = NoObject]
           r  == [a EXCEPT !.maxscan = Count(s), !.pc = pc]
<1>1. pc \in AllPcs /\ pc \in Pcs(s)
      BY AllPcsAre, QueueIs DEF Pcs, Scanners
<1>2. Count(s) \in Int /\ scan[s] \in ScanRecords
      BY CountIs
<1>3. a \in ScanRecords /\ a.m = next /\ a.cluster = scan[s].cluster
      BY <1>2 DEF ScanRecords
<1>4. scan' = [scan EXCEPT ![s] = r]
      BY DEF Continue
<1> HIDE DEF a, pc
<1>5. r \in ScanRecords /\ r.pc = pc /\ r.m = next /\ r.cluster = scan[s].cluster
      BY <1>1, <1>2, <1>3 DEF ScanRecords
<1> HIDE DEF r
<1>. QED  BY <1>1, <1>4, <1>5 DEF pc

Turn(s, pc, m, o) ==
    [scan[s] EXCEPT !.pc = pc, !.m = m, !.object = o, !.maxscan = Count(s)]

LEMMA TurnIs ==
    ASSUME Scans, NEW s \in Scanners, NEW pc \in AllPcs, NEW m \in Spots,
           NEW o \in Objects \cup {NoObject},
           NEW r, r = Turn(s, pc, m, o)
    PROVE  r \in ScanRecords /\ r.pc = pc /\ r.m = m /\ r.object = o /\ r.cluster = scan[s].cluster
<1> DEFINE a == [scan[s] EXCEPT !.pc = pc, !.m = m]
<1>1. Count(s) \in Int /\ scan[s] \in ScanRecords
      BY CountIs
<1>2. a \in ScanRecords /\ a.pc = pc /\ a.m = m /\ a.cluster = scan[s].cluster
      BY <1>1 DEF ScanRecords
<1>3. r = [a EXCEPT !.object = o, !.maxscan = Count(s)]
      BY DEF Turn
<1> HIDE DEF a
<1>. QED  BY <1>1, <1>2, <1>3 DEF ScanRecords

\* A turn of scan s: it changes no page that the launderer may have given to
\* the pager, other than its place.
LEMMA TurnKeeps ==
    ASSUME IInv, NEW s \in Scanners, scan[s].pc \notin {"grow", "put", "result"},
           NEW r \in ScanRecords, r.pc \in Pcs(s) \ {"grow", "result"},
           r.cluster = scan[s].cluster, scan' = [scan EXCEPT ![s] = r], Acts(s), Memory', Locks', Place(s)',
           user' = user, panicked' = panicked,
           \A t \in Scanners \ {s} : ListsKept(t),
           \A p \in Pages : /\ pg'[p].object = pg[p].object /\ pg'[p].busy = pg[p].busy
                            /\ pg'[p].mapped = pg[p].mapped
    PROVE  IInv' /\ Freed
<1>1. Scans' /\ scan'[s] = r /\ \A t \in Scanners \ {s} : scan'[t] = scan[t]
      BY ScanSet DEF IInv
<1>2. Busying'
  <2>1. CASE s = "launderer"
    <3>1. L.cluster = {} /\ L' = r
          BY <1>1, <2>1 DEF IInv, Busying, L
    <3>2. r.pc \notin {"grow", "result"} /\ r.cluster = {}
          BY <2>1, <3>1 DEF L
    <3>. QED  BY <3>1, <3>2 DEF Busying
  <2>2. CASE s # "launderer"
    <3>1. scan'["launderer"] = scan["launderer"] /\ L.cluster \subseteq Pages
          BY <1>1, <2>2, LIs DEF Scanners, ScanRecords
    <3>2. \A o \in Objects : olock[o] = "launderer" => olock'[o] = "launderer"
          BY <2>2, PageQueuesAssumption DEF Acts, Scanners
    <3>. QED  BY <3>1, <3>2, ClusterKept DEF IInv, Busying
  <2>. QED  BY <2>1, <2>2
<1>3. s \in Actors /\ s # "user" /\ ~panicked'
      BY DEF Scanners, Actors, IInv
<1>4. Freed
      BY DEF Freed
<1>. QED  BY <1>1, <1>2, <1>3, <1>4, StepKeeps

LEMMA ListMembers ==
    ASSUME NEW s \in Scanners, NEW l, Relists(s, l), NEW x \in Queues
    PROVE  Range(l[x]) \subseteq Pages \cup Markers
<1> DEFINE S == Pages \cup Markers
           y == l[x]
<1>1. y \in Seq(S)
      BY DEF Relists
<1> HIDE DEF S, y
<1>2. DOMAIN y = 1 .. Len(y) /\ \A i \in 1 .. Len(y) : y[i] \in S
      BY <1>1, LenProperties, ElementOfSeq
<1>3. Range(y) \subseteq S
      BY <1>2 DEF Range
<1>. QED  BY <1>3 DEF S, y

\* The page a scan has met.
LEMMA MetPage ==
    ASSUME IInv, NEW s \in Scanners, NEW l, Relists(s, l), NEW m \in Pages,
           m \in Range(l[QueueOf(s)])
    PROVE  /\ pg[m].queue = QueueOf(s) /\ pg[m].object \in Objects /\ pg[m].wire = 0
           /\ ~pg[m].free /\ pg[m] \in PageType
<1>1. QueueOf(s) \in Queues /\ QueueOf(s) # "none"
      BY QueueIs DEF Queues
<1>2. m \in Range(q[QueueOf(s)])
      BY <1>1, MarkersApart DEF Relists
<1>3. pg[m].queue = QueueOf(s)
      BY <1>1, <1>2, QueueTypes DEF IInv
<1>. QED  BY <1>1, <1>3, OwnedPage, PageQueuesAssumption DEF IInv, Memory

LEMMA SkipKeeps ==
    ASSUME IInv, NEW s \in Scanners, scan[s].pc \notin {"grow", "put", "result"},
           NEW queues, Unlisted(s, queues),
           NEW next, next = NoPage \/ next \in Range(queues[QueueOf(s)]), Skip(s, next, queues),
           user' = user, panicked' = panicked
    PROVE  IInv' /\ Freed
<1>1. /\ q' = queues /\ Continue(s, next) /\ pg' = pg /\ cnt' = cnt /\ plock' = plock
      /\ olock' = olock
      BY DEF Skip
<1>2. QueueOf(s) \in Queues /\ Relists(s, q') /\ Scans
      BY <1>1, QueueIs DEF Unlisted, IInv
<1>3. next \in Spots
      BY <1>1, <1>2, ListMembers DEF Spots
<1>4. PICK r \in ScanRecords :
         /\ scan' = [scan EXCEPT ![s] = r]
         /\ r.pc = IF QueueOf(s) = "active" THEN "active" ELSE "scan"
         /\ r.m = next /\ r.cluster = scan[s].cluster /\ r.pc \in Pcs(s)
      BY <1>1, <1>2, <1>3, ContinueIs
<1>5. scan'[s] = r
      BY <1>2, <1>4 DEF Scans
<1>6. QueueOf(s)' = QueueOf(s)
      BY <1>4, <1>5, QueueIs DEF Scanners
<1>7. Acts(s) /\ Memory' /\ Locks'
      BY <1>1, <1>2, RelistedMemory DEF Acts, IInv, Locks
<1>8. \A t \in Scanners \ {s} : ListsKept(t)
      BY <1>2, RelistedOthers
<1>9. Place(s)'
  <2>1. Marked(s)' /\ Claims(s)'
        BY <1>1, <1>4, <1>5, Unmarks DEF Unlisted, Waiting, Away, Claimed
  <2>2. At(s)'
        BY <1>1, <1>4, <1>5, <1>6 DEF At, Running, Waiting
  <2>. QED  BY <2>1, <2>2 DEF Place
<1>10. r.pc \in Pcs(s) \ {"grow", "result"}
      BY <1>4
<1>. QED  BY <1>1, <1>4, <1>7, <1>8, <1>9, <1>10, TurnKeeps

LEMMA WaitForKeeps ==
    ASSUME IInv, NEW s \in Scanners, scan[s].pc \notin {"grow", "put", "result"},
           NEW queues, Unlisted(s, queues),
           NEW m \in Pages, m \in Range(queues[QueueOf(s)]),
           NEW pc \in Waiting, pc = "activelock" <=> QueueOf(s) = "active",
           WaitFor(s, m, pc, queues), user' = user, panicked' = panicked
    PROVE  IInv' /\ Freed
<1> DEFINE l == Enters(queues, QueueOf(s), m, s)
           o == pg[m].object
           r == Turn(s, pc, m, o)
<1>1. /\ q' = l /\ scan' = [scan EXCEPT ![s] = r] /\ pg' = pg /\ cnt' = cnt
      /\ plock' = plock /\ olock' = olock
      BY DEF WaitFor, Enters, Turn
<1>2. /\ Relists(s, l)
      /\ \A x \in Queues, j \in {s, Marker(s)} : j \in Range(l[x]) <=> x = QueueOf(s) /\ j = s
  <2>1. /\ s \in {s, Marker(s)}
        /\ l = Enters(queues, QueueOf(s), m, s)
        OBVIOUS
  <2> HIDE DEF l
  <2>. QED  BY <2>1, Inserted
<1>3. o \in Objects
      BY MetPage DEF Unlisted
<1>4. Scans /\ pc \in Pcs(s) /\ pc \in AllPcs /\ m \in Spots /\ o \in Objects \cup {NoObject}
      BY <1>3, QueueIs, AllPcsAre DEF IInv, Pcs, Waiting, Scanners, Spots
<1>5. r \in ScanRecords /\ r.pc = pc /\ r.m = m /\ r.object = o /\ r.cluster = scan[s].cluster
  <2>1. r = Turn(s, pc, m, o)
        OBVIOUS
  <2> HIDE DEF r, o
  <2>. QED  BY <1>4, <2>1, TurnIs
<1> HIDE DEF l, o, r
<1>6. scan'[s] = r
      BY <1>1, <1>4 DEF Scans
<1>7. QueueOf(s)' = QueueOf(s)
      BY <1>5, <1>6, QueueIs DEF Scanners, Waiting
<1>8. Acts(s) /\ Memory' /\ Locks'
      BY <1>1, <1>2, RelistedMemory DEF Acts, IInv, Locks
<1>9. \A t \in Scanners \ {s} : ListsKept(t)
      BY <1>1, <1>2, RelistedOthers
<1>10. Place(s)'
  <2>1. pc \notin Away \cup Claimed \cup {"scan", "active", "vnode", "grow", "put", "result"}
        BY DEF Waiting, Away, Claimed
  <2>2. Marked(s)'
    <3>1. s # Marker(s)
          BY MarkersApart
    <3>. QED  BY <1>1, <1>2, <1>5, <1>6, <1>7, <2>1, <3>1 DEF Marked
  <2>3. At(s)' /\ Claims(s)'
        BY <1>3, <1>5, <1>6, <2>1 DEF At, Claims, Running
  <2>. QED  BY <2>2, <2>3 DEF Place
<1>11. r.pc \in Pcs(s) \ {"grow", "result"}
      BY <1>4, <1>5 DEF Waiting
<1>. QED  BY <1>1, <1>5, <1>8, <1>9, <1>10, <1>11, TurnKeeps

LEMMA ClaimKeeps ==
    ASSUME IInv, NEW s \in Scanners, scan[s].pc \notin {"grow", "put", "result"},
           QueueOf(s) # "active", NEW queues, Unlisted(s, queues),
           NEW m \in Pages, m \in Range(queues[QueueOf(s)]), NEW object, object = pg[m].object,
           pg[m].busy = "no", pg[m].hold = 0, plock[m] = NoOne, olock[object] = NoOne,
           Claim(s, m, object, queues), user' = user, panicked' = panicked
    PROVE  IInv' /\ Freed
<1> DEFINE k == Marker(s)
           l == Enters(queues, QueueOf(s), m, k)
           marked == [Here EXCEPT !.q = l]
           taken == vm_page_dequeue(marked, m)
           t == IF s = "daemon" THEN taken ELSE marked
           r == Turn(s, "test", m, object)
<1>1. /\ Put(t) /\ scan' = [scan EXCEPT ![s] = r]
      /\ plock' = [plock EXCEPT ![m] = s] /\ olock' = [olock EXCEPT ![object] = s]
      BY DEF Claim, Enters, Turn
<1>2. /\ Relists(s, l)
      /\ \A x \in Queues, j \in {s, Marker(s)} : j \in Range(l[x]) <=> x = QueueOf(s) /\ j = k
  <2>1. /\ k \in {s, Marker(s)}
        /\ l = Enters(queues, QueueOf(s), m, k)
        OBVIOUS
  <2> HIDE DEF l, k
  <2>. QED  BY <2>1, Inserted
<1>3. /\ object \in Objects /\ pg[m].queue = QueueOf(s) /\ pg[m].wire = 0 /\ ~pg[m].free
      /\ pg[m] \in PageType
      BY MetPage DEF Unlisted
<1>4. /\ Scans /\ "test" \in Pcs(s) /\ "test" \in AllPcs /\ m \in Spots
      /\ object \in Objects \cup {NoObject} /\ Memory /\ Sound(Here)
      BY <1>3, AllPcsAre DEF IInv, Memory, Pcs, Spots
<1>5. /\ r \in ScanRecords /\ r.pc = "test" /\ r.m = m /\ r.object = object
      /\ r.cluster = scan[s].cluster
  <2>1. r = Turn(s, "test", m, object)
        OBVIOUS
  <2> HIDE DEF r
  <2>. QED  BY <1>4, <2>1, TurnIs
<1>6. Sound(marked) /\ marked.pg = pg /\ marked.q = l /\ marked.cnt = cnt
  <2> HIDE DEF l
  <2>. QED  BY <1>2, <1>4, RelistedSound
<1>7. /\ Moved(marked, taken, m) /\ taken.pg[m] = [pg[m] EXCEPT !.queue = "none"]
      /\ \A x \in Queues : Range(taken.q[x]) = Range(marked.q[x]) \ {m}
  <2>1. marked.pg[m].queue \in Queues /\ marked.pg[m] = pg[m]
        BY <1>3, <1>6, QueueIs
  <2>2. taken = vm_page_dequeue(marked, m)
        OBVIOUS
  <2>3. Sound(marked)
        BY <1>6
  <2> HIDE DEF marked, taken
  <2>4. m \in Pages /\ marked.pg[m].queue \in Queues
        BY <2>1
  <2>5. /\ Moved(marked, taken, m) /\ taken.pg[m] = [marked.pg[m] EXCEPT !.queue = "none"]
        /\ \A x \in Queues : Range(taken.q[x]) = Range(marked.q[x]) \ {m}
        BY ONLY <2>2, <2>3, <2>4, DequeueMoved
  <2>. QED  BY <2>1, <2>5
<1> HIDE DEF l, marked, taken, r, k
<1>8. /\ Sound(t) /\ \A p \in Pages \ {m} : t.pg[p] = pg[p]
      /\ t.pg[m] = [pg[m] EXCEPT !.queue = IF s = "daemon" THEN "none" ELSE "laundry"]
      /\ \A x \in Queues \ {QueueOf(s)} : t.q[x] = q[x]
      /\ \A x \in Queues, j \in Markers : j \in Range(t.q[x]) <=> j \in Range(l[x])
  <2>1. CASE s = "daemon"
    <3>1. t = taken
          BY <2>1
    <3>2. \A x \in Queues \ {QueueOf(s)} : taken.q[x] = marked.q[x]
      <4>1. taken.pg[m].queue = "none" /\ marked.pg[m].queue = QueueOf(s)
            BY <1>3, <1>6, <1>7 DEF PageType
      <4>. QED  BY <1>7, <4>1, Apart DEF Moved
    <3>. QED  BY <1>2, <1>6, <1>7, <2>1, <3>1, <3>2 DEF Moved, Relists
  <2>2. CASE s # "daemon"
    <3>1. t = marked /\ s = "launderer"
          BY <2>2 DEF Scanners
    <3>2. pg[m] = [pg[m] EXCEPT !.queue = "laundry"]
          BY <1>3, <3>1, QueueIs DEF PageType
    <3>. QED  BY <1>2, <1>6, <2>2, <3>1, <3>2 DEF Relists
  <2>. QED  BY <2>1, <2>2
<1> HIDE DEF t
<1>9. pg' = t.pg /\ q' = t.q /\ Here' = t
      BY <1>1, <1>8, PutHere DEF Put, Sound
<1>10. /\ pg'[m].queue = (IF s = "daemon" THEN "none" ELSE "laundry")
       /\ pg'[m].object = object /\ pg'[m].busy = "no" /\ pg'[m].hold = 0 /\ pg'[m].wire = 0
       /\ pg'[m].mapped = pg[m].mapped
       /\ \A p \in Pages \ {m} : pg'[p] = pg[p]
      BY <1>3, <1>8, <1>9 DEF PageType
<1>11. Memory'
      BY <1>4, <1>8, <1>9, <1>10 DEF Memory, Writing
<1>12. Acts(s) /\ Locks'
      BY <1>1, <1>10 DEF Acts, IInv, Locks, Owners
<1>13. scan'[s] = r
      BY <1>1, <1>4 DEF Scans
<1>14. QueueOf(s)' = QueueOf(s)
      BY <1>5, <1>13, QueueIs DEF Scanners
<1>15. ASSUME NEW w \in Scanners \ {s} PROVE ListsKept(w)
  <2>1. /\ {w, Marker(w)} \cap {s, Marker(s)} = {} /\ QueueOf(w) # QueueOf(s)
        /\ QueueOf(w) \in Queues /\ w \in Markers /\ Marker(w) \in Markers
        BY MarkersApart, QueueIs
  <2>. QED  BY <1>2, <1>8, <1>9, <2>1 DEF Relists, ListsKept
<1>16. Place(s)'
  <2>1. Marked(s)'
    <3>1. s # Marker(s) /\ s \in Markers /\ Marker(s) \in Markers /\ k = Marker(s)
          BY MarkersApart DEF k
    <3>2. scan'[s].pc \in Away /\ scan'[s].pc \notin Waiting
          BY <1>5, <1>13 DEF Away, Claimed, Waiting
    <3>. QED  BY <1>2, <1>8, <1>9, <1>14, <3>1, <3>2 DEF Marked
  <2>2. At(s)'
        BY <1>5, <1>13 DEF At, Running, Waiting
  <2>3. Claims(s)'
    <3>1. plock'[m] = s /\ olock'[object] = s
          BY <1>1, <1>3 DEF IInv, Locks
    <3>. QED  BY <1>3, <1>5, <1>10, <1>13, <3>1 DEF Claims
  <2>. QED  BY <2>1, <2>2, <2>3 DEF Place
<1>17. r.pc \in Pcs(s) \ {"grow", "result"}
      BY <1>4, <1>5
<1>18. \A p \in Pages : /\ pg'[p].object = pg[p].object /\ pg'[p].busy = pg[p].busy
                        /\ pg'[p].mapped = pg[p].mapped
      BY <1>10
<1>. QED  BY <1>1, <1>5, <1>11, <1>12, <1>15, <1>16, <1>17, <1>18, TurnKeeps

\* The page daemon takes a page off the active queue.
LEMMA TakeKeeps ==
    ASSUME IInv, scan["daemon"].pc \in {"active", "activelock"},
           NEW queues, Unlisted("daemon", queues), NEW m \in Pages, m \in Range(queues["active"]),
           NEW next, next = NoPage \/ next \in Range(queues["active"]) \ {m}, plock[m] = NoOne,
           ActiveTake(m, next, queues), user' = user, panicked' = panicked
    PROVE  IInv' /\ Freed
<1> DEFINE s == "daemon"
           marked == [Here EXCEPT !.q = queues]
           off == vm_page_dequeue(marked, m)
<1>1. s \in Scanners /\ QueueOf(s) = "active" /\ Relists(s, queues) /\ Scans /\ Sound(Here) /\ Memory
      BY QueueIs DEF Scanners, Unlisted, IInv, Memory
<1>2. /\ Continue(s, next) /\ plock' = plock /\ olock' = olock
      /\ \E u : /\ Put(u)
                /\ \/ u = vm_page_deactivate(off, m, FALSE)
                   \/ u = MoveTo(off, "laundry", m) /\ QueueFree("laundry")
      BY DEF ActiveTake
<1>3. PICK u : /\ Put(u)
               /\ \/ u = vm_page_deactivate(off, m, FALSE)
                  \/ u = MoveTo(off, "laundry", m) /\ QueueFree("laundry")
      BY <1>2
<1>4. Sound(marked) /\ marked.pg = pg /\ marked.q = queues
      BY <1>1, RelistedSound
<1>5. /\ pg[m].queue = "active" /\ pg[m].object # NoObject /\ pg[m].wire = 0
      /\ pg[m] \in PageType
      BY <1>1, MetPage, PageQueuesAssumption
<1>6. /\ Moved(marked, off, m) /\ off.pg[m] = [pg[m] EXCEPT !.queue = "none"]
      /\ \A x \in Queues : Range(off.q[x]) = Range(queues[x]) \ {m}
  <2>1. m \in Pages /\ marked.pg[m].queue \in Queues
        BY <1>4, <1>5 DEF Queues
  <2>2. off = vm_page_dequeue(marked, m)
        OBVIOUS
  <2>3. Sound(marked)
        BY <1>4
  <2> HIDE DEF marked, off
  <2>4. /\ Moved(marked, off, m) /\ off.pg[m] = [marked.pg[m] EXCEPT !.queue = "none"]
        /\ \A x \in Queues : Range(off.q[x]) = Range(marked.q[x]) \ {m}
        BY ONLY <2>1, <2>2, <2>3, DequeueMoved
  <2>. QED  BY <1>4, <2>4
<1> HIDE DEF marked, off
<1>7. /\ Sound(off) /\ off.pg[m].object # NoObject /\ off.pg[m].queue = "none"
      /\ off.pg[m].wire = 0 /\ off.pg[m] \in PageType
      BY <1>5, <1>6 DEF Moved, Sound, States, PageType
<1>8. /\ Moved(off, u, m) /\ Alike(off.pg[m], u.pg[m])
      /\ u.pg[m].queue \in {"none", "inactive", "laundry"}
      /\ u.pg[m].queue = "laundry" => QueueFree("laundry")
  <2>1. CASE u = vm_page_deactivate(off, m, FALSE)
    <3>1. /\ Moved(off, u, m) /\ Alike(off.pg[m], u.pg[m])
          /\ u.pg[m].queue \in {off.pg[m].queue, "inactive"}
          BY <1>7, <2>1, DeactivateMoved
    <3>. QED  BY <1>7, <3>1
  <2>2. CASE u = MoveTo(off, "laundry", m) /\ QueueFree("laundry")
    <3>1. "laundry" \in Queues /\ off.pg[m].queue # "laundry"
          BY <1>7 DEF Queues
    <3>2. Moved(off, u, m) /\ Alike(off.pg[m], u.pg[m])
          BY <1>7, <2>2, <3>1, MoveToMoved
    <3>3. u.pg[m].queue = "laundry"
          BY <1>7, <2>2, <3>1, MoveToLands
    <3>. QED  BY <2>2, <3>2, <3>3
  <2>. QED  BY <1>3, <2>1, <2>2
<1>9. /\ Sound(u) /\ pg' = u.pg /\ q' = u.q /\ Here' = u
      BY <1>3, <1>8, PutHere DEF Put, Moved, Sound
<1>10. /\ \A p \in Pages \ {m} : pg'[p] = pg[p]
       /\ pg'[m].object = pg[m].object /\ pg'[m].busy = pg[m].busy
       /\ pg'[m].mapped = pg[m].mapped /\ pg'[m].data = pg[m].data
  <2>1. \A p \in Pages \ {m} : pg'[p] = pg[p]
        BY <1>4, <1>6, <1>8, <1>9 DEF Moved
  <2>2. pg'[m] = [off.pg[m] EXCEPT !.queue = pg'[m].queue]
        BY <1>8, <1>9 DEF Alike
  <2>. QED  BY <1>5, <1>6, <2>1, <2>2 DEF PageType
<1>11. Memory'
      BY <1>1, <1>9, <1>10 DEF Memory, Writing
<1>12. Acts(s) /\ Locks'
      BY <1>2, <1>10 DEF Acts, IInv, Locks
<1>13. \A x \in Queues, k \in Markers : k \in Range(q'[x]) <=> k \in Range(queues[x])
      BY <1>6, <1>8, <1>9, Apart DEF Moved
<1>14. \A x \in Queues : x # pg'[m].queue => Range(q'[x]) = Range(queues[x]) \ {m}
      BY <1>6, <1>7, <1>8, <1>9, Apart DEF Moved
<1>15. ASSUME NEW w \in Scanners \ {s} PROVE ListsKept(w)
  <2>1. w = "launderer" /\ QueueOf(w) = "laundry" /\ "laundry" \in Queues
        BY QueueIs DEF Scanners, Queues
  <2>2. \A x \in Queues, k \in {w, Marker(w)} : k \in Range(q'[x]) <=> k \in Range(q[x])
    <3>1. {w, Marker(w)} \cap {s, Marker(s)} = {} /\ w \in Markers /\ Marker(w) \in Markers
          BY <1>1, MarkersApart
    <3>. QED  BY <1>1, <1>13, <3>1 DEF Relists
  <2>3. Running(w) => q'["laundry"] = q["laundry"]
    <3>1. Running(w) => u.pg[m].queue # "laundry"
          BY <1>8, <2>1 DEF QueueFree
    <3>2. queues["laundry"] = q["laundry"]
          BY <1>1, <2>1 DEF Relists
    <3>3. off.q["laundry"] = queues["laundry"]
          BY <1>4, <1>5, <1>6, <1>7, <2>1 DEF Moved
    <3>4. u.pg[m].queue # "laundry" => u.q["laundry"] = off.q["laundry"]
          BY <1>7, <1>8, <2>1 DEF Moved
    <3>. QED  BY <1>9, <3>1, <3>2, <3>3, <3>4
  <2>. QED  BY <2>1, <2>2, <2>3 DEF ListsKept
<1>16. "active" \in Queues /\ next \in Spots
  <2>1. "active" \in Queues
        BY DEF Queues
  <2>. QED  BY <1>1, <2>1, ListMembers DEF Spots
<1>17. PICK r \in ScanRecords :
         /\ scan' = [scan EXCEPT ![s] = r]
         /\ r.pc = IF QueueOf(s) = "active" THEN "active" ELSE "scan"
         /\ r.m = next /\ r.cluster = scan[s].cluster /\ r.pc \in Pcs(s)
      BY <1>1, <1>2, <1>16, ContinueIs
<1>18. scan'[s] = r /\ r.pc = "active" /\ QueueOf(s)' = "active"
      BY <1>1, <1>17, QueueIs DEF Scans
<1>19. Place(s)'
  <2>1. Marked(s)' /\ Claims(s)'
    <3>1. \A x \in Queues : s \notin Range(q'[x]) /\ Marker(s) \notin Range(q'[x])
          BY <1>1, <1>13, MarkersApart DEF Unlisted
    <3>. QED  BY <1>1, <1>18, <3>1, Unmarks DEF Waiting, Away, Claimed
  <2>2. At(s)'
    <3>1. next = NoPage \/ next \in Range(q'["active"])
          BY <1>8, <1>9, <1>14, <1>16
    <3>. QED  BY <1>17, <1>18, <3>1 DEF At, Running, Waiting
  <2>. QED  BY <2>1, <2>2 DEF Place
<1>20. /\ scan[s].pc \notin {"grow", "put", "result"} /\ r.pc \in Pcs(s) \ {"grow", "result"}
       /\ \A p \in Pages : /\ pg'[p].object = pg[p].object /\ pg'[p].busy = pg[p].busy
                           /\ pg'[p].mapped = pg[p].mapped
      BY <1>10, <1>17, <1>18
<1>. QED  BY <1>1, <1>11, <1>12, <1>15, <1>17, <1>19, <1>20, TurnKeeps

-----------------------------------------------------------------------------
(* The steps at the queues *)

LEMMA HaveObjectKeeps ==
    ASSUME IInv, NEW s \in Scanners, scan[s].pc \notin {"grow", "put", "result"},
           QueueOf(s) # "active", NEW queues, Unlisted(s, queues),
           NEW m \in Pages, m \in Range(queues[QueueOf(s)]), NEW object, object = pg[m].object,
           NEW next, next = NoPage \/ next \in Range(queues[QueueOf(s)]),
           plock[m] = NoOne, olock[object] = NoOne,
           HaveObject(s, m, object, next, queues), user' = user, panicked' = panicked
    PROVE  IInv' /\ Freed
<1>1. CASE Skip(s, next, queues)
      BY <1>1, SkipKeeps
<1>2. CASE pg[m].busy = "no" /\ pg[m].hold = 0 /\ Claim(s, m, object, queues)
      BY <1>2, ClaimKeeps
<1>. QED  BY <1>1, <1>2 DEF HaveObject, Busied

LEMMA HavePageKeeps ==
    ASSUME IInv, NEW s \in Scanners, scan[s].pc \notin {"grow", "put", "result"},
           QueueOf(s) # "active", NEW queues, Unlisted(s, queues),
           NEW m \in Pages, m \in Range(queues[QueueOf(s)]),
           NEW next, next = NoPage \/ next \in Range(queues[QueueOf(s)]),
           plock[m] = NoOne, HavePage(s, m, next, queues), user' = user, panicked' = panicked
    PROVE  IInv' /\ Freed
<1>1. CASE Skip(s, next, queues)
      BY <1>1, SkipKeeps
<1>2. CASE /\ olock[pg[m].object] = NoOne /\ HaveObject(s, m, pg[m].object, next, queues)
  <2> DEFINE object == pg[m].object
  <2>1. /\ object = pg[m].object /\ olock[object] = NoOne
        /\ HaveObject(s, m, object, next, queues)
        BY <1>2
  <2> HIDE DEF object
  <2>. QED  BY <2>1, HaveObjectKeeps
<1>3. CASE WaitFor(s, m, "objectlock", queues)
  <2>1. "objectlock" \in Waiting /\ ("objectlock" = "activelock" <=> QueueOf(s) = "active")
        BY DEF Waiting
  <2>. QED  BY <1>3, <2>1, WaitForKeeps
<1>. QED  BY <1>1, <1>2, <1>3 DEF HavePage, Free

LEMMA NextSpot ==
    ASSUME IInv, NEW x \in Queues, NEW e \in Range(q[x])
    PROVE  NextOf(q[x], e) = NoPage \/ NextOf(q[x], e) \in Range(q[x]) \ {e}
<1> DEFINE S == Pages \cup Markers
           y == q[x]
<1>1. y \in Seq(S) /\ IsInjective(y) /\ e \in Range(y)
      BY QueueTypes DEF IInv
<1> HIDE DEF S, y
<1>2. NextOf(y, e) = NoPage \/ NextOf(y, e) \in Range(y) \ {e}
      BY <1>1, NextContents
<1>. QED  BY <1>2 DEF y

\* What a scan that waited finds: its marker, what follows it and, if all is as
\* it was, the page before it.
LEMMA Waited ==
    ASSUME IInv, NEW s \in Scanners, scan[s].pc \in Waiting, NEW m, m = scan[s].m,
           NEW next, next = NextOf(q[QueueOf(s)], s)
    PROVE  /\ Unlisted(s, Unmarked(s)) /\ m \in Pages /\ scan[s].object \in Objects
           /\ next = NoPage \/ next \in Range(Unmarked(s)[QueueOf(s)])
           /\ Unchanged(s, m) => m \in Range(Unmarked(s)[QueueOf(s)]) /\ next # m
<1> DEFINE S == Pages \cup Markers
           y == q[QueueOf(s)]
<1>1. QueueOf(s) \in Queues /\ s \in Range(y) /\ m \in Pages /\ scan[s].object \in Objects
      BY QueueIs DEF IInv, Place, Marked, At
<1>2. Unlisted(s, Unmarked(s)) /\ Range(Unmarked(s)[QueueOf(s)]) = Range(y) \ {s}
      BY <1>1, UnmarkedLists
<1>3. next = NoPage \/ next \in Range(y) \ {s}
      BY <1>1, NextSpot
<1>4. Unchanged(s, m) => m \in Range(y) \ {s} /\ next # m
  <2>1. y \in Seq(S) /\ IsInjective(y) /\ s \in Range(y) /\ m # NoPage
        BY <1>1, QueueTypes, Apart DEF IInv
  <2>2. next = NextOf(y, s) /\ (Unchanged(s, m) => PrevOf(y, s) = m)
        BY DEF Unchanged
  <2> HIDE DEF S, y
  <2>. QED  BY <2>1, <2>2, PrevContents
<1>. QED  BY <1>1, <1>2, <1>3, <1>4

LEMMA ScanPageKeeps ==
    ASSUME IInv, NEW s \in Scanners, ScanPage(s)
    PROVE  IInv' /\ Freed
<1> DEFINE m == scan[s].m
           next == NextOf(q[QueueOf(s)], m)
<1>1. /\ scan[s].pc = "scan" /\ m # NoPage /\ user' = user /\ panicked' = panicked
      /\ \/ Skip(s, next, q)
         \/ m \in Pages /\ plock[m] = NoOne /\ HavePage(s, m, next, q)
         \/ m \in Pages /\ WaitFor(s, m, "pagelock", q)
      BY DEF ScanPage, ScanDone, Free
<1>2. /\ QueueOf(s) \in Queues /\ QueueOf(s) # "active"
      /\ scan[s].pc \notin {"grow", "put", "result"}
      BY <1>1, QueueIs DEF Scanners
<1>3. Unlisted(s, q)
      BY <1>1, RunningUnlisted DEF Waiting, Away, Claimed
<1>4. m \in Range(q[QueueOf(s)])
      BY <1>1 DEF IInv, Place, At, Running
<1>5. next = NoPage \/ next \in Range(q[QueueOf(s)])
      BY <1>2, <1>4, NextSpot
<1> HIDE DEF m, next
<1>6. "pagelock" \in Waiting /\ ("pagelock" = "activelock" <=> QueueOf(s) = "active")
      BY <1>2 DEF Waiting
<1>7. CASE Skip(s, next, q)
      BY <1>1, <1>2, <1>3, <1>5, <1>7, SkipKeeps
<1>8. CASE m \in Pages /\ plock[m] = NoOne /\ HavePage(s, m, next, q)
      BY <1>1, <1>2, <1>3, <1>4, <1>5, <1>8, HavePageKeeps
<1>9. CASE m \in Pages /\ WaitFor(s, m, "pagelock", q)
      BY <1>1, <1>2, <1>3, <1>4, <1>6, <1>9, WaitForKeeps
<1>. QED  BY <1>1, <1>7, <1>8, <1>9

LEMMA PageLockKeeps ==
    ASSUME IInv, NEW s \in Scanners, PageLock(s)
    PROVE  IInv' /\ Freed
<1> DEFINE m == scan[s].m
           next == NextOf(q[QueueOf(s)], s)
           l == Unmarked(s)
<1>1. /\ scan[s].pc = "pagelock" /\ plock[m] = NoOne /\ user' = user /\ panicked' = panicked
      /\ \/ Unchanged(s, m) /\ HavePage(s, m, next, l)
         \/ Skip(s, next, l)
      BY DEF PageLock, Free
<1>2. /\ scan[s].pc \in Waiting /\ QueueOf(s) # "active"
      /\ scan[s].pc \notin {"grow", "put", "result"}
      BY <1>1, QueueIs DEF Scanners, Waiting
<1>3. /\ Unlisted(s, l) /\ m \in Pages /\ (next = NoPage \/ next \in Range(l[QueueOf(s)]))
      /\ Unchanged(s, m) => m \in Range(l[QueueOf(s)])
      BY <1>2, Waited
<1> HIDE DEF m, next, l
<1>4. CASE Unchanged(s, m) /\ HavePage(s, m, next, l)
      BY <1>1, <1>2, <1>3, <1>4, HavePageKeeps
<1>5. CASE Skip(s, next, l)
      BY <1>1, <1>2, <1>3, <1>5, SkipKeeps
<1>. QED  BY <1>1, <1>4, <1>5

LEMMA ObjectLockKeeps ==
    ASSUME IInv, NEW s \in Scanners, ObjectLock(s)
    PROVE  IInv' /\ Freed
<1> DEFINE m == scan[s].m
           next == NextOf(q[QueueOf(s)], s)
           l == Unmarked(s)
           object == scan[s].object
<1>1. /\ scan[s].pc = "objectlock" /\ plock[m] = NoOne /\ olock[object] = NoOne
      /\ user' = user /\ panicked' = panicked
      /\ \/ Unchanged(s, m) /\ object = pg[m].object /\ HaveObject(s, m, object, next, l)
         \/ Skip(s, next, l)
      BY DEF ObjectLock, Free, SameObject
<1>2. /\ scan[s].pc \in Waiting /\ QueueOf(s) # "active"
      /\ scan[s].pc \notin {"grow", "put", "result"}
      BY <1>1, QueueIs DEF Scanners, Waiting
<1>3. /\ Unlisted(s, l) /\ m \in Pages /\ (next = NoPage \/ next \in Range(l[QueueOf(s)]))
      /\ Unchanged(s, m) => m \in Range(l[QueueOf(s)])
      BY <1>2, Waited
<1> HIDE DEF m, next, l, object
<1>4. CASE Unchanged(s, m) /\ object = pg[m].object /\ HaveObject(s, m, object, next, l)
      BY <1>1, <1>2, <1>3, <1>4, HaveObjectKeeps
<1>5. CASE Skip(s, next, l)
      BY <1>1, <1>2, <1>3, <1>5, SkipKeeps
<1>. QED  BY <1>1, <1>4, <1>5

\* Every page of the active queue is a page while the daemon has its lock.
LEMMA ActivePages ==
    ASSUME IInv, scan["daemon"].pc = "active"
    PROVE  Range(q["active"]) \subseteq Pages
<1>1. /\ "daemon" \in Scanners /\ "launderer" \in Scanners /\ "active" \in Queues
      /\ QueueOf("launderer") = "laundry"
      /\ Marker("daemon") = "vmd_marker" /\ Marker("launderer") = "laundry_marker"
      BY QueueIs DEF Scanners, Queues, Marker
<1>2. "daemon" \notin Range(q["active"]) /\ "vmd_marker" \notin Range(q["active"])
      BY <1>1, Unplaced DEF Waiting, Away, Claimed
<1>3. "launderer" \notin Range(q["active"]) /\ "laundry_marker" \notin Range(q["active"])
      BY <1>1 DEF IInv, Place, Marked
<1>4. "inacthead" \notin Range(q["active"])
      BY <1>1, HereFields DEF IInv, Memory, Sound, Listed
<1>5. Range(q["active"]) \subseteq Pages \cup Markers
      BY <1>1, QueueTypes DEF IInv
<1>. QED  BY <1>2, <1>3, <1>4, <1>5 DEF Markers

LEMMA ActivePageKeeps ==
    ASSUME IInv, ActivePage
    PROVE  IInv' /\ Freed
<1> DEFINE s == "daemon"
           m == scan[s].m
           next == NextOf(q["active"], m)
<1>1. /\ scan[s].pc = "active" /\ m # NoPage /\ user' = user /\ panicked' = panicked
      /\ \/ plock[m] = NoOne /\ ActiveTake(m, next, q)
         \/ WaitFor(s, m, "activelock", q)
      BY DEF ActivePage, Free
<1>2. /\ s \in Scanners /\ QueueOf(s) = "active" /\ "active" \in Queues
      /\ scan[s].pc \notin {"grow", "put", "result"} /\ scan[s].pc \in {"active", "activelock"}
      BY <1>1, QueueIs DEF Scanners, Queues
<1>3. Unlisted(s, q)
      BY <1>1, <1>2, RunningUnlisted DEF Waiting, Away, Claimed
<1>4. m \in Range(q["active"]) /\ m \in Pages
      BY <1>1, <1>2, ActivePages DEF IInv, Place, At, Running
<1>5. next = NoPage \/ next \in Range(q["active"]) \ {m}
      BY <1>2, <1>4, NextSpot
<1> HIDE DEF m, next
<1>6. "activelock" \in Waiting /\ ("activelock" = "activelock" <=> QueueOf(s) = "active")
      BY <1>2 DEF Waiting
<1>7. CASE plock[m] = NoOne /\ ActiveTake(m, next, q)
      BY <1>1, <1>2, <1>3, <1>4, <1>5, <1>7, TakeKeeps
<1>8. CASE WaitFor(s, m, "activelock", q)
      BY <1>1, <1>2, <1>3, <1>4, <1>6, <1>8, WaitForKeeps
<1>. QED  BY <1>1, <1>7, <1>8

LEMMA ActiveLockKeeps ==
    ASSUME IInv, ActiveLock
    PROVE  IInv' /\ Freed
<1> DEFINE s == "daemon"
           m == scan[s].m
           l == Unmarked(s)
           next == NextOf(q[QueueOf(s)], s)
<1>1. QueueOf(s) = "active" /\ s \in Scanners
      BY QueueIs DEF ActiveLock, Scanners
<1>2. /\ scan[s].pc = "activelock" /\ plock[m] = NoOne /\ user' = user /\ panicked' = panicked
      /\ \/ Unchanged(s, m) /\ ActiveTake(m, next, l)
         \/ Skip(s, next, l)
      BY <1>1 DEF ActiveLock, Free
<1>3. /\ scan[s].pc \in Waiting /\ scan[s].pc \in {"active", "activelock"}
      /\ scan[s].pc \notin {"grow", "put", "result"}
      BY <1>2 DEF Waiting
<1>4. /\ Unlisted(s, l) /\ m \in Pages /\ (next = NoPage \/ next \in Range(l[QueueOf(s)]))
      /\ Unchanged(s, m) => m \in Range(l[QueueOf(s)]) /\ next # m
      BY <1>1, <1>3, Waited
<1> HIDE DEF m, next, l
<1>5. CASE Unchanged(s, m) /\ ActiveTake(m, next, l)
  <2>1. m \in Range(l["active"]) /\ (next = NoPage \/ next \in Range(l["active"]) \ {m})
        BY <1>1, <1>4, <1>5
  <2>. QED  BY <1>2, <1>3, <1>4, <1>5, <2>1, TakeKeeps
<1>6. CASE Skip(s, next, l)
      BY <1>1, <1>2, <1>3, <1>4, <1>6, SkipKeeps
<1>. QED  BY <1>2, <1>5, <1>6

LEMMA ScanNextKeeps ==
    ASSUME IInv, NEW s \in Scanners, ScanNext(s)
    PROVE  IInv' /\ Freed
<1> DEFINE k == Marker(s)
           l == Leaves(QueueOf(s), k)
           next == NextOf(q[QueueOf(s)], k)
           r == [scan[s] EXCEPT !.pc = "scan", !.object = NoObject, !.m = next]
<1>1. /\ scan[s].pc = "next" /\ q' = l /\ scan' = [scan EXCEPT ![s] = r]
      /\ pg' = pg /\ cnt' = cnt /\ plock' = plock /\ olock' = olock /\ user' = user
      /\ panicked' = panicked
      BY DEF ScanNext, Leaves
<1>2. /\ QueueOf(s) \in Queues /\ QueueOf(s) # "active" /\ k \in {s, Marker(s)}
      /\ scan[s].pc \notin {"grow", "put", "result"} /\ scan[s].pc \in Away \ Waiting
      BY <1>1, QueueIs DEF Scanners, Away, Claimed, Waiting
<1>3. k \in Range(q[QueueOf(s)]) /\ OnlyMark(s, k)
      BY <1>2 DEF IInv, Place, Marked, OnlyMark
<1>4. Unlisted(s, l) /\ \A x \in Queues : Range(l[x]) = Range(q[x]) \ {k}
  <2>1. l = Leaves(QueueOf(s), k)
        OBVIOUS
  <2> HIDE DEF l, k
  <2>. QED  BY <1>2, <1>3, <2>1, UnmarkedUnlisted
<1>5. next = NoPage \/ next \in Range(q[QueueOf(s)]) \ {k}
      BY <1>2, <1>3, NextSpot
<1> HIDE DEF l, next, k
<1>6. Relists(s, q') /\ Scans /\ scan[s] \in ScanRecords /\ next \in Spots
  <2>1. Relists(s, q') /\ Scans /\ scan[s] \in ScanRecords
        BY <1>1, <1>4 DEF Unlisted, IInv, Scans
  <2>2. next = NoPage \/ next \in Range(l[QueueOf(s)])
        BY <1>2, <1>4, <1>5
  <2>. QED  BY <1>1, <1>2, <2>1, <2>2, ListMembers DEF Spots
<1>7. r \in ScanRecords /\ r.pc = "scan" /\ r.m = next /\ r.cluster = scan[s].cluster
      BY <1>6, AllPcsAre DEF ScanRecords
<1> HIDE DEF r
<1>8. scan'[s] = r
      BY <1>1, <1>6 DEF Scans
<1>9. QueueOf(s)' = QueueOf(s)
      BY <1>2, <1>7, <1>8, QueueIs DEF Scanners
<1>10. Acts(s) /\ Memory' /\ Locks'
      BY <1>1, <1>6, RelistedMemory DEF Acts, IInv, Locks
<1>11. \A t \in Scanners \ {s} : ListsKept(t)
      BY <1>6, RelistedOthers
<1>12. Place(s)'
  <2>1. Marked(s)' /\ Claims(s)'
        BY <1>1, <1>4, <1>7, <1>8, Unmarks DEF Unlisted, Waiting, Away, Claimed
  <2>2. At(s)'
        BY <1>1, <1>2, <1>4, <1>5, <1>7, <1>8, <1>9 DEF At, Running, Waiting
  <2>. QED  BY <2>1, <2>2 DEF Place
<1>13. r.pc \in Pcs(s) \ {"grow", "result"}
      BY <1>7 DEF Pcs
<1>. QED  BY <1>1, <1>2, <1>7, <1>10, <1>11, <1>12, <1>13, TurnKeeps

-----------------------------------------------------------------------------
(* Every step keeps the invariant *)

LEMMA InitIInv == Init => IInv
<1> SUFFICES ASSUME Init PROVE IInv
    OBVIOUS
<1>1. /\ pg = [p \in Pages |-> FreePage]
      /\ q = [x \in Queues |-> IF x = "inactive" THEN <<"inacthead">> ELSE <<>>]
      /\ cnt = [x \in Queues |-> 0] /\ scan = [s \in Scanners |-> Idle]
      /\ plock = [p \in Pages |-> NoOne] /\ olock = [o \in Objects |-> NoOne]
      /\ user.pc = "idle" /\ ~panicked
      BY DEF Init
<1>2. /\ FreePage \in PageType /\ Sane(FreePage) /\ FreePage.queue = "none"
      /\ FreePage.busy = "no"
      BY Ownerless
<1>3. ASSUME NEW x \in Queues
      PROVE  /\ q[x] \in Seq(Pages \cup Markers) /\ IsInjective(q[x])
             /\ Range(q[x]) = IF x = "inactive" THEN {"inacthead"} ELSE {}
  <2>1. CASE x = "inactive"
        BY <1>1, <2>1 DEF Markers, IsInjective, Range
  <2>2. CASE x # "inactive"
        BY <1>1, <2>2 DEF IsInjective, Range
  <2>. QED  BY <2>1, <2>2
<1>4. q \in [Queues -> Seq(Pages \cup Markers)]
      BY <1>1, <1>3
<1>5. Here \in States
      BY <1>1, <1>2, <1>4 DEF Here, States
<1>6. ASSUME NEW x \in Queues PROVE Listed(Here, x)
  <2>1. On(Here, x) = {}
        BY <1>1, <1>2, HereFields, Apart DEF On
  <2>2. \A p \in Pages : p # "inacthead" /\ pg[p].queue # x
        BY <1>1, <1>2, Apart DEF Markers
  <2>3. cnt[x] = Cardinality(On(Here, x))
        BY <1>1, <2>1, FS_EmptySet
  <2>. QED  BY <1>3, <2>2, <2>3, HereFields DEF Listed
<1>7. Memory
      BY <1>1, <1>2, <1>5, <1>6, HereFields DEF Memory, Sound, Writing
<1>8. Locks
      BY <1>1 DEF Locks, Owners
<1>9. Scans /\ \A s \in Scanners : scan[s] = Idle
      BY <1>1, IdleRecord DEF Scans
<1>10. ASSUME NEW s \in Scanners PROVE Place(s)
  <2>1. scan[s].pc = "idle"
        BY <1>9, IdleRecord
  <2>2. s # "inacthead" /\ Marker(s) # "inacthead"
        BY DEF Scanners, Marker
  <2>. QED  BY <1>3, <2>1, <2>2
            DEF Place, Marked, At, Claims, Running, Waiting, Away, Claimed
<1>11. UserClaims
       BY <1>1 DEF UserClaims
<1>12. Busying
       BY <1>9, IdleRecord DEF Busying, L, Scanners
<1>. QED  BY <1>1, <1>7, <1>8, <1>9, <1>10, <1>11, <1>12 DEF IInv

LEMMA NextIInv ==
    ASSUME IInv, [Next]_vars
    PROVE  IInv' /\ Freed
<1>1. ASSUME NEW s \in Scanners, ScanStep(s) PROVE IInv' /\ Freed
      BY <1>1, ScanStartKeeps, ScanEndKeeps, ScanPageKeeps, PageLockKeeps, ObjectLockKeeps,
         TestDirtyKeeps, RemoveMappingsKeeps, ScanNextKeeps DEF ScanStep
<1>2. CASE DaemonStep
      BY <1>2, DaemonDecideKeeps, ActivePageKeeps, ActiveLockKeeps, ActiveEndKeeps DEF DaemonStep
<1>3. CASE LaunderStep
      BY <1>3, LaunderDecideKeeps, VnodeLockKeeps, ClusterKeeps, FlushKeeps, PutReturnsKeeps,
         FlushEndKeeps, GrowKeeps, ResultKeeps DEF LaunderStep
<1>4. CASE UserStep
  <2>1. ASSUME NEW o \in Objects, ObjectDies(o) \/ ObjectReused(o) PROVE IInv' /\ Freed
        BY <2>1, ObjectKeeps DEF ObjectDies, ObjectReused
  <2>. QED  BY <1>4, <2>1, UserOpKeeps, UserNothingKeeps, WriteKeeps, UserLockKeeps, AllocKeeps
            DEF UserStep
<1>5. ASSUME NEW p \in Pages, WriteDone(p) PROVE IInv' /\ Freed
      BY <1>5, WriteDoneKeeps
<1>6. CASE UNCHANGED vars
      BY <1>6, ObjectKeeps DEF vars
<1>. QED  BY <1>1, <1>2, <1>3, <1>4, <1>5, <1>6 DEF Next

\* No interleaving of scans, write-backs and callers of vm_page.c leads out of the
\* states in which lists and fields agree, each scan has what it claimed, and no
\* assertion of the kernel has failed.
THEOREM InvariantHolds == Spec => []IInv
<1>1. IInv /\ [Next]_vars => IInv'
      BY NextIInv
<1>. QED  BY <1>1, InitIInv, PTL DEF Spec

-----------------------------------------------------------------------------
(* What the invariant says *)

LEMMA ListPositions ==
    ASSUME IInv, NEW x \in Queues
    PROVE  /\ \A e : Position(q[x], e) # 0 <=> e \in Range(q[x])
           /\ \A i, j \in 1 .. Len(q[x]) : q[x][i] = q[x][j] => i = j
<1> DEFINE S == Pages \cup Markers
           y == q[x]
<1>1. y \in Seq(S) /\ IsInjective(y)
      BY QueueTypes DEF IInv
<1> HIDE DEF S, y
<1>2. DOMAIN y = 1 .. Len(y)
      BY <1>1, LenProperties
<1>3. \A e : Position(y, e) # 0 <=> e \in Range(y)
      BY <1>1, PositionFound
<1>4. \A i, j \in 1 .. Len(y) : y[i] = y[j] => i = j
      BY <1>1, <1>2 DEF IsInjective
<1>. QED  BY <1>3, <1>4 DEF y

LEMMA IInvTypeOK == IInv => TypeOK
<1> SUFFICES ASSUME IInv PROVE TypeOK
    OBVIOUS
<1>1. pg \in [Pages -> PageType]
      BY HereFields DEF IInv, Memory, Sound, States
<1>2. \A x \in Queues : q[x] \in Seq(Pages \cup Markers) /\ cnt[x] \in Nat
      BY QueueTypes DEF IInv
<1>3. \A s \in Scanners : scan[s].m \in Pages \cup Markers \cup {NoPage}
      BY DEF IInv, Scans, ScanRecords, Spots
<1>. QED  BY <1>1, <1>2, <1>3 DEF TypeOK, IInv, Locks

LEMMA IInvQueuesExact == IInv => QueuesExact
<1> SUFFICES ASSUME IInv PROVE QueuesExact
    OBVIOUS
<1>1. ASSUME NEW x \in Queues
      PROVE  /\ \A i, j \in 1 .. Len(q[x]) : q[x][i] = q[x][j] => i = j
             /\ \A p \in Pages : Position(q[x], p) # 0 <=> pg[p].queue = x
             /\ cnt[x] = Quantify(Pages, LAMBDA p : pg[p].queue = x)
  <2>1. \A p \in Pages : p \in Range(q[x]) <=> pg[p].queue = x
        BY QueueTypes DEF IInv
  <2>2. cnt[x] = Cardinality({p \in Pages : pg[p].queue = x})
        BY HereFields DEF IInv, Memory, Sound, Listed, On
  <2>3. cnt[x] = Quantify(Pages, LAMBDA p : pg[p].queue = x)
        BY <2>2 DEF Quantify
  <2>. QED  BY <2>1, <2>3, ListPositions
<1>2. ASSUME NEW p \in Pages, pg[p].wire # 0 \/ pg[p].object = NoObject
      PROVE  pg[p].queue = "none"
      BY <1>2, OwnedPage, Ownerless DEF IInv, Memory, Sane
<1>. QED  BY <1>1, <1>2 DEF QueuesExact

LEMMA IInvMarkersExact == IInv => MarkersExact
<1> SUFFICES ASSUME IInv PROVE MarkersExact
    OBVIOUS
<1>1. "inactive" \in Queues /\ "inacthead" \in Range(q["inactive"])
      BY HereFields DEF IInv, Memory, Sound, Listed, Queues
<1>2. ASSUME NEW s \in Scanners, NEW x \in Queues
      PROVE  /\ s \in Range(q[x]) <=>
                    x = QueueOf(s) /\ scan[s].pc \in {"pagelock", "objectlock", "activelock"}
             /\ Marker(s) \in Range(q[x]) <=>
                    x = QueueOf(s) /\ scan[s].pc \notin {"idle", "scan", "active",
                                                        "pagelock", "objectlock", "activelock"}
  <2>1. Marked(s) /\ scan[s].pc \in AllPcs
        BY DEF IInv, Place, Scans, ScanRecords
  <2>. QED  BY <2>1, AllPcsAre DEF Marked, Waiting, Away, Claimed
<1>. QED  BY <1>1, <1>2, ListPositions DEF MarkersExact

\* Every paging queue is sound: each page is on the one queue m->queue names,
\* once, pq_cnt counts the pages, and each scan's markers are where it is.
THEOREM QueuesAlwaysSound == Spec => []QueuesSound
<1>1. IInv => QueuesSound
      BY IInvTypeOK, IInvQueuesExact, IInvMarkersExact DEF QueuesSound
<1>. QED  BY <1>1, InvariantHolds, PTL

\* The page a scan is about to reclaim is the one it met: locked with its
\* object, held, wired and busied by nobody.
THEOREM ScanAlwaysOwnsItsPage == Spec => []ScanOwnsItsPage
<1>1. IInv => ScanOwnsItsPage
      BY DEF IInv, Place, Claims, Claimed, ScanOwnsItsPage, Busied
<1>. QED  BY <1>1, InvariantHolds, PTL

\* What the store lacks, m->dirty or the modified bit of a mapping knows of.
THEOREM NothingIsForgotten == Spec => []NothingForgotten
<1>1. IInv => NothingForgotten
      BY OwnedPage DEF IInv, Memory, Sane, NothingForgotten
<1>. QED  BY <1>1, InvariantHolds, PTL

\* No page is freed while shared busy or wired, and no page of a cluster turns
\* out to be exclusive busied.
THEOREM PanicsNever == Spec => []NeverPanics
<1>1. IInv => NeverPanics
      BY DEF IInv, NeverPanics
<1>. QED  BY <1>1, InvariantHolds, PTL

\* A scan frees a page only when the backing store has all of it.
THEOREM OnlySavedIsFreed == Spec => FreedWhenSaved
<1>1. IInv /\ [Next]_vars
      => [\A p \in Pages : scan' # scan /\ pg[p].object # NoObject /\ pg'[p].object = NoObject
                           => pg[p].data = "saved"]_vars
      BY NextIInv DEF Freed
<1>. QED  BY <1>1, InvariantHolds, PTL DEF Spec, FreedWhenSaved
=============================================================================
