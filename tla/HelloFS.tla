------------------------------- MODULE HelloFS -------------------------------
(***************************************************************************)
(* The file system of asgn4/hello.c: one image file that holds a bitmap    *)
(* and blocks chained by their metadata.                                   *)
(*                                                                         *)
(* A handler is an operator that returns the images the file goes through, *)
(* one for each write() it makes, and the bitmap it leaves in memory.  A   *)
(* call takes the last of them; a daemon that is killed leaves any.  The   *)
(* client makes one call at a time, as benchmark.c does.                   *)
(***************************************************************************)
EXTENDS Integers, FiniteSets, SequencesExt

CONSTANTS Names,             \* file names that fit a metadata record
          LongNames,         \* names of MAX_FILENAME_LENGTH or more
          NoName,            \* the empty file name
          Cells,             \* what one unit of a block holds
          ZeroCell,          \* what it holds in a new image
          StackCell,         \* what hello_write's buffer holds before it is read into
          NUM_BLOCKS,
          USABLE_SPACE,      \* units in a block
          MAX_REQUEST_SIZE,  \* units in a file at most
          Requests,          \* bound: the buffers a client writes
          Sizes              \* bound: the sizes a client truncates to

\* hello.c checks that the blocks fit the superblock.  MAX_REQUEST_SIZE need not
\* be a whole number of blocks (131072 is not one of 4016 bytes): see FitsBuffer.
ASSUME HelloAssumption ==
    /\ NUM_BLOCKS \in Nat \ {0} /\ USABLE_SPACE \in Nat \ {0}
    /\ MAX_REQUEST_SIZE \in Nat
    /\ NoName \notin Names /\ LongNames \cap Names = {}
    /\ NoName \notin Seq(Cells \cup {ZeroCell, StackCell})
    /\ Requests \subseteq Seq(Cells) \ {<<>>} /\ Sizes \subseteq Nat

VARIABLES disk,    \* FILE_FS: the bitmap, metadata and data of its blocks
          bitmap   \* the blocks in use, as the daemon remembers them

vars == <<disk, bitmap>>

Blocks == 1..(NUM_BLOCKS - 1)

\* struct metadata without its times.
metadata == [filename : Names \cup {NoName},
             file_size : Nat,
             next : Blocks \cup {0}]

ZeroMetadata == [filename |-> NoName, file_size |-> 0, next |-> 0]

Image == [bitmap : SUBSET Blocks,
          md     : [Blocks -> metadata],
          data   : [Blocks -> [1..USABLE_SPACE -> Cells \cup {ZeroCell, StackCell}]]]

NewImage == [bitmap |-> {},
             md     |-> [b \in Blocks |-> ZeroMetadata],
             data   |-> [b \in Blocks |-> [k \in 1..USABLE_SPACE |-> ZeroCell]]]
-----------------------------------------------------------------------------
\* write() of a metadata record, and of cells from the start of a block.
PutMetadata(d, b, md) == [d EXCEPT !.md[b] = md]

PutData(d, b, cells) ==
    [d EXCEPT !.data[b] = [k \in 1..USABLE_SPACE |->
                              IF k <= Len(cells) THEN cells[k] ELSE @[k]]]

\* The blocks in use whose metadata carries name n, and the one the handlers
\* stop at.
Entries(d, used, n) == {b \in used : d.md[b].filename = n}

FileStart(d, used, n) ==
    IF Entries(d, used, n) = {} THEN 0 ELSE Min(Entries(d, used, n))

NextAvailableBlock(used) == Min(Blocks \ used)

\* Where md.next leads to from b, and the blocks on the way; NUM_BLOCKS of them
\* if it loops.
Walk(d, b) ==
    LET next == [x \in Blocks \cup {0} |-> IF x = 0 THEN 0 ELSE d.md[x].next]
        walk[k \in 1..NUM_BLOCKS] == IF k = 1 THEN b ELSE next[walk[k - 1]]
    IN  walk

Chain(d, b) ==
    LET walk == Walk(d, b)
    IN  [k \in 1..Cardinality({n \in 1..NUM_BLOCKS : walk[n] # 0}) |-> walk[k]]

\* The file's chain fits the buffer on hello_write's stack, into which whole
\* blocks are read: that of a file of nearly MAX_REQUEST_SIZE may not.
FitsBuffer(d, b) == Len(Chain(d, b)) * USABLE_SPACE <= MAX_REQUEST_SIZE

\* What the loop over a chain reads: whole blocks, whatever the file's size.
ChainCells(d, chain) ==
    [i \in 1..(Len(chain) * USABLE_SPACE) |->
        d.data[chain[((i - 1) \div USABLE_SPACE) + 1]][((i - 1) % USABLE_SPACE) + 1]]
-----------------------------------------------------------------------------
\* hello_create: the bitmap is saved before the name is measured and before
\* the metadata is written.
hello_create(d, n) ==
    LET used  == d.bitmap
        b     == NextAvailableBlock(used)
        saved == [d EXCEPT !.bitmap = used \cup {b}]
        md    == [filename |-> n, file_size |-> 0, next |-> 0]
    IN  IF Entries(d, used, n) # {} \/ used = Blocks
        THEN [images |-> <<>>, bitmap |-> used]
        ELSE [images |-> IF n \in LongNames THEN <<saved>>
                                         ELSE <<saved, PutMetadata(saved, b, md)>>,
              bitmap |-> saved.bitmap]

\* Mutants: only the first block is read; memset comes before the record is
\* written; memset is missing; the bitmap is not saved.
WriteBuffer_first(d, chain, offset, buf) ==
    [k \in 1..(offset + Len(buf)) |->
        IF k > offset THEN buf[k - offset]
        ELSE IF k <= USABLE_SPACE THEN d.data[chain[1]][k] ELSE StackCell]

Linked_cleared(md, b) == [ZeroMetadata EXCEPT !.next = b]

RecordAfterLink_kept(md) == [md EXCEPT !.next = 0]

FinishWrite_nosave(s, cells) ==
    Append(s.images, PutData(Last(s.images), s.block, cells))

\* The bytes hello_write stores: buf over what the chain holds, and over the
\* stack past it.
WriteBuffer(d, chain, offset, buf) ==
    LET old == ChainCells(d, chain)
    IN  [k \in 1..(offset + Len(buf)) |->
            IF k > offset THEN buf[k - offset]
            ELSE IF k <= Len(old) THEN old[k] ELSE StackCell]

\* The record written when block b is linked, and the one in memory after it,
\* which stands for b's own until it is linked further.
Linked(md, b) == [md EXCEPT !.next = b]

RecordAfterLink(md) == ZeroMetadata

\* One turn of hello_write's loop for a block that is not the last.
WriteBlock(s, cells) ==
    LET d == Last(s.images)
        b == NextAvailableBlock(s.bitmap)
        linked == PutMetadata(d, s.block, Linked(s.md, b))
    IN  IF s.failed THEN s
        ELSE IF s.md.next # 0
        THEN [s EXCEPT !.images = Append(@, PutData(d, s.block, cells)),
                       !.block = s.md.next,
                       !.md = d.md[s.md.next]]
        ELSE IF s.bitmap = Blocks
        THEN [s EXCEPT !.failed = TRUE]
        ELSE [s EXCEPT !.images = @ \o <<linked, PutData(linked, s.block, cells)>>,
                       !.bitmap = @ \cup {b},
                       !.block = b,
                       !.md = RecordAfterLink(@)]

\* The loop over the first n blocks of buffer, from s0.
WriteBlocks(s0, buffer, n) ==
    LET turns[k \in 0..n] ==
            IF k = 0 THEN s0
            ELSE WriteBlock(turns[k - 1],
                            SubSeq(buffer, (k - 1) * USABLE_SPACE + 1, k * USABLE_SPACE))
    IN  turns[n]

\* The last block, whose metadata is not written, and the bitmap.
FinishWrite(s, cells) ==
    LET last == PutData(Last(s.images), s.block, cells)
    IN  s.images \o <<last, [last EXCEPT !.bitmap = s.bitmap]>>

\* hello_write of a file that exists.  The size goes first, the bitmap last; a
\* store that fills on the way leaves the rest out, and -ENOMEM is returned.
hello_write(d, used, n, offset, buf) ==
    LET start  == FileStart(d, used, n)
        size   == offset + Len(buf)
        buffer == WriteBuffer(d, Chain(d, start), offset, buf)
        md     == [d.md[start] EXCEPT !.file_size = size]
        full   == (size - 1) \div USABLE_SPACE
        s == WriteBlocks([images |-> <<PutMetadata(d, start, md)>>, bitmap |-> used,
                          block |-> start, md |-> md, failed |-> FALSE],
                         buffer, full)
    IN  [images |-> IF s.failed THEN s.images
                    ELSE FinishWrite(s, SubSeq(buffer, full * USABLE_SPACE + 1, size)),
         bitmap |-> s.bitmap,
         enomem |-> s.failed]

\* hello_unlink: the bits go, the metadata stays.
hello_unlink(d, n) ==
    LET start == FileStart(d, d.bitmap, n)
        freed == IF start = 0 THEN d.bitmap
                              ELSE d.bitmap \ ToSet(Chain(d, start))
    IN  [images |-> IF start = 0 THEN <<>> ELSE <<[d EXCEPT !.bitmap = freed]>>,
         bitmap |-> freed]

\* Whether hello_truncate to a larger size finds the blocks; used is the bitmap
\* in memory, and the links it makes are lost with the file opened O_RDONLY.
TruncateFits(d, used, start, size) ==
    LET Turn(s, k) ==
            LET next == d.md[s.block].next
                b    == NextAvailableBlock(s.used)
            IN  IF s.failed THEN s
                ELSE IF next # 0 THEN [s EXCEPT !.block = next]
                ELSE IF s.used = Blocks THEN [s EXCEPT !.failed = TRUE]
                ELSE [s EXCEPT !.block = b, !.used = @ \cup {b}]
    IN  ~FoldLeft(Turn, [block |-> start, used |-> used, failed |-> FALSE],
                  [k \in 1..((size - 1) \div USABLE_SPACE) |-> k]).failed

\* hello_truncate leaves the image as it was.  After one that succeeds libfuse
\* calls hello_getattr, which reads the bitmap back; one that runs out of blocks
\* leaves every bit of the bitmap in memory set.
hello_truncate(d, used, n, size) ==
    LET start == FileStart(d, used, n)
    IN  [images |-> <<>>,
         bitmap |-> IF start = 0 THEN used
                    ELSE IF size <= d.md[start].file_size
                            \/ TruncateFits(d, used, start, size)
                    THEN d.bitmap
                    ELSE Blocks]
-----------------------------------------------------------------------------
Init == disk = NewImage /\ bitmap = {}

\* The call with result r returns.
Return(r) == disk' = Last(<<disk>> \o r.images) /\ bitmap' = r.bitmap

\* The daemon is killed inside the call, and main() of the next one reads the
\* bitmap from the image.
Killed(r) == \E k \in 1..(Len(r.images) - 1) :
                disk' = r.images[k] /\ bitmap' = r.images[k].bitmap

Create(n) == Return(hello_create(disk, n))

\* Where a client may write: anywhere in the file, with room for the data.
Writable(n, offset, buf) ==
    LET start == FileStart(disk, bitmap, n)
    IN  /\ start # 0
        /\ FitsBuffer(disk, start)
        /\ offset <= disk.md[start].file_size
        /\ offset + Len(buf) <= MAX_REQUEST_SIZE

Write(n, offset, buf) ==
    /\ Writable(n, offset, buf)
    /\ Return(hello_write(disk, bitmap, n, offset, buf))

Offsets == 0..MAX_REQUEST_SIZE

WriteAny(n) ==
    \E offset \in Offsets, buf \in Requests : Write(n, offset, buf)

Unlink(n) ==
    /\ LET start == FileStart(disk, disk.bitmap, n)
       IN  start # 0 => Len(Chain(disk, start)) < NUM_BLOCKS
    /\ Return(hello_unlink(disk, n))

Truncate(n) == \E size \in Sizes : Return(hello_truncate(disk, bitmap, n, size))

\* hello_getattr of any path; main() of a daemon started anew does the same.
Getattr == disk' = disk /\ bitmap' = disk.bitmap

CreateKilled(n) == Killed(hello_create(disk, n))

WriteKilled(n) ==
    \E offset \in Offsets, buf \in Requests :
        /\ Writable(n, offset, buf)
        /\ Killed(hello_write(disk, bitmap, n, offset, buf))

\* Calls that add to the store, calls of a daemon that may be killed, and calls
\* with hello_unlink.
Keep == \/ \E n \in Names \cup LongNames : Create(n)
        \/ \E n \in Names : WriteAny(n)
        \/ \E n \in Names : Truncate(n)
        \/ Getattr

Kill == \E n \in Names : CreateKilled(n) \/ WriteKilled(n)

Delete == \E n \in Names : Unlink(n)

UnlinkSpec == Init /\ [][Keep \/ Delete]_vars

KillSpec == Init /\ [][Keep \/ Kill]_vars

\* Calls of which each hello_write finds the blocks it needs.
WriteStored(n) ==
    \E offset \in Offsets, buf \in Requests :
        /\ Write(n, offset, buf)
        /\ ~hello_write(disk, bitmap, n, offset, buf).enomem

KeepStored == \/ \E n \in Names \cup LongNames : Create(n)
              \/ \E n \in Names : WriteStored(n)
              \/ \E n \in Names : Truncate(n)
              \/ Getattr

StoredSpec == Init /\ [][KeepStored]_vars

\* Calls on files of one block, with hello_unlink and without names that do not
\* fit: hello_create marks a block for one before it finds out, and the block
\* still has the record of the removed file it was last of.
WriteInBlock(n) ==
    \E offset \in Offsets, buf \in Requests :
        offset + Len(buf) <= USABLE_SPACE /\ Write(n, offset, buf)

\* A hello_truncate that runs out of blocks would leave every bit set in memory,
\* and the next hello_write save them.
TruncateStored(n) == Truncate(n) /\ bitmap' = disk.bitmap

OneBlockCall == \/ \E n \in Names : Create(n) \/ WriteInBlock(n)
                \/ \E n \in Names : TruncateStored(n)
                \/ Getattr
                \/ Delete

OneBlockSpec == Init /\ [][OneBlockCall]_vars
-----------------------------------------------------------------------------
\* Every part of the image and the bitmap in memory has its type: the handlers
\* link blocks of the image only and never block 0, the superblock.
TypeOK == disk \in Image /\ bitmap \subseteq Blocks

Exists(n) == Entries(disk, disk.bitmap, n) # {}

\* hello_read of a whole file.
hello_read(d, n) ==
    LET start == FileStart(d, d.bitmap, n)
        cells == ChainCells(d, Chain(d, start))
    IN  SubSeq(cells, 1, Min({d.md[start].file_size, Len(cells)}))

\* No block is reached from two files, no file reaches a block twice, and the
\* bitmap marks what is reached: hello_write follows and extends md.next on disk
\* while it allocates by the bitmap in memory.
ChainsApart ==
    LET Of(n) == IF Exists(n) THEN Chain(disk, FileStart(disk, disk.bitmap, n)) ELSE <<>>
    IN  /\ \A n \in Names : IsInjective(Of(n)) /\ ToSet(Of(n)) \subseteq disk.bitmap
        /\ \A m, n \in Names : m # n => ToSet(Of(m)) \cap ToSet(Of(n)) = {}

\* Both: what the handlers trust in the image and the bitmap is so.
StoreSound == TypeOK /\ ChainsApart

\* At most one block in use carries a name, whatever was interrupted: the
\* handlers stop at the first, so a second one would shadow a file.
OneEntryPerName == \A n \in Names : Cardinality(Entries(disk, disk.bitmap, n)) <= 1

\* A file that exists still exists after any call, failed or killed, and starts
\* at the same block, as long as nothing is unlinked.
EntriesStay ==
    [][\A n \in Names : Exists(n) =>
          FileStart(disk', disk'.bitmap, n) = FileStart(disk, disk.bitmap, n)]_vars

\* "For consecutive blocks (e.g. not the first block in the file), set File Name
\* to NULL": a block that continues a file answers to no name.
ContinuationsUnnamed ==
    \A n \in Names : Exists(n) =>
        LET chain == Chain(disk, FileStart(disk, disk.bitmap, n))
        IN  \A k \in 2..Len(chain) : disk.md[chain[k]].filename = NoName

\* The image read through its chains is the map from names to contents of
\* FileMap: a create, a write and an unlink change the file they name as FileMap
\* says, whatever blocks it has, and no other file; no other call changes any.
\* FileMap has a write end the file where its data end, as hello.c:383 does, so
\* that what was behind them is lost is not an error here; and it has no
\* truncate: hello_truncate may return 0, and changes nothing (hello.c:139).
Files == INSTANCE FileMap
    WITH Missing <- NoName,
         files <- [n \in Names |-> IF Exists(n) THEN hello_read(disk, n) ELSE NoName]

Implements == Files!Spec
=============================================================================
