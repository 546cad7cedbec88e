-------------------------------- MODULE Nand --------------------------------
(***************************************************************************)
(* component/nandflash: NANDflash, a byte store on an MTD partition with   *)
(* bad blocks.  One call runs at a time (nothing in the class is locked);  *)
(* reading the block, erasing it and programming it are separate steps,    *)
(* each may fail, and the power may go at any of them.                     *)
(***************************************************************************)
EXTENDS Integers, FiniteSets

CONSTANTS
  NumBlocks,  \* blocks of the partition: size / erasesize
  BlockSize,  \* cells of a block: erasesize, a power of two
  PageSize,   \* cells of a page: writesize
  Entries,    \* entries of blockstatus[]: 256
  Window,     \* entries of blockstatus[] and of the memory after it that the model holds
  MaxWrites,  \* bound: calls of nand_flash_write() and nand_flash_block_erase()
  MaxLen,     \* bound: length of a call
  Lengths     \* lengths of the calls made

ASSUME NandAssumption ==
  /\ {NumBlocks, BlockSize, PageSize, Entries, Window, MaxWrites, MaxLen} \subseteq Nat \ {0}
  /\ Window >= NumBlocks /\ Window >= Entries
  /\ Lengths \subseteq 1..MaxLen
  /\ BlockSize % PageSize = 0

VARIABLES
  flash,        \* the medium, by physical block
  bad,          \* physical blocks the driver reports as bad
  blockstatus,  \* what nand_flash_init() recorded of them
  readbuf,      \* nandMtdInfo.readbuf
  pc,
  op,           \* arguments of the running call, or of the last one
  i,            \* loop over the blocks of the call
  blk,          \* block_address / block_size: the block before bad blocks are skipped
  pos,          \* data - src
  index1, index2, total,  \* locals of nand_get_good_block()
  phys,         \* temp_block_address / block_size
  dest,         \* the caller's buffer of a read
  ret,          \* what the last call returned
  old,          \* ghost: the medium when the last write started
  lost          \* ghost: addresses the last call could not read, or wrote short without an error

medium == <<flash, bad>>
walk   == <<index1, index2, total>>
place  == <<i, blk, pos>>
ghosts == <<old, lost>>
vars   == <<flash, bad, blockstatus, readbuf, pc, op, i, blk, pos,
            index1, index2, total, phys, dest, ret, old, lost>>

Blocks == 0..(NumBlocks - 1)
Cells  == 0..(BlockSize - 1)
Pages  == 0..(BlockSize \div PageSize - 1)
Statuses == {"GOOD", "BAD"}

\* The content of a cell: erased, uninitialised memory, what the medium held at
\* first, or the k-th byte of the n-th write.
Erased == <<0, 0>>
Junk   == <<0, 1>>
Origin(b, c) == <<0, 2 + b * BlockSize + c>>
Byte(n, k) == <<n, k>>
CellValues == ({0} \X (0..(1 + NumBlocks * BlockSize))) \cup ((1..MaxWrites) \X (0..(MaxLen - 1)))

ErasedBlock == [c \in Cells |-> Erased]
JunkBlock   == [c \in Cells |-> Junk]
JunkBuffer  == [k \in 0..(MaxLen - 1) |-> Junk]

\* blockstatus[] is a member without initialiser: any bytes before
\* nand_flash_init(), of which the model keeps those that init never writes.
RawStatus ==
  {[k \in 0..(Window - 1) |-> IF k \in past THEN "BAD" ELSE "GOOD"] :
     past \in SUBSET (NumBlocks..(Window - 1))}

Init ==
  /\ flash = [b \in Blocks |-> [c \in Cells |-> Origin(b, c)]]
  /\ bad \in SUBSET Blocks
  /\ blockstatus \in RawStatus
  /\ readbuf = JunkBlock
  /\ pc = "closed"
  /\ op = [kind |-> "none", offset |-> 0, len |-> 0, n |-> 0]
  /\ i = 0 /\ blk = 0 /\ pos = 0
  /\ index1 = 0 /\ index2 = 0 /\ total = 0
  /\ phys = 0
  /\ dest = JunkBuffer
  /\ ret = "none"
  /\ old = flash
  /\ lost = {}

-----------------------------------------------------------------------------
(* nand_flash_init(), nand_flash_close(), and the end of the power.         *)

\* nand_set_block_status() records the marks of the partition's blocks; an
\* error, of it or of a call before it, leaves the device closed.  Nothing looks
\* at the size of blockstatus[]: a mark past it falls into memory of others, and
\* nothing more is said of the program then.
Open ==
  /\ pc = "closed"
  /\ \E n \in 0..NumBlocks :
       /\ blockstatus' = [k \in 0..(Window - 1) |->
                            IF k >= n THEN blockstatus[k]
                            ELSE IF k \in bad THEN "BAD" ELSE "GOOD"]
       /\ pc' = CASE n > Entries -> "astray"
                  [] n <= Entries /\ n = NumBlocks -> "ready"
                  [] OTHER -> "closed"
  /\ UNCHANGED <<medium, readbuf, op, place, walk, phys, dest, ret, ghosts>>

\* What the last call was does not matter any more.
Forget ==
  /\ op' = [kind |-> "none", offset |-> 0, len |-> 0, n |-> op.n]
  /\ lost' = {}

\* free(readbuf).
Close ==
  /\ pc = "ready"
  /\ pc' = "closed"
  /\ readbuf' = JunkBlock
  /\ dest' = JunkBuffer
  /\ ret' = "none"
  /\ Forget
  /\ UNCHANGED <<medium, blockstatus, place, walk, phys, old>>

\* The locals of a call are gone.
EndCall ==
  /\ i' = 0 /\ blk' = 0 /\ pos' = 0
  /\ index1' = 0 /\ index2' = 0 /\ total' = 0
  /\ phys' = 0

\* Programming stopped after the first n pages.
Partly(n) == [c \in Cells |-> IF c < n * PageSize THEN readbuf[c] ELSE Erased]

PowerLoss ==
  /\ pc # "closed"
  /\ pc' = "closed"
  /\ \/ UNCHANGED flash
     \/ pc = "erase" /\ phys \in Blocks \ bad
        /\ flash' = [flash EXCEPT ![phys] = ErasedBlock]
     \/ pc = "program"
        /\ \E n \in Pages : flash' = [flash EXCEPT ![phys] = Partly(n)]
  /\ EndCall
  /\ ret' = "none"
  /\ blockstatus' \in RawStatus
  /\ readbuf' = JunkBlock
  /\ dest' = JunkBuffer
  /\ IF op.kind = "read" THEN Forget ELSE UNCHANGED <<op, lost>>
  /\ UNCHANGED <<bad, old>>

-----------------------------------------------------------------------------
(* Where a call goes.                                                       *)

\* Fault: a remainder that fills a block is not told from an empty one.
nand_get_range_intersection_NoLast(base, len, size) ==
  LET first == base % size
      rest  == IF first > 0 THEN len - (size - first) ELSE len
  IN IF first > 0 /\ len <= size - first
     THEN [first |-> first, last |-> 0, num |-> 1]
     ELSE [first |-> first, last |-> 0,
           num |-> (IF first > 0 THEN 1 ELSE 0) + rest \div size]

\* nand_get_range_intersection(): offset in the first block, bytes in the last
\* one, and the number of blocks.
nand_get_range_intersection(base, len, size) ==
  LET first == base % size
      rest  == IF first > 0 THEN len - (size - first) ELSE len
      last  == rest % size
  IN IF first > 0 /\ len <= size - first
     THEN [first |-> first, last |-> 0, num |-> 1]
     ELSE [first |-> first, last |-> last,
           num |-> (IF first > 0 THEN 1 ELSE 0) + (IF last # 0 THEN 1 ELSE 0)
                   + rest \div size]

RangeOf(o) == nand_get_range_intersection(o.offset, o.len, BlockSize)

\* Block access attribute of the i-th block, its first cell and its cells.
Access ==
  LET r == RangeOf(op)
  IN CASE i = 0 /\ r.first > 0 /\ op.len <= BlockSize - r.first ->
            [attr |-> "LESS_THAN_BLOCK", lo |-> r.first, n |-> op.len]
       [] i = 0 /\ r.first > 0 /\ op.len > BlockSize - r.first ->
            [attr |-> "FIRST_BLOCK", lo |-> r.first, n |-> BlockSize - r.first]
       [] ~(i = 0 /\ r.first > 0) /\ i = r.num - 1 /\ r.last # 0 ->
            [attr |-> "LAST_BLOCK", lo |-> 0, n |-> r.last]
       [] OTHER -> [attr |-> "MIDDLE_BLOCK", lo |-> 0, n |-> BlockSize]

\* nand_get_good_block() starts: index1 = 0, index2 = address / block_size.
StartWalk(b) == index1' = 0 /\ index2' = b /\ total' = 0

Call(kind, offset, len, n) ==
  /\ pc = "ready"
  /\ op' = [kind |-> kind, offset |-> offset, len |-> len, n |-> n]
  /\ i' = 0 /\ pos' = 0
  /\ blk' = offset \div BlockSize
  /\ StartWalk(offset \div BlockSize)
  /\ pc' = "map"
  /\ lost' = {}
  /\ ret' = "none"
  /\ UNCHANGED <<medium, blockstatus, readbuf, phys>>

\* nand_flash_write() of len > 0 bytes.
WriteCall(offset, len) ==
  /\ op.n < MaxWrites
  /\ Call("write", offset, len, op.n + 1)
  /\ old' = flash
  /\ dest' = JunkBuffer

\* nand_flash_read() of len > 0 bytes.
ReadCall(offset, len) ==
  /\ Call("read", offset, len, op.n)
  /\ dest' = JunkBuffer
  /\ UNCHANGED old

-----------------------------------------------------------------------------
(* nand_get_good_block() and nand_get_bad_blk_cnt().                        *)

Status(k) == IF k \in 0..(Window - 1) THEN blockstatus[k] ELSE "GOOD"

BadIn(a, b) == {k \in a..b : Status(k) = "BAD"}
nand_get_bad_blk_cnt(a, b) == Cardinality(BadIn(a, b))

Mapped == IF op.kind = "read" THEN "fetch" ELSE "fill"

\* Fault: the next interval starts at the block just counted.
SkipBad_Overlap ==
  LET n == nand_get_bad_blk_cnt(index1, index2)
  IN /\ pc = "map"
     /\ n > 0
     /\ index1' = index2
     /\ index2' = index2 + n
     /\ total' = total + n
     /\ UNCHANGED <<pc, phys>>
     /\ UNCHANGED <<medium, blockstatus, readbuf, op, place, dest, ret, ghosts>>

\* One turn of the loop: skip as many blocks as were bad.
SkipBad ==
  LET n == nand_get_bad_blk_cnt(index1, index2)
  IN /\ pc = "map"
     /\ n > 0
     /\ index1' = index2 + 1
     /\ index2' = index2 + n
     /\ total' = total + n
     /\ UNCHANGED <<pc, phys>>
     /\ UNCHANGED <<medium, blockstatus, readbuf, op, place, dest, ret, ghosts>>

\* No bad block left in the interval: address + total_bad_blk_num * block_size.
FoundGood ==
  /\ pc = "map"
  /\ nand_get_bad_blk_cnt(index1, index2) = 0
  /\ phys' = blk + total
  /\ pc' = Mapped
  /\ UNCHANGED <<medium, blockstatus, readbuf, op, place, walk, dest, ret, ghosts>>

-----------------------------------------------------------------------------
(* nand_block_read() and nand_block_write().                                *)

\* The call returns.
Return(r) == pc' = "ready" /\ ret' = r /\ EndCall

\* Whether the block is the last of the call.
LastBlock == i + 1 = RangeOf(op).num

\* Fault: the caller's data advances by a whole block after a part of one.
NextBlock_WholeBlock ==
  \/ LastBlock /\ Return("ok")
  \/ /\ ~LastBlock
     /\ pc' = "map"
     /\ i' = i + 1
     /\ blk' = blk + 1
     /\ pos' = pos + BlockSize
     /\ StartWalk(blk + 1)
     /\ UNCHANGED <<ret, phys>>

\* The next block of the call, or its successful end.  data_incr of a last
\* block is stale, but no block follows.
NextBlock ==
  \/ LastBlock /\ Return("ok")
  \/ /\ ~LastBlock
     /\ pc' = "map"
     /\ i' = i + 1
     /\ blk' = blk + 1
     /\ pos' = pos + (BlockSize - Access.lo)
     /\ StartWalk(blk + 1)
     /\ UNCHANGED <<ret, phys>>

\* What reading cell c of the block brings, with some pages unreadable: a
\* failed read() leaves the buffer as it was, a read() past the end of the
\* partition copies an uninitialised page buffer.
ReadCell(c, failed, was) ==
  IF c \div PageSize \in failed THEN was
  ELSE IF phys \in Blocks THEN flash[phys][c] ELSE Junk

Wanted == Access.lo..(Access.lo + Access.n - 1)
Unread(cells, failed) == {blk * BlockSize + c : c \in {d \in cells : d \div PageSize \in failed}}

\* nand_block_read() for the caller; its result is ignored.
Fetch ==
  /\ pc = "fetch"
  /\ \E failed \in SUBSET Pages :
       /\ dest' = [k \in DOMAIN dest |->
                     LET c == Access.lo + (k - pos)
                     IN IF k \in pos..(pos + Access.n - 1)
                        THEN ReadCell(c, failed, dest[k]) ELSE dest[k]]
       /\ lost' = lost \cup Unread(Wanted, failed)
  /\ NextBlock
  /\ UNCHANGED <<medium, blockstatus, readbuf, op, old>>

\* The new content of readbuf: the caller's bytes over what was read.
Merged(failed) ==
  [c \in Cells |->
     IF c \in Wanted
     THEN Byte(op.n, pos + (c - Access.lo))
     ELSE ReadCell(c, failed, readbuf[c])]

\* Fault: the old content of a partly written block is not read first.
Fill_NoRead ==
  /\ pc = "fill"
  /\ readbuf' = Merged(Pages)
  /\ pc' = "erase"
  /\ UNCHANGED <<medium, blockstatus, op, place, walk, phys, dest, ret, ghosts>>

\* nand_block_write() prepares readbuf; a failed read is overwritten by the
\* result of the erase.
Fill ==
  /\ pc = "fill"
  /\ \E failed \in SUBSET Pages :
       /\ Access.attr = "MIDDLE_BLOCK" => failed = {}
       /\ readbuf' = Merged(failed)
       /\ lost' = lost \cup Unread(Cells \ Wanted, failed)
  /\ pc' = "erase"
  /\ UNCHANGED <<medium, blockstatus, op, place, walk, phys, dest, ret, old>>

\* nand_erase_block(): MEMERASE refuses a bad block and an address past the
\* end, and may fail before or after the block is erased.
Erase ==
  /\ pc = "erase"
  /\ \/ /\ phys \in Blocks \ bad
        /\ flash' = [flash EXCEPT ![phys] = ErasedBlock]
        /\ pc' = "program"
        /\ UNCHANGED <<ret, place, walk, phys>>
     \/ /\ phys \in Blocks \ bad
        /\ flash' = [flash EXCEPT ![phys] = ErasedBlock]
        /\ Return("error")
     \/ UNCHANGED flash /\ Return("error")
  /\ UNCHANGED <<bad, blockstatus, readbuf, op, dest, ghosts>>

\* Fault: a failed write() is tried again.
Program_Retry ==
  /\ pc = "program"
  /\ \/ flash' = [flash EXCEPT ![phys] = readbuf] /\ NextBlock
     \/ UNCHANGED <<flash, ret, place, walk, phys>> /\ pc' = "erase"
  /\ UNCHANGED <<bad, blockstatus, readbuf, op, dest, ghosts>>

\* The addresses of the block that its first n pages do not hold.
Unstored(n) == {blk * BlockSize + c : c \in {d \in Cells : d >= n * PageSize}}

\* lseek() and write() of the whole block: a write() that stops early without an
\* error counts as a full one.
Program ==
  /\ pc = "program"
  /\ \/ flash' = [flash EXCEPT ![phys] = readbuf] /\ NextBlock /\ UNCHANGED lost
     \/ \E n \in Pages :
          /\ flash' = [flash EXCEPT ![phys] = Partly(n)]
          /\ \/ Return("error") /\ UNCHANGED lost
             \/ NextBlock /\ lost' = lost \cup Unstored(n)
  /\ UNCHANGED <<bad, blockstatus, readbuf, op, dest, old>>

\* nand_flash_block_erase(): the index is that of a physical block.
BlockErase(k) ==
  /\ pc = "ready"
  /\ op.n < MaxWrites
  /\ op' = [kind |-> "erase", offset |-> 0, len |-> 0, n |-> op.n + 1]
  /\ \/ k \in Blocks \ bad /\ flash' = [flash EXCEPT ![k] = ErasedBlock] /\ ret' = "ok"
     \/ UNCHANGED flash /\ ret' = "error"
  /\ dest' = JunkBuffer
  /\ lost' = {}
  /\ UNCHANGED <<pc, place, walk, bad, blockstatus, readbuf, phys, old>>

-----------------------------------------------------------------------------

Offsets == 0..(NumBlocks * BlockSize - 1)

\* The steps of a running call.
Run == SkipBad \/ FoundGood \/ Fetch \/ Fill \/ Erase \/ Program

Next ==
  \/ Open \/ Close \/ PowerLoss
  \/ \E offset \in Offsets, len \in Lengths : WriteCall(offset, len) \/ ReadCall(offset, len)
  \/ \E k \in 0..NumBlocks : BlockErase(k)
  \/ Run

Spec == Init /\ [][Next]_vars

\* A call that started goes on.
FairSpec == Spec /\ WF_vars(Run)
-----------------------------------------------------------------------------
(* Properties.                                                              *)

Pcs == {"closed", "astray", "ready", "map", "fetch", "fill", "erase", "program"}

\* The variables have their types; in particular each byte put into readbuf is
\* one of the bytes the caller passed.
TypeOK ==
  /\ flash \in [Blocks -> [Cells -> CellValues]]
  /\ bad \subseteq Blocks
  /\ blockstatus \in [0..(Window - 1) -> Statuses]
  /\ readbuf \in [Cells -> CellValues]
  /\ pc \in Pcs
  /\ op \in [kind : {"none", "write", "read", "erase"}, offset : Nat, len : Nat, n : Nat]
  /\ i \in Nat /\ blk \in Nat /\ pos \in Nat
  /\ index1 \in Nat /\ index2 \in Nat /\ total \in Nat
  /\ phys \in Nat
  /\ dest \in [0..(MaxLen - 1) -> CellValues]
  /\ ret \in {"none", "ok", "error"}
  /\ old \in [Blocks -> [Cells -> CellValues]]
  /\ lost \subseteq Nat

\* nand_get_good_block() skips the bad blocks exactly: the block it finds is
\* good and as many good blocks lie below it as the address asked for, so
\* different addresses never share a block.
GoodBelow(b) == {k \in 0..(b - 1) : Status(k) = "GOOD"}
MapExact ==
  pc \in {"fetch", "fill", "erase", "program"} =>
    Status(phys) = "GOOD" /\ Cardinality(GoodBelow(phys)) = blk

\* The logical blocks of the partition and where they are, by definition.
Good == Blocks \ bad
Logical == 0..(Cardinality(Good) - 1)
BlockOf(l) == CHOOSE b \in Good : Cardinality({g \in Good : g < b}) = l

\* An address the good blocks can hold is searched inside the partition: the
\* walk over blockstatus[] stays in the entries that were initialised.
WalkInside == pc = "map" /\ blk \in Logical => index2 \in Blocks

\* Byte c of logical block l before the last write, what it is to be after it,
\* and what it may be after it: bytes next to the written ones are lost where
\* the medium could not be read, and bytes that write() left out without an
\* error, and no other.
Before(l) == old[BlockOf(l)]
Written(a) == a \in op.offset..(op.offset + op.len - 1)
Rewritten(l) ==
  \A c \in Cells :
    LET a == l * BlockSize + c
    IN \/ a \in lost
       \/ flash[BlockOf(l)][c] =
            IF Written(a) THEN Byte(op.n, a - op.offset) ELSE Before(l)[c]

\* At any moment of a write, and after any failure or power loss in it, a block
\* that has not its new content yet, down to the last byte to be preserved,
\* has only blocks with their old content above it: at most one is torn.
InOrder ==
  op.kind = "write" =>
    \A l, m \in Logical : l < m => Rewritten(l) \/ flash[BlockOf(m)] = Before(m)

\* A write that reports success stored every byte and changed no other, except
\* bytes it could not read or that write() left out: neither is reported, but
\* they cost no byte of a page that was read and stored.
WriteDone ==
  op.kind = "write" /\ ret = "ok" =>
    /\ op.offset + op.len <= Cardinality(Good) * BlockSize
    /\ \A l \in Logical : Rewritten(l)

\* A read returns the bytes of the logical blocks.  It always reports success,
\* but a page that could not be read costs the bytes of that page only.
ReadBack ==
  op.kind = "read" /\ ret = "ok" =>
    \A k \in 0..(op.len - 1) :
      LET a == op.offset + k
      IN a \div BlockSize \in Logical /\ a \notin lost =>
           dest[k] = flash[BlockOf(a \div BlockSize)][a % BlockSize]

\* Every call returns, whatever fails, unless the power goes.
Returns == pc \in {"map", "fetch", "fill", "erase", "program"} ~> pc \in {"ready", "closed"}
=============================================================================
