----------------------------- MODULE NandProofs -----------------------------
(***************************************************************************)
(* Proofs about Nand, for every partition blockstatus[] has room for,      *)
(* every set of bad blocks, every address and length, every failure and    *)
(* loss of power: the bad blocks are skipped exactly, the variables keep   *)
(* their types, a write tears at most one block and a finished one is      *)
(* exact, and so is a read.                                                *)
(***************************************************************************)
EXTENDS Nand, FiniteSetTheorems, TLAPS

Mapping == {"fetch", "fill", "erase", "program"}

\* The types the argument needs.
MapTypes ==
  /\ bad \subseteq Blocks
  /\ blockstatus \in [0..(Window - 1) -> Statuses]
  /\ blk \in Nat /\ index1 \in Nat /\ index2 \in Nat /\ total \in Nat /\ phys \in Nat
  /\ pc \in Pcs

\* While a call runs blockstatus[] tells the bad blocks of the partition.
TableExact ==
  pc \notin {"closed", "astray"} => \A k \in Blocks : blockstatus[k] = "BAD" <=> k \in bad

\* The loop invariant of nand_get_good_block(): the bad blocks below index1 are
\* counted, and index2 is as far above the address.
WalkExact ==
  pc = "map" =>
    /\ index1 <= index2
    /\ total = nand_get_bad_blk_cnt(0, index1 - 1)
    /\ index2 = blk + total

MapInv == MapTypes /\ TableExact /\ WalkExact /\ MapExact /\ WalkInside

-----------------------------------------------------------------------------
(* Counting bad and good entries of blockstatus[].                          *)

\* A quotient of naturals is a natural.
LEMMA DivNat ==
  ASSUME NEW a \in Nat, NEW d \in Nat, d > 0
  PROVE  a \div d \in Nat
  OBVIOUS

\* The bad entries of an interval can be counted.
LEMMA BadInFinite ==
  ASSUME NEW a \in Int, NEW b \in Int
  PROVE  IsFiniteSet(BadIn(a, b)) /\ nand_get_bad_blk_cnt(a, b) \in Nat
<1>1. IsFiniteSet(a..b) /\ BadIn(a, b) \subseteq a..b
  BY FS_Interval DEF BadIn
<1> QED
  BY <1>1, FS_Subset, FS_CardinalityType DEF nand_get_bad_blk_cnt

\* The counts of two adjacent intervals add up.
LEMMA BadInSplit ==
  ASSUME NEW a \in Int, NEW b \in Int, NEW c \in Int, a <= b + 1, b <= c
  PROVE  nand_get_bad_blk_cnt(a, c)
           = nand_get_bad_blk_cnt(a, b) + nand_get_bad_blk_cnt(b + 1, c)
<1>1. /\ BadIn(a, c) = BadIn(a, b) \cup BadIn(b + 1, c)
      /\ BadIn(a, b) \cap BadIn(b + 1, c) = {}
  BY DEF BadIn
<1>2. Cardinality(BadIn(a, b) \cap BadIn(b + 1, c)) = 0
  BY <1>1, FS_EmptySet
<1>3. /\ nand_get_bad_blk_cnt(a, b) \in Nat /\ nand_get_bad_blk_cnt(b + 1, c) \in Nat
      /\ IsFiniteSet(BadIn(a, b)) /\ IsFiniteSet(BadIn(b + 1, c))
  BY BadInFinite
<1>4. Cardinality(BadIn(a, b) \cup BadIn(b + 1, c))
        = Cardinality(BadIn(a, b)) + Cardinality(BadIn(b + 1, c))
            - Cardinality(BadIn(a, b) \cap BadIn(b + 1, c))
  BY <1>3, FS_Union
<1> QED
  BY <1>1, <1>2, <1>3, <1>4 DEF nand_get_bad_blk_cnt

\* An interval counts no bad block exactly when all of it is good.
LEMMA BadInZero ==
  ASSUME NEW a \in Int, NEW b \in Int, nand_get_bad_blk_cnt(a, b) = 0
  PROVE  \A k \in a..b : Status(k) # "BAD"
<1>1. BadIn(a, b) = {}
  BY BadInFinite, FS_EmptySet DEF nand_get_bad_blk_cnt
<1> QED
  BY <1>1 DEF BadIn

\* Below b, what is not bad is good.
LEMMA GoodBelowCount ==
  ASSUME NEW b \in Nat, MapTypes
  PROVE  /\ IsFiniteSet(GoodBelow(b)) /\ Cardinality(GoodBelow(b)) \in Nat
         /\ Cardinality(GoodBelow(b)) = b - nand_get_bad_blk_cnt(0, b - 1)
<1>1. \A k \in Nat : Status(k) \in {"GOOD", "BAD"}
  BY DEF Status, MapTypes, Statuses
<1>2. /\ 0..(b - 1) = GoodBelow(b) \cup BadIn(0, b - 1)
      /\ GoodBelow(b) \cap BadIn(0, b - 1) = {}
  BY <1>1 DEF GoodBelow, BadIn
<1>3. IsFiniteSet(0..(b - 1)) /\ Cardinality(0..(b - 1)) = b
  BY FS_Interval
<1>4. IsFiniteSet(GoodBelow(b)) /\ Cardinality(GoodBelow(b)) \in Nat
  BY <1>2, <1>3, FS_Subset, FS_CardinalityType
<1>5. IsFiniteSet(BadIn(0, b - 1)) /\ nand_get_bad_blk_cnt(0, b - 1) \in Nat
  BY BadInFinite
<1>6. Cardinality(GoodBelow(b) \cap BadIn(0, b - 1)) = 0
  BY <1>2, FS_EmptySet
<1>7. Cardinality(GoodBelow(b) \cup BadIn(0, b - 1))
        = Cardinality(GoodBelow(b)) + Cardinality(BadIn(0, b - 1))
            - Cardinality(GoodBelow(b) \cap BadIn(0, b - 1))
  BY <1>4, <1>5, FS_Union
<1>8. Cardinality(GoodBelow(b) \cup BadIn(0, b - 1)) = b
  BY <1>2, <1>3, Zenon
<1> QED
  BY <1>4, <1>5, <1>6, <1>7, <1>8 DEF nand_get_bad_blk_cnt

\* Two good blocks with equally many good blocks below them are the same, and
\* the order of the addresses is that of the blocks.
LEMMA MapInjective ==
  ASSUME NEW b \in Nat, NEW c \in Nat, MapTypes, Status(b) = "GOOD", b < c
  PROVE  Cardinality(GoodBelow(b)) < Cardinality(GoodBelow(c))
<1>1. b \in GoodBelow(c) /\ b \notin GoodBelow(b) /\ GoodBelow(b) \subseteq GoodBelow(c)
  BY DEF GoodBelow
<1>2. /\ IsFiniteSet(GoodBelow(b)) /\ IsFiniteSet(GoodBelow(c))
      /\ Cardinality(GoodBelow(b)) \in Nat /\ Cardinality(GoodBelow(c)) \in Nat
  BY GoodBelowCount
<1>3. /\ Cardinality(GoodBelow(b)) <= Cardinality(GoodBelow(c))
      /\ Cardinality(GoodBelow(b)) = Cardinality(GoodBelow(c)) => GoodBelow(b) = GoodBelow(c)
  BY <1>1, <1>2, FS_Subset
<1> QED
  BY <1>1, <1>2, <1>3

\* Good and bad blocks make up the partition.
LEMMA Partition ==
  ASSUME MapTypes
  PROVE  /\ IsFiniteSet(bad) /\ Cardinality(bad) \in Nat /\ Cardinality(Good) \in Nat
         /\ Cardinality(Good) + Cardinality(bad) = NumBlocks
<1>1. NumBlocks \in Nat
  BY NandAssumption
<1>2. IsFiniteSet(Blocks) /\ Cardinality(Blocks) = NumBlocks
  BY <1>1, FS_Interval DEF Blocks
<1>3. IsFiniteSet(bad) /\ Cardinality(bad) \in Nat
  BY <1>2, FS_Subset, FS_CardinalityType DEF MapTypes
<1>4. Blocks \cap bad = bad
  BY DEF MapTypes
<1>5. Cardinality(Blocks \ bad) = Cardinality(Blocks) - Cardinality(Blocks \cap bad)
  BY <1>2, <1>3, FS_Difference
<1>6. Cardinality(Good) \in Nat
  BY <1>2, FS_Difference, FS_CardinalityType DEF Good
<1>7. Cardinality(Good) = NumBlocks - Cardinality(bad)
  BY <1>2, <1>4, <1>5, Zenon DEF Good
<1> QED
  BY <1>1, <1>3, <1>6, <1>7

-----------------------------------------------------------------------------
(* The invariant.                                                           *)

\* The invariant holds of an object just made.
LEMMA MapInit == Init => MapInv
<1> SUFFICES ASSUME Init PROVE MapInv
  OBVIOUS
<1>1. blockstatus \in [0..(Window - 1) -> Statuses]
  BY DEF Init, RawStatus, Statuses
<1> QED
  BY <1>1 DEF Init, MapInv, MapTypes, TableExact, WalkExact, MapExact, WalkInside, Pcs

\* Every step keeps the types.
LEMMA MapTypesStep ==
  ASSUME MapTypes, Next
  PROVE  MapTypes'
<1> USE NandAssumption DEF MapTypes
<1>1. CASE Open
  BY <1>1 DEF Open, Statuses, Pcs, medium, place, walk
<1>2. CASE Close
  BY <1>2 DEF Close, Pcs, medium, place, walk
<1>3. CASE PowerLoss
  BY <1>3 DEF PowerLoss, EndCall, RawStatus, Statuses, Pcs
<1>4. ASSUME NEW offset \in Offsets, NEW len \in Lengths,
             WriteCall(offset, len) \/ ReadCall(offset, len)
      PROVE  MapTypes'
  <2>0. offset \in Nat /\ BlockSize \in Nat /\ BlockSize > 0
    BY DEF Offsets
  <2>1. offset \div BlockSize \in Nat
    BY <2>0, DivNat
  <2> QED
    BY <1>4, <2>1 DEF WriteCall, ReadCall, Call, StartWalk, Pcs, medium
<1>5. CASE SkipBad
  <2>0. index1 \in Int /\ index2 \in Int
    OBVIOUS
  <2>1. nand_get_bad_blk_cnt(index1, index2) \in Nat
    BY <2>0, BadInFinite
  <2>2. /\ index1' = index2 + 1
        /\ index2' = index2 + nand_get_bad_blk_cnt(index1, index2)
        /\ total' = total + nand_get_bad_blk_cnt(index1, index2)
        /\ UNCHANGED <<pc, phys, bad, blockstatus, blk>>
    BY <1>5, Zenon DEF SkipBad, medium, place
  <2>3. PICK n \in Nat : n = nand_get_bad_blk_cnt(index1, index2)
    BY <2>1
  <2>4. index1' = index2 + 1 /\ index2' = index2 + n /\ total' = total + n
    BY <2>2, <2>3, Zenon
  <2>5. index1' \in Nat /\ index2' \in Nat /\ total' \in Nat
    BY <2>3, <2>4, SMTT(30)
  <2> QED
    BY <2>2, <2>5
<1>6. CASE FoundGood
  BY <1>6 DEF FoundGood, Mapped, Pcs, medium, place, walk
<1>7. ASSUME NextBlock
      PROVE  /\ blk' \in Nat /\ index1' \in Nat /\ index2' \in Nat /\ total' \in Nat
             /\ phys' \in Nat /\ pc' \in Pcs
  BY <1>7 DEF NextBlock, Return, EndCall, StartWalk, Pcs
<1>8. CASE Fetch
  BY <1>7, <1>8 DEF Fetch, medium
<1>9. CASE Fill
  BY <1>9 DEF Fill, Pcs, medium, place, walk
<1>10. CASE Erase
  BY <1>10 DEF Erase, Return, EndCall, Pcs, place, walk
<1>11. CASE Program
  BY <1>7, <1>11 DEF Program, Return, EndCall, Pcs, place, walk
<1>12. ASSUME NEW k \in 0..NumBlocks, BlockErase(k)
       PROVE  MapTypes'
  BY <1>12 DEF BlockErase, place, walk
<1> QED
  BY <1>1, <1>2, <1>3, <1>4, <1>5, <1>6, <1>8, <1>9, <1>10, <1>11, <1>12 DEF Next, Run

\* bad and blockstatus[] change only when the object is made and initialised.
TableSame == bad' = bad /\ blockstatus' = blockstatus

\* Only making and initialising the object touch bad or blockstatus[], and only
\* initialising it leaves the closed state.
LEMMA TableStep ==
  ASSUME Next
  PROVE  \/ Open \/ PowerLoss
         \/ TableSame /\ (pc \notin {"closed", "astray"} \/ pc' = "closed")
  BY DEF Next, Run, Close, WriteCall, ReadCall, Call, SkipBad, FoundGood, Fetch, Fill, Erase,
         Program, BlockErase, TableSame, medium

\* Every step keeps blockstatus[] in agreement with the driver.
LEMMA TableExactStep ==
  ASSUME MapInv, Next
  PROVE  TableExact'
<1>1. CASE Open
  <2>1. \A k \in Blocks : k \in 0..(Window - 1) /\ ~(k >= NumBlocks)
    BY NandAssumption DEF Blocks
  <2>2. bad' = bad
    BY <1>1 DEF Open, medium
  <2>3. ASSUME pc' \notin {"closed", "astray"}, NEW k \in Blocks
        PROVE  blockstatus'[k] = "BAD" <=> k \in bad
    <3>1. blockstatus'[k] = IF k >= NumBlocks THEN blockstatus[k]
                            ELSE IF k \in bad THEN "BAD" ELSE "GOOD"
      BY <1>1, <2>1, <2>3 DEF Open
    <3> QED
      BY <2>1, <3>1
  <2> QED
    BY <2>2, <2>3 DEF TableExact
<1>2. CASE PowerLoss
  BY <1>2 DEF PowerLoss, TableExact
<1>3. CASE TableSame /\ (pc \notin {"closed", "astray"} \/ pc' = "closed")
  BY <1>3 DEF MapInv, TableExact, TableSame
<1> QED
  BY <1>1, <1>2, <1>3, TableStep

\* With the table unchanged an interval counts the same in the next state.
LEMMA CountsSame ==
  ASSUME TableSame
  PROVE  /\ \A k : Status(k)' = Status(k)
         /\ nand_get_bad_blk_cnt(0, index1 - 1)' = nand_get_bad_blk_cnt(0, index1' - 1)
         /\ GoodBelow(phys)' = GoodBelow(phys')
         /\ Good' = Good /\ Logical' = Logical
<1>1. \A k : Status(k)' = Status(k)
  BY DEF TableSame, Status
<1>2. Good' = Good /\ Logical' = Logical
  BY DEF TableSame, Good, Logical
<1> QED
  BY <1>1, <1>2 DEF nand_get_bad_blk_cnt, BadIn, GoodBelow

WalkInv == WalkExact /\ MapExact /\ WalkInside

\* A walk starts: no block is counted yet.
LEMMA StartStep ==
  ASSUME MapInv, TableSame, NEW b \in Nat, StartWalk(b), blk' = b, pc' = "map"
  PROVE  WalkInv'
<1>1. BadIn(0, -1) = {} /\ 0 - 1 = -1
  BY DEF BadIn
<1>2. nand_get_bad_blk_cnt(0, 0 - 1) = 0
  BY <1>1, FS_EmptySet DEF nand_get_bad_blk_cnt
<1>3. b \in Logical => b \in Blocks
  BY Partition, NandAssumption DEF Logical, Blocks, MapInv
<1>4. WalkExact'
  BY <1>2, CountsSame DEF StartWalk, WalkExact
<1> QED
  BY <1>3, <1>4, CountsSame DEF StartWalk, WalkInv, MapExact, WalkInside

\* One turn of the loop.
LEMMA SkipStep ==
  ASSUME MapInv, SkipBad
  PROVE  WalkInv'
<1> DEFINE n == nand_get_bad_blk_cnt(index1, index2)
<1>1. /\ index1 \in Nat /\ index2 \in Nat /\ total \in Nat /\ blk \in Nat
      /\ pc = "map" /\ index1 <= index2
      /\ total = nand_get_bad_blk_cnt(0, index1 - 1)
      /\ index2 = blk + total
  BY DEF MapInv, MapTypes, WalkExact, SkipBad
<1>2. n \in Nat /\ n > 0
  BY <1>1, BadInFinite DEF SkipBad
<1>3. /\ index1' = index2 + 1 /\ index2' = index2 + n /\ total' = total + n
      /\ pc' = "map" /\ blk' = blk /\ TableSame
  BY <1>1 DEF SkipBad, place, medium, TableSame
<1>4. total + n = nand_get_bad_blk_cnt(0, index2)
  <2>1. (index1 - 1) + 1 = index1 /\ index1 - 1 \in Int /\ 0 <= (index1 - 1) + 1
        /\ index1 - 1 <= index2
    BY <1>1
  <2>2. nand_get_bad_blk_cnt(0, index2)
          = nand_get_bad_blk_cnt(0, index1 - 1) + nand_get_bad_blk_cnt((index1 - 1) + 1, index2)
    BY <1>1, <2>1, BadInSplit
  <2> QED
    BY <1>1, <2>1, <2>2
<1>5. WalkExact'
  <2>1. index1' - 1 = index2
    BY <1>1, <1>3
  <2>2. nand_get_bad_blk_cnt(0, index1 - 1)' = nand_get_bad_blk_cnt(0, index2)
    BY <1>3, <2>1, CountsSame
  <2>3. /\ index1' <= index2' /\ index2' = blk' + total'
        /\ total' = nand_get_bad_blk_cnt(0, index1 - 1)'
    BY <1>1, <1>2, <1>3, <1>4, <2>2
  <2> QED
    BY <2>3 DEF WalkExact
<1>6. ASSUME blk \in Logical
      PROVE  index2' \in Blocks
  <2>1. index2 \in Blocks
    BY <1>1, <1>6 DEF MapInv, WalkInside
  <2>2. BadIn(0, index2) \subseteq bad
    <3>1. \A k \in 0..index2 : k \in Blocks /\ k \in 0..(Window - 1)
      BY <2>1, NandAssumption DEF Blocks
    <3> QED
      BY <1>1, <3>1 DEF BadIn, Status, MapInv, TableExact
  <2>3. nand_get_bad_blk_cnt(0, index2) <= Cardinality(bad)
    BY <2>2, Partition, FS_Subset DEF nand_get_bad_blk_cnt, MapInv
  <2>4. blk <= Cardinality(Good) - 1 /\ NumBlocks \in Nat
    BY <1>6, NandAssumption DEF Logical
  <2>5. index2' = blk + nand_get_bad_blk_cnt(0, index2) /\ index2' \in Nat
    BY <1>1, <1>2, <1>3, <1>4
  <2>6. /\ Cardinality(bad) \in Nat /\ Cardinality(Good) \in Nat
        /\ Cardinality(Good) + Cardinality(bad) = NumBlocks
    BY Partition DEF MapInv
  <2>7. nand_get_bad_blk_cnt(0, index2) \in Nat
    BY <1>1, BadInFinite
  <2> QED
    BY <1>1, <2>3, <2>4, <2>5, <2>6, <2>7 DEF Blocks
<1>7. WalkInside' /\ MapExact'
  BY <1>3, <1>6, CountsSame DEF WalkInside, MapExact
<1> QED
  BY <1>5, <1>7 DEF WalkInv

\* The loop ends: address / block_size + total_bad_blk_num is the block.
LEMMA FoundStep ==
  ASSUME MapInv, FoundGood
  PROVE  WalkInv'
<1>1. /\ index1 \in Nat /\ index2 \in Nat /\ total \in Nat /\ blk \in Nat
      /\ pc = "map" /\ index1 <= index2
      /\ total = nand_get_bad_blk_cnt(0, index1 - 1)
      /\ index2 = blk + total
      /\ nand_get_bad_blk_cnt(index1, index2) = 0
  BY DEF MapInv, MapTypes, WalkExact, FoundGood
<1>2. phys' = index2 /\ blk' = blk /\ TableSame /\ pc' \in {"fetch", "fill"}
  BY <1>1 DEF FoundGood, Mapped, place, medium, TableSame
<1>3. \A k \in index1..index2 : Status(k) # "BAD"
  BY <1>1, BadInZero
<1>4. Status(index2) = "GOOD"
  BY <1>1, <1>3 DEF Status, MapInv, MapTypes, Statuses
<1>5. BadIn(0, index2 - 1) = BadIn(0, index1 - 1)
  BY <1>1, <1>3 DEF BadIn
<1>6. nand_get_bad_blk_cnt(0, index2 - 1) = total
  BY <1>1, <1>5 DEF nand_get_bad_blk_cnt
<1>7. Cardinality(GoodBelow(index2)) = blk
  BY <1>1, <1>6, GoodBelowCount DEF MapInv
<1>8. /\ Status(phys)' = "GOOD"
      /\ Cardinality(GoodBelow(phys))' = blk
  <2>1. Status(phys)' = Status(phys')
    BY <1>2 DEF Status, TableSame
  <2>2. GoodBelow(phys)' = GoodBelow(phys')
    BY <1>2, CountsSame
  <2> QED
    BY <1>2, <1>4, <1>7, <2>1, <2>2
<1> QED
  BY <1>2, <1>8 DEF WalkInv, WalkExact, MapExact, WalkInside

\* A step of a running call keeps the block found.
LEMMA StayStep ==
  ASSUME MapInv, TableSame, pc \in Mapping, pc' \in Mapping, UNCHANGED <<blk, phys>>
  PROVE  WalkInv'
<1>1. Status(phys)' = Status(phys) /\ GoodBelow(phys)' = GoodBelow(phys)
  BY CountsSame DEF Status, TableSame
<1> QED
  BY <1>1 DEF WalkInv, WalkExact, MapExact, WalkInside, MapInv, Mapping

\* A step that ends the call leaves nothing to show.
LEMMA EndStep ==
  ASSUME pc' \in {"ready", "closed", "astray"}
  PROVE  WalkInv'
  BY DEF WalkInv, WalkExact, MapExact, WalkInside

\* The call ends, or the walk of its next block starts.
LEMMA NextBlockStep ==
  ASSUME MapInv, TableSame, NextBlock
  PROVE  WalkInv'
<1>1. CASE LastBlock
  <2>1. pc' = "ready"
    BY <1>1 DEF NextBlock, Return
  <2> QED
    BY <2>1, EndStep
<1>2. CASE ~LastBlock
  <2>1. blk' = blk + 1 /\ StartWalk(blk + 1) /\ pc' = "map"
    BY <1>2 DEF NextBlock
  <2>2. blk \in Nat
    BY DEF MapInv, MapTypes
  <2>3. PICK b \in Nat : b = blk + 1
    BY <2>2
  <2>4. StartWalk(b)
    BY <2>1, <2>3 DEF StartWalk
  <2> QED
    BY <2>1, <2>3, <2>4, StartStep
<1> QED
  BY <1>1, <1>2

\* Every step keeps the loop invariant and the block found.
LEMMA WalkStep ==
  ASSUME MapInv, Next
  PROVE  WalkInv'
<1>1. CASE Open \/ Close \/ PowerLoss
  BY <1>1, EndStep DEF Open, Close, PowerLoss
<1>2. ASSUME NEW offset \in Offsets, NEW len \in Lengths,
             WriteCall(offset, len) \/ ReadCall(offset, len)
      PROVE  WalkInv'
  <2>0. offset \in Nat /\ BlockSize \in Nat /\ BlockSize > 0
    BY NandAssumption DEF Offsets
  <2>1. offset \div BlockSize \in Nat
    BY <2>0, DivNat
  <2> QED
    BY <1>2, <2>1, StartStep DEF WriteCall, ReadCall, Call, TableSame, medium
<1>3. CASE SkipBad
  BY <1>3, SkipStep
<1>4. CASE FoundGood
  BY <1>4, FoundStep
<1>5. CASE Fetch
  BY <1>5, NextBlockStep DEF Fetch, TableSame, medium
<1>6. CASE Fill
  BY <1>6, StayStep DEF Fill, TableSame, medium, place, Mapping
<1>7. CASE Erase
  BY <1>7, StayStep, EndStep DEF Erase, Return, TableSame, place, Mapping
<1>8. CASE Program
  BY <1>8, NextBlockStep, EndStep DEF Program, Return, TableSame
<1>9. ASSUME NEW k \in 0..NumBlocks, BlockErase(k)
      PROVE  WalkInv'
  BY <1>9, EndStep DEF BlockErase
<1> QED
  BY <1>1, <1>2, <1>3, <1>4, <1>5, <1>6, <1>7, <1>8, <1>9 DEF Next, Run

\* Every step keeps the invariant.
LEMMA MapStep == ASSUME MapInv, Next PROVE MapInv'
  BY MapTypesStep, TableExactStep, WalkStep DEF MapInv, WalkInv

\* So does a step that changes nothing.
LEMMA MapStutter ==
  ASSUME MapInv, UNCHANGED vars
  PROVE  MapInv'
<1>1. TableSame /\ UNCHANGED <<pc, blk, phys, index1, index2, total>>
  BY DEF vars, TableSame
<1>2. Status(phys)' = Status(phys) /\ GoodBelow(phys)' = GoodBelow(phys)
      /\ nand_get_bad_blk_cnt(0, index1 - 1)' = nand_get_bad_blk_cnt(0, index1 - 1)
  BY <1>1, CountsSame DEF Status, TableSame
<1> QED
  BY <1>1, <1>2, CountsSame
     DEF MapInv, MapTypes, TableExact, WalkExact, MapExact, WalkInside, TableSame

\* nand_get_good_block() maps each address to the good block with that many
\* good blocks below it, never looking past the partition for an address the
\* good blocks can hold - for any bad blocks, any failures, and any partition
\* that has no more blocks than blockstatus[] has entries (in a larger one Open
\* leads astray and no call is made).
THEOREM BadBlocksSkipped == Spec => [](MapExact /\ WalkInside)
<1>1. MapInv /\ [Next]_vars => MapInv'
  BY MapStep, MapStutter
<1>2. MapInv => MapExact /\ WalkInside
  BY DEF MapInv
<1> QED
  BY <1>1, <1>2, MapInit, PTL DEF Spec

-----------------------------------------------------------------------------
(* Places and lengths.                                                      *)

\* Quotient and remainder.
LEMMA DivMod ==
  ASSUME NEW a \in Nat, NEW d \in Nat, d > 0
  PROVE  /\ a \div d \in Nat /\ a % d \in 0..(d - 1)
         /\ a = (a \div d) * d + (a % d)
  OBVIOUS

\* They are unique.
LEMMA DivModUnique ==
  ASSUME NEW q \in Nat, NEW d \in Nat, NEW c \in 0..(d - 1)
  PROVE  (q * d + c) \div d = q /\ (q * d + c) % d = c
  OBVIOUS

\* Multiples of d keep their order.
LEMMA TimesMono ==
  ASSUME NEW q \in Int, NEW r \in Int, NEW d \in Nat, q < r
  PROVE  q * d + d <= r * d
  OBVIOUS

\* Products of naturals, and the next multiple.
LEMMA TimesNat ==
  ASSUME NEW q \in Nat, NEW d \in Nat
  PROVE  q * d \in Nat /\ (q + 1) * d = q * d + d
  OBVIOUS

\* The running call: its place in its first block, and its length after that.
first == op.offset % BlockSize
rest  == IF first > 0 THEN op.len - (BlockSize - first) ELSE op.len

\* A call runs, and is at one of its blocks.
InCall == pc \in {"map"} \cup Mapping

\* Where a call stands, its progress told by i alone.
CallExact ==
  InCall =>
    /\ op.kind \in {"write", "read"}
    /\ pc = "fetch" => op.kind = "read"
    /\ pc \in {"fill", "erase", "program"} => op.kind = "write"
    /\ op.offset \in Offsets /\ op.len \in 1..MaxLen
    /\ i \in 0..(RangeOf(op).num - 1)
    /\ blk = op.offset \div BlockSize + i
    /\ pos = IF i = 0 THEN 0 ELSE i * BlockSize - first
    /\ ret = "none"

\* The sizes of the device and the bounds.
LEMMA Sizes ==
  /\ NumBlocks \in Nat /\ BlockSize \in Nat /\ PageSize \in Nat /\ MaxLen \in Nat /\ MaxWrites \in Nat
  /\ NumBlocks > 0 /\ BlockSize > 0 /\ PageSize > 0 /\ MaxLen > 0 /\ MaxWrites > 0
  BY NandAssumption

\* The four attributes of a block.
LEMMA AccessIs ==
  ASSUME NEW r, r = RangeOf(op)
  PROVE  /\ i = 0 /\ r.first > 0 /\ op.len <= BlockSize - r.first
                /\ ~(op.len > BlockSize - r.first)
              => Access = [attr |-> "LESS_THAN_BLOCK", lo |-> r.first, n |-> op.len]
         /\ i = 0 /\ r.first > 0 /\ op.len > BlockSize - r.first
                /\ ~(op.len <= BlockSize - r.first)
              => Access = [attr |-> "FIRST_BLOCK", lo |-> r.first, n |-> BlockSize - r.first]
         /\ ~(i = 0 /\ r.first > 0) /\ i = r.num - 1 /\ r.last # 0
              => Access = [attr |-> "LAST_BLOCK", lo |-> 0, n |-> r.last]
         /\ ~(i = 0 /\ r.first > 0) /\ ~(i = r.num - 1 /\ r.last # 0)
              => Access = [attr |-> "MIDDLE_BLOCK", lo |-> 0, n |-> BlockSize]
<1>1. ASSUME i = 0, r.first > 0, op.len <= BlockSize - r.first, ~(op.len > BlockSize - r.first)
      PROVE  Access = [attr |-> "LESS_THAN_BLOCK", lo |-> r.first, n |-> op.len]
  BY <1>1, Zenon DEF Access
<1>2. ASSUME i = 0, r.first > 0, op.len > BlockSize - r.first, ~(op.len <= BlockSize - r.first)
      PROVE  Access = [attr |-> "FIRST_BLOCK", lo |-> r.first, n |-> BlockSize - r.first]
  BY <1>2, Zenon DEF Access
<1>3. ASSUME ~(i = 0 /\ r.first > 0), i = r.num - 1, r.last # 0
      PROVE  Access = [attr |-> "LAST_BLOCK", lo |-> 0, n |-> r.last]
  BY <1>3, Zenon DEF Access
<1>4. ASSUME ~(i = 0 /\ r.first > 0), ~(i = r.num - 1 /\ r.last # 0)
      PROVE  Access = [attr |-> "MIDDLE_BLOCK", lo |-> 0, n |-> BlockSize]
  BY <1>4, Zenon DEF Access
<1> QED
  BY <1>1, <1>2, <1>3, <1>4

\* Where the block of a running call lies in the call: its cells start at the
\* address of pos, end inside the call, and reach its end in the last block only.
LEMMA Geometry ==
  ASSUME InCall, CallExact
  PROVE  /\ blk * BlockSize + Access.lo = op.offset + pos
         /\ Access.lo \in 0..(BlockSize - 1) /\ Access.n \in 1..(BlockSize - Access.lo)
         /\ pos \in Nat /\ blk \in Nat /\ pos + Access.n <= op.len
         /\ Access.lo = 0 \/ pos = 0
         /\ LastBlock => pos + Access.n = op.len
         /\ ~LastBlock => Access.lo + Access.n = BlockSize
         /\ pos + (BlockSize - Access.lo) = (i + 1) * BlockSize - first
<1> DEFINE B == BlockSize
           q == rest \div B
           last == rest % B
           r == RangeOf(op)
<1>1. /\ op.offset \in Nat /\ op.len \in Nat /\ op.len >= 1 /\ i \in Nat /\ i <= r.num - 1
      /\ B \in Nat /\ B > 0
      /\ blk = op.offset \div B + i
      /\ pos = IF i = 0 THEN 0 ELSE i * B - first
  BY Sizes DEF CallExact, Offsets
<1>2. /\ op.offset \div B \in Nat /\ first \in 0..(B - 1)
      /\ op.offset = (op.offset \div B) * B + first
  BY <1>1, DivMod DEF first
<1>3. blk \in Nat /\ blk * B = (op.offset \div B) * B + i * B /\ i * B \in Nat
  BY <1>1, <1>2
<1>4. (i + 1) * B = i * B + B
  BY <1>1
<1>5. CASE first > 0 /\ op.len <= B - first
  <2>1. r.num = 1 /\ r.first = first
    BY <1>5 DEF RangeOf, nand_get_range_intersection, first
  <2>2. i = 0
    BY <1>1, <2>1
  <2>3. Access.lo = first /\ Access.n = op.len
    BY <1>1, <1>2, <1>5, <2>1, <2>2, AccessIs
  <2>4. LastBlock
    BY <2>1, <2>2 DEF LastBlock
  <2>5. blk * B + first = op.offset + pos /\ pos = 0
    BY <1>1, <1>2, <1>3, <2>2
  <2> QED
    BY <1>1, <1>2, <1>3, <1>4, <1>5, <2>2, <2>3, <2>4, <2>5
<1>6. CASE ~(first > 0 /\ op.len <= B - first)
  <2>0. rest \in Nat /\ (first > 0 => rest > 0 /\ op.len = rest + (B - first))
        /\ (first = 0 => rest = op.len)
    BY <1>1, <1>2, <1>6 DEF rest
  <2>2. q \in Nat /\ q * B \in Nat /\ last \in 0..(B - 1) /\ rest = q * B + last
    BY <1>1, <2>0, DivMod, TimesNat
  <2>1. /\ r.first = first /\ r.last = last
        /\ r.num \in Int /\ r.num = (IF first > 0 THEN 1 ELSE 0) + (IF last # 0 THEN 1 ELSE 0) + q
    <3>1. /\ r.first = first /\ r.last = last
          /\ r.num = (IF first > 0 THEN 1 ELSE 0) + (IF last # 0 THEN 1 ELSE 0) + q
      BY <1>6 DEF RangeOf, nand_get_range_intersection, first, rest
    <3> QED
      BY <2>2, <3>1
  <2> HIDE DEF q, last, r
  <2>3. CASE i = 0 /\ first > 0
    <3>1. Access.lo = first /\ Access.n = B - first
      BY <1>1, <1>2, <1>6, <2>1, <2>3, AccessIs DEF r
    <3>2. pos = 0 /\ blk * B + first = op.offset
      BY <1>1, <1>2, <1>3, <2>3
    <3>3. LastBlock => q = 0 /\ last = 0
      BY <2>1, <2>2, <2>3 DEF LastBlock, r
    <3>4. LastBlock => rest = 0
      BY <1>1, <2>2, <3>3
    <3> QED
      BY <1>1, <1>2, <1>3, <1>4, <2>0, <2>3, <3>1, <3>2, <3>4
  <2>4. CASE ~(i = 0 /\ first > 0)
    <3> DEFINE j == IF first > 0 THEN i - 1 ELSE i   \* whole blocks before this one
    <3>0. j \in Nat /\ i = j + (IF first > 0 THEN 1 ELSE 0)
      BY <1>1, <1>2, <2>4
    <3>1. j \in Nat /\ j * B \in Nat /\ i * B = j * B + (IF first > 0 THEN B ELSE 0)
      BY <1>1, <1>2, <2>4
    <3> HIDE DEF j
    <3>2. i = 0 => i * B = 0
      BY <1>1
    <3>6. pos = i * B - first /\ pos = op.len - rest + j * B
      BY <1>1, <1>2, <2>0, <2>4, <3>1, <3>2
    <3>7. blk * B = op.offset + pos /\ pos + B = (i + 1) * B - first
      BY <1>1, <1>2, <1>3, <1>4, <3>6
    <3>8. pos \in Nat
      BY <1>1, <1>2, <2>0, <3>1, <3>6
    <3>3. Access.lo = 0
      BY <2>4, <2>1, AccessIs DEF r
    <3>4. CASE i = r.num - 1 /\ last # 0
      <4>1. Access.n = last
        BY <2>1, <2>4, <3>4, AccessIs DEF r
      <4>2. j = q
        BY <1>1, <1>2, <2>1, <2>2, <3>0, <3>4
      <4>3. LastBlock
        BY <1>1, <2>1, <3>4 DEF LastBlock, r
      <4>4. j * B = q * B
        BY <4>2
      <4>5. PICK whole \in Nat : whole = q * B
        BY <2>2
      <4>6. pos = op.len - rest + whole /\ rest = whole + last
        BY <2>2, <3>6, <4>4, <4>5
      <4>7. pos + last = op.len
        BY <1>1, <2>0, <2>2, <4>5, <4>6
      <4>8. last >= 1 /\ last <= B - 0 /\ pos + last <= op.len
        BY <1>1, <2>2, <3>4, <4>7
      <4>9. last \in 1..(B - 0)
        BY <1>1, <2>2, <4>8
      <4>10. blk * B + 0 = op.offset + pos /\ pos + (B - 0) = (i + 1) * B - first
             /\ 0 \in 0..(B - 1) /\ blk \in Nat
        BY <1>1, <1>3, <3>7
      <4> QED
        BY <3>3, <3>8, <4>1, <4>3, <4>7, <4>8, <4>9, <4>10
    <3>5. CASE ~(i = r.num - 1 /\ last # 0)
      <4>1. Access.n = B
        BY <2>1, <2>4, <3>5, AccessIs DEF r
      <4>2. j + 1 <= q
        BY <1>1, <1>2, <2>1, <2>2, <3>0, <3>5
      <4>3. j * B + B <= q * B
        BY <1>1, <2>2, <3>1, <4>2, TimesMono
      <4>4. LastBlock => last = 0 /\ j + 1 = q
        BY <1>1, <1>2, <2>1, <2>2, <3>0, <3>5 DEF LastBlock, r
      <4>5. LastBlock => j * B + B = q * B
        BY <1>1, <3>1, <4>4, TimesNat
      <4>6. pos + B <= op.len /\ (LastBlock => pos + B = op.len)
        BY <1>1, <2>0, <2>2, <3>1, <3>6, <4>3, <4>4, <4>5
      <4> QED
        BY <1>1, <1>3, <3>3, <3>7, <3>8, <4>1, <4>6
    <3> QED
      BY <3>4, <3>5
  <2> QED
    BY <2>3, <2>4
<1> QED
  BY <1>5, <1>6

-----------------------------------------------------------------------------
(* Types, and where a call stands.                                          *)

\* The call has a first block, whatever its place and length.
LEMMA SomeBlock ==
  ASSUME NEW o, o.offset \in Offsets, o.len \in 1..MaxLen
  PROVE  RangeOf(o).num \in Nat /\ RangeOf(o).num >= 1
<1> DEFINE f == o.offset % BlockSize
           more == IF f > 0 THEN o.len - (BlockSize - f) ELSE o.len
<1>1. o.offset \in Nat /\ o.len \in Nat /\ o.len >= 1 /\ BlockSize \in Nat /\ BlockSize > 0
  BY Sizes DEF Offsets
<1>2. f \in 0..(BlockSize - 1)
  BY <1>1, DivMod
<1>3. CASE f > 0 /\ o.len <= BlockSize - f
  <2>1. RangeOf(o).num = 1
    BY <1>3 DEF RangeOf, nand_get_range_intersection
  <2> QED
    BY <2>1
<1>4. CASE ~(f > 0 /\ o.len <= BlockSize - f)
  <2>1. RangeOf(o).num = (IF f > 0 THEN 1 ELSE 0) + (IF more % BlockSize # 0 THEN 1 ELSE 0)
                           + more \div BlockSize
    BY <1>4 DEF RangeOf, nand_get_range_intersection
  <2>2. more \in Nat /\ (f = 0 => more >= 1)
    BY <1>1, <1>2, <1>4
  <2> HIDE DEF more, f
  <2>3. /\ more \div BlockSize \in Nat /\ more % BlockSize \in 0..(BlockSize - 1)
        /\ more = (more \div BlockSize) * BlockSize + (more % BlockSize)
    BY <1>1, <2>2, DivMod
  <2>4. f = 0 /\ more % BlockSize = 0 => more \div BlockSize # 0
    BY <1>1, <2>2, <2>3
  <2> QED
    BY <1>2, <2>1, <2>3, <2>4
<1> QED
  BY <1>3, <1>4

\* What a cell, a block and a buffer may hold.
LEMMA CellTypes ==
  /\ Erased \in CellValues /\ Junk \in CellValues
  /\ \A b \in Blocks, c \in Cells : Origin(b, c) \in CellValues
  /\ \A n \in 1..MaxWrites, k \in 0..(MaxLen - 1) : Byte(n, k) \in CellValues
  /\ ErasedBlock \in [Cells -> CellValues] /\ JunkBlock \in [Cells -> CellValues]
  /\ JunkBuffer \in [0..(MaxLen - 1) -> CellValues]
<1>1. NumBlocks * BlockSize \in Nat
  BY Sizes, TimesNat
<1>2. Erased \in CellValues /\ Junk \in CellValues
  BY <1>1 DEF Erased, Junk, CellValues
<1>3. ASSUME NEW b \in Blocks, NEW c \in Cells
      PROVE  Origin(b, c) \in CellValues
  <2>1. b * BlockSize \in Nat /\ b * BlockSize + BlockSize <= NumBlocks * BlockSize
    BY <1>3, Sizes, TimesNat, TimesMono DEF Blocks
  <2>2. 2 + b * BlockSize + c \in 0..(1 + NumBlocks * BlockSize)
    BY <1>1, <1>3, <2>1, Sizes DEF Cells
  <2> QED
    BY <2>2 DEF Origin, CellValues
<1>4. \A n \in 1..MaxWrites, k \in 0..(MaxLen - 1) : Byte(n, k) \in CellValues
  BY DEF Byte, CellValues
<1> QED
  BY <1>2, <1>3, <1>4 DEF ErasedBlock, JunkBlock, JunkBuffer

\* The calls counted so far, and what the last one left in op.
OpExact ==
  /\ op.len <= MaxLen /\ op.n <= MaxWrites
  /\ op.kind = "write" => op.n >= 1

CallInv == TypeOK /\ OpExact /\ CallExact

\* No call runs in a device just made.
LEMMA CallInit == Init => CallInv
<1> SUFFICES ASSUME Init PROVE CallInv
  OBVIOUS
<1>1. blockstatus \in [0..(Window - 1) -> Statuses]
  BY DEF Init, RawStatus, Statuses
<1>2. flash \in [Blocks -> [Cells -> CellValues]]
  BY CellTypes DEF Init
<1>3. /\ readbuf \in [Cells -> CellValues] /\ dest \in [0..(MaxLen - 1) -> CellValues]
      /\ old \in [Blocks -> [Cells -> CellValues]]
  BY <1>2, CellTypes DEF Init
<1>4. TypeOK
  BY <1>1, <1>2, <1>3 DEF Init, TypeOK, Pcs
<1>5. OpExact /\ CallExact
  BY Sizes DEF Init, OpExact, CallExact, InCall, Mapping
<1> QED
  BY <1>4, <1>5 DEF CallInv

\* In the middle of a call: the cells wanted of the block are cells, and stand
\* for addresses and places of the call.
LEMMA WantedCells ==
  ASSUME CallInv, InCall, NEW c \in Wanted
  PROVE  /\ c \in Cells /\ c \in Nat
         /\ pos + (c - Access.lo) \in 0..(op.len - 1)
         /\ pos + (c - Access.lo) \in 0..(MaxLen - 1)
<1>1. /\ Access.lo \in 0..(BlockSize - 1) /\ Access.n \in 1..(BlockSize - Access.lo)
      /\ pos \in Nat /\ pos + Access.n <= op.len
  BY Geometry DEF CallInv
<1>2. op.len \in Nat /\ op.len <= MaxLen /\ MaxLen \in Nat /\ BlockSize \in Nat
  BY Sizes DEF CallInv, OpExact, TypeOK
<1> QED
  BY <1>1, <1>2 DEF Wanted, Cells

\* Reading a cell brings a byte.
LEMMA ReadCellType ==
  ASSUME TypeOK, NEW c \in Cells, NEW failed, NEW was \in CellValues
  PROVE  ReadCell(c, failed, was) \in CellValues
  BY CellTypes DEF ReadCell, TypeOK

\* The bytes lost are bytes of the block.
LEMMA UnreadType ==
  ASSUME CallInv, InCall, NEW cells, cells \subseteq Cells, NEW failed
  PROVE  Unread(cells, failed) \subseteq Nat
<1>1. blk \in Nat /\ BlockSize \in Nat /\ blk * BlockSize \in Nat
  BY Sizes, TimesNat DEF CallInv, TypeOK
<1>2. \A c \in Cells : blk * BlockSize + c \in Nat
  BY <1>1 DEF Cells
<1> QED
  BY <1>2 DEF Unread

\* So are those a short write() left out.
LEMMA UnstoredType ==
  ASSUME CallInv, NEW n
  PROVE  Unstored(n) \subseteq Nat
<1>1. blk \in Nat /\ BlockSize \in Nat /\ blk * BlockSize \in Nat
  BY Sizes, TimesNat DEF CallInv, TypeOK
<1>2. \A c \in Cells : blk * BlockSize + c \in Nat
  BY <1>1 DEF Cells
<1> QED
  BY <1>2 DEF Unstored

\* The call goes on with the next block, or returns.
LEMMA NextBlockCall ==
  ASSUME CallInv, InCall, NextBlock, op' = op
  PROVE  /\ i' \in Nat /\ blk' \in Nat /\ pos' \in Nat
         /\ index1' \in Nat /\ index2' \in Nat /\ total' \in Nat
         /\ phys' \in Nat /\ ret' \in {"none", "ok", "error"} /\ pc' \in Pcs
         /\ CallExact'
<1>1. /\ i \in Nat /\ blk \in Nat /\ pos \in Nat /\ phys \in Nat /\ BlockSize \in Nat
  BY Sizes DEF CallInv, TypeOK
<1>2. CASE LastBlock /\ Return("ok")
  BY <1>2 DEF Return, EndCall, Pcs, CallExact, InCall, Mapping
<1>3. CASE ~LastBlock /\ ~(LastBlock /\ Return("ok"))
  <2>1. /\ pc' = "map" /\ i' = i + 1 /\ blk' = blk + 1 /\ pos' = pos + (BlockSize - Access.lo)
        /\ StartWalk(blk + 1) /\ ret' = ret /\ phys' = phys
    BY <1>3 DEF NextBlock
  <2>2. /\ pos + (BlockSize - Access.lo) = (i + 1) * BlockSize - first
        /\ Access.lo \in 0..(BlockSize - 1)
    BY Geometry DEF CallInv
  <2>3. ret \in {"none", "ok", "error"} /\ ret = "none" /\ op.kind \in {"write", "read"}
        /\ op.offset \in Offsets /\ op.len \in 1..MaxLen
        /\ i \in 0..(RangeOf(op).num - 1) /\ blk = op.offset \div BlockSize + i
    BY DEF CallInv, CallExact, TypeOK
  <2>4. RangeOf(op).num \in Nat /\ RangeOf(op)' = RangeOf(op)
    BY <2>3, SomeBlock DEF RangeOf
  <2>5. i + 1 \in 0..(RangeOf(op).num - 1) /\ i + 1 # 0
    BY <1>1, <1>3, <2>3, <2>4 DEF LastBlock
  <2>6. pos' \in Nat
    BY <1>1, <2>1, <2>2
  <2>7. op.offset \div BlockSize \in Nat
    BY <2>3, Sizes, DivNat DEF Offsets
  <2>8. blk' = op'.offset \div BlockSize + i'
    BY <1>1, <2>1, <2>3, <2>7
  <2>9. CallExact'
    BY <2>1, <2>2, <2>3, <2>4, <2>5, <2>8 DEF CallExact, InCall, Mapping, first
  <2> QED
    BY <1>1, <2>1, <2>3, <2>6, <2>9 DEF StartWalk, Pcs
<1> QED
  BY <1>2, <1>3 DEF NextBlock

\* Nothing but a call holds a place in the partition.
LEMMA CallRest ==
  ASSUME pc' \in {"ready", "closed", "astray"}
  PROVE  CallExact'
  BY DEF CallExact, InCall, Mapping

\* A step inside the call's block leaves the call's place.
LEMMA SamePlace ==
  ASSUME CallExact, InCall, UNCHANGED <<op, i, blk, pos, ret>>,
         pc' = "fetch" => op.kind = "read",
         pc' \in {"fill", "erase", "program"} => op.kind = "write"
  PROVE  CallExact'
<1>1. RangeOf(op)' = RangeOf(op) /\ first' = first
  BY DEF RangeOf, first
<1> QED
  BY <1>1 DEF CallExact

\* A call starts.
LEMMA StartCall ==
  ASSUME CallInv, NEW kind \in {"write", "read"}, NEW offset \in Offsets, NEW len \in Lengths,
         NEW n \in 0..MaxWrites, kind = "write" => n >= 1,
         Call(kind, offset, len, n),
         old' \in [Blocks -> [Cells -> CellValues]], dest' \in [0..(MaxLen - 1) -> CellValues]
  PROVE  CallInv'
<1>1. /\ offset \in Nat /\ len \in 1..MaxLen /\ len \in Nat /\ len <= MaxLen /\ n \in Nat
      /\ n <= MaxWrites
  BY NandAssumption DEF Offsets
<1>2. offset \div BlockSize \in Nat
  BY <1>1, Sizes, DivNat
<1>3. /\ op' = [kind |-> kind, offset |-> offset, len |-> len, n |-> n]
      /\ i' = 0 /\ pos' = 0 /\ blk' = offset \div BlockSize
      /\ index1' = 0 /\ index2' = offset \div BlockSize /\ total' = 0
      /\ pc' = "map" /\ lost' = {} /\ ret' = "none"
      /\ flash' = flash /\ bad' = bad /\ blockstatus' = blockstatus /\ readbuf' = readbuf
      /\ phys' = phys
  BY DEF Call, StartWalk, medium
<1>4. TypeOK'
  BY <1>1, <1>2, <1>3 DEF CallInv, TypeOK, Pcs
<1>5. OpExact'
  BY <1>1, <1>3 DEF OpExact
<1>6. RangeOf(op').num \in Nat /\ RangeOf(op').num >= 1
  BY <1>1, <1>3, SomeBlock
<1>7. RangeOf(op)' = RangeOf(op')
  BY DEF RangeOf
<1>8. CallExact'
  BY <1>1, <1>2, <1>3, <1>6, <1>7 DEF CallExact, InCall, Mapping
<1> QED
  BY <1>4, <1>5, <1>8 DEF CallInv

\* Every step keeps the types and the place of the call.
LEMMA CallStep ==
  ASSUME CallInv, Next
  PROVE  CallInv'
<1>0. TypeOK /\ OpExact /\ CallExact
  BY DEF CallInv
<1>t. MapTypes
  BY <1>0 DEF TypeOK, MapTypes
<1>m. MapTypes'
  BY <1>t, MapTypesStep
<1>1. CASE Open
  <2>1. TypeOK'
    BY <1>0, <1>1, <1>m DEF Open, TypeOK, MapTypes, medium, place, walk, ghosts
  <2>2. OpExact' /\ CallExact'
    BY <1>0, <1>1, CallRest DEF Open, OpExact
  <2> QED
    BY <2>1, <2>2 DEF CallInv
<1>2. CASE Close
  <2>1. TypeOK'
    BY <1>0, <1>2, <1>m, CellTypes
       DEF Close, Forget, TypeOK, MapTypes, medium, place, walk, ghosts
  <2>2. OpExact' /\ CallExact'
    BY <1>0, <1>2, CallRest, Sizes DEF Close, Forget, OpExact
  <2> QED
    BY <2>1, <2>2 DEF CallInv
<1>3. CASE PowerLoss
  <2>1. ASSUME NEW n \in Pages PROVE Partly(n) \in [Cells -> CellValues]
    BY <1>0, CellTypes DEF Partly, TypeOK
  <2>2. flash' \in [Blocks -> [Cells -> CellValues]]
    BY <1>0, <1>3, <2>1, CellTypes DEF PowerLoss, TypeOK
  <2>3. op' \in [kind : {"none", "write", "read", "erase"}, offset : Nat, len : Nat, n : Nat]
        /\ lost' \subseteq Nat
    <3>1. CASE op.kind = "read"
      BY <1>0, <1>3, <3>1 DEF PowerLoss, Forget, TypeOK
    <3>2. CASE op.kind # "read"
      BY <1>0, <1>3, <3>2 DEF PowerLoss, TypeOK
    <3> QED
      BY <3>1, <3>2
  <2>4. TypeOK'
    BY <1>0, <1>3, <1>m, <2>2, <2>3, CellTypes
       DEF PowerLoss, EndCall, TypeOK, MapTypes
  <2>5. OpExact' /\ CallExact'
    BY <1>0, <1>3, CallRest, Sizes DEF PowerLoss, Forget, OpExact, TypeOK
  <2> QED
    BY <2>4, <2>5 DEF CallInv
<1>4. ASSUME NEW offset \in Offsets, NEW len \in Lengths, WriteCall(offset, len)
      PROVE  CallInv'
  <2>1. op.n + 1 \in 0..MaxWrites /\ op.n + 1 >= 1
    BY <1>0, <1>4, Sizes DEF WriteCall, TypeOK
  <2>2. /\ old' \in [Blocks -> [Cells -> CellValues]]
        /\ dest' \in [0..(MaxLen - 1) -> CellValues]
        /\ Call("write", offset, len, op.n + 1)
    BY <1>0, <1>4, CellTypes DEF WriteCall, TypeOK
  <2> QED
    BY <1>4, <2>1, <2>2, StartCall
<1>5. ASSUME NEW offset \in Offsets, NEW len \in Lengths, ReadCall(offset, len)
      PROVE  CallInv'
  <2>1. op.n \in 0..MaxWrites
    BY <1>0, Sizes DEF OpExact, TypeOK
  <2>2. /\ old' \in [Blocks -> [Cells -> CellValues]]
        /\ dest' \in [0..(MaxLen - 1) -> CellValues]
        /\ Call("read", offset, len, op.n)
    BY <1>0, <1>5, CellTypes DEF ReadCall, TypeOK
  <2> QED
    BY <1>5, <2>1, <2>2, StartCall
<1>6. ASSUME NEW k \in 0..NumBlocks, BlockErase(k)
      PROVE  CallInv'
  <2>1. flash' \in [Blocks -> [Cells -> CellValues]]
    BY <1>0, <1>6, CellTypes DEF BlockErase, TypeOK
  <2>2. op' \in [kind : {"none", "write", "read", "erase"}, offset : Nat, len : Nat, n : Nat]
        /\ OpExact'
    BY <1>0, <1>6, Sizes DEF BlockErase, TypeOK, OpExact
  <2>3. TypeOK'
    BY <1>0, <1>6, <1>m, <2>1, <2>2, CellTypes DEF BlockErase, TypeOK, MapTypes, place, walk
  <2>4. CallExact'
    BY <1>6, CallRest DEF BlockErase
  <2> QED
    BY <2>2, <2>3, <2>4 DEF CallInv
<1>7. CASE SkipBad
  <2>1. /\ pc = "map" /\ pc' = pc /\ phys' = phys /\ op' = op /\ i' = i /\ blk' = blk /\ pos' = pos
        /\ flash' = flash /\ bad' = bad /\ blockstatus' = blockstatus /\ readbuf' = readbuf
        /\ dest' = dest /\ ret' = ret /\ old' = old /\ lost' = lost
    BY <1>7 DEF SkipBad, medium, place, ghosts
  <2>2. TypeOK'
    BY <1>0, <1>m, <2>1 DEF TypeOK, MapTypes
  <2>3. OpExact' /\ CallExact'
    BY <1>0, <2>1, SamePlace DEF OpExact, CallExact, InCall, Mapping
  <2> QED
    BY <2>2, <2>3 DEF CallInv
<1>8. CASE FoundGood
  <2>1. /\ pc = "map" /\ pc' = Mapped /\ op' = op /\ i' = i /\ blk' = blk /\ pos' = pos
        /\ flash' = flash /\ bad' = bad /\ blockstatus' = blockstatus /\ readbuf' = readbuf
        /\ dest' = dest /\ ret' = ret /\ old' = old /\ lost' = lost
    BY <1>8 DEF FoundGood, medium, place, ghosts
  <2>2. TypeOK'
    BY <1>0, <1>m, <2>1 DEF TypeOK, MapTypes
  <2>3. OpExact' /\ CallExact'
    BY <1>0, <2>1, SamePlace DEF OpExact, CallExact, InCall, Mapping, Mapped
  <2> QED
    BY <2>2, <2>3 DEF CallInv
<1>9. CASE Fetch
  <2>1. /\ InCall /\ NextBlock /\ op' = op /\ flash' = flash /\ bad' = bad
        /\ blockstatus' = blockstatus /\ readbuf' = readbuf /\ old' = old
    BY <1>9 DEF Fetch, InCall, Mapping, medium
  <2>2. PICK failed \in SUBSET Pages :
          /\ dest' = [k \in DOMAIN dest |->
                        LET c == Access.lo + (k - pos)
                        IN IF k \in pos..(pos + Access.n - 1)
                           THEN ReadCell(c, failed, dest[k]) ELSE dest[k]]
          /\ lost' = lost \cup Unread(Wanted, failed)
    BY <1>9 DEF Fetch
  <2>3. lost' \subseteq Nat
    BY <1>0, <2>1, <2>2, UnreadType, WantedCells DEF TypeOK
  <2>4. ASSUME NEW k \in 0..(MaxLen - 1), k \in pos..(pos + Access.n - 1)
        PROVE  Access.lo + (k - pos) \in Cells
    BY <2>1, <2>4, Geometry, Sizes DEF CallInv, Cells
  <2>5. dest' \in [0..(MaxLen - 1) -> CellValues]
    BY <1>0, <2>2, <2>4, ReadCellType DEF TypeOK
  <2>6. TypeOK' /\ CallExact'
    BY <1>0, <1>m, <2>1, <2>3, <2>5, NextBlockCall DEF TypeOK, MapTypes
  <2> QED
    BY <1>0, <2>1, <2>6 DEF CallInv, OpExact
<1>10. CASE Fill
  <2>1. /\ InCall /\ pc = "fill" /\ pc' = "erase" /\ op' = op /\ flash' = flash /\ bad' = bad
        /\ blockstatus' = blockstatus /\ old' = old /\ dest' = dest /\ ret' = ret
        /\ i' = i /\ blk' = blk /\ pos' = pos
    BY <1>10 DEF Fill, InCall, Mapping, medium, place
  <2>2. PICK failed \in SUBSET Pages :
          readbuf' = Merged(failed) /\ lost' = lost \cup Unread(Cells \ Wanted, failed)
    BY <1>10 DEF Fill
  <2>3. lost' \subseteq Nat
    BY <1>0, <2>1, <2>2, UnreadType DEF TypeOK
  <2>4. op.n \in 1..MaxWrites
    BY <1>0, <2>1, Sizes DEF OpExact, CallExact, TypeOK
  <2>5. ASSUME NEW c \in Cells
        PROVE  (IF c \in Wanted THEN Byte(op.n, pos + (c - Access.lo))
                ELSE ReadCell(c, failed, readbuf[c])) \in CellValues
    <3>1. CASE c \in Wanted
      <4>1. pos + (c - Access.lo) \in 0..(MaxLen - 1)
        BY <2>1, <3>1, WantedCells
      <4> QED
        BY <2>4, <3>1, <4>1, CellTypes
    <3>2. CASE c \notin Wanted
      BY <1>0, <3>2, ReadCellType DEF TypeOK
    <3> QED
      BY <3>1, <3>2
  <2>6. readbuf' \in [Cells -> CellValues]
    BY <2>2, <2>5 DEF Merged
  <2>7. TypeOK'
    BY <1>0, <1>m, <2>1, <2>3, <2>6 DEF TypeOK, MapTypes
  <2>8. OpExact' /\ CallExact'
    BY <1>0, <2>1, SamePlace DEF OpExact, CallExact, InCall, Mapping
  <2> QED
    BY <2>7, <2>8 DEF CallInv
<1>11. CASE Erase
  <2>1. /\ pc = "erase" /\ op' = op /\ bad' = bad /\ blockstatus' = blockstatus
        /\ readbuf' = readbuf /\ dest' = dest /\ old' = old /\ lost' = lost
    BY <1>11 DEF Erase, ghosts
  <2>2. flash' \in [Blocks -> [Cells -> CellValues]]
    BY <1>0, <1>11, CellTypes DEF Erase, TypeOK
  <2>3. \/ pc' = "program" /\ ret' = ret /\ i' = i /\ blk' = blk /\ pos' = pos
        \/ pc' = "ready" /\ ret' = "error" /\ i' = 0 /\ blk' = 0 /\ pos' = 0
    BY <1>11 DEF Erase, Return, EndCall, place
  <2>4. TypeOK'
    BY <1>0, <1>m, <2>1, <2>2, <2>3 DEF TypeOK, MapTypes
  <2>5. OpExact' /\ CallExact'
    BY <1>0, <2>1, <2>3, SamePlace, CallRest DEF OpExact, CallExact, InCall, Mapping
  <2> QED
    BY <2>4, <2>5 DEF CallInv
<1>12. CASE Program
  <2>1. /\ InCall /\ pc = "program" /\ op' = op /\ bad' = bad /\ blockstatus' = blockstatus
        /\ readbuf' = readbuf /\ dest' = dest /\ old' = old
    BY <1>12 DEF Program, InCall, Mapping
  <2>l. lost' \subseteq Nat
    BY <1>0, <1>12, UnstoredType DEF Program, TypeOK, CallInv
  <2>2. ASSUME NEW n \in Pages PROVE Partly(n) \in [Cells -> CellValues]
    BY <1>0, CellTypes DEF Partly, TypeOK
  <2>3. flash' \in [Blocks -> [Cells -> CellValues]]
    BY <1>0, <1>12, <2>2 DEF Program, TypeOK
  <2>4. NextBlock \/ Return("error")
    BY <1>12 DEF Program
  <2>5. /\ i' \in Nat /\ pos' \in Nat /\ ret' \in {"none", "ok", "error"} /\ CallExact'
    BY <2>1, <2>4, NextBlockCall, CallRest DEF Return, EndCall
  <2>6. TypeOK'
    BY <1>0, <1>m, <2>1, <2>l, <2>3, <2>5 DEF TypeOK, MapTypes
  <2> QED
    BY <1>0, <2>1, <2>5, <2>6 DEF CallInv, OpExact
<1> QED
  BY <1>1, <1>2, <1>3, <1>4, <1>5, <1>6, <1>7, <1>8, <1>9, <1>10, <1>11, <1>12 DEF Next, Run

\* So does a step that changes nothing.
LEMMA CallStutter ==
  ASSUME CallInv, UNCHANGED vars
  PROVE  CallInv'
<1>1. TypeOK' /\ OpExact'
  BY DEF vars, CallInv, TypeOK, OpExact
<1>2. pc' = pc /\ UNCHANGED <<op, i, blk, pos, ret>>
  BY DEF vars
<1>3. CallExact'
  <2>1. CASE InCall
    BY <1>2, <2>1, SamePlace DEF CallInv, CallExact
  <2>2. CASE ~InCall
    BY <1>2, <2>2 DEF CallExact, InCall
  <2> QED
    BY <2>1, <2>2
<1> QED
  BY <1>1, <1>3 DEF CallInv

\* Every variable has its type at all times: no call writes a byte that is not
\* the caller's, the medium's or the eraser's, and no place it computes is
\* negative - for any partition, any blocks, any lengths, any failures.
THEOREM TypeCorrect == Spec => []TypeOK
<1>1. CallInv /\ [Next]_vars => CallInv'
  BY CallStep, CallStutter
<1>2. CallInv => TypeOK
  BY DEF CallInv
<1> QED
  BY <1>1, <1>2, CallInit, PTL DEF Spec

-----------------------------------------------------------------------------
(* Where the logical blocks are.                                            *)

Below(b) == {g \in Good : g < b}

\* The good blocks, and those below one, can be counted.
LEMMA BelowCount ==
  ASSUME bad \subseteq Blocks, NEW b
  PROVE  /\ Good \subseteq Nat /\ IsFiniteSet(Good) /\ Cardinality(Good) \in Nat
         /\ IsFiniteSet(Below(b)) /\ Cardinality(Below(b)) \in Nat
<1>1. IsFiniteSet(Blocks) /\ Good \subseteq Blocks /\ Below(b) \subseteq Blocks
  BY Sizes, FS_Interval DEF Blocks, Good, Below
<1>2. Good \subseteq Nat
  BY Sizes DEF Good, Blocks
<1> QED
  BY <1>1, <1>2, FS_Subset, FS_CardinalityType

\* More good blocks lie below a higher one, and never all of them below one.
LEMMA BelowMono ==
  ASSUME bad \subseteq Blocks, NEW b \in Good
  PROVE  /\ \A c \in Good : b < c => Cardinality(Below(b)) < Cardinality(Below(c))
         /\ Cardinality(Below(b)) < Cardinality(Good)
<1>1. /\ b \in Nat /\ IsFiniteSet(Below(b)) /\ Cardinality(Below(b)) \in Nat
      /\ Good \subseteq Nat
  BY BelowCount
<1>2. ASSUME NEW S, S \subseteq Good, b \in S, Below(b) \subseteq S
      PROVE  Cardinality(Below(b)) < Cardinality(S)
  <2>1. IsFiniteSet(S) /\ Cardinality(S) \in Nat
    BY <1>2, BelowCount, FS_Subset, FS_CardinalityType
  <2>2. b \notin Below(b)
    BY <1>1 DEF Below
  <2>3. /\ Cardinality(Below(b)) <= Cardinality(S)
        /\ Cardinality(Below(b)) = Cardinality(S) => Below(b) = S
    BY <1>2, <2>1, FS_Subset
  <2> QED
    BY <1>1, <1>2, <2>1, <2>2, <2>3
<1>3. ASSUME NEW c \in Good, b < c
      PROVE  Cardinality(Below(b)) < Cardinality(Below(c))
  <2>1. Below(c) \subseteq Good /\ b \in Below(c) /\ Below(b) \subseteq Below(c)
    <3>1. \A g \in Good : g < b => g < c
      BY <1>1, <1>3
    <3> QED
      BY <1>3, <3>1 DEF Below
  <2> QED
    BY <1>2, <2>1
<1>4. Cardinality(Below(b)) < Cardinality(Good)
  BY <1>2 DEF Below
<1> QED
  BY <1>3, <1>4

\* Each logical block has exactly one place: as many good blocks as there are
\* places to count to, and no two of them with the same count.
LEMMA BlockOfIs ==
  ASSUME bad \subseteq Blocks, NEW l \in Logical
  PROVE  /\ BlockOf(l) \in Good /\ Cardinality(Below(BlockOf(l))) = l
         /\ \A g \in Good : Cardinality(Below(g)) = l => g = BlockOf(l)
<1> DEFINE f == [g \in Good |-> Cardinality(Below(g))]
<1>1. Cardinality(Good) \in Nat /\ IsFiniteSet(Good) /\ Good \subseteq Nat
  BY BelowCount
<1>2. \A g \in Good : Cardinality(Below(g)) \in Logical
  BY <1>1, BelowCount, BelowMono DEF Logical
<1>3. f \in [Good -> Logical]
  BY <1>2
<1>4. ASSUME NEW g \in Good, NEW h \in Good, Cardinality(Below(g)) = Cardinality(Below(h))
      PROVE  g = h
  <2>1. g \in Nat /\ h \in Nat
    BY <1>1
  <2>2. /\ Cardinality(Below(g)) \in Nat /\ Cardinality(Below(h)) \in Nat
        /\ ~(Cardinality(Below(g)) < Cardinality(Below(h)))
        /\ ~(Cardinality(Below(h)) < Cardinality(Below(g)))
    BY <1>4, BelowCount
  <2>3. ~(g < h) /\ ~(h < g)
    BY <2>2, BelowMono
  <2> QED
    BY <2>1, <2>3
<1>5. f \in Injection(Good, Logical)
  BY <1>3, <1>4 DEF Injection, IsInjective
<1>6. IsFiniteSet(Logical) /\ Cardinality(Logical) = Cardinality(Good)
  BY <1>1, FS_Interval DEF Logical
<1>7. f \in Surjection(Good, Logical)
  BY <1>5, <1>6, FS_Injection
<1>8. \E g \in Good : Cardinality(Below(g)) = l
  BY <1>7 DEF Surjection
<1>9. BlockOf(l) \in Good /\ Cardinality(Below(BlockOf(l))) = l
  BY <1>8 DEF BlockOf, Below
<1> QED
  BY <1>4, <1>9

\* The block that was found is the place of the block searched for, and is
\* outside the partition only for a block the partition does not have.
LEMMA PhysIs ==
  ASSUME MapInv, pc \in Mapping
  PROVE  /\ phys \in Good => blk \in Logical /\ BlockOf(blk) = phys
         /\ blk \in Logical => phys \in Good
<1>1. /\ bad \subseteq Blocks /\ phys \in Nat /\ blk \in Nat /\ pc \notin {"closed", "astray"}
      /\ Status(phys) = "GOOD" /\ Cardinality(GoodBelow(phys)) = blk
  BY DEF MapInv, MapTypes, MapExact, Mapping
<1>2. \A k \in Blocks : (Status(k) = "GOOD" <=> k \in Good) /\ k \in 0..(Window - 1)
  <2>1. \A k \in Blocks : k \in 0..(Window - 1)
    BY NandAssumption DEF Blocks
  <2> QED
    BY <1>1, <2>1 DEF MapInv, MapTypes, TableExact, Status, Statuses, Good
<1>3. CASE phys \in Blocks
  <2>1. phys \in Good
    BY <1>1, <1>2, <1>3
  <2>2. \A k \in Nat : k < phys => k \in Blocks
    BY <1>1, <1>3, Sizes DEF Blocks
  <2>3. GoodBelow(phys) = Below(phys)
    <3>1. Good \subseteq Nat
      BY <1>1, BelowCount
    <3>2. \A k : k \in Good /\ k < phys <=> k \in 0..(phys - 1) /\ Status(k) = "GOOD"
      <4>1. \A k : k \in Good /\ k < phys => k \in 0..(phys - 1) /\ k \in Blocks
        BY <1>1, <3>1 DEF Good
      <4>2. \A k \in 0..(phys - 1) : k \in Blocks /\ k < phys
        BY <1>1, <2>2
      <4> QED
        BY <1>2, <4>1, <4>2, Zenon
    <3> QED
      BY <3>2, Zenon DEF GoodBelow, Below
  <2>4. Cardinality(Below(phys)) = blk /\ blk < Cardinality(Good)
    BY <1>1, <2>1, <2>3, BelowMono
  <2>5. blk \in Logical
    BY <1>1, <2>4, BelowCount DEF Logical
  <2> QED
    BY <1>1, <2>1, <2>4, <2>5, BlockOfIs
<1>4. CASE phys \notin Blocks
  <2>1. phys \notin Good /\ phys >= NumBlocks
    BY <1>1, <1>4, Sizes DEF Good, Blocks
  <2>2. Good \subseteq GoodBelow(phys)
    <3>1. \A g \in Good : g \in Blocks /\ g \in 0..(phys - 1)
      BY <1>1, <2>1, Sizes DEF Good, Blocks
    <3> QED
      BY <1>2, <3>1 DEF GoodBelow
  <2>3. Cardinality(Good) <= blk
    BY <1>1, <2>2, GoodBelowCount, FS_Subset DEF MapInv
  <2>4. blk \notin Logical
    BY <1>1, <2>3, BelowCount DEF Logical
  <2> QED
    BY <2>1, <2>4
<1> QED
  BY <1>3, <1>4

\* The places stay while the blocks do.
LEMMA PlacesSame ==
  ASSUME bad' = bad
  PROVE  Good' = Good /\ Logical' = Logical /\ \A l : BlockOf(l)' = BlockOf(l)
  BY DEF Good, Logical, BlockOf

-----------------------------------------------------------------------------
(* The content of the blocks.                                               *)

\* What readbuf holds once it is prepared: the caller's bytes and, around them,
\* the old ones that could be read.
Filled ==
  pc \in {"erase", "program"} =>
    \A c \in Cells :
      LET a == blk * BlockSize + c
      IN IF Written(a) THEN readbuf[c] = Byte(op.n, a - op.offset)
         ELSE blk \in Logical => a \in lost \/ readbuf[c] = Before(blk)[c]

\* MEMERASE lets no bad block, and none outside the partition, be programmed.
ProgramsGood == pc = "program" => phys \in Good

\* Below block b the write is done, above it nothing has changed.
Around(b) ==
  \A l \in Logical :
    /\ l < b => Rewritten(l)
    /\ l > b => flash[BlockOf(l)] = Before(l)

\* The block of a running write is the one between, untouched till its erase.
Frontier ==
  InCall /\ op.kind = "write" =>
    /\ Around(blk)
    /\ blk \in Logical /\ pc # "program" => flash[BlockOf(blk)] = Before(blk)

\* The bytes before pos were read.
ReadSoFar ==
  InCall /\ op.kind = "read" =>
    \A k \in 0..(pos - 1) :
      LET a == op.offset + k
      IN a \div BlockSize \in Logical /\ a \notin lost =>
           dest[k] = flash[BlockOf(a \div BlockSize)][a % BlockSize]

WriteInv == Filled /\ ProgramsGood /\ Frontier /\ InOrder /\ WriteDone
ReadInv  == ReadSoFar /\ ReadBack
StoreInv == MapInv /\ CallInv /\ WriteInv /\ ReadInv

\* The cells wanted of the block are those with an address in the call.
LEMMA WantedIs ==
  ASSUME CallInv, InCall, NEW c \in Cells
  PROVE  /\ c \in Wanted <=> Written(blk * BlockSize + c)
         /\ c \in Wanted => pos + (c - Access.lo) = (blk * BlockSize + c) - op.offset
<1>1. /\ blk * BlockSize + Access.lo = op.offset + pos
      /\ Access.lo \in 0..(BlockSize - 1) /\ Access.n \in 1..(BlockSize - Access.lo)
      /\ pos \in Nat /\ pos + Access.n <= op.len
      /\ Access.lo = 0 \/ pos = 0
      /\ LastBlock => pos + Access.n = op.len
      /\ ~LastBlock => Access.lo + Access.n = BlockSize
  BY Geometry DEF CallInv
<1>2. /\ blk \in Nat /\ BlockSize \in Nat /\ op.offset \in Nat /\ op.len \in Nat
      /\ blk * BlockSize \in Nat /\ c \in Nat /\ c < BlockSize
  BY Sizes, TimesNat DEF CallInv, TypeOK, Cells
<1>3. PICK base \in Nat : base = blk * BlockSize
  BY <1>2
<1>4. PICK lo \in Nat : lo = Access.lo
  BY <1>1, <1>2
<1>5. PICK n \in Nat : n = Access.n
  BY <1>1, <1>2, <1>4
<1>6. c \in Wanted <=> lo <= c /\ c <= lo + n - 1
  BY <1>2, <1>4, <1>5 DEF Wanted
<1>7. Written(base + c) <=> op.offset <= base + c /\ base + c <= op.offset + op.len - 1
  BY <1>2, <1>3 DEF Written
<1>8. /\ base + lo = op.offset + pos /\ n >= 1 /\ pos + n <= op.len /\ (lo = 0 \/ pos = 0)
      /\ pos + n = op.len \/ lo + n = BlockSize
  BY <1>1, <1>2, <1>3, <1>4, <1>5
<1>9. c \in Wanted <=> Written(base + c)
  <2>1. ASSUME c \in Wanted PROVE Written(base + c)
    BY <1>1, <1>2, <1>3, <1>4, <1>5, <1>6, <1>7, <1>8, <2>1
  <2>2. ASSUME c < lo PROVE ~Written(base + c)
    BY <1>1, <1>2, <1>3, <1>4, <1>5, <1>7, <1>8, <2>2
  <2>3. ASSUME c > lo + n - 1 PROVE ~Written(base + c)
    BY <1>1, <1>2, <1>3, <1>4, <1>5, <1>7, <1>8, <2>3
  <2> QED
    BY <1>2, <1>4, <1>5, <1>6, <2>1, <2>2, <2>3
<1>10. pos + (c - lo) = (base + c) - op.offset
  BY <1>1, <1>2, <1>3, <1>4, <1>8
<1> QED
  BY <1>3, <1>4, <1>9, <1>10

\* The last block of a call is its highest.
LEMMA LastIs ==
  ASSUME CallInv, InCall, LastBlock
  PROVE  /\ op.offset + op.len <= (blk + 1) * BlockSize
         /\ \A l \in Nat, c \in Cells : l > blk => ~Written(l * BlockSize + c)
<1>1. /\ blk * BlockSize + Access.lo = op.offset + pos
      /\ Access.lo \in 0..(BlockSize - 1) /\ Access.n \in 1..(BlockSize - Access.lo)
      /\ pos \in Nat /\ pos + Access.n = op.len
  BY Geometry DEF CallInv
<1>2. /\ blk \in Nat /\ BlockSize \in Nat /\ op.offset \in Nat /\ op.len \in Nat
      /\ blk * BlockSize \in Nat /\ (blk + 1) * BlockSize = blk * BlockSize + BlockSize
  BY Sizes, TimesNat DEF CallInv, TypeOK
<1>3. op.offset + op.len <= (blk + 1) * BlockSize
  BY <1>1, <1>2
<1>4. ASSUME NEW l \in Nat, NEW c \in Cells, l > blk
      PROVE  ~Written(l * BlockSize + c)
  <2>1. l * BlockSize \in Nat /\ blk * BlockSize + BlockSize <= l * BlockSize
    BY <1>2, <1>4, TimesNat, TimesMono
  <2>2. l * BlockSize + c >= op.offset + op.len
    BY <1>2, <1>3, <2>1 DEF Cells
  <2> QED
    BY <1>2, <2>1, <2>2 DEF Written, Cells
<1> QED
  BY <1>3, <1>4

\* The first block of a call is its lowest.
LEMMA FirstIs ==
  ASSUME NEW offset \in Nat, NEW l \in Nat, l < offset \div BlockSize, NEW c \in Cells
  PROVE  l * BlockSize + c < offset
<1>1. /\ offset \div BlockSize \in Nat /\ offset % BlockSize \in 0..(BlockSize - 1)
      /\ offset = (offset \div BlockSize) * BlockSize + (offset % BlockSize)
  BY Sizes, DivMod
<1>2. /\ l * BlockSize \in Nat /\ (offset \div BlockSize) * BlockSize \in Nat
      /\ l * BlockSize + BlockSize <= (offset \div BlockSize) * BlockSize
  BY <1>1, Sizes, TimesNat, TimesMono
<1> QED
  BY <1>1, <1>2, Sizes DEF Cells

\* A block rewritten stays so while its content, the call and the old content do.
LEMMA RewrittenKept ==
  ASSUME bad' = bad, op' = op, old' = old, lost \subseteq lost', NEW l \in Logical,
         flash'[BlockOf(l)] = flash[BlockOf(l)], Rewritten(l)
  PROVE  Rewritten(l)'
<1>1. BlockOf(l)' = BlockOf(l)
  BY PlacesSame
<1>2. Before(l)' = Before(l)
  BY <1>1 DEF Before
<1>3. \A a : Written(a)' <=> Written(a)
  BY DEF Written
<1> QED
  BY <1>1, <1>2, <1>3 DEF Rewritten

\* A step that touches no block but b leaves the others as they are.
LEMMA AroundKept ==
  ASSUME bad' = bad, op' = op, old' = old, lost \subseteq lost', NEW b, Around(b),
         \A l \in Logical : l # b => flash'[BlockOf(l)] = flash[BlockOf(l)],
         b \in Nat, Logical \subseteq Nat
  PROVE  Around(b)'
<1>1. Logical' = Logical /\ \A l : BlockOf(l)' = BlockOf(l)
  BY PlacesSame
<1>2. ASSUME NEW l \in Logical, l < b PROVE Rewritten(l)'
  BY <1>2, RewrittenKept DEF Around
<1>3. ASSUME NEW l \in Logical, l > b PROVE (flash[BlockOf(l)] = Before(l))'
  BY <1>1, <1>3 DEF Around, Before
<1> QED
  BY <1>1, <1>2, <1>3 DEF Around

\* A write that leaves one block behind it leaves at most that one torn.
LEMMA AroundOrder ==
  ASSUME NEW b \in Nat, Logical' \subseteq Nat, Around(b)'
  PROVE  InOrder'
<1>1. ASSUME NEW l \in Logical', NEW m \in Logical', l < m
      PROVE  (Rewritten(l) \/ flash[BlockOf(m)] = Before(m))'
  <2>1. CASE l < b
    BY <2>1 DEF Around
  <2>2. CASE ~(l < b)
    <3>1. m > b
      BY <1>1, <2>2
    <3> QED
      BY <3>1 DEF Around
  <2> QED
    BY <2>1, <2>2
<1> QED
  BY <1>1 DEF InOrder

\* A write to the block found touches no other logical block.
LEMMA OthersKept ==
  ASSUME MapInv, pc \in Mapping, phys \in Good, NEW v, flash' = [flash EXCEPT ![phys] = v],
         flash \in [Blocks -> [Cells -> CellValues]]
  PROVE  /\ blk \in Logical /\ BlockOf(blk) = phys /\ flash'[phys] = v
         /\ \A l \in Logical : l # blk => flash'[BlockOf(l)] = flash[BlockOf(l)]
<1>1. bad \subseteq Blocks
  BY DEF MapInv, MapTypes
<1>2. blk \in Logical /\ BlockOf(blk) = phys
  BY PhysIs
<1>3. ASSUME NEW l \in Logical, l # blk PROVE BlockOf(l) # phys /\ BlockOf(l) \in Blocks
  BY <1>1, <1>2, <1>3, BlockOfIs DEF Good
<1>4. phys \in Blocks
  BY DEF Good
<1> QED
  BY <1>2, <1>3, <1>4

\* Logical blocks have numbers.
LEMMA LogicalNat == ASSUME bad \subseteq Blocks PROVE Logical \subseteq Nat
  BY BelowCount DEF Logical

-----------------------------------------------------------------------------
(* Each step keeps the content in order.                                    *)

\* Nothing is promised of the blocks when the last call is no write.
LEMMA NotWriting ==
  ASSUME op'.kind # "write", pc' \notin {"erase", "program"}
  PROVE  WriteInv'
  BY DEF WriteInv, Filled, ProgramsGood, Frontier, InOrder, WriteDone

\* Of a write that ended, the order and the result remain.
LEMMA WriteEnded ==
  ASSUME pc' \in {"ready", "closed", "astray"}, InOrder', WriteDone'
  PROVE  WriteInv'
  BY DEF WriteInv, Filled, ProgramsGood, Frontier, InCall, Mapping

\* Nothing is promised of the caller's buffer when no read is going on.
LEMMA NotReading ==
  ASSUME op'.kind # "read"
  PROVE  ReadInv'
  BY DEF ReadInv, ReadSoFar, ReadBack

\* The medium, the call and what it lost stay.
StoreSame == UNCHANGED <<flash, bad, op, old, lost>>

\* What is said of the store stays with it.
LEMMA OrderSame ==
  ASSUME StoreSame
  PROVE  /\ InOrder => InOrder'
         /\ ret' = ret /\ WriteDone => WriteDone'
         /\ \A b : Around(b) => Around(b)'
<1>1. Good' = Good /\ Logical' = Logical /\ \A l : BlockOf(l)' = BlockOf(l)
  BY PlacesSame DEF StoreSame
<1>2. /\ flash' = flash /\ op' = op /\ \A l : Before(l)' = Before(l)
  BY <1>1 DEF StoreSame, Before
<1>3. ASSUME NEW l \in Logical, Rewritten(l) PROVE Rewritten(l)'
  BY <1>3, RewrittenKept DEF StoreSame
<1>4. InOrder => InOrder'
  BY <1>1, <1>2, <1>3 DEF InOrder
<1>5. ret' = ret /\ WriteDone => WriteDone'
  BY <1>1, <1>2, <1>3 DEF WriteDone
<1>6. ASSUME NEW b, Around(b) PROVE Around(b)'
  BY <1>1, <1>2, <1>3, <1>6 DEF Around
<1> QED
  BY <1>4, <1>5, <1>6

\* A write starts: the blocks below its first one have nothing to change.
LEMMA WriteStarts ==
  ASSUME StoreInv, NEW offset \in Offsets, NEW len \in Lengths, WriteCall(offset, len)
  PROVE  WriteInv' /\ ReadInv'
<1>1. /\ bad \subseteq Blocks /\ Logical \subseteq Nat
      /\ offset \in Nat /\ len \in Nat /\ offset \div BlockSize \in Nat
  BY LogicalNat, Sizes, DivNat, NandAssumption DEF StoreInv, MapInv, MapTypes, Offsets
<1>2. /\ pc' = "map" /\ old' = flash /\ flash' = flash /\ bad' = bad /\ ret' = "none"
      /\ op' = [kind |-> "write", offset |-> offset, len |-> len, n |-> op.n + 1]
      /\ blk' = offset \div BlockSize
  BY DEF WriteCall, Call, medium
<1>3. PICK b \in Nat : b = offset \div BlockSize
  BY <1>1
<1>4. Logical' = Logical /\ \A l : BlockOf(l)' = BlockOf(l)
  BY <1>2, PlacesSame
<1>5. \A l : flash'[BlockOf(l)'] = Before(l)'
  BY <1>2 DEF Before
<1>6. ASSUME NEW l \in Logical, l < b
      PROVE  Rewritten(l)'
  <2>1. \A c \in Cells : ~Written(l * BlockSize + c)'
    <3>1. ASSUME NEW c \in Cells PROVE ~(l * BlockSize + c \in offset..(offset + len - 1))
      <4>1. l * BlockSize + c < offset
        BY <1>1, <1>3, <1>6, FirstIs
      <4>2. l * BlockSize + c \in Int
        BY <1>1, Sizes DEF Cells
      <4> QED
        BY <1>1, <4>1, <4>2
    <3> QED
      BY <1>2, <3>1 DEF Written
  <2> QED
    BY <1>5, <2>1 DEF Rewritten
<1>7. Around(b)'
  BY <1>4, <1>5, <1>6 DEF Around
<1>8. InOrder'
  BY <1>1, <1>3, <1>4, <1>7, AroundOrder
<1>9. Frontier'
  BY <1>2, <1>3, <1>5, <1>7 DEF Frontier, Around
<1>10. Filled' /\ ProgramsGood' /\ WriteDone'
  BY <1>2 DEF Filled, ProgramsGood, WriteDone
<1> QED
  BY <1>2, <1>8, <1>9, <1>10, NotReading DEF WriteInv

\* Walking to the block changes nothing of the store.
LEMMA WalkStore ==
  ASSUME StoreInv, SkipBad \/ FoundGood
  PROVE  WriteInv' /\ ReadInv'
<1>1. /\ pc = "map" /\ pc' \in {"map", Mapped} /\ StoreSame /\ ret' = ret /\ dest' = dest
      /\ blk' = blk /\ pos' = pos /\ bad' = bad
  BY DEF SkipBad, FoundGood, medium, place, ghosts, StoreSame
<1>2. pc' \notin {"erase", "program", "ready", "closed"}
  BY <1>1 DEF Mapped
<1>3. InCall /\ op.kind \in {"write", "read"} /\ ret = "none"
  BY <1>1 DEF InCall, StoreInv, CallInv, CallExact
<1>4. CASE op.kind = "write"
  <2>1. PICK b : b = blk
    OBVIOUS
  <2>2. Around(b)
    BY <1>3, <1>4, <2>1 DEF StoreInv, WriteInv, Frontier
  <2>3. Around(b)'
    BY <1>1, <2>2, OrderSame
  <2>4. blk' \in Logical' => flash'[BlockOf(b)'] = Before(b)'
    <3>1. Logical' = Logical /\ BlockOf(b)' = BlockOf(b)
      BY <1>1, PlacesSame
    <3> QED
      BY <1>1, <1>3, <1>4, <2>1, <3>1 DEF StoreInv, WriteInv, Frontier, StoreSame, Before
  <2>5. Frontier'
    BY <1>1, <2>1, <2>3, <2>4 DEF Frontier
  <2>6. Filled' /\ ProgramsGood'
    BY <1>2 DEF Filled, ProgramsGood
  <2>7. InOrder' /\ WriteDone'
    BY <1>1, OrderSame DEF StoreInv, WriteInv
  <2>8. op'.kind # "read"
    BY <1>1, <1>4 DEF StoreSame
  <2> QED
    BY <2>5, <2>6, <2>7, <2>8, NotReading DEF WriteInv
<1>5. CASE op.kind = "read"
  <2>1. WriteInv'
    BY <1>1, <1>2, <1>5, NotWriting DEF StoreSame
  <2>2. Logical' = Logical /\ \A l : BlockOf(l)' = BlockOf(l)
    BY <1>1, PlacesSame
  <2>3. ReadSoFar'
    BY <1>1, <1>3, <1>5, <2>2 DEF StoreInv, ReadInv, ReadSoFar, StoreSame
  <2>4. ReadBack'
    BY <1>1, <1>3 DEF ReadBack
  <2> QED
    BY <2>1, <2>3, <2>4 DEF ReadInv
<1> QED
  BY <1>3, <1>4, <1>5

\* Reading a byte through ReadCell, of a page that could be read.
LEMMA ReadCellIs ==
  ASSUME MapInv, pc \in Mapping, blk \in Logical, NEW c \in Cells, NEW failed, NEW was,
         c \div PageSize \notin failed
  PROVE  ReadCell(c, failed, was) = flash[BlockOf(blk)][c]
<1>1. phys \in Good /\ BlockOf(blk) = phys
  BY PhysIs
<1> QED
  BY <1>1 DEF ReadCell, Good

\* Preparing readbuf keeps what is around the written cells.
LEMMA FillStore ==
  ASSUME StoreInv, Fill
  PROVE  WriteInv' /\ ReadInv'
<1>1. /\ pc = "fill" /\ pc' = "erase" /\ InCall /\ op' = op /\ flash' = flash /\ bad' = bad
      /\ old' = old /\ ret' = ret /\ blk' = blk /\ op.kind = "write" /\ ret = "none"
  BY DEF Fill, InCall, Mapping, medium, place, StoreInv, CallInv, CallExact
<1>2. PICK failed \in SUBSET Pages :
        readbuf' = Merged(failed) /\ lost' = lost \cup Unread(Cells \ Wanted, failed)
  BY DEF Fill
<1>3. /\ bad \subseteq Blocks /\ Logical \subseteq Nat /\ blk \in Nat
      /\ Logical' = Logical /\ \A l : BlockOf(l)' = BlockOf(l) /\ Before(l)' = Before(l)
  <2>1. bad \subseteq Blocks /\ blk \in Nat
    BY DEF StoreInv, MapInv, MapTypes
  <2> QED
    BY <1>1, <2>1, LogicalNat, PlacesSame DEF Before
<1>4. Around(blk) /\ (blk \in Logical => flash[BlockOf(blk)] = Before(blk))
  BY <1>1 DEF StoreInv, WriteInv, Frontier
<1>5. PICK b \in Nat : b = blk
  BY <1>3
<1>6. Around(b)'
  <2>1. lost \subseteq lost'
    BY <1>2
  <2> QED
    BY <1>1, <1>3, <1>4, <1>5, <2>1, AroundKept
<1>7. ASSUME NEW c \in Cells
      PROVE  LET a == b * BlockSize + c
             IN IF Written(a) THEN readbuf'[c] = Byte(op.n, a - op.offset)
                ELSE b \in Logical => a \in lost' \/ readbuf'[c] = Before(b)[c]
  <2>1. readbuf'[c] = IF c \in Wanted THEN Byte(op.n, pos + (c - Access.lo))
                      ELSE ReadCell(c, failed, readbuf[c])
    BY <1>2 DEF Merged
  <2>2. CASE c \in Wanted
    <3>1. Written(b * BlockSize + c) /\ pos + (c - Access.lo) = (b * BlockSize + c) - op.offset
      BY <1>1, <1>5, <2>2, WantedIs DEF StoreInv
    <3> QED
      BY <2>1, <2>2, <3>1, Zenon
  <2>3. CASE c \notin Wanted
    <3>1. ~Written(b * BlockSize + c)
      BY <1>1, <1>5, <2>3, WantedIs DEF StoreInv
    <3>2. ASSUME b \in Logical PROVE b * BlockSize + c \in lost' \/ readbuf'[c] = Before(b)[c]
      <4>1. CASE c \div PageSize \in failed
        BY <1>2, <1>5, <2>3, <4>1 DEF Unread
      <4>2. CASE c \div PageSize \notin failed
        <5>1. ReadCell(c, failed, readbuf[c]) = flash[BlockOf(blk)][c]
          BY <1>1, <1>5, <3>2, <4>2, ReadCellIs DEF StoreInv, Mapping
        <5> QED
          BY <1>4, <1>5, <2>1, <2>3, <3>2, <5>1
      <4> QED
        BY <4>1, <4>2
    <3> QED
      BY <3>1, <3>2
  <2> QED
    BY <2>2, <2>3
<1>8. Filled'
  <2>1. \A a : Written(a)' <=> Written(a)
    BY <1>1 DEF Written
  <2> QED
    BY <1>1, <1>3, <1>5, <1>7, <2>1 DEF Filled
<1>9. Frontier'
  BY <1>1, <1>3, <1>4, <1>5, <1>6 DEF Frontier
<1>10. InOrder'
  BY <1>3, <1>6, AroundOrder
<1>11. ProgramsGood' /\ WriteDone'
  BY <1>1 DEF ProgramsGood, WriteDone
<1> QED
  BY <1>1, <1>8, <1>9, <1>10, <1>11, NotReading DEF WriteInv

\* A step that puts v into the block found: the blocks around it stay, and so
\* does the order.
LEMMA OneBlock ==
  ASSUME StoreInv, pc \in Mapping, op.kind = "write", phys \in Good,
         NEW v, flash' = [flash EXCEPT ![phys] = v],
         UNCHANGED <<bad, op, old>>, lost \subseteq lost', NEW b, b = blk
  PROVE  /\ b \in Nat /\ b \in Logical /\ Logical' = Logical /\ Logical \subseteq Nat
         /\ flash'[BlockOf(b)'] = v /\ Before(b)' = Before(b) /\ Around(b)' /\ InOrder'
<1>1. /\ bad \subseteq Blocks /\ blk \in Nat /\ InCall
      /\ flash \in [Blocks -> [Cells -> CellValues]]
  BY DEF StoreInv, MapInv, MapTypes, CallInv, TypeOK, InCall
<1>2. /\ blk \in Logical /\ BlockOf(blk) = phys /\ flash'[phys] = v
      /\ \A l \in Logical : l # blk => flash'[BlockOf(l)] = flash[BlockOf(l)]
  BY <1>1, OthersKept DEF StoreInv
<1>3. Logical \subseteq Nat /\ Logical' = Logical /\ \A l : BlockOf(l)' = BlockOf(l)
  BY <1>1, LogicalNat, PlacesSame
<1>4. Around(b)
  BY <1>1 DEF StoreInv, WriteInv, Frontier
<1>5. Around(b)'
  BY <1>1, <1>2, <1>3, <1>4, AroundKept
<1> QED
  BY <1>1, <1>2, <1>3, <1>5, AroundOrder DEF Before

\* An erase leaves one block torn, or none.
LEMMA EraseStore ==
  ASSUME StoreInv, Erase
  PROVE  WriteInv' /\ ReadInv'
<1>1. /\ pc = "erase" /\ InCall /\ pc \in Mapping /\ UNCHANGED <<bad, op, old, lost, readbuf>>
      /\ op.kind = "write" /\ ret = "none"
  BY DEF Erase, ghosts, InCall, Mapping, StoreInv, CallInv, CallExact
<1>2. ReadInv'
  BY <1>1, NotReading
<1>3. CASE phys \in Blocks \ bad /\ flash' = [flash EXCEPT ![phys] = ErasedBlock]
  <2>1. PICK b : b = blk
    OBVIOUS
  <2>2. /\ b \in Nat /\ b \in Logical /\ Logical' = Logical /\ Around(b)' /\ InOrder'
        /\ Before(b)' = Before(b)
    BY <1>1, <1>3, <2>1, OneBlock DEF Good
  <2>3. CASE pc' = "program" /\ UNCHANGED <<ret, place, walk, phys>>
    <3>1. blk' = blk /\ phys' = phys /\ ret' = "none"
      BY <1>1, <2>3 DEF place
    <3>2. Frontier'
      BY <2>1, <2>2, <2>3, <3>1 DEF Frontier
    <3>3. Filled'
      <4>1. \A a : Written(a)' <=> Written(a)
        BY <1>1 DEF Written
      <4> QED
        BY <1>1, <2>1, <2>2, <3>1, <4>1 DEF Filled, StoreInv, WriteInv
    <3>4. ProgramsGood'
      BY <1>1, <1>3, <3>1 DEF ProgramsGood, Good
    <3>5. WriteDone'
      BY <3>1 DEF WriteDone
    <3> QED
      BY <1>2, <2>2, <3>2, <3>3, <3>4, <3>5 DEF WriteInv
  <2>4. CASE Return("error")
    <3>1. pc' = "ready" /\ WriteDone'
      BY <2>4 DEF Return, WriteDone
    <3> QED
      BY <1>2, <2>2, <3>1, WriteEnded
  <2> QED
    BY <2>3, <2>4 DEF Erase
<1>4. CASE UNCHANGED flash /\ Return("error")
  <2>1. pc' = "ready" /\ WriteDone'
    BY <1>4 DEF Return, WriteDone
  <2>2. InOrder'
    BY <1>1, <1>4, OrderSame DEF StoreSame, StoreInv, WriteInv
  <2> QED
    BY <1>2, <2>1, <2>2, WriteEnded
<1> QED
  BY <1>3, <1>4 DEF Erase

\* Programming the block completes it, but for what a short write() left out;
\* after the last one the write is done.
LEMMA ProgramStore ==
  ASSUME StoreInv, Program
  PROVE  WriteInv' /\ ReadInv'
<1>1. /\ pc = "program" /\ InCall /\ pc \in Mapping /\ UNCHANGED <<bad, op, old, readbuf>>
      /\ op.kind = "write" /\ ret = "none" /\ phys \in Good
  BY DEF Program, InCall, Mapping, StoreInv, CallInv, CallExact, WriteInv, ProgramsGood
<1>2. ReadInv'
  BY <1>1, NotReading
<1>3. ASSUME NEW v, flash' = [flash EXCEPT ![phys] = v], NextBlock, lost \subseteq lost',
             \A c \in Cells : blk * BlockSize + c \in lost' \/ v[c] = readbuf[c]
      PROVE  WriteInv' /\ ReadInv'
  <2>1. PICK b : b = blk
    OBVIOUS
  <2>2. /\ b \in Nat /\ b \in Logical /\ Logical' = Logical /\ Logical \subseteq Nat
        /\ flash'[BlockOf(b)'] = v /\ Before(b)' = Before(b) /\ Around(b)' /\ InOrder'
    BY <1>1, <1>3, <2>1, OneBlock
  <2>3. Rewritten(b)'
    <3>1. \A a : Written(a)' <=> Written(a)
      BY <1>1 DEF Written
    <3>2. \A c \in Cells :
            LET a == b * BlockSize + c
            IN IF Written(a) THEN readbuf[c] = Byte(op.n, a - op.offset)
               ELSE a \in lost \/ readbuf[c] = Before(b)[c]
      BY <1>1, <2>1, <2>2 DEF Filled, StoreInv, WriteInv
    <3>3. ASSUME NEW c \in Cells
          PROVE  LET a == b * BlockSize + c
                 IN a \in lost' \/ v[c] = IF Written(a) THEN Byte(op.n, a - op.offset)
                                          ELSE Before(b)[c]
      <4>1. b * BlockSize + c \in lost' \/ v[c] = readbuf[c]
        BY <1>3, <2>1
      <4> QED
        BY <1>3, <3>2, <4>1
    <3> QED
      BY <1>1, <2>2, <3>1, <3>3 DEF Rewritten
  <2>4. CASE LastBlock /\ Return("ok")
    <3>1. pc' = "ready" /\ ret' = "ok"
      BY <2>4 DEF Return
    <3>2. /\ op.offset + op.len <= (b + 1) * BlockSize
          /\ \A l \in Nat, c \in Cells : l > b => ~Written(l * BlockSize + c)
      BY <1>1, <2>1, <2>4, LastIs DEF StoreInv
    <3>3. ASSUME NEW l \in Logical PROVE Rewritten(l)'
      <4>1. CASE l < b
        BY <2>2, <4>1 DEF Around
      <4>2. CASE l = b
        BY <2>3, <4>2
      <4>3. CASE l > b
        <5>1. \A c \in Cells : ~Written(l * BlockSize + c)'
          BY <1>1, <2>2, <3>2, <4>3 DEF Written
        <5>2. flash'[BlockOf(l)'] = Before(l)'
          BY <2>2, <4>3 DEF Around
        <5> QED
          BY <5>1, <5>2 DEF Rewritten
      <4> QED
        BY <2>2, <4>1, <4>2, <4>3
    <3>4. op.offset + op.len <= Cardinality(Good) * BlockSize
      <4>1. Cardinality(Good) \in Nat
        BY BelowCount DEF StoreInv, MapInv, MapTypes
      <4>2. b < Cardinality(Good)
        BY <2>2, <4>1 DEF Logical
      <4>3. /\ b * BlockSize + BlockSize <= Cardinality(Good) * BlockSize
            /\ (b + 1) * BlockSize = b * BlockSize + BlockSize
        BY <2>2, <4>1, <4>2, Sizes, TimesMono, TimesNat
      <4>4. PICK most \in Nat : most = Cardinality(Good) * BlockSize
        BY <4>1, Sizes, TimesNat
      <4>5. op.offset + op.len <= most
        <5>1. op.offset \in Nat /\ op.len \in Nat /\ b * BlockSize \in Nat
          BY <2>2, Sizes, TimesNat DEF StoreInv, CallInv, TypeOK
        <5> QED
          BY <3>2, <4>3, <4>4, <5>1, Sizes
      <4> QED
        BY <4>4, <4>5
    <3>5. WriteDone'
      <4>1. Good' = Good
        BY <1>1, PlacesSame
      <4> QED
        BY <1>1, <2>2, <3>3, <3>4, <4>1 DEF WriteDone
    <3> QED
      BY <1>2, <2>2, <3>1, <3>5, WriteEnded
  <2>5. CASE ~LastBlock /\ ~(LastBlock /\ Return("ok"))
    <3>1. pc' = "map" /\ blk' = blk + 1 /\ ret' = ret
      BY <1>3, <2>5 DEF NextBlock
    <3>2. PICK d \in Nat : d = b + 1
      BY <2>2
    <3>3. Around(d)'
      <4>1. ASSUME NEW l \in Logical, l < d PROVE Rewritten(l)'
        <5>1. l < b \/ l = b
          BY <2>2, <3>2, <4>1
        <5> QED
          BY <2>2, <2>3, <5>1 DEF Around
      <4>2. ASSUME NEW l \in Logical, l > d PROVE (flash[BlockOf(l)] = Before(l))'
        <5>1. l > b
          BY <2>2, <3>2, <4>2
        <5> QED
          BY <2>2, <5>1 DEF Around
      <4> QED
        BY <2>2, <4>1, <4>2 DEF Around
    <3>4. d \in Logical => flash'[BlockOf(d)'] = Before(d)'
      BY <2>2, <3>2 DEF Around
    <3>5. Frontier'
      BY <2>1, <2>2, <3>1, <3>2, <3>3, <3>4 DEF Frontier
    <3>6. Filled' /\ ProgramsGood' /\ WriteDone'
      BY <1>1, <3>1 DEF Filled, ProgramsGood, WriteDone
    <3> QED
      BY <1>2, <2>2, <3>5, <3>6 DEF WriteInv
  <2> QED
    BY <1>3, <2>4, <2>5 DEF NextBlock
<1>4. ASSUME NEW n \in Pages, flash' = [flash EXCEPT ![phys] = Partly(n)],
             Return("error"), UNCHANGED lost
      PROVE  WriteInv' /\ ReadInv'
  <2>1. PICK b : b = blk
    OBVIOUS
  <2>2. InOrder'
    BY <1>1, <1>4, <2>1, OneBlock
  <2>3. pc' = "ready" /\ WriteDone'
    BY <1>4 DEF Return, WriteDone
  <2> QED
    BY <1>2, <2>2, <2>3, WriteEnded
<1>5. CASE flash' = [flash EXCEPT ![phys] = readbuf] /\ NextBlock /\ UNCHANGED lost
  BY <1>3, <1>5
<1>6. ASSUME NEW n \in Pages, flash' = [flash EXCEPT ![phys] = Partly(n)], NextBlock,
             lost' = lost \cup Unstored(n)
      PROVE  WriteInv' /\ ReadInv'
  <2>1. ASSUME NEW c \in Cells
        PROVE  blk * BlockSize + c \in lost' \/ Partly(n)[c] = readbuf[c]
    <3>1. n * PageSize \in Int /\ c \in Int
      BY <1>6, Sizes, TimesNat, DivNat DEF Pages, Cells
    <3>2. CASE c < n * PageSize
      BY <2>1, <3>2 DEF Partly
    <3>3. CASE ~(c < n * PageSize)
      <4>1. c >= n * PageSize
        BY <3>1, <3>3
      <4> QED
        BY <1>6, <2>1, <4>1 DEF Unstored
    <3> QED
      BY <3>2, <3>3
  <2> QED
    BY <1>3, <1>6, <2>1
<1>7. ASSUME NEW n \in Pages, flash' = [flash EXCEPT ![phys] = Partly(n)],
             Return("error"), UNCHANGED lost
      PROVE  WriteInv' /\ ReadInv'
  BY <1>4, <1>7
<1> QED
  BY <1>5, <1>6, <1>7 DEF Program

\* Reading the block brings the bytes of its cells that could be read.
LEMMA FetchStore ==
  ASSUME StoreInv, Fetch
  PROVE  WriteInv' /\ ReadInv'
<1>1. /\ pc = "fetch" /\ InCall /\ pc \in Mapping /\ NextBlock
      /\ UNCHANGED <<flash, bad, op>> /\ op.kind = "read" /\ ret = "none"
  BY DEF Fetch, InCall, Mapping, medium, StoreInv, CallInv, CallExact
<1>2. PICK failed \in SUBSET Pages :
        /\ dest' = [k \in DOMAIN dest |->
                      LET c == Access.lo + (k - pos)
                      IN IF k \in pos..(pos + Access.n - 1)
                         THEN ReadCell(c, failed, dest[k]) ELSE dest[k]]
        /\ lost' = lost \cup Unread(Wanted, failed)
  BY DEF Fetch
<1>3. /\ blk * BlockSize + Access.lo = op.offset + pos
      /\ Access.lo \in 0..(BlockSize - 1) /\ Access.n \in 1..(BlockSize - Access.lo)
      /\ pos \in Nat /\ blk \in Nat /\ pos + Access.n <= op.len
      /\ LastBlock => pos + Access.n = op.len
      /\ ~LastBlock => Access.lo + Access.n = BlockSize
  BY <1>1, Geometry DEF StoreInv, CallInv
<1>4. /\ op.offset \in Nat /\ op.len \in Nat /\ op.len <= MaxLen /\ MaxLen \in Nat
      /\ BlockSize \in Nat /\ BlockSize > 0 /\ blk * BlockSize \in Nat
      /\ DOMAIN dest = 0..(MaxLen - 1)
  BY <1>3, Sizes, TimesNat DEF StoreInv, CallInv, TypeOK, OpExact
<1>5. PICK end \in Nat : end = pos + Access.n
  BY <1>3, <1>4
<1>b. PICK base \in Nat : base = blk * BlockSize
  BY <1>4
<1>t. op.offset \in Nat /\ pos \in Nat /\ BlockSize \in Nat
  BY <1>3, <1>4
<1>6. Logical' = Logical /\ \A l : BlockOf(l)' = BlockOf(l)
  BY <1>1, PlacesSame
<1>7. ASSUME NEW k \in 0..(end - 1),
             (op.offset + k) \div BlockSize \in Logical, op.offset + k \notin lost'
      PROVE  dest'[k] = flash[BlockOf((op.offset + k) \div BlockSize)][(op.offset + k) % BlockSize]
  <2>0. k \in DOMAIN dest
    BY <1>3, <1>4, <1>5
  <2>1. CASE k < pos
    <3>1. dest'[k] = dest[k]
      BY <1>2, <1>3, <2>0, <2>1
    <3>2. k \in 0..(pos - 1) /\ op.offset + k \notin lost
      BY <1>2, <1>3, <1>7, <2>1
    <3> QED
      BY <1>1, <1>7, <3>1, <3>2 DEF StoreInv, ReadInv, ReadSoFar
  <2>2. CASE ~(k < pos)
    <3>1. k \in pos..(pos + Access.n - 1)
      BY <1>3, <1>4, <1>5, <2>2
    <3>a. PICK lo \in Nat : lo = Access.lo
      BY <1>3, <1>4
    <3>n. PICK n \in Nat : n = Access.n
      BY <1>3, <1>4, <3>a
    <3>b. /\ lo + n <= BlockSize /\ base + lo = op.offset + pos
          /\ k \in Nat /\ pos <= k /\ k <= pos + n - 1
      <4>1. lo + n <= BlockSize
        BY <1>3, <1>t, <3>a, <3>n
      <4>2. base + lo = op.offset + pos
        BY <1>3, <1>b, <3>a
      <4>3. k \in pos..(pos + n - 1)
        BY <3>1, <3>n
      <4> QED
        BY <1>t, <4>1, <4>2, <4>3
    <3>2. PICK c \in Nat : c = lo + (k - pos)
      BY <1>3, <3>a, <3>b
    <3>3. c \in Wanted /\ c \in Cells /\ op.offset + k = blk * BlockSize + c
      <4>1. c \in lo..(lo + n - 1) /\ c \in 0..(BlockSize - 1)
        BY <1>t, <3>2, <3>b
      <4>2. op.offset + k = base + c
        BY <1>t, <3>2, <3>b
      <4> QED
        BY <1>b, <3>a, <3>n, <4>1, <4>2 DEF Wanted, Cells
    <3>4. (op.offset + k) \div BlockSize = blk /\ (op.offset + k) % BlockSize = c
      <4>1. c \in 0..(BlockSize - 1) /\ blk \in Nat /\ BlockSize \in Nat
        BY <1>3, <1>4, <3>3 DEF Cells
      <4>2. (blk * BlockSize + c) \div BlockSize = blk /\ (blk * BlockSize + c) % BlockSize = c
        BY <4>1, DivModUnique, Zenon
      <4> QED
        BY <3>3, <4>2, Zenon
    <3>5. dest'[k] = ReadCell(c, failed, dest[k])
      BY <1>2, <2>0, <3>1, <3>2, <3>a
    <3>6. c \div PageSize \notin failed
      BY <1>2, <1>7, <3>3 DEF Unread
    <3>7. ReadCell(c, failed, dest[k]) = flash[BlockOf(blk)][c]
      BY <1>1, <1>7, <3>3, <3>4, <3>6, ReadCellIs DEF StoreInv
    <3> QED
      BY <3>4, <3>5, <3>7
  <2> QED
    BY <2>1, <2>2
<1>8. CASE LastBlock /\ Return("ok")
  <2>1. pc' = "ready" /\ op.len = end
    BY <1>3, <1>5, <1>8 DEF Return
  <2>2. ReadBack'
    BY <1>1, <1>6, <1>7, <2>1 DEF ReadBack
  <2>3. ReadSoFar'
    BY <2>1 DEF ReadSoFar, InCall, Mapping
  <2>4. WriteInv'
    BY <1>1, <2>1, NotWriting
  <2> QED
    BY <2>2, <2>3, <2>4 DEF ReadInv
<1>9. CASE ~LastBlock /\ ~(LastBlock /\ Return("ok"))
  <2>1. pc' = "map" /\ ret' = ret /\ pos' = pos + (BlockSize - Access.lo)
    BY <1>1, <1>9 DEF NextBlock
  <2>2. pos' = end
    BY <1>3, <1>4, <1>5, <1>9, <2>1
  <2>3. ReadSoFar'
    BY <1>1, <1>6, <1>7, <2>2 DEF ReadSoFar
  <2>4. ReadBack'
    BY <1>1, <2>1 DEF ReadBack
  <2>5. WriteInv'
    BY <1>1, <2>1, NotWriting
  <2> QED
    BY <2>3, <2>4, <2>5 DEF ReadInv
<1> QED
  BY <1>1, <1>8, <1>9 DEF NextBlock

\* The power goes: at most the block being written is torn.
LEMMA PowerStore ==
  ASSUME StoreInv, PowerLoss
  PROVE  WriteInv' /\ ReadInv'
<1>1. /\ pc # "closed" /\ pc' = "closed" /\ ret' = "none" /\ bad' = bad /\ old' = old
  BY DEF PowerLoss
<1>2. CASE op.kind = "read"
  <2>1. op'.kind = "none"
    BY <1>2 DEF PowerLoss, Forget
  <2> QED
    BY <1>1, <2>1, NotWriting, NotReading
<1>3. CASE op.kind # "read"
  <2>1. op' = op /\ lost' = lost
    BY <1>3 DEF PowerLoss
  <2>2. CASE op.kind # "write"
    BY <1>1, <1>3, <2>1, <2>2, NotWriting, NotReading
  <2>3. CASE op.kind = "write"
    <3>1. ASSUME UNCHANGED flash PROVE InOrder'
      BY <1>1, <2>1, <3>1, OrderSame DEF StoreSame, StoreInv, WriteInv
    <3>2. ASSUME pc \in {"erase", "program"}, phys \in Good,
                 NEW v, flash' = [flash EXCEPT ![phys] = v]
          PROVE  InOrder'
      <4>1. PICK b : b = blk
        OBVIOUS
      <4>2. pc \in Mapping
        BY <3>2 DEF Mapping
      <4> QED
        BY <1>1, <2>1, <2>3, <3>2, <4>1, <4>2, OneBlock
    <3>3. ASSUME pc = "erase", phys \in Blocks \ bad, flash' = [flash EXCEPT ![phys] = ErasedBlock]
          PROVE  InOrder'
      BY <3>2, <3>3 DEF Good
    <3>4. ASSUME pc = "program", NEW n \in Pages, flash' = [flash EXCEPT ![phys] = Partly(n)]
          PROVE  InOrder'
      <4>1. phys \in Good
        BY <3>4 DEF StoreInv, WriteInv, ProgramsGood
      <4> QED
        BY <3>2, <3>4, <4>1
    <3>5. InOrder'
      BY <3>1, <3>3, <3>4 DEF PowerLoss
    <3>6. WriteDone'
      BY <1>1 DEF WriteDone
    <3> QED
      BY <1>1, <1>3, <2>1, <3>5, <3>6, WriteEnded, NotReading
  <2> QED
    BY <2>2, <2>3
<1> QED
  BY <1>2, <1>3

\* Opening the device touches nothing.
LEMMA OpenStore ==
  ASSUME StoreInv, Open
  PROVE  WriteInv' /\ ReadInv'
<1>1. /\ pc' \in {"ready", "closed", "astray"} /\ StoreSame /\ ret' = ret /\ dest' = dest /\ bad' = bad
  BY DEF Open, medium, ghosts, StoreSame
<1>2. InOrder' /\ WriteDone'
  BY <1>1, OrderSame DEF StoreInv, WriteInv
<1>3. ReadSoFar'
  BY <1>1 DEF ReadSoFar, InCall, Mapping
<1>4. Logical' = Logical /\ \A l : BlockOf(l)' = BlockOf(l)
  BY <1>1, PlacesSame
<1>5. ReadBack'
  BY <1>1, <1>4 DEF StoreInv, ReadInv, ReadBack, StoreSame
<1> QED
  BY <1>1, <1>2, <1>3, <1>5, WriteEnded DEF ReadInv

\* Every step keeps the store's invariant.
LEMMA StoreStep ==
  ASSUME StoreInv, Next
  PROVE  StoreInv'
<1>1. MapInv' /\ CallInv'
  BY MapStep, CallStep DEF StoreInv
<1>2. ASSUME Close PROVE WriteInv' /\ ReadInv'
  BY <1>2, NotWriting, NotReading DEF Close, Forget
<1>3. ASSUME NEW offset \in Offsets, NEW len \in Lengths, ReadCall(offset, len)
      PROVE  WriteInv' /\ ReadInv'
  <2>1. pc' = "map" /\ op'.kind = "read" /\ pos' = 0 /\ ret' = "none"
    BY <1>3 DEF ReadCall, Call
  <2>2. ReadSoFar' /\ ReadBack'
    BY <2>1 DEF ReadSoFar, ReadBack
  <2> QED
    BY <2>1, <2>2, NotWriting DEF ReadInv
<1>4. ASSUME NEW k \in 0..NumBlocks, BlockErase(k)
      PROVE  WriteInv' /\ ReadInv'
  BY <1>4, NotWriting, NotReading DEF BlockErase
<1>5. WriteInv' /\ ReadInv'
  BY <1>2, <1>3, <1>4, OpenStore, PowerStore, WriteStarts, WalkStore, FetchStore, FillStore,
     EraseStore, ProgramStore DEF Next, Run
<1> QED
  BY <1>1, <1>5 DEF StoreInv

\* It holds of an object just made.
LEMMA StoreInit == Init => StoreInv
<1> SUFFICES ASSUME Init PROVE StoreInv
  OBVIOUS
<1>1. WriteInv /\ ReadInv
  BY DEF Init, WriteInv, ReadInv, Filled, ProgramsGood, Frontier, ReadSoFar, InCall, Mapping,
         InOrder, WriteDone, ReadBack
<1> QED
  BY <1>1, MapInit, CallInit DEF StoreInv

\* A step that changes nothing keeps it.
LEMMA StoreStutter ==
  ASSUME StoreInv, UNCHANGED vars
  PROVE  StoreInv'
<1>1. /\ StoreSame /\ ret' = ret /\ dest' = dest /\ pc' = pc /\ blk' = blk /\ pos' = pos
      /\ phys' = phys /\ readbuf' = readbuf /\ bad' = bad
  BY DEF vars, StoreSame
<1>2. Good' = Good /\ Logical' = Logical /\ \A l : BlockOf(l)' = BlockOf(l)
  BY <1>1, PlacesSame
<1>3. /\ \A l : Before(l)' = Before(l)
      /\ \A a : Written(a)' <=> Written(a)
  BY <1>1, <1>2 DEF StoreSame, Before, Written
<1>4. InOrder' /\ WriteDone'
  BY <1>1, OrderSame DEF StoreInv, WriteInv
<1>5. PICK b : b = blk
  OBVIOUS
<1>6. Frontier'
  BY <1>1, <1>2, <1>3, <1>5, OrderSame DEF StoreInv, WriteInv, Frontier, InCall, StoreSame
<1>7. Filled' /\ ProgramsGood'
  BY <1>1, <1>2, <1>3 DEF StoreInv, WriteInv, Filled, ProgramsGood, StoreSame
<1>8. ReadInv'
  BY <1>1, <1>2 DEF StoreInv, ReadInv, ReadSoFar, ReadBack, InCall, StoreSame
<1> QED
  BY <1>4, <1>6, <1>7, <1>8, MapStutter, CallStutter DEF StoreInv, WriteInv

\* The store's invariant holds at all times.
LEMMA StoreInvariance == Spec => []StoreInv
<1>1. StoreInv /\ [Next]_vars => StoreInv'
  BY StoreStep, StoreStutter
<1> QED
  BY <1>1, StoreInit, PTL DEF Spec

\* At any moment of a write, and after any failure or loss of power in it, at
\* most one logical block is torn: those below it are rewritten, those above it
\* have their old content - for any partition blockstatus[] has room for, any
\* blocks, any lengths.
THEOREM WriteInOrder == Spec => []InOrder
<1>1. StoreInv => InOrder
  BY DEF StoreInv, WriteInv
<1> QED
  BY <1>1, StoreInvariance, PTL

\* A write that reports success fits the good blocks, stored every byte where
\* it belongs and changed no other, but for bytes that could not be read and
\* bytes that write() left out without an error.
THEOREM WriteExact == Spec => []WriteDone
<1>1. StoreInv => WriteDone
  BY DEF StoreInv, WriteInv
<1> QED
  BY <1>1, StoreInvariance, PTL

\* A read returns the byte of each address it could read: the byte that the
\* address has in the good block it is mapped to.
THEOREM ReadExact == Spec => []ReadBack
<1>1. StoreInv => ReadBack
  BY DEF StoreInv, ReadInv
<1> QED
  BY <1>1, StoreInvariance, PTL
-----------------------------------------------------------------------------
(* Every call is finite: a turn of the walk passes a bad block for good, a  *)
(* step of a block brings it closer to its end, and the blocks of the call  *)
(* are visited once.                                                        *)

Stages == [map |-> 3, fetch |-> 2, fill |-> 2, erase |-> 1, program |-> 0]
StepsLeft == 4 * (RangeOf(op).num - i) + Stages[pc]
BadAhead == nand_get_bad_blk_cnt(index1, Window - 1)
Left == StepsLeft * (Window + 1) + BadAhead

LeftInv ==
  InCall =>
    /\ RangeOf(op).num \in Nat /\ i \in Nat /\ RangeOf(op).num - i \in Nat \ {0}
    /\ Stages[pc] \in 0..3 /\ StepsLeft \in Nat /\ BadAhead \in 0..Window /\ Left \in Nat

\* No interval has more bad blocks than the table has entries.
LEMMA BadAheadIs == ASSUME MapTypes PROVE BadAhead \in 0..Window
<1>1. Window \in Nat /\ Window - 1 \in Int /\ index1 \in Int
  BY NandAssumption DEF MapTypes
<1>2. IsFiniteSet(0..(Window - 1)) /\ Cardinality(0..(Window - 1)) = Window
  BY <1>1, FS_Interval
<1>3. BadIn(index1, Window - 1) \subseteq 0..(Window - 1)
  BY <1>1 DEF BadIn, MapTypes
<1>4. Cardinality(BadIn(index1, Window - 1)) <= Window
  BY <1>2, <1>3, FS_Subset
<1>5. BadAhead = Cardinality(BadIn(index1, Window - 1)) /\ BadAhead \in Nat
  BY <1>1, BadInFinite DEF BadAhead, nand_get_bad_blk_cnt
<1> QED
  BY <1>1, <1>4, <1>5

\* At each moment of a call there is something left.
LEMMA LeftIs == StoreInv => LeftInv
<1> SUFFICES ASSUME StoreInv, InCall
             PROVE  /\ RangeOf(op).num \in Nat /\ i \in Nat /\ RangeOf(op).num - i \in Nat \ {0}
                    /\ Stages[pc] \in 0..3 /\ StepsLeft \in Nat /\ BadAhead \in 0..Window
                    /\ Left \in Nat
  BY DEF LeftInv
<1>1. op.offset \in Offsets /\ op.len \in 1..MaxLen /\ i \in 0..(RangeOf(op).num - 1)
  BY DEF StoreInv, CallInv, CallExact
<1>2. RangeOf(op).num \in Nat
  BY <1>1, SomeBlock
<1>3. Stages[pc] \in 0..3
  BY DEF InCall, Mapping, Stages
<1>4. StepsLeft \in Nat
  BY <1>1, <1>2, <1>3 DEF StepsLeft
<1>5. BadAhead \in 0..Window /\ Window + 1 \in Nat
  BY BadAheadIs, NandAssumption DEF StoreInv, MapInv
<1>6. StepsLeft * (Window + 1) \in Nat
  BY <1>4, <1>5, TimesNat
<1>7. Left \in Nat
  BY <1>5, <1>6 DEF Left
<1> QED
  BY <1>1, <1>2, <1>3, <1>4, <1>5, <1>7

\* Whatever bad blocks lie ahead then, with fewer steps left there is less left.
LEMMA FewerSteps ==
  ASSUME LeftInv, LeftInv', InCall, InCall', StepsLeft' < StepsLeft
  PROVE  Left' < Left
<1>1. PICK s \in Nat, t \in Nat, w \in Nat : s = StepsLeft /\ t = StepsLeft' /\ w = Window + 1
  <2>1. StepsLeft \in Nat
    BY DEF LeftInv
  <2>2. StepsLeft' \in Nat
    BY DEF LeftInv
  <2>3. Window + 1 \in Nat
    BY NandAssumption
  <2> QED
    BY <2>1, <2>2, <2>3
<1>2. PICK a \in Nat, b \in Nat : a = BadAhead /\ b = BadAhead' /\ b < w
  <2>1. BadAhead \in 0..Window /\ Window \in Nat
    BY NandAssumption DEF LeftInv
  <2>2. BadAhead' \in 0..Window
    BY DEF LeftInv
  <2> QED
    BY <1>1, <2>1, <2>2
<1>3. t * w + w <= s * w
  BY <1>1, TimesMono
<1>4. t * w \in Nat /\ s * w \in Nat
  BY TimesNat
<1>5. t * w + b < s * w + a
  <2>1. PICK x \in Nat, y \in Nat : x = t * w /\ y = s * w
    BY <1>4
  <2>2. x + w <= y /\ b < w
    BY <1>2, <1>3, <2>1
  <2>3. x + b < y + a
    BY <2>2
  <2> QED
    BY <2>1, <2>3
<1>6. Left = s * w + a /\ Left' = t * w + b
  BY <1>1, <1>2 DEF Left
<1> QED
  BY <1>5, <1>6

\* A turn of the walk leaves fewer bad blocks ahead.
LEMMA FewerBad ==
  ASSUME MapTypes, LeftInv, InCall, SkipBad
  PROVE  Left' < Left
<1>1. /\ index1 \in Nat /\ index2 \in Nat /\ Window \in Nat /\ index1' = index2 + 1
      /\ blockstatus' = blockstatus /\ op' = op /\ i' = i /\ pc' = pc
      /\ nand_get_bad_blk_cnt(index1, index2) > 0
  BY NandAssumption DEF MapTypes, SkipBad, place
<1>2. /\ nand_get_bad_blk_cnt(index1, index2) \in Nat
      /\ nand_get_bad_blk_cnt(index1, Window - 1) \in Nat
      /\ nand_get_bad_blk_cnt(index2 + 1, Window - 1) \in Nat
  <2>1. index1 \in Int /\ index2 \in Int /\ index2 + 1 \in Int /\ Window - 1 \in Int
    BY <1>1
  <2> QED
    BY <2>1, BadInFinite
<1>3. PICK k \in index1..index2 : Status(k) = "BAD"
  <2>1. BadIn(index1, index2) # {}
    BY <1>1, FS_EmptySet DEF nand_get_bad_blk_cnt
  <2> QED
    BY <2>1 DEF BadIn
<1>4. k \in 0..(Window - 1)
  BY <1>3 DEF Status
<1>5. nand_get_bad_blk_cnt(index2 + 1, Window - 1) < nand_get_bad_blk_cnt(index1, Window - 1)
  <2>1. CASE index2 <= Window - 1
    <3>1. index1 <= index2 + 1
      BY <1>1, <1>3
    <3>2. nand_get_bad_blk_cnt(index1, Window - 1)
            = nand_get_bad_blk_cnt(index1, index2) + nand_get_bad_blk_cnt(index2 + 1, Window - 1)
      BY <1>1, <2>1, <3>1, BadInSplit
    <3> QED
      BY <1>1, <1>2, <3>2
  <2>2. CASE index2 > Window - 1
    <3>1. BadIn(index2 + 1, Window - 1) = {}
      BY <1>1, <2>2 DEF BadIn
    <3>2. nand_get_bad_blk_cnt(index2 + 1, Window - 1) = 0
      BY <3>1, FS_EmptySet DEF nand_get_bad_blk_cnt
    <3>3. k \in index1..(Window - 1)
      BY <1>1, <1>3, <1>4
    <3>4. nand_get_bad_blk_cnt(index1, Window - 1) # 0
      BY <1>1, <1>3, <3>3, BadInZero
    <3> QED
      BY <1>2, <3>2, <3>4
  <2> QED
    BY <1>1, <2>1, <2>2
<1>6. BadAhead' = nand_get_bad_blk_cnt(index2 + 1, Window - 1)
  <2>1. \A j : Status(j)' = Status(j)
    BY <1>1 DEF Status
  <2> QED
    BY <1>1, <2>1 DEF BadAhead, nand_get_bad_blk_cnt, BadIn
<1>7. StepsLeft' = StepsLeft
  BY <1>1 DEF StepsLeft, RangeOf
<1>8. PICK p \in Nat : p = StepsLeft * (Window + 1)
  <2>1. StepsLeft \in Nat /\ Window + 1 \in Nat
    BY <1>1 DEF LeftInv
  <2> QED
    BY <2>1, TimesNat
<1>9. Left' = p + nand_get_bad_blk_cnt(index2 + 1, Window - 1)
  BY <1>6, <1>7, <1>8 DEF Left
<1>10. Left = p + nand_get_bad_blk_cnt(index1, Window - 1)
  BY <1>8 DEF Left, BadAhead
<1> QED
  BY <1>2, <1>5, <1>9, <1>10

\* After a block there is one block less.
LEMMA FewerBlocks ==
  ASSUME LeftInv, InCall, InCall', NextBlock, op' = op
  PROVE  StepsLeft' < StepsLeft
<1>1. ~(pc' = "ready")
  BY DEF InCall, Mapping
<1>2. pc' = "map" /\ i' = i + 1
  BY <1>1 DEF NextBlock, Return
<1>3. RangeOf(op)' = RangeOf(op) /\ Stages[pc'] = 3
  BY <1>2 DEF RangeOf, Stages
<1>4. PICK n \in Nat, j \in Nat, s \in 0..3 : n = RangeOf(op).num /\ j = i /\ s = Stages[pc]
  BY DEF LeftInv
<1>5. StepsLeft = 4 * (n - j) + s /\ StepsLeft' = 4 * (n - (j + 1)) + 3
  BY <1>2, <1>3, <1>4 DEF StepsLeft
<1> QED
  BY <1>4, <1>5

\* Every step of a call leaves less.
LEMMA LessLeft ==
  ASSUME StoreInv, LeftInv, LeftInv', Next, InCall, InCall'
  PROVE  Left' < Left
<1>1. MapTypes
  BY DEF StoreInv, MapInv
<1>2. pc \notin {"ready", "closed"} /\ pc' \notin {"ready", "closed"}
  BY DEF InCall, Mapping
<1>3. Run
  BY <1>2 DEF Next, Open, Close, PowerLoss, WriteCall, ReadCall, Call, BlockErase
<1>4. CASE SkipBad
  BY <1>1, <1>4, FewerBad
<1>5. ASSUME op' = op, i' = i, Stages[pc'] < Stages[pc]
      PROVE  Left' < Left
  <2>1. RangeOf(op)' = RangeOf(op)
    BY <1>5 DEF RangeOf
  <2>2. PICK n \in Nat, j \in Nat, s \in 0..3 : n = RangeOf(op).num /\ j = i /\ s = Stages[pc]
    BY DEF LeftInv
  <2>3. Stages[pc'] \in 0..3
    BY DEF LeftInv, Stages
  <2>4. StepsLeft = 4 * (n - j) + s /\ StepsLeft' = 4 * (n - j) + Stages[pc']
    BY <1>5, <2>1, <2>2 DEF StepsLeft
  <2>5. StepsLeft' < StepsLeft
    BY <1>5, <2>2, <2>3, <2>4
  <2> QED
    BY <2>5, FewerSteps
<1>6. CASE FoundGood
  <2>1. Stages["map"] = 3 /\ Stages["fetch"] = 2 /\ Stages["fill"] = 2
    BY DEF Stages
  <2>2. op' = op /\ i' = i /\ pc = "map" /\ pc' \in {"fetch", "fill"}
    BY <1>6 DEF FoundGood, place, Mapped
  <2> QED
    BY <1>5, <2>1, <2>2
<1>7. CASE Fill
  <2>1. Stages["fill"] = 2 /\ Stages["erase"] = 1
    BY DEF Stages
  <2>2. op' = op /\ i' = i /\ pc = "fill" /\ pc' = "erase"
    BY <1>7 DEF Fill, place
  <2> QED
    BY <1>5, <2>1, <2>2
<1>8. CASE Erase
  <2>1. Stages["erase"] = 1 /\ Stages["program"] = 0
    BY DEF Stages
  <2>2. op' = op /\ i' = i /\ pc = "erase" /\ pc' = "program"
    BY <1>2, <1>8 DEF Erase, Return, place
  <2> QED
    BY <1>5, <2>1, <2>2
<1>9. ASSUME NextBlock, op' = op
      PROVE  Left' < Left
  <2>1. StepsLeft' < StepsLeft
    BY <1>9, FewerBlocks
  <2> QED
    BY <2>1, FewerSteps
<1>10. CASE Fetch
  BY <1>9, <1>10 DEF Fetch
<1>11. CASE Program
  BY <1>2, <1>9, <1>11 DEF Program, Return
<1> QED
  BY <1>3, <1>4, <1>6, <1>7, <1>8, <1>10, <1>11 DEF Run

\* No call goes on for ever, whatever fails in it: each of its steps leaves less to
\* do than before, by a measure that is a natural number.  The walk of
\* nand_get_good_block() passes every bad block once, also for an address the
\* good blocks cannot hold.
THEOREM CallsAreFinite ==
  Spec => [][InCall => Left \in Nat /\ (InCall' => Left' < Left)]_vars
<1>1. StoreInv /\ LeftInv /\ LeftInv' /\ [Next]_vars
        => [InCall => Left \in Nat /\ (InCall' => Left' < Left)]_vars
  <2> SUFFICES ASSUME StoreInv, LeftInv, LeftInv', Next, InCall
               PROVE  Left \in Nat /\ (InCall' => Left' < Left)
    BY DEF vars
  <2>1. Left \in Nat
    BY DEF LeftInv
  <2> QED
    BY <2>1, LessLeft
<1> QED
  BY <1>1, LeftIs, StoreInvariance, PTL DEF Spec
=============================================================================
