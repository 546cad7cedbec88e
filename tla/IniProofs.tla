------------------------------ MODULE IniProofs ------------------------------
(***************************************************************************)
(* Proofs about Ini, for every file, every table size and wherever memory  *)
(* runs out.                                                               *)
(***************************************************************************)
EXTENDS Ini, SequenceTheorems, FiniteSetTheorems, WellFoundedInduction, TLAPS

-----------------------------------------------------------------------------
(* Numbering the members of a set of positions.                             *)

\* A set of naturals has a least member.
LEMMA MinIs ==
  ASSUME NEW S \in SUBSET Nat, S # {}
  PROVE  Min(S) \in S /\ \A y \in S : Min(S) <= y
<1>1. \E x \in S : \A y \in S : ~(<<y, x>> \in OpToRel(<, Nat))
  BY NatLessThanWellFounded, WFMin, Zenon
<1>2. PICK x \in S : \A y \in S : ~(y < x)
  BY <1>1 DEF OpToRel
<1>3. x \in Nat /\ \A y \in S : y \in Nat
  OBVIOUS
<1>4. \A y \in S : x <= y
  BY <1>2, <1>3
<1> QED
  BY <1>4 DEF Min

\* Positions are finite sets, and their ranks are below their number.
LEMMA RankIs ==
  ASSUME NEW N \in Nat, NEW S \in SUBSET (1..N), NEW j \in Nat
  PROVE  /\ IsFiniteSet(S) /\ Cardinality(S) \in Nat /\ Rank(S, j) \in 0..Cardinality(S)
         /\ N <= j => Rank(S, j) = Cardinality(S)
<1>1. IsFiniteSet(S)
  <2>1. IsFiniteSet(1..N)
    BY FS_Interval
  <2> QED
    BY <2>1, FS_Subset
<1>2. Cardinality(S) \in Nat
  BY <1>1, FS_CardinalityType
<1>3. PICK R : R = {i \in S : i <= j}
  OBVIOUS
<1>4. IsFiniteSet(R) /\ Cardinality(R) <= Cardinality(S)
  BY <1>1, <1>3, FS_Subset
<1>5. Cardinality(R) \in Nat
  BY <1>4, FS_CardinalityType
<1>6. Rank(S, j) = Cardinality(R)
  BY <1>3 DEF Rank
<1>7. ASSUME N <= j
      PROVE  R = S
  <2>1. \A i \in S : i \in 1..N
    OBVIOUS
  <2>2. \A i \in S : i <= j
    BY <1>7, <2>1
  <2> QED
    BY <1>3, <2>2
<1> QED
  BY <1>1, <1>2, <1>4, <1>5, <1>6, <1>7

\* One position on, the rank has grown by one at a member.
LEMMA RankStep ==
  ASSUME NEW N \in Nat, NEW S \in SUBSET (1..N), NEW j \in Nat \ {0}
  PROVE  Rank(S, j) = IF j \in S THEN Rank(S, j - 1) + 1 ELSE Rank(S, j - 1)
<1>1. PICK R : R = {i \in S : i <= j - 1}
  OBVIOUS
<1>2. IsFiniteSet(R)
  <2>1. IsFiniteSet(S)
    BY RankIs
  <2> QED
    BY <1>1, <2>1, FS_Subset
<1>3. Rank(S, j - 1) = Cardinality(R) /\ j \notin R
  BY <1>1 DEF Rank
<1>4. ASSUME j \in S
      PROVE  Rank(S, j) = Rank(S, j - 1) + 1
  <2>1. \A i \in S : i \in Nat
    OBVIOUS
  <2>2. \A i \in S : i <= j <=> i <= j - 1 \/ i = j
    BY <2>1
  <2>3. {i \in S : i <= j} = R \cup {j}
    BY <1>1, <1>4, <2>2
  <2>4. Cardinality(R \cup {j}) = Cardinality(R) + 1
    BY <1>2, <1>3, FS_AddElement
  <2> QED
    BY <1>3, <2>3, <2>4 DEF Rank
<1>5. ASSUME j \notin S
      PROVE  Rank(S, j) = Rank(S, j - 1)
  <2>1. \A i \in S : i \in Nat
    OBVIOUS
  <2>2. \A i \in S : i <= j <=> i <= j - 1
    BY <1>5, <2>1
  <2>3. {i \in S : i <= j} = R
    BY <1>1, <2>2
  <2> QED
    BY <1>3, <2>3 DEF Rank
<1> QED
  BY <1>4, <1>5

\* The p-th member is one, and the p-th: the first position of that rank.
LEMMA NthIs ==
  ASSUME NEW N \in Nat, NEW S \in SUBSET (1..N), NEW p \in 1..Cardinality(S)
  PROVE  Nth(S, p) \in S /\ Rank(S, Nth(S, p)) = p
<1>1. IsFiniteSet(S) /\ Cardinality(S) \in Nat
  BY RankIs
<1>2. PICK T : T = {j \in Nat : Rank(S, j) >= p}
  OBVIOUS
<1>3. N \in T
  BY <1>1, <1>2, RankIs
<1>4. PICK m \in T : \A y \in T : m <= y
  BY <1>2, <1>3, MinIs
<1>5. m \in Nat /\ Rank(S, m) >= p
  BY <1>2
<1>6. Rank(S, 0) = 0
  <2>1. \A i \in S : i \in 1..N
    OBVIOUS
  <2>2. \A i \in S : ~(i <= 0)
    BY <2>1
  <2>3. {i \in S : i <= 0} = {}
    BY <2>2
  <2> QED
    BY <2>3, FS_EmptySet DEF Rank
<1>7. m # 0 /\ m - 1 \in Nat
  BY <1>1, <1>5, <1>6
<1>8. ~(Rank(S, m - 1) >= p)
  BY <1>2, <1>4, <1>7
<1>9. m \in S /\ Rank(S, m) = p
  <2>1. Rank(S, m) \in Nat /\ Rank(S, m - 1) \in Nat
    BY <1>1, <1>5, <1>7, RankIs
  <2>2. Rank(S, m) = IF m \in S THEN Rank(S, m - 1) + 1 ELSE Rank(S, m - 1)
    BY <1>5, <1>7, RankStep
  <2> QED
    BY <1>1, <1>5, <1>8, <2>1, <2>2
<1>10. PICK A : A = {j \in S : Rank(S, j) = p}
  OBVIOUS
<1>11. A \in SUBSET Nat /\ m \in A
  <2>1. \A i \in S : i \in Nat
    OBVIOUS
  <2> QED
    BY <1>9, <1>10, <2>1
<1>12. Min(A) \in A
  BY <1>11, MinIs
<1> QED
  BY <1>10, <1>12 DEF Nth

\* With a position after the others, those keep their numbers and it has the last.
LEMMA NthGrows ==
  ASSUME NEW N \in Nat, NEW S \in SUBSET (1..N)
  PROVE  /\ Cardinality(S \cup {N + 1}) = Cardinality(S) + 1
         /\ \A j \in 1..N : Rank(S \cup {N + 1}, j) = Rank(S, j)
         /\ \A p \in 1..Cardinality(S) : Nth(S \cup {N + 1}, p) = Nth(S, p)
         /\ Nth(S \cup {N + 1}, Cardinality(S) + 1) = N + 1
<1>1. IsFiniteSet(S) /\ Cardinality(S) \in Nat /\ N + 1 \notin S
  BY RankIs
<1>2. PICK U : U = S \cup {N + 1}
  OBVIOUS
<1>3. Cardinality(U) = Cardinality(S) + 1
  BY <1>1, <1>2, FS_AddElement
<1>4. ASSUME NEW j \in 1..N
      PROVE  Rank(U, j) = Rank(S, j)
  <2>1. {i \in U : i <= j} = {i \in S : i <= j}
    BY <1>2
  <2> QED
    BY <2>1 DEF Rank
<1>5. Rank(U, N + 1) = Cardinality(S) + 1
  <2>1. U \in SUBSET (1..(N + 1))
    BY <1>2
  <2> QED
    BY <1>3, <2>1, RankIs
<1>6. ASSUME NEW p \in 1..Cardinality(S)
      PROVE  Nth(U, p) = Nth(S, p)
  <2>1. ASSUME NEW j \in U
        PROVE  Rank(U, j) = p <=> j \in S /\ Rank(S, j) = p
    <3>1. CASE j = N + 1
      BY <1>1, <1>5, <3>1
    <3>2. CASE j \in S
      BY <1>1, <1>4, <3>2
    <3> QED
      BY <1>2, <3>1, <3>2
  <2>2. {j \in U : Rank(U, j) = p} = {j \in S : Rank(S, j) = p}
    BY <1>2, <2>1
  <2> QED
    BY <2>2 DEF Nth
<1>7. Nth(U, Cardinality(S) + 1) = N + 1
  <2>1. ASSUME NEW j \in S
        PROVE  Rank(U, j) # Cardinality(S) + 1
    <3>1. j \in 1..N /\ Rank(U, j) = Rank(S, j) /\ Rank(S, j) \in 0..Cardinality(S)
      BY <1>4, RankIs
    <3> QED
      BY <1>1, <3>1
  <2>2. {j \in U : Rank(U, j) = Cardinality(S) + 1} = {N + 1}
    BY <1>2, <1>5, <2>1
  <2>3. Min({N + 1}) = N + 1
    BY MinIs
  <2> QED
    BY <2>2, <2>3 DEF Nth
<1> QED
  BY <1>2, <1>3, <1>4, <1>6, <1>7

-----------------------------------------------------------------------------
(* One more line in a file.                                                 *)

\* A line is an item when it says so.
LEMMA LineIs ==
  ASSUME NEW l \in Lines
  PROVE  /\ l.kind \in {"blank", "unclosed", "bad", "section", "item"}
         /\ l.kind = "item" => l \in Items /\ Said(l) = parse(l) /\ parse(l).value \in Values
         /\ l.kind = "section" => l.title \in Titles
<1>1. \A it \in Items : it.kind = "item" /\ it.late \in BOOLEAN /\ it.early \in BOOLEAN
  BY IniAssumption
<1>2. ASSUME l.kind = "item"
      PROVE  l \in Items
  BY <1>2 DEF Lines
<1>3. ASSUME l \in Items
      PROVE  Said(l) = parse(l) /\ parse(l).value \in Values
  <2>1. (l.late /\ ~EndsAtFirst(l)) = (l.early /\ l.late)
    BY <1>1, <1>3 DEF EndsAtFirst
  <2>2. (l.late /\ ~EndsAtFirst(l)) \in BOOLEAN
    OBVIOUS
  <2> QED
    BY <1>3, <2>1, <2>2 DEF Said, parse, Values
<1>4. l.kind \in {"blank", "unclosed", "bad", "section", "item"}
  BY <1>1 DEF Lines
<1>5. l.kind = "section" => l.title \in Titles
  BY <1>1 DEF Lines
<1> QED
  BY <1>2, <1>3, <1>4, <1>5

\* A line read.
LEMMA LineAdded ==
  ASSUME NEW d \in Seq(Lines), NEW l \in Lines
  PROVE  /\ Append(d, l) \in Seq(Lines) /\ Len(d) \in Nat
         /\ DOMAIN d = 1..Len(d) /\ DOMAIN Append(d, l) = 1..(Len(d) + 1)
         /\ \A j \in 1..Len(d) : Append(d, l)[j] = d[j]
         /\ Append(d, l)[Len(d) + 1] = l
  BY LenProperties

\* Where its sections start.
LEMMA HeadsAdded ==
  ASSUME NEW d \in Seq(Lines), NEW l \in Lines
  PROVE  /\ Heads(d) \in SUBSET (1..Len(d)) /\ Cardinality(Heads(d)) \in Nat
         /\ Heads(Append(d, l)) = IF l.kind = "section" THEN Heads(d) \cup {Len(d) + 1} ELSE Heads(d)
         /\ Cardinality(Heads(Append(d, l))) =
              Cardinality(Heads(d)) + (IF l.kind = "section" THEN 1 ELSE 0)
<1>1. PICK N \in Nat : N = Len(d)
  BY LineAdded
<1>2. PICK e : e = Append(d, l)
  OBVIOUS
<1>3. /\ DOMAIN d = 1..N /\ DOMAIN e = 1..(N + 1)
      /\ \A j \in 1..N : e[j] = d[j]
      /\ e[N + 1] = l
  BY <1>1, <1>2, LineAdded
<1>4. Heads(d) \in SUBSET (1..N)
  BY <1>3 DEF Heads
<1>5. Cardinality(Heads(d)) \in Nat
  BY <1>4, RankIs
<1>6. ASSUME l.kind = "section"
      PROVE  Heads(e) = Heads(d) \cup {N + 1}
  BY <1>3, <1>6 DEF Heads
<1>7. ASSUME l.kind # "section"
      PROVE  Heads(e) = Heads(d)
  BY <1>3, <1>7 DEF Heads
<1>8. Cardinality(Heads(d) \cup {N + 1}) = Cardinality(Heads(d)) + 1
  BY <1>4, NthGrows
<1>9. CASE l.kind = "section"
  BY <1>1, <1>2, <1>4, <1>5, <1>6, <1>8, <1>9
<1>10. CASE l.kind # "section"
  <2>1. Heads(e) = Heads(d)
    BY <1>7, <1>10
  <2>2. Cardinality(Heads(e)) = Cardinality(Heads(d)) + 0
    BY <1>5, <2>1
  <2> QED
    BY <1>1, <1>2, <1>4, <1>5, <1>10, <2>1, <2>2
<1> QED
  BY <1>9, <1>10

\* The items of its sections: an item belongs to the last.
LEMMA OwnAdded ==
  ASSUME NEW d \in Seq(Lines), NEW l \in Lines, NEW n \in Nat
  PROVE  /\ Own(d, n) \in SUBSET (1..Len(d))
         /\ Own(Append(d, l), n) =
              IF l.kind = "item" /\ Cardinality(Heads(d)) = n + 1
              THEN Own(d, n) \cup {Len(d) + 1} ELSE Own(d, n)
         /\ n >= Cardinality(Heads(d)) => Own(d, n) = {}
<1>1. PICK N \in Nat : N = Len(d)
  BY LineAdded
<1>2. PICK e : e = Append(d, l)
  OBVIOUS
<1>3. /\ DOMAIN d = 1..N /\ DOMAIN e = 1..(N + 1)
      /\ \A j \in 1..N : e[j] = d[j]
      /\ e[N + 1] = l
  BY <1>1, <1>2, LineAdded
<1>4. /\ Heads(d) \in SUBSET (1..N) /\ Cardinality(Heads(d)) \in Nat
      /\ Heads(e) = IF l.kind = "section" THEN Heads(d) \cup {N + 1} ELSE Heads(d)
  BY <1>1, <1>2, HeadsAdded
<1>5. ASSUME NEW j \in 1..N
      PROVE  Rank(Heads(e), j) = Rank(Heads(d), j)
  BY <1>4, <1>5, NthGrows
<1>6. l.kind = "item" => Rank(Heads(e), N + 1) = Cardinality(Heads(d))
  BY <1>4, RankIs
<1>7. Own(d, n) \in SUBSET (1..N)
  BY <1>3 DEF Own
<1>8. \A j \in 1..N : j \in Own(e, n) <=> j \in Own(d, n)
  BY <1>3, <1>5 DEF Own
<1>9. N + 1 \in Own(e, n) <=> l.kind = "item" /\ Cardinality(Heads(d)) = n + 1
  BY <1>3, <1>6 DEF Own
<1>10. Own(e, n) \in SUBSET (1..(N + 1))
  BY <1>3 DEF Own
<1>11. Own(e, n) = IF l.kind = "item" /\ Cardinality(Heads(d)) = n + 1
                   THEN Own(d, n) \cup {N + 1} ELSE Own(d, n)
  <2>1. \A j \in 1..(N + 1) : j \in 1..N \/ j = N + 1
    OBVIOUS
  <2>2. N + 1 \notin Own(d, n)
    BY <1>7
  <2>3. CASE l.kind = "item" /\ Cardinality(Heads(d)) = n + 1
    <3>1. \A j : j \in Own(e, n) <=> j \in Own(d, n) \/ j = N + 1
      BY <1>7, <1>8, <1>9, <1>10, <2>1, <2>3, Zenon
    <3> QED
      BY <2>3, <3>1
  <2>4. CASE ~(l.kind = "item" /\ Cardinality(Heads(d)) = n + 1)
    <3>1. \A j : j \in Own(e, n) <=> j \in Own(d, n)
      BY <1>7, <1>8, <1>9, <1>10, <2>1, <2>2, <2>4, Zenon
    <3> QED
      BY <2>4, <3>1
  <2> QED
    BY <2>3, <2>4
<1>12. ASSUME n >= Cardinality(Heads(d)), NEW j \in Own(d, n)
       PROVE  FALSE
  <2>1. j \in 1..N /\ Rank(Heads(d), j) = n + 1
    BY <1>3 DEF Own
  <2>2. Rank(Heads(d), j) \in 0..Cardinality(Heads(d))
    BY <1>4, <2>1, RankIs
  <2> QED
    BY <1>4, <1>12, <2>1, <2>2
<1> QED
  BY <1>1, <1>2, <1>7, <1>11, <1>12

\* What the table should hold of a file.
Entry(d, n) == [title |-> d[Head0(d, n)].title, items |-> ItemsIn(d, n)]

\* The items of a section that the line is none of.
LEMMA ItemsKept ==
  ASSUME NEW d \in Seq(Lines), NEW l \in Lines, NEW n \in Nat,
         Own(Append(d, l), n) = Own(d, n)
  PROVE  ItemsIn(Append(d, l), n) = ItemsIn(d, n)
<1>1. PICK N \in Nat : N = Len(d)
  BY LineAdded
<1>2. PICK e : e = Append(d, l)
  OBVIOUS
<1>3. \A j \in 1..N : e[j] = d[j]
  BY <1>1, <1>2, LineAdded
<1>4. PICK O \in SUBSET (1..N) : O = Own(d, n) /\ O = Own(e, n)
  BY <1>1, <1>2, OwnAdded
<1>5. \A p \in 1..Cardinality(O) : e[Nth(O, p)] = d[Nth(O, p)]
  BY <1>3, NthIs
<1> QED
  BY <1>2, <1>4, <1>5 DEF ItemsIn

\* The items of the section that the line is in.
LEMMA ItemsAdded ==
  ASSUME NEW d \in Seq(Lines), NEW l \in Lines, NEW n \in Nat,
         Own(Append(d, l), n) = Own(d, n) \cup {Len(d) + 1}
  PROVE  ItemsIn(Append(d, l), n) = Append(ItemsIn(d, n), Said(l))
<1>1. PICK N \in Nat : N = Len(d)
  BY LineAdded
<1>2. PICK e : e = Append(d, l)
  OBVIOUS
<1>3. (\A j \in 1..N : e[j] = d[j]) /\ e[N + 1] = l
  BY <1>1, <1>2, LineAdded
<1>4. PICK O \in SUBSET (1..N) : O = Own(d, n)
  BY <1>1, OwnAdded
<1>5. PICK U : U = O \cup {N + 1}
  OBVIOUS
<1>6. PICK c \in Nat : c = Cardinality(O)
  BY RankIs
<1>7. /\ Cardinality(U) = c + 1
      /\ \A p \in 1..c : Nth(U, p) = Nth(O, p)
      /\ Nth(U, c + 1) = N + 1
  BY <1>5, <1>6, NthGrows
<1>8. ItemsIn(e, n) = [p \in 1..(c + 1) |-> Said(e[Nth(U, p)])]
  BY <1>1, <1>2, <1>4, <1>5, <1>7 DEF ItemsIn
<1>9. ItemsIn(d, n) = [p \in 1..c |-> Said(d[Nth(O, p)])]
  BY <1>4, <1>6 DEF ItemsIn
<1>10. \A p \in 1..c : Said(e[Nth(U, p)]) = Said(d[Nth(O, p)])
  <2>1. TAKE p \in 1..c
  <2>2. Nth(O, p) \in 1..N
    BY <1>6, NthIs
  <2> QED
    BY <1>3, <1>7, <2>2
<1>11. PICK S : S = {Said(d[Nth(O, p)]) : p \in 1..c} \cup {Said(l)}
  OBVIOUS
<1>12. PICK s \in Seq(S) : s = ItemsIn(d, n) /\ Len(s) = c
  <2>1. ItemsIn(d, n) \in [1..c -> S]
    BY <1>9, <1>11
  <2>2. ItemsIn(d, n) \in Seq(S)
    BY <2>1, SeqDef
  <2> QED
    BY <2>1, <2>2, LenProperties
<1>13. PICK x \in S : x = Said(l)
  BY <1>11
<1>14. PICK t \in Seq(S) : /\ t = Append(s, x) /\ Len(t) = c + 1
                          /\ (\A p \in 1..c : t[p] = s[p]) /\ t[c + 1] = x
  <2>1. Append(s, x) \in Seq(S) /\ Len(Append(s, x)) = Len(s) + 1
    BY AppendProperties
  <2>2. (\A p \in 1..Len(s) : Append(s, x)[p] = s[p]) /\ Append(s, x)[Len(s) + 1] = x
    BY AppendProperties
  <2> QED
    BY <1>12, <2>1, <2>2
<1>15. DOMAIN t = 1..(c + 1)
  BY <1>14, LenProperties
<1>16. t = [p \in 1..(c + 1) |-> Said(e[Nth(U, p)])]
  <2>1. \A p \in 1..(c + 1) : t[p] = Said(e[Nth(U, p)])
    <3>1. TAKE p \in 1..(c + 1)
    <3>2. CASE p \in 1..c
      BY <1>9, <1>10, <1>12, <1>14, <3>2
    <3>3. CASE p = c + 1
      BY <1>3, <1>7, <1>13, <1>14, <3>3
    <3> QED
      BY <3>2, <3>3
  <2>2. t = [p \in 1..(c + 1) |-> t[p]]
    BY <1>15
  <2> QED
    BY <2>1, <2>2
<1> QED
  BY <1>2, <1>8, <1>12, <1>13, <1>14, <1>16

\* What the table should hold of a section is kept by a line that is no item of it.
LEMMA EntryKept ==
  ASSUME NEW d \in Seq(Lines), NEW l \in Lines, NEW n \in Nat,
         n < Cardinality(Heads(d)),
         ~(l.kind = "item" /\ Cardinality(Heads(d)) = n + 1)
  PROVE  Entry(Append(d, l), n) = Entry(d, n)
<1>1. PICK N \in Nat : N = Len(d)
  BY LineAdded
<1>2. PICK e : e = Append(d, l)
  OBVIOUS
<1>3. \A j \in 1..N : e[j] = d[j]
  BY <1>1, <1>2, LineAdded
<1>4. PICK H \in SUBSET (1..N) : H = Heads(d) /\ Cardinality(H) \in Nat
  BY <1>1, HeadsAdded
<1>5. Heads(e) = H \/ Heads(e) = H \cup {N + 1}
  BY <1>1, <1>2, <1>4, HeadsAdded
<1>6. n + 1 \in 1..Cardinality(H)
  BY <1>4
<1>7. Nth(H, n + 1) \in 1..N /\ Nth(H \cup {N + 1}, n + 1) = Nth(H, n + 1)
  BY <1>6, NthIs, NthGrows
<1>8. Nth(Heads(e), n + 1) = Nth(H, n + 1)
  BY <1>5, <1>7
<1>9. e[Head0(e, n)].title = d[Head0(d, n)].title
  BY <1>3, <1>4, <1>7, <1>8 DEF Head0
<1>10. Own(e, n) = Own(d, n)
  BY <1>2, OwnAdded
<1>11. ItemsIn(e, n) = ItemsIn(d, n)
  BY <1>2, <1>10, ItemsKept
<1> QED
  BY <1>2, <1>9, <1>11 DEF Entry

\* That of the section a line starts.
LEMMA EntryNew ==
  ASSUME NEW d \in Seq(Lines), NEW l \in Lines, l.kind = "section",
         NEW n \in Nat, n = Cardinality(Heads(d))
  PROVE  Entry(Append(d, l), n) = [title |-> l.title, items |-> <<>>]
<1>1. PICK N \in Nat : N = Len(d)
  BY LineAdded
<1>2. PICK e : e = Append(d, l)
  OBVIOUS
<1>3. e[N + 1] = l
  BY <1>1, <1>2, LineAdded
<1>4. Heads(d) \in SUBSET (1..N) /\ Heads(e) = Heads(d) \cup {N + 1}
  BY <1>1, <1>2, HeadsAdded
<1>5. Head0(e, n) = N + 1
  BY <1>4, NthGrows DEF Head0
<1>6. Own(e, n) = {}
  BY <1>2, OwnAdded
<1>7. ItemsIn(e, n) = <<>>
  <2>1. Cardinality({}) = 0
    BY FS_EmptySet
  <2>2. ItemsIn(e, n) = [p \in 1..0 |-> Said(e[Nth({}, p)])]
    BY <1>6, <2>1 DEF ItemsIn
  <2>3. 1..0 = {}
    OBVIOUS
  <2> QED
    BY <2>2, <2>3
<1> QED
  BY <1>2, <1>3, <1>5, <1>7 DEF Entry

\* That of the section an item is in.
LEMMA EntryItem ==
  ASSUME NEW d \in Seq(Lines), NEW l \in Lines, l.kind = "item",
         NEW n \in Nat, Cardinality(Heads(d)) = n + 1
  PROVE  /\ Entry(Append(d, l), n).title = Entry(d, n).title
         /\ Entry(Append(d, l), n).items = Append(Entry(d, n).items, Said(l))
<1>1. PICK N \in Nat : N = Len(d)
  BY LineAdded
<1>2. PICK e : e = Append(d, l)
  OBVIOUS
<1>3. \A j \in 1..N : e[j] = d[j]
  BY <1>1, <1>2, LineAdded
<1>4. Heads(d) \in SUBSET (1..N) /\ Heads(e) = Heads(d)
  BY <1>1, <1>2, HeadsAdded
<1>5. Head0(e, n) = Head0(d, n) /\ Head0(d, n) \in 1..N
  <2>1. n + 1 \in 1..Cardinality(Heads(d))
    OBVIOUS
  <2>2. Nth(Heads(d), n + 1) \in Heads(d)
    BY <1>4, <2>1, NthIs
  <2> QED
    BY <1>4, <2>2 DEF Head0
<1>6. Own(e, n) = Own(d, n) \cup {N + 1}
  BY <1>1, <1>2, OwnAdded
<1>7. ItemsIn(e, n) = Append(ItemsIn(d, n), Said(l))
  BY <1>1, <1>2, <1>6, ItemsAdded
<1> QED
  BY <1>2, <1>3, <1>5, <1>7 DEF Entry

-----------------------------------------------------------------------------
(* A table that holds what a file says, and one more line.                  *)

\* The places of the table.
LEMMA IndexIs ==
  /\ MAXINISECTION \in Nat /\ MAXINISECTION > 0 /\ Indexes \subseteq Nat
  /\ \A n \in Int : n \in Indexes <=> 0 <= n /\ n < MAXINISECTION
<1>1. MAXINISECTION \in Nat \ {0}
  BY IniAssumption, Zenon
<1> QED
  BY <1>1 DEF Indexes

Entries == [key : {it.key : it \in Items}, value : Values]
Tables == [Indexes -> [title : Titles, items : Seq(Entries)]]

TableIs(T, d) ==
  \A n \in Indexes :
    T[n] = IF n < Cardinality(Heads(d)) THEN Entry(d, n) ELSE Empty

\* A line that is neither a title nor an item needs no change.
LEMMA TableSkips ==
  ASSUME NEW d \in Seq(Lines), NEW l \in Lines, l.kind \notin {"section", "item"},
         NEW T, TableIs(T, d)
  PROVE  TableIs(T, Append(d, l)) /\ Cardinality(Heads(Append(d, l))) = Cardinality(Heads(d))
<1>1. PICK c \in Nat : c = Cardinality(Heads(d))
  BY HeadsAdded
<1>2. Cardinality(Heads(Append(d, l))) = c
  BY <1>1, HeadsAdded
<1>3. ASSUME NEW n \in Indexes
      PROVE  T[n] = IF n < c THEN Entry(Append(d, l), n) ELSE Empty
  <2>1. n \in Nat
    BY IndexIs
  <2>2. CASE n < c
    BY <1>1, <2>1, <2>2, EntryKept DEF TableIs
  <2>3. CASE ~(n < c)
    BY <1>1, <2>3 DEF TableIs
  <2> QED
    BY <2>2, <2>3
<1> QED
  BY <1>1, <1>2, <1>3 DEF TableIs

\* A title goes to the next place, which is empty.
LEMMA TableTitle ==
  ASSUME NEW d \in Seq(Lines), NEW l \in Lines, l.kind = "section",
         NEW T \in Tables, TableIs(T, d), NEW i \in Indexes, i = Cardinality(Heads(d))
  PROVE  TableIs([T EXCEPT ![i].title = l.title], Append(d, l))
<1>1. i \in Nat /\ Indexes \subseteq Nat
  BY IndexIs
<1>2. Cardinality(Heads(Append(d, l))) = i + 1
  BY <1>1, HeadsAdded
<1>3. PICK U : U = [T EXCEPT ![i].title = l.title]
  OBVIOUS
<1>4. (\A n \in Indexes : n # i => U[n] = T[n]) /\ U[i] = [T[i] EXCEPT !.title = l.title]
  BY <1>3 DEF Tables
<1>5. ASSUME NEW n \in Indexes
      PROVE  U[n] = IF n < i + 1 THEN Entry(Append(d, l), n) ELSE Empty
  <2>1. n \in Nat
    BY <1>1
  <2>2. CASE n < i
    BY <1>1, <1>4, <2>1, <2>2, EntryKept DEF TableIs
  <2>3. CASE n = i
    <3>1. T[i] = Empty
      BY <1>1 DEF TableIs
    <3>2. U[i] = [title |-> l.title, items |-> <<>>]
      <4>1. U[i] = [Empty EXCEPT !.title = l.title]
        BY <1>4, <3>1, Zenon
      <4> QED
        BY <4>1 DEF Empty
    <3>3. Entry(Append(d, l), i) = [title |-> l.title, items |-> <<>>]
      BY <1>1, EntryNew
    <3> QED
      BY <1>1, <2>3, <3>2, <3>3
  <2>4. CASE n > i
    BY <1>1, <1>4, <2>1, <2>4 DEF TableIs
  <2> QED
    BY <1>1, <2>1, <2>2, <2>3, <2>4
<1> QED
  BY <1>2, <1>3, <1>5 DEF TableIs

\* An item goes to the end of the last section's.
LEMMA TableItem ==
  ASSUME NEW d \in Seq(Lines), NEW l \in Lines, l.kind = "item",
         NEW T \in Tables, TableIs(T, d), NEW i \in Indexes, Cardinality(Heads(d)) = i + 1
  PROVE  TableIs([T EXCEPT ![i].items = addItems(@, parse(l))], Append(d, l))
<1>1. i \in Nat /\ Indexes \subseteq Nat
  BY IndexIs
<1>2. Cardinality(Heads(Append(d, l))) = i + 1
  BY <1>1, HeadsAdded
<1>3. PICK U : U = [T EXCEPT ![i].items = addItems(@, parse(l))]
  OBVIOUS
<1>4. (\A n \in Indexes : n # i => U[n] = T[n])
      /\ U[i] = [T[i] EXCEPT !.items = Append(@, parse(l))]
  BY <1>3 DEF Tables, addItems
<1>5. ASSUME NEW n \in Indexes
      PROVE  U[n] = IF n < i + 1 THEN Entry(Append(d, l), n) ELSE Empty
  <2>1. n \in Nat
    BY <1>1
  <2>2. CASE n < i
    BY <1>1, <1>4, <2>1, <2>2, EntryKept DEF TableIs
  <2>3. CASE n = i
    <3>1. T[i] = Entry(d, i)
      BY <1>1 DEF TableIs
    <3>2. Said(l) = parse(l)
      BY LineIs
    <3>3. PICK t, s : Entry(d, i) = [title |-> t, items |-> s]
      BY DEF Entry
    <3>4. U[i] = [title |-> t, items |-> Append(s, parse(l))]
      BY <1>4, <3>1, <3>3
    <3>5. PICK u, v : Entry(Append(d, l), i) = [title |-> u, items |-> v]
      BY DEF Entry
    <3>6. u = t /\ v = Append(s, parse(l))
      BY <1>1, <3>2, <3>3, <3>5, EntryItem
    <3> QED
      BY <1>1, <2>3, <3>4, <3>5, <3>6
  <2>4. CASE n > i
    BY <1>1, <1>4, <2>1, <2>4 DEF TableIs
  <2> QED
    BY <1>1, <2>1, <2>2, <2>3, <2>4
<1> QED
  BY <1>2, <1>3, <1>5 DEF TableIs

-----------------------------------------------------------------------------
(* Types: only a loop that runs below the end of the table adds to it, and  *)
(* an open() has its file open until it fails.                              *)

Running == pc \in {"getline", "body", "end"}

TypeInv ==
  /\ Section \in Tables
  /\ pc \in {"idle", "getline", "body", "end", "crashed"}
  /\ IniDex \in -1..MAXINISECTION
  /\ line \in Lines
  /\ files \in 0..MaxFiles
  /\ ret \in {"none", "ok", "error"}
  /\ lines \in Seq(Lines)
  /\ fails \in 0..MaxFails
  /\ torn \in BOOLEAN /\ overrun \in BOOLEAN
  /\ pc = "body" => IniDex < MAXINISECTION
  /\ Running => files > 0

\* What parse() makes of an item belongs in a table, and so does an empty place.
LEMMA ValuesIn ==
  /\ [i \in Indexes |-> Empty] \in Tables
  /\ Blank \in Lines /\ \A t : TitleLine(t) \in Lines
  /\ \A l \in Lines : l.kind = "item" => parse(l) \in Entries
<1>1. Empty \in [title : Titles, items : Seq(Entries)]
  <2>1. "" \in Titles
    BY IniAssumption, Zenon
  <2>2. <<>> \in Seq(Entries)
    OBVIOUS
  <2> QED
    BY <2>1, <2>2 DEF Empty
<1>2. ASSUME NEW l \in Lines, l.kind = "item"
      PROVE  parse(l) \in Entries
  <2>1. l \in Items /\ parse(l).value \in Values
    BY <1>2, LineIs
  <2>2. PICK v : parse(l) = [key |-> l.key, value |-> v]
    BY DEF parse
  <2> QED
    BY <2>1, <2>2 DEF Entries
<1> QED
  BY <1>1, <1>2, IniAssumption DEF Tables, Blank, TitleLine, Lines

LEMMA TypesInitially == Init => TypeInv
<1> SUFFICES ASSUME Init PROVE TypeInv
  OBVIOUS
<1>1. {MaxFiles, MaxFails} \subseteq Nat /\ MAXINISECTION \in Nat
  BY IniAssumption
<1>2. 0 \in 0..MaxFiles /\ 0 \in 0..MaxFails /\ -1 \in -1..MAXINISECTION
  BY <1>1
<1>3. <<>> \in Seq(Lines)
  OBVIOUS
<1> QED
  BY <1>2, <1>3, ValuesIn DEF Init, TypeInv, Running

LEMMA TypesKept ==
  ASSUME TypeInv, [Next]_vars
  PROVE  TypeInv'
<1>1. {MaxFiles, MaxFails, MaxLines} \subseteq Nat /\ MAXINISECTION \in Nat
  BY IniAssumption
<1>2. 0 \in 0..MaxFiles /\ 0 \in 0..MaxFails /\ -1 \in -1..MAXINISECTION /\ <<>> \in Seq(Lines)
  BY <1>1
<1> USE DEF TypeInv, Running
<1>3. CASE Open
  <2>1. Section' \in Tables /\ line' \in Lines
    BY <1>3, ValuesIn DEF Open, releaseData, Released
  <2>2. MaxFiles \in Nat
    BY <1>1
  <2>3. files' \in 0..MaxFiles /\ files' > 0
    BY <1>3, <2>2 DEF Open
  <2> QED
    BY <1>2, <1>3, <2>1, <2>3 DEF Open
<1>4. CASE OpenFails
  BY <1>4 DEF OpenFails, ghosts
<1>5. CASE Close
  BY <1>2, <1>5, ValuesIn DEF Close, releaseData, Released
<1>6. CASE Restart
  BY <1>2, <1>6, ValuesIn DEF Restart
<1>7. CASE GetLine
  <2>1. lines' \in Seq(Lines)
    BY <1>7, LineAdded DEF GetLine
  <2> QED
    BY <1>1, <1>7, <2>1 DEF GetLine, Turn
<1>8. CASE GetLineNoMemory
  BY <1>1, <1>8 DEF GetLineNoMemory, Turn
<1>9. CASE GetLineTorn
  BY <1>1, <1>9 DEF GetLineTorn, Turn
<1>10. CASE EndOfFile
  BY <1>10 DEF EndOfFile, ghosts
<1>11. CASE OpenEnd
  BY <1>11 DEF OpenEnd, Return, ghosts
<1>12. CASE SkipLine
  BY <1>12 DEF SkipLine, ghosts
<1>13. CASE BadLine
  BY <1>1, <1>13 DEF BadLine, Fail, Return, ghosts
<1>14. CASE NewSection
  <2>1. IniDex' \in -1..MAXINISECTION
    BY <1>1, <1>14 DEF NewSection
  <2>2. line.title \in Titles
    BY <1>14, LineIs DEF NewSection
  <2>3. Section' \in Tables
    <3>1. ASSUME NEW i \in Indexes
          PROVE  [Section EXCEPT ![i].title = line.title] \in Tables
      BY <2>2 DEF Tables
    <3> QED
      BY <1>14, <3>1 DEF NewSection
  <2> QED
    BY <1>14, <2>1, <2>3, ValuesIn DEF NewSection
<1>15. CASE NewItem
  <2>1. PICK x \in Entries : x = parse(line)
    BY <1>15, ValuesIn DEF NewItem
  <2>2. Section' \in Tables
    <3>1. ASSUME NEW i \in Indexes
          PROVE  [Section EXCEPT ![i].items = addItems(@, parse(line))] \in Tables
      <4>1. PICK e \in [title : Titles, items : Seq(Entries)] : e = Section[i]
        BY DEF Tables
      <4>2. Append(e.items, x) \in Seq(Entries)
        BY AppendProperties
      <4>3. [e EXCEPT !.items = Append(e.items, x)] \in [title : Titles, items : Seq(Entries)]
        BY <4>2
      <4> QED
        BY <2>1, <4>1, <4>3 DEF Tables, addItems
    <3> QED
      BY <1>15, <3>1 DEF NewItem
  <2> QED
    BY <1>15, <2>2 DEF NewItem
<1>16. CASE UNCHANGED vars
  BY <1>16 DEF vars
<1> QED
  BY <1>3, <1>4, <1>5, <1>6, <1>7, <1>8, <1>9, <1>10, <1>11, <1>12, <1>13, <1>14,
     <1>15, <1>16 DEF Next, Read, Body

\* The variables have their types.
THEOREM TypeCorrect == Spec => []TypeOK
<1>1. TypeInv => TypeOK
  <2> SUFFICES ASSUME TypeInv PROVE TypeOK
    OBVIOUS
  <2>1. ASSUME NEW i \in Indexes
        PROVE  /\ Section[i].title \in Titles
               /\ \A j \in DOMAIN Section[i].items : Section[i].items[j].value \in Values
    <3>1. Section[i].title \in Titles /\ Section[i].items \in Seq(Entries)
      BY DEF TypeInv, Tables
    <3>2. ASSUME NEW j \in DOMAIN Section[i].items
          PROVE  Section[i].items[j].value \in Values
      <4>1. Section[i].items[j] \in Entries
        BY <3>1, LenProperties
      <4> QED
        BY <4>1 DEF Entries
    <3> QED
      BY <3>1, <3>2
  <2> QED
    BY <2>1 DEF TypeOK, TypeInv
<1> QED
  BY <1>1, TypesInitially, TypesKept, PTL DEF Spec

-----------------------------------------------------------------------------
(* The index of the loop counts the titles of the file, whatever lines are  *)
(* taken twice when memory runs out: a title leaves text that is no title,  *)
(* and an item only when it has a place.                                    *)

Counted ==
  /\ pc = "getline" => line.kind # "section" /\ Cardinality(Heads(lines)) = IniDex + 1
  /\ pc = "body" =>
       Cardinality(Heads(lines)) = IniDex + (IF line.kind = "section" THEN 2 ELSE 1)
  /\ pc \in {"getline", "body"} /\ line.kind = "item" =>
       IniDex >= 0 \/ \E j \in DOMAIN lines : lines[j] = line

\* A file of no lines has no sections.
LEMMA NoLines == Heads(<<>>) = {} /\ Cardinality(Heads(<<>>)) = 0
<1>1. Heads(<<>>) = {}
  BY DEF Heads
<1> QED
  BY <1>1, FS_EmptySet

LEMMA CountedKept ==
  ASSUME TypeInv, Counted, [Next]_vars
  PROVE  Counted'
<1>1. Cardinality(Heads(lines)) \in Nat /\ IniDex \in Int /\ IniDex >= -1
  BY HeadsAdded, IndexIs DEF TypeInv
<1>2. ASSUME NEW t
      PROVE  TitleLine(t).kind # "section"
  BY IniAssumption DEF TitleLine, Blank
<1>3. CASE Open
  BY <1>3, NoLines DEF Open, Counted, Blank
<1>4. CASE OpenFails
  BY <1>4 DEF OpenFails, ghosts, Counted
<1>5. CASE Close
  BY <1>5 DEF Close, Counted
<1>6. CASE Restart
  BY <1>6 DEF Restart, Counted
<1>7. CASE GetLine
  <2>1. PICK l \in Lines : l = line'
    BY <1>7 DEF GetLine
  <2>2. /\ Cardinality(Heads(lines')) =
             Cardinality(Heads(lines)) + (IF l.kind = "section" THEN 1 ELSE 0)
        /\ \E j \in DOMAIN lines' : lines'[j] = l
    <3>1. Len(lines) + 1 \in 1..(Len(lines) + 1)
      BY LineAdded, <2>1 DEF TypeInv
    <3> QED
      BY <1>7, <2>1, <3>1, HeadsAdded, LineAdded DEF GetLine, TypeInv
  <2>3. Cardinality(Heads(lines)) = IniDex + 1 /\ IniDex' = IniDex
    BY <1>7 DEF GetLine, Counted
  <2>4. pc' \in {"body", "end"}
    BY <1>7 DEF GetLine, Turn
  <2>5. Cardinality(Heads(lines')) = IniDex' + (IF line'.kind = "section" THEN 2 ELSE 1)
    <3>1. CASE l.kind = "section"
      BY <1>1, <2>1, <2>2, <2>3, <3>1
    <3>2. CASE l.kind # "section"
      BY <1>1, <2>1, <2>2, <2>3, <3>2
    <3> QED
      BY <3>1, <3>2
  <2> QED
    BY <2>1, <2>2, <2>4, <2>5 DEF Counted
<1>8. CASE GetLineNoMemory \/ GetLineTorn
  BY <1>1, <1>8 DEF GetLineNoMemory, GetLineTorn, Turn, Counted
<1>9. CASE EndOfFile
  BY <1>9 DEF EndOfFile, ghosts, Counted
<1>10. CASE OpenEnd
  BY <1>10 DEF OpenEnd, Return, ghosts, Counted
<1>11. CASE SkipLine
  BY <1>11 DEF SkipLine, ghosts, Counted
<1>12. CASE BadLine
  BY <1>12 DEF BadLine, Fail, Return, ghosts, Counted
<1>13. CASE NewSection
  <2>1. /\ pc = "body" /\ line.kind = "section"
        /\ IniDex' = IniDex + 1 /\ line' = TitleLine(line.title) /\ lines' = lines
        /\ pc' \in {"getline", "crashed"}
    BY <1>13 DEF NewSection
  <2>2. Cardinality(Heads(lines)) = IniDex + 2
    BY <2>1 DEF Counted
  <2>3. Cardinality(Heads(lines')) = IniDex' + 1 /\ IniDex' >= 0
    BY <1>1, <2>1, <2>2
  <2> QED
    BY <1>2, <2>1, <2>3 DEF Counted
<1>14. CASE NewItem
  BY <1>14 DEF NewItem, Counted
<1>15. CASE UNCHANGED vars
  BY <1>15 DEF vars, Counted
<1> QED
  BY <1>3, <1>4, <1>5, <1>6, <1>7, <1>8, <1>9, <1>10, <1>11, <1>12, <1>13, <1>14,
     <1>15 DEF Next, Read, Body

\* A reason to run past the table stays one however the file goes on.
LEMMA ReasonStays ==
  ASSUME NEW d \in Seq(Lines), NEW l \in Lines
  PROVE  /\ Cardinality(Heads(d)) > MAXINISECTION
              => Cardinality(Heads(Append(d, l))) > MAXINISECTION
         /\ (\E j \in DOMAIN d : d[j].kind = "item" /\ \A h \in Heads(d) : j < h) =>
              \E j \in DOMAIN Append(d, l) :
                Append(d, l)[j].kind = "item" /\ \A h \in Heads(Append(d, l)) : j < h
<1>1. PICK N \in Nat : N = Len(d)
  BY LineAdded
<1>2. PICK e : e = Append(d, l)
  OBVIOUS
<1>3. /\ DOMAIN d = 1..N /\ DOMAIN e = 1..(N + 1)
      /\ \A j \in 1..N : e[j] = d[j]
  BY <1>1, <1>2, LineAdded
<1>4. \A h \in Heads(e) : h \in Heads(d) \/ h = N + 1
  BY <1>1, <1>2, HeadsAdded
<1>5. \A j \in 1..N : j < N + 1 /\ j \in 1..(N + 1)
  OBVIOUS
<1>6. Cardinality(Heads(e)) >= Cardinality(Heads(d))
  BY <1>2, HeadsAdded
<1>7. Cardinality(Heads(d)) \in Nat /\ Cardinality(Heads(e)) \in Nat
  BY <1>2, HeadsAdded
<1> QED
  BY <1>2, <1>3, <1>4, <1>5, <1>6, <1>7, IndexIs

\* Section[] is indexed outside its bounds only for a file with more sections
\* than it has room for, or an item before the first, for every file and wherever
\* malloc() or realloc() fails.
THEOREM OverrunExplained == Spec => []OverrunOnly
<1>1. Init => Counted /\ OverrunOnly
  BY DEF Init, Counted, OverrunOnly
<1>2. ASSUME TypeInv, Counted, OverrunOnly, [Next]_vars
      PROVE  OverrunOnly'
  <2>1. Cardinality(Heads(lines)) \in Nat /\ IniDex \in Int /\ IniDex >= -1
    BY <1>2, HeadsAdded, IndexIs DEF TypeInv
  <2>2. CASE Open \/ Close \/ Restart
    BY <2>2 DEF Open, Close, Restart, OverrunOnly
  <2>3. CASE GetLine
    BY <1>2, <2>3, ReasonStays DEF GetLine, OverrunOnly, TypeInv
  <2>4. CASE NewSection
    <3>1. CASE overrun
      BY <1>2, <2>4, <3>1 DEF NewSection, OverrunOnly
    <3>2. CASE ~overrun
      <4>1. /\ pc = "body" /\ line.kind = "section" /\ lines' = lines
            /\ overrun' => IniDex + 1 \notin Indexes
        BY <2>4, <3>2 DEF NewSection
      <4>2. Cardinality(Heads(lines)) = IniDex + 2
        BY <1>2, <4>1 DEF Counted
      <4>3. overrun' => Cardinality(Heads(lines)) > MAXINISECTION
        BY <2>1, <4>1, <4>2, IndexIs
      <4> QED
        BY <4>1, <4>3 DEF OverrunOnly
    <3> QED
      BY <3>1, <3>2
  <2>5. CASE NewItem
    <3>1. CASE overrun
      BY <1>2, <2>5, <3>1 DEF NewItem, OverrunOnly
    <3>2. CASE ~overrun
      <4>1. /\ pc = "body" /\ line.kind = "item" /\ lines' = lines
            /\ overrun' => IniDex \notin Indexes
        BY <2>5, <3>2 DEF NewItem
      <4>2. Cardinality(Heads(lines)) = IniDex + 1 /\ IniDex < MAXINISECTION
        BY <1>2, <4>1 DEF Counted, TypeInv
      <4>3. overrun' => Cardinality(Heads(lines)) = 0
        BY <2>1, <4>1, <4>2, IndexIs
      <4>4. IsFiniteSet(Heads(lines))
        BY <1>2, HeadsAdded, LineAdded, RankIs DEF TypeInv
      <4>5. overrun' => Heads(lines) = {}
        BY <4>3, <4>4, FS_EmptySet
      <4>6. overrun' => ~(IniDex >= 0)
        BY <2>1, <4>2, <4>3
      <4>7. overrun' => \E j \in DOMAIN lines : lines[j].kind = "item"
        BY <1>2, <4>1, <4>6 DEF Counted
      <4> QED
        BY <4>1, <4>5, <4>7 DEF OverrunOnly
    <3> QED
      BY <3>1, <3>2
  <2>6. CASE overrun' = overrun /\ lines' = lines
    BY <1>2, <2>6 DEF OverrunOnly
  <2>7. OpenFails \/ GetLineNoMemory \/ GetLineTorn \/ EndOfFile \/ OpenEnd \/ SkipLine \/ BadLine
          \/ UNCHANGED vars => overrun' = overrun /\ lines' = lines
    BY DEF OpenFails, GetLineNoMemory, GetLineTorn, EndOfFile, OpenEnd, SkipLine, BadLine,
           Fail, Return, ghosts, vars
  <2> QED
    BY <1>2, <2>2, <2>3, <2>4, <2>5, <2>6, <2>7 DEF Next, Read, Body
<1> QED
  BY <1>1, <1>2, TypesInitially, TypesKept, CountedKept, PTL DEF Spec

-----------------------------------------------------------------------------
(* The table, while no malloc() fails and Section[] is kept to: every line  *)
(* but the last has gone into it, in its order.                             *)

Understood(f) == \A j \in DOMAIN f : f[j].kind \notin {"unclosed", "bad"}

TableInv ==
  fails = 0 /\ ~overrun =>
    /\ Done \in Seq(Lines) /\ TableIs(Section, Done)
    /\ pc = "body" => lines = Append(Done, line)
    /\ Running => ret = "none" /\ IniDex < MAXINISECTION /\ Understood(Done)
    /\ pc = "end" => Cardinality(Heads(lines)) = IniDex + 1
    /\ ret = "ok" => Understood(lines) /\ Cardinality(Heads(lines)) <= MAXINISECTION

\* The lines before the last.
LEMMA FrontIs ==
  ASSUME NEW d \in Seq(Lines), NEW l \in Lines
  PROVE  Front(Append(d, l)) = d
<1>1. PICK e \in Seq(Lines) : e = Append(d, l)
  BY LineAdded
<1>2. PICK N \in Nat : N = Len(d) /\ Len(e) = N + 1 /\ \A j \in 1..N : e[j] = d[j]
  BY <1>1, LineAdded, AppendProperties
<1>3. Front(e) = SubSeq(e, 1, N)
  BY <1>2 DEF Front
<1>4. /\ SubSeq(e, 1, N) \in Seq(Lines) /\ Len(SubSeq(e, 1, N)) = N
      /\ \A j \in 1..N : SubSeq(e, 1, N)[j] = e[j]
  BY <1>2
<1> QED
  BY <1>1, <1>2, <1>3, <1>4, SeqEqual

\* A table just emptied holds what a file of no lines says.
LEMMA TableEmpty == TableIs([i \in Indexes |-> Empty], <<>>) /\ Understood(<<>>)
  BY NoLines, IndexIs DEF TableIs, Understood

\* One more line that is understood.
LEMMA UnderstoodAdded ==
  ASSUME NEW d \in Seq(Lines), NEW l \in Lines, Understood(d),
         l.kind \notin {"unclosed", "bad"}
  PROVE  Understood(Append(d, l))
<1>1. \A j \in DOMAIN Append(d, l) : j \in DOMAIN d \/ j = Len(d) + 1
  BY LineAdded
<1> QED
  BY <1>1, LineAdded DEF Understood

\* What the table holds when the body of the loop is done with a line.
LEMMA LineTaken ==
  ASSUME TypeInv, Counted, TableInv, fails = 0, ~overrun, pc = "body", Next,
         ~overrun', fails' = 0
  PROVE  /\ Done' = lines /\ lines' = lines /\ TableIs(Section', lines)
         /\ \/ pc' = "idle" /\ ret' = "error"
            \/ /\ pc' = "getline" /\ ret' = ret /\ IniDex' < MAXINISECTION
               /\ Understood(lines)
<1>1. PICK d \in Seq(Lines) : d = Done
  BY DEF TableInv
<1>2. /\ lines = Append(d, line) /\ TableIs(Section, d) /\ Understood(d)
      /\ IniDex < MAXINISECTION /\ line \in Lines /\ Section \in Tables /\ IniDex \in Int
      /\ IniDex >= -1
  BY <1>1, IndexIs DEF TableInv, TypeInv, Running
<1>3. pc' # "body" => Done' = lines'
  BY DEF Done
<1>4. SkipLine \/ BadLine \/ NewSection \/ NewItem
  BY DEF Next, Open, OpenFails, Close, Restart, Read, GetLine, GetLineNoMemory, GetLineTorn,
         EndOfFile, OpenEnd, Body
<1>5. CASE SkipLine
  <2>1. /\ line.kind = "blank" /\ pc' = "getline" /\ Section' = Section /\ lines' = lines
        /\ ret' = ret /\ IniDex' = IniDex
    BY <1>5 DEF SkipLine, ghosts
  <2> QED
    BY <1>2, <1>3, <2>1, TableSkips, UnderstoodAdded
<1>6. CASE BadLine
  <2>1. /\ line.kind \in {"unclosed", "bad"} /\ pc' = "idle" /\ Section' = Section
        /\ lines' = lines /\ ret' = "error"
    BY <1>6 DEF BadLine, Fail, Return, ghosts
  <2> QED
    BY <1>2, <1>3, <2>1, TableSkips
<1>7. CASE NewSection
  <2>1. /\ line.kind = "section" /\ IniDex' = IniDex + 1 /\ lines' = lines /\ ret' = ret
        /\ IniDex + 1 \in Indexes /\ pc' = "getline"
        /\ Section' = [Section EXCEPT ![IniDex + 1].title = line.title]
    BY <1>7 DEF NewSection
  <2>2. Cardinality(Heads(lines)) = IniDex + 2
    BY <2>1 DEF Counted
  <2>3. Cardinality(Heads(d)) = IniDex + 1
    <3>1. Cardinality(Heads(lines)) = Cardinality(Heads(d)) + 1 /\ Cardinality(Heads(d)) \in Nat
      BY <1>2, <2>1, HeadsAdded
    <3> QED
      BY <1>2, <2>2, <3>1
  <2>4. PICK i \in Indexes : i = IniDex + 1
    BY <2>1
  <2>5. TableIs(Section', lines)
    BY <1>2, <2>1, <2>3, <2>4, TableTitle
  <2>6. IniDex' < MAXINISECTION
    BY <1>2, <2>1, IndexIs
  <2> QED
    BY <1>2, <1>3, <2>1, <2>5, <2>6, UnderstoodAdded
<1>8. CASE NewItem
  <2>1. /\ line.kind = "item" /\ IniDex' = IniDex /\ lines' = lines /\ ret' = ret
        /\ IniDex \in Indexes /\ pc' = "getline"
        /\ Section' = [Section EXCEPT ![IniDex].items = addItems(@, parse(line))]
    BY <1>8 DEF NewItem
  <2>2. Cardinality(Heads(lines)) = IniDex + 1
    BY <2>1 DEF Counted
  <2>3. Cardinality(Heads(d)) = IniDex + 1
    <3>1. Cardinality(Heads(lines)) = Cardinality(Heads(d)) + 0 /\ Cardinality(Heads(d)) \in Nat
      BY <1>2, <2>1, HeadsAdded
    <3> QED
      BY <2>2, <3>1
  <2>4. TableIs(Section', lines)
    BY <1>2, <2>1, <2>3, TableItem
  <2> QED
    BY <1>2, <1>3, <2>1, <2>4, UnderstoodAdded
<1> QED
  BY <1>4, <1>5, <1>6, <1>7, <1>8

LEMMA TableKept ==
  ASSUME TypeInv, Counted, TableInv, [Next]_vars
  PROVE  TableInv'
<1> SUFFICES ASSUME fails' = 0, ~overrun'
             PROVE  /\ Done' \in Seq(Lines) /\ TableIs(Section', Done')
                    /\ pc' = "body" => lines' = Append(Done', line')
                    /\ Running' => ret' = "none" /\ IniDex' < MAXINISECTION /\ Understood(Done')
                    /\ pc' = "end" => Cardinality(Heads(lines')) = IniDex' + 1
                    /\ ret' = "ok" => Understood(lines') /\ Cardinality(Heads(lines')) <= MAXINISECTION
  BY DEF TableInv
<1>1. CASE Open \/ Close \/ Restart
  <2>1. /\ Section' = [i \in Indexes |-> Empty] /\ lines' = <<>> /\ ret' = "none"
        /\ pc' \in {"idle", "getline"} /\ (pc' = "getline" => IniDex' = -1)
    BY <1>1 DEF Open, Close, Restart, releaseData, Released
  <2>2. Done' = <<>> /\ Done' \in Seq(Lines)
    BY <2>1 DEF Done
  <2>3. -1 < MAXINISECTION
    BY IndexIs
  <2> QED
    BY <2>1, <2>2, <2>3, TableEmpty DEF Running
<1>2. ASSUME Next, ~(Open \/ Close \/ Restart)
      PROVE  fails = 0 /\ ~overrun
  BY <1>2 DEF Next, OpenFails, Read, GetLine, GetLineNoMemory, GetLineTorn, EndOfFile,
              OpenEnd, Body, SkipLine, BadLine, Fail, Return, NewSection, NewItem, ghosts, TypeInv
<1>3. CASE UNCHANGED vars
  BY <1>3 DEF TableInv, Done, Running, vars
<1>4. ASSUME Next, ~(Open \/ Close \/ Restart), pc = "body"
      PROVE  TableInv'
  <2>1. /\ Done' = lines /\ lines' = lines /\ TableIs(Section', lines)
        /\ \/ pc' = "idle" /\ ret' = "error"
           \/ /\ pc' = "getline" /\ ret' = ret /\ IniDex' < MAXINISECTION
              /\ Understood(lines)
    BY <1>2, <1>4, LineTaken
  <2>2. lines \in Seq(Lines) /\ ret = "none"
    BY <1>2, <1>4 DEF TypeInv, TableInv, Running
  <2> QED
    BY <2>1, <2>2 DEF TableInv, Running
<1>5. CASE OpenFails
  BY <1>2, <1>5 DEF OpenFails, ghosts, TableInv, Done, Running, Open, Close, Restart
<1>6. CASE GetLine
  <2>1. /\ pc = "getline" /\ line' \in Lines /\ lines' = Append(lines, line') /\ fails = 0
        /\ ~overrun /\ Section' = Section /\ IniDex' = IniDex /\ ret' = ret
    BY <1>6 DEF GetLine
  <2>2. Done = lines /\ IniDex < MAXINISECTION /\ ret = "none" /\ Understood(Done)
    BY <2>1 DEF Done, TableInv, Running
  <2>3. pc' = "body"
    BY <1>6, <2>2 DEF GetLine, Turn
  <2>4. Done' = lines
    BY <2>1, <2>3, FrontIs DEF Done, TypeInv
  <2> QED
    BY <2>1, <2>2, <2>3, <2>4 DEF TableInv, Running, TypeInv
<1>7. CASE GetLineNoMemory \/ GetLineTorn
  BY <1>7 DEF GetLineNoMemory, GetLineTorn, TypeInv
<1>8. CASE EndOfFile
  BY <1>8 DEF EndOfFile, ghosts, TableInv, Done, Running, Counted
<1>9. CASE OpenEnd
  <2>1. /\ pc = "end" /\ pc' = "idle" /\ lines' = lines /\ Section' = Section /\ fails = 0
        /\ ~overrun /\ ret' \in {"ok", "error"} /\ IniDex' = IniDex
    BY <1>9 DEF OpenEnd, Return, ghosts
  <2>2. Done = lines /\ Done' = lines
    BY <2>1 DEF Done
  <2>3. Understood(lines) /\ Cardinality(Heads(lines)) = IniDex + 1 /\ IniDex < MAXINISECTION
    BY <2>1, <2>2 DEF TableInv, Running
  <2>4. Cardinality(Heads(lines)) <= MAXINISECTION
    BY <2>3, IndexIs DEF TypeInv
  <2> QED
    BY <2>1, <2>2, <2>3, <2>4 DEF TableInv, Running
<1>10. SkipLine \/ BadLine \/ NewSection \/ NewItem =>
         pc = "body" /\ Next /\ ~(Open \/ Close \/ Restart)
  BY DEF SkipLine, BadLine, NewSection, NewItem, Next, Body, Open, Close, Restart
<1> QED
  BY <1>1, <1>3, <1>4, <1>5, <1>6, <1>7, <1>8, <1>9, <1>10 DEF Next, Read, Body, TableInv

\* At each moment of an open(), and after it, the table holds exactly the sections
\* and items of the lines taken from the file, in their order, and nothing of the
\* files opened before; and if it reported success, those lines were all
\* understood and all found room: for every file, and every size of the table.
THEOREM TableHolds == Spec => []TableExact
<1>1. Init => Counted /\ TableInv
  <2> SUFFICES ASSUME Init PROVE Counted /\ TableInv
    OBVIOUS
  <2>1. Done = <<>> /\ Done \in Seq(Lines)
    BY DEF Init, Done
  <2> QED
    BY <2>1, TableEmpty DEF Init, Counted, TableInv, Running
<1>2. TableInv => TableExact
  <2> SUFFICES ASSUME TableInv, fails = 0, ~overrun
               PROVE  TableExact
    BY DEF TableExact
  <2>1. TableIs(Section, Done) /\ (ret = "ok" => Understood(lines) /\ Cardinality(Heads(lines)) <= MAXINISECTION)
    BY DEF TableInv
  <2>2. \A n \in Indexes :
          Section[n] = IF n < Cardinality(Heads(Done))
                       THEN [title |-> Done[Head0(Done, n)].title, items |-> ItemsIn(Done, n)]
                       ELSE Empty
    BY <2>1 DEF TableIs, Entry
  <2>3. Understood(lines) => \A l \in ToSet(lines) : l.kind \notin {"unclosed", "bad"}
    BY DEF Understood, ToSet
  <2> QED
    BY <2>1, <2>2, <2>3 DEF TableExact
<1> QED
  BY <1>1, <1>2, TypesInitially, TypesKept, CountedKept, TableKept, PTL DEF Spec
-----------------------------------------------------------------------------
(* Looking a key up, also where malloc() failed: a line handled again adds  *)
(* its item again, next to the first of it, so the table echoes the file.   *)

\* The items of s are those of f, each once or oftener, in the order of f: what
\* stands in f before an item stands in s before it.  Those of X may stand
\* anywhere between them.
Echoes(s, f, X) ==
  /\ \A i \in DOMAIN f : \E j \in DOMAIN s : s[j] = f[i]
  /\ \A j \in DOMAIN s :
       \/ s[j] \in X
       \/ \E i \in DOMAIN f :
            s[j] = f[i] /\ \A b \in 1..(i - 1) : \E a \in 1..(j - 1) : s[a] = f[b]

\* The item that a title is, if any.
TitleItem(title) == {parse(ItemOf[t]) : t \in DOMAIN ItemOf \cap {title}}

\* The items of a section are entries.
LEMMA ItemsAre ==
  ASSUME NEW d \in Seq(Lines), NEW n \in Nat
  PROVE  ItemsIn(d, n) \in Seq(Entries)
<1>1. PICK N \in Nat : N = Len(d) /\ DOMAIN d = 1..N
  BY LenProperties
<1>2. PICK O \in SUBSET (1..N) : O = Own(d, n)
  BY <1>1 DEF Own
<1>3. PICK c \in Nat : c = Cardinality(O)
  BY RankIs
<1>4. ASSUME NEW p \in 1..c
      PROVE  Said(d[Nth(O, p)]) \in Entries
  <2>1. PICK j \in O : j = Nth(O, p)
    BY <1>3, NthIs
  <2>2. d[j] \in Lines /\ d[j].kind = "item"
    BY <1>1, <1>2 DEF Own
  <2> QED
    BY <2>1, <2>2, LineIs, ValuesIn
<1>5. ItemsIn(d, n) \in [1..c -> Entries]
  BY <1>2, <1>3, <1>4 DEF ItemsIn
<1> QED
  BY <1>5, SeqDef

\* One more item in both.
LEMMA EchoAdded ==
  ASSUME NEW s \in Seq(Entries), NEW f \in Seq(Entries), NEW x \in Entries,
         NEW X, Echoes(s, f, X)
  PROVE  Echoes(Append(s, x), Append(f, x), X)
<1>1. PICK M \in Nat : M = Len(s) /\ DOMAIN s = 1..M
  BY LenProperties
<1>2. PICK N \in Nat : N = Len(f) /\ DOMAIN f = 1..N
  BY LenProperties
<1>3. PICK t \in Seq(Entries) : t = Append(s, x)
  BY AppendProperties
<1>4. PICK g \in Seq(Entries) : g = Append(f, x)
  BY AppendProperties
<1>5. DOMAIN t = 1..(M + 1) /\ t[M + 1] = x /\ \A j \in 1..M : t[j] = s[j]
  BY <1>1, <1>3, AppendProperties, LenProperties
<1>6. DOMAIN g = 1..(N + 1) /\ g[N + 1] = x /\ \A i \in 1..N : g[i] = f[i]
  BY <1>2, <1>4, AppendProperties, LenProperties
<1>7. \A i \in 1..N : \E j \in 1..M : s[j] = f[i]
  BY <1>1, <1>2 DEF Echoes
<1>8. ASSUME NEW i \in 1..(N + 1)
      PROVE  \E j \in 1..(M + 1) : t[j] = g[i]
  <2>1. CASE i = N + 1
    BY <1>5, <1>6, <2>1
  <2>2. CASE i \in 1..N
    <3>1. PICK j \in 1..M : s[j] = f[i]
      BY <1>7, <2>2
    <3>2. j \in 1..(M + 1)
      OBVIOUS
    <3> QED
      BY <1>5, <1>6, <2>2, <3>1, <3>2
  <2> QED
    BY <2>1, <2>2
<1>9. ASSUME NEW j \in 1..(M + 1)
      PROVE  \/ t[j] \in X
             \/ \E i \in 1..(N + 1) :
                  t[j] = g[i] /\ \A b \in 1..(i - 1) : \E a \in 1..(j - 1) : t[a] = g[b]
  <2>1. CASE j = M + 1
    <3>1. ASSUME NEW b \in 1..N
          PROVE  \E a \in 1..M : t[a] = g[b]
      <4>1. PICK a \in 1..M : s[a] = f[b]
        BY <1>7
      <4> QED
        BY <1>5, <1>6, <4>1
    <3>2. (N + 1) - 1 = N /\ j - 1 = M /\ N + 1 \in 1..(N + 1)
      BY <2>1
    <3> QED
      BY <1>5, <1>6, <2>1, <3>1, <3>2
  <2>2. CASE j \in 1..M /\ s[j] \notin X
    <3>1. PICK i \in 1..N : s[j] = f[i] /\ \A b \in 1..(i - 1) : \E a \in 1..(j - 1) : s[a] = f[b]
      BY <1>1, <1>2, <2>2 DEF Echoes
    <3>2. ASSUME NEW b \in 1..(i - 1)
          PROVE  \E a \in 1..(j - 1) : t[a] = g[b]
      <4>1. PICK a \in 1..(j - 1) : s[a] = f[b]
        BY <3>1
      <4>2. a \in 1..M /\ b \in 1..N
        BY <2>2
      <4> QED
        BY <1>5, <1>6, <4>1, <4>2
    <3>3. i \in 1..(N + 1) /\ t[j] = g[i]
      <4>1. t[j] = s[j] /\ g[i] = f[i]
        BY <1>5, <1>6, <2>2
      <4> QED
        BY <3>1, <4>1
    <3> QED
      BY <3>2, <3>3
  <2>3. CASE j \in 1..M /\ s[j] \in X
    BY <1>5, <2>3
  <2> QED
    BY <2>1, <2>2, <2>3
<1>10. DOMAIN t = 1..(M + 1) /\ DOMAIN g = 1..(N + 1)
  BY <1>5, <1>6
<1>11. Echoes(t, g, X)
  <2>1. \A i \in DOMAIN g : \E j \in DOMAIN t : t[j] = g[i]
    BY <1>8, <1>10, Zenon
  <2>2. \A j \in DOMAIN t : t[j] \in X \/ \E i \in DOMAIN g :
          t[j] = g[i] /\ \A b \in 1..(i - 1) : \E a \in 1..(j - 1) : t[a] = g[b]
    BY <1>9, <1>10, Zenon
  <2> QED
    BY <2>1, <2>2, Zenon DEF Echoes
<1> QED
  BY <1>3, <1>4, <1>11

\* The last item of f once more in s, or one of X.
LEMMA EchoAgain ==
  ASSUME NEW s \in Seq(Entries), NEW f \in Seq(Entries), NEW x \in Entries, NEW X,
         Echoes(s, f, X), x \in X \/ (Len(f) > 0 /\ f[Len(f)] = x)
  PROVE  Echoes(Append(s, x), f, X)
<1>1. PICK M \in Nat : M = Len(s) /\ DOMAIN s = 1..M
  BY LenProperties
<1>2. PICK N \in Nat : N = Len(f) /\ DOMAIN f = 1..N
  BY LenProperties
<1>3. PICK t \in Seq(Entries) : t = Append(s, x)
  BY AppendProperties
<1>4. DOMAIN t = 1..(M + 1) /\ t[M + 1] = x /\ \A j \in 1..M : t[j] = s[j]
  BY <1>1, <1>3, AppendProperties, LenProperties
<1>5. \A i \in 1..N : \E j \in 1..M : s[j] = f[i]
  BY <1>1, <1>2 DEF Echoes
<1>6. ASSUME NEW i \in 1..N
      PROVE  \E j \in 1..M : t[j] = f[i]
  <2>1. PICK j \in 1..M : s[j] = f[i]
    BY <1>5
  <2> QED
    BY <1>4, <2>1
<1>7. ASSUME NEW i \in 1..N
      PROVE  \E j \in 1..(M + 1) : t[j] = f[i]
  <2>1. PICK j \in 1..M : t[j] = f[i]
    BY <1>6
  <2>2. j \in 1..(M + 1)
    OBVIOUS
  <2> QED
    BY <2>1, <2>2
<1>8. ASSUME NEW j \in 1..(M + 1)
      PROVE  \/ t[j] \in X
             \/ \E i \in 1..N :
                  t[j] = f[i] /\ \A b \in 1..(i - 1) : \E a \in 1..(j - 1) : t[a] = f[b]
  <2>1. CASE j = M + 1 /\ x \notin X
    <3>1. N \in 1..N /\ f[N] = x /\ j - 1 = M
      BY <1>2, <2>1
    <3>2. \A b \in 1..(N - 1) : b \in 1..N
      OBVIOUS
    <3>3. \A b \in 1..(N - 1) : \E a \in 1..(j - 1) : t[a] = f[b]
      BY <1>6, <3>1, <3>2
    <3> QED
      BY <1>4, <2>1, <3>1, <3>3
  <2>2. CASE j \in 1..M /\ s[j] \notin X
    <3>1. PICK i \in 1..N : s[j] = f[i] /\ \A b \in 1..(i - 1) : \E a \in 1..(j - 1) : s[a] = f[b]
      BY <1>1, <1>2, <2>2 DEF Echoes
    <3>2. ASSUME NEW b \in 1..(i - 1)
          PROVE  \E a \in 1..(j - 1) : t[a] = f[b]
      <4>1. PICK a \in 1..(j - 1) : s[a] = f[b]
        BY <3>1
      <4>2. a \in 1..M
        BY <2>2
      <4> QED
        BY <1>4, <4>1, <4>2
    <3> QED
      BY <1>4, <2>2, <3>1, <3>2
  <2>3. CASE (j = M + 1 /\ x \in X) \/ (j \in 1..M /\ s[j] \in X)
    BY <1>4, <2>3
  <2> QED
    BY <2>1, <2>2, <2>3
<1>9. DOMAIN t = 1..(M + 1) /\ DOMAIN f = 1..N
  BY <1>2, <1>4
<1>10. Echoes(t, f, X)
  BY <1>7, <1>8, <1>9, Zenon DEF Echoes
<1> QED
  BY <1>3, <1>10

\* The first item with a key, when it is not the last of all, is the first in the
\* file too, unless it is one of X.
LEMMA FirstFound ==
  ASSUME NEW s \in Seq(Entries), NEW f \in Seq(Entries), NEW X, Echoes(s, f, X), NEW key,
         findItems(s, key).ret = "ok"
  PROVE  \/ \E x \in X : x.key = key /\ x.value = findItems(s, key).value
         \/ /\ {j \in DOMAIN f : f[j].key = key} # {}
            /\ findItems(s, key).value = f[Min({j \in DOMAIN f : f[j].key = key})].value
<1> SUFFICES ASSUME ~\E x \in X : x.key = key /\ x.value = findItems(s, key).value
             PROVE  /\ {j \in DOMAIN f : f[j].key = key} # {}
                    /\ findItems(s, key).value = f[Min({j \in DOMAIN f : f[j].key = key})].value
  OBVIOUS
<1>1. PICK M \in Nat : M = Len(s) /\ DOMAIN s = 1..M
  BY LenProperties
<1>2. PICK N \in Nat : N = Len(f) /\ DOMAIN f = 1..N
  BY LenProperties
<1>3. PICK h : h = {j \in 1..(M - 1) : s[j].key = key}
  OBVIOUS
<1>4. PICK hits : hits = {j \in DOMAIN f : f[j].key = key}
  OBVIOUS
<1>5. h # {} /\ findItems(s, key).value = s[Min(h)].value
  BY <1>1, <1>3 DEF findItems, NotFound
<1>6. h \in SUBSET Nat /\ hits \in SUBSET Nat
  BY <1>2, <1>3, <1>4
<1>7. PICK m \in h : m = Min(h) /\ \A y \in h : m <= y
  BY <1>5, <1>6, MinIs
<1>8. m \in 1..M /\ m \in 1..(M - 1) /\ s[m].key = key
  BY <1>3
<1>9. PICK i \in 1..N : s[m] = f[i] /\ \A b \in 1..(i - 1) : \E a \in 1..(m - 1) : s[a] = f[b]
  <2>1. s[m] \notin X
    BY <1>5, <1>7, <1>8
  <2> QED
    BY <1>1, <1>2, <1>8, <2>1 DEF Echoes
<1>10. i \in hits
  BY <1>2, <1>4, <1>8, <1>9
<1>11. PICK k \in hits : k = Min(hits) /\ \A y \in hits : k <= y
  BY <1>6, <1>10, MinIs
<1>12. k \in 1..N /\ f[k].key = key /\ k <= i
  BY <1>2, <1>4, <1>10, <1>11
<1>13. ASSUME k # i
       PROVE  FALSE
  <2>1. k \in 1..(i - 1)
    BY <1>12, <1>13
  <2>2. PICK a \in 1..(m - 1) : s[a] = f[k]
    BY <1>9, <2>1
  <2>3. a \in 1..(M - 1) /\ a < m
    BY <1>8
  <2>4. a \in h
    BY <1>3, <1>12, <2>2, <2>3
  <2> QED
    BY <1>7, <1>8, <2>3, <2>4
<1> QED
  BY <1>4, <1>5, <1>7, <1>9, <1>10, <1>11, <1>13

TableEchoes(T, d) ==
  \A n \in Indexes :
    IF n < Cardinality(Heads(d))
    THEN T[n].title = Entry(d, n).title /\ Echoes(T[n].items, Entry(d, n).items, TitleItem(T[n].title))
    ELSE T[n] = Empty

\* A line left from the turn before that is an item is the last of the last section,
\* or its title.
Repeats(d, l) ==
  l.kind = "item" =>
    \A n \in Indexes :
      Cardinality(Heads(d)) = n + 1 =>
        \/ parse(l) \in TitleItem(Entry(d, n).title)
        \/ /\ Len(Entry(d, n).items) > 0
           /\ Entry(d, n).items[Len(Entry(d, n).items)] = parse(l)

\* The items a section should have are entries.
LEMMA EntryIs ==
  ASSUME NEW d \in Seq(Lines), NEW n \in Nat
  PROVE  Entry(d, n).items \in Seq(Entries)
BY ItemsAre DEF Entry

\* A sequence echoes itself.
LEMMA EchoesSelf ==
  ASSUME NEW f \in Seq(Entries)
  PROVE  Echoes(f, f, {})
<1>1. PICK N \in Nat : N = Len(f) /\ DOMAIN f = 1..N
  BY LenProperties
<1> QED
  BY <1>1 DEF Echoes

\* A line that is neither a title nor an item needs no change.
LEMMA EchoesSkip ==
  ASSUME NEW d \in Seq(Lines), NEW l \in Lines, l.kind \notin {"section", "item"},
         NEW T, TableEchoes(T, d)
  PROVE  TableEchoes(T, Append(d, l))
<1>1. PICK c \in Nat : c = Cardinality(Heads(d))
  BY HeadsAdded
<1>2. Cardinality(Heads(Append(d, l))) = c
  BY <1>1, HeadsAdded
<1>3. ASSUME NEW n \in Indexes, n < c
      PROVE  /\ T[n].title = Entry(Append(d, l), n).title
             /\ Echoes(T[n].items, Entry(Append(d, l), n).items, TitleItem(T[n].title))
  <2>1. n \in Nat
    BY IndexIs
  <2>2. Entry(Append(d, l), n) = Entry(d, n)
    BY <1>1, <1>3, <2>1, EntryKept
  <2>3. T[n].title = Entry(d, n).title /\ Echoes(T[n].items, Entry(d, n).items, TitleItem(T[n].title))
    BY <1>1, <1>3 DEF TableEchoes
  <2> QED
    BY <2>2, <2>3
<1>4. ASSUME NEW n \in Indexes, ~(n < c)
      PROVE  T[n] = Empty
  BY <1>1, <1>4 DEF TableEchoes
<1> QED
  BY <1>2, <1>3, <1>4 DEF TableEchoes

\* A title goes to the next place, which is empty.
LEMMA EchoesTitle ==
  ASSUME NEW d \in Seq(Lines), NEW l \in Lines, l.kind = "section",
         NEW T \in Tables, TableEchoes(T, d), NEW i \in Indexes, i = Cardinality(Heads(d))
  PROVE  TableEchoes([T EXCEPT ![i].title = l.title], Append(d, l))
<1>1. i \in Nat /\ Indexes \subseteq Nat
  BY IndexIs
<1>2. Cardinality(Heads(Append(d, l))) = i + 1
  BY <1>1, HeadsAdded
<1>3. PICK U : U = [T EXCEPT ![i].title = l.title]
  OBVIOUS
<1>4. (\A n \in Indexes : n # i => U[n] = T[n]) /\ U[i] = [T[i] EXCEPT !.title = l.title]
  BY <1>3 DEF Tables
<1>5. ASSUME NEW n \in Indexes, n < i + 1
      PROVE  /\ U[n].title = Entry(Append(d, l), n).title
             /\ Echoes(U[n].items, Entry(Append(d, l), n).items, TitleItem(U[n].title))
  <2>1. n \in Nat
    BY <1>1
  <2>2. CASE n < i
    <3>1. Entry(Append(d, l), n) = Entry(d, n) /\ U[n] = T[n]
      BY <1>1, <1>4, <2>1, <2>2, EntryKept
    <3>2. T[n].title = Entry(d, n).title /\ Echoes(T[n].items, Entry(d, n).items, TitleItem(T[n].title))
      BY <2>2 DEF TableEchoes
    <3> QED
      BY <3>1, <3>2
  <2>3. CASE n = i
    <3>1. T[i] = Empty
      BY <1>1 DEF TableEchoes
    <3>2. U[i] = [Empty EXCEPT !.title = l.title]
      BY <1>4, <3>1, Zenon
    <3>3. U[i].title = l.title /\ U[i].items = <<>>
      <4>1. U[i] = [title |-> l.title, items |-> <<>>]
        BY <3>2 DEF Empty
      <4> QED
        BY <4>1
    <3>4. Entry(Append(d, l), i) = [title |-> l.title, items |-> <<>>]
      BY <1>1, EntryNew
    <3>5. Echoes(<<>>, <<>>, TitleItem(l.title))
      BY DEF Echoes
    <3> QED
      BY <2>3, <3>3, <3>4, <3>5
  <2> QED
    BY <1>1, <1>5, <2>1, <2>2, <2>3
<1>6. ASSUME NEW n \in Indexes, ~(n < i + 1)
      PROVE  U[n] = Empty
  <2>1. n \in Nat /\ ~(n < i) /\ n # i
    BY <1>1, <1>6
  <2> QED
    BY <1>4, <2>1 DEF TableEchoes
<1> QED
  BY <1>2, <1>3, <1>5, <1>6 DEF TableEchoes

\* An item goes to the end of the last section's, the first time and again.
LEMMA EchoesItem ==
  ASSUME NEW d \in Seq(Lines), NEW l \in Lines, l.kind = "item",
         NEW T \in Tables, TableEchoes(T, d), NEW i \in Indexes, Cardinality(Heads(d)) = i + 1,
         NEW U, U = [T EXCEPT ![i].items = addItems(@, parse(l))]
  PROVE  /\ TableEchoes(U, Append(d, l)) /\ Repeats(Append(d, l), l)
         /\ Repeats(d, l) => TableEchoes(U, d)
<1>1. i \in Nat /\ Indexes \subseteq Nat
  BY IndexIs
<1>2. Cardinality(Heads(Append(d, l))) = i + 1
  BY <1>1, HeadsAdded
<1>3. U = [T EXCEPT ![i].items = addItems(@, parse(l))]
  OBVIOUS
<1>4. PICK e \in Seq(Lines) : e = Append(d, l)
  BY LineAdded
<1>5. PICK x \in Entries : x = parse(l) /\ x = Said(l)
  BY LineIs, ValuesIn
<1>6. PICK s \in Seq(Entries) : s = T[i].items
  BY DEF Tables
<1>7. PICK f \in Seq(Entries) : f = Entry(d, i).items
  BY <1>1, EntryIs
<1>8. T[i].title = Entry(d, i).title /\ Echoes(s, f, TitleItem(T[i].title))
  <2>1. i < Cardinality(Heads(d))
    BY <1>1
  <2> QED
    BY <1>6, <1>7, <2>1 DEF TableEchoes
<1>9. (\A n \in Indexes : n # i => U[n] = T[n])
      /\ U[i] = [T[i] EXCEPT !.items = Append(@, x)]
  BY <1>3, <1>5 DEF Tables, addItems
<1>10. U[i].title = T[i].title /\ U[i].items = Append(s, x)
  <2>1. PICK r \in [title : Titles, items : Seq(Entries)] : r = T[i]
    BY DEF Tables
  <2>2. U[i] = [r EXCEPT !.items = Append(s, x)]
    BY <1>6, <1>9, <2>1
  <2> QED
    BY <2>1, <2>2
<1>11. Entry(e, i).title = Entry(d, i).title /\ Entry(e, i).items = Append(f, x)
  BY <1>1, <1>4, <1>5, <1>7, EntryItem
<1>12. ASSUME NEW n \in Indexes, n < i
       PROVE  Entry(e, n) = Entry(d, n)
  <2>1. n \in Nat /\ n < Cardinality(Heads(d)) /\ Cardinality(Heads(d)) # n + 1
    BY <1>1, <1>12
  <2> QED
    BY <1>4, <2>1, EntryKept
<1>13. ASSUME NEW n \in Indexes, ~(n < i + 1)
       PROVE  U[n] = Empty
  <2>1. n \in Nat /\ n # i
    BY <1>1, <1>13
  <2> QED
    BY <1>9, <1>13, <2>1 DEF TableEchoes
<1>14. ASSUME NEW n \in Indexes, n < i
       PROVE  U[n].title = Entry(d, n).title /\ Echoes(U[n].items, Entry(d, n).items, TitleItem(U[n].title))
  <2>1. n \in Nat /\ n # i /\ n < i + 1
    BY <1>1, <1>14
  <2> QED
    BY <1>9, <2>1 DEF TableEchoes
<1>15. TableEchoes(U, e)
  <2>1. ASSUME NEW n \in Indexes, n < i + 1
        PROVE  U[n].title = Entry(e, n).title /\ Echoes(U[n].items, Entry(e, n).items, TitleItem(U[n].title))
    <3>1. n < i \/ n = i
      BY <1>1, <2>1
    <3>2. Echoes(U[i].items, Entry(e, i).items, TitleItem(T[i].title))
      BY <1>8, <1>10, <1>11, EchoAdded
    <3>3. CASE n < i
      BY <1>12, <1>14, <3>3
    <3>4. CASE n = i
      BY <1>8, <1>10, <1>11, <3>2, <3>4
    <3> QED
      BY <3>1, <3>3, <3>4
  <2> QED
    BY <1>2, <1>4, <1>13, <2>1 DEF TableEchoes
<1>16. Repeats(e, l)
  <2>1. ASSUME NEW n \in Indexes, Cardinality(Heads(e)) = n + 1
        PROVE  n = i
    BY <1>1, <1>2, <1>4, <2>1
  <2>2. Append(f, x) \in Seq(Entries) /\ Len(Append(f, x)) = Len(f) + 1
        /\ Append(f, x)[Len(f) + 1] = x /\ Len(f) \in Nat
    BY AppendProperties, LenProperties
  <2> QED
    BY <1>5, <1>11, <2>1, <2>2 DEF Repeats
<1>17. ASSUME Repeats(d, l)
       PROVE  TableEchoes(U, d)
  <2>1. x \in TitleItem(T[i].title) \/ (Len(f) > 0 /\ f[Len(f)] = x)
    BY <1>5, <1>7, <1>8, <1>17 DEF Repeats
  <2>2. Echoes(U[i].items, f, TitleItem(T[i].title))
    BY <1>8, <1>10, <2>1, EchoAgain
  <2>3. ASSUME NEW n \in Indexes, n < i + 1
        PROVE  U[n].title = Entry(d, n).title /\ Echoes(U[n].items, Entry(d, n).items, TitleItem(U[n].title))
    <3>1. n < i \/ n = i
      BY <1>1, <2>3
    <3>2. CASE n < i
      BY <1>14, <3>2
    <3>3. CASE n = i
      BY <1>7, <1>8, <1>10, <2>2, <3>3
    <3> QED
      BY <3>1, <3>2, <3>3
  <2> QED
    BY <1>13, <2>3 DEF TableEchoes
<1> QED
  BY <1>4, <1>15, <1>16, <1>17

\* The table echoes the lines that the body is done with: those before the line
\* it has in hand, or all, when that line is there once more.
EchoInv ==
  ~torn /\ ~overrun =>
    /\ pc # "body" => TableEchoes(Section, lines)
    /\ pc = "getline" => Repeats(lines, line)
    /\ pc = "body" =>
         \/ TableEchoes(Section, lines) /\ line.kind # "section" /\ Repeats(lines, line)
         \/ \E d \in Seq(Lines) : lines = Append(d, line) /\ TableEchoes(Section, d)
    /\ Running => IniDex < MAXINISECTION
    /\ pc \in {"end", "idle"} => Cardinality(Heads(lines)) <= MAXINISECTION

\* An empty table, and no lines.
LEMMA EchoesNone ==
  /\ TableEchoes([i \in Indexes |-> Empty], <<>>) /\ Repeats(<<>>, Blank)
  /\ Cardinality(Heads(<<>>)) <= MAXINISECTION /\ -1 < MAXINISECTION
<1>1. Cardinality(Heads(<<>>)) <= MAXINISECTION /\ -1 < MAXINISECTION
  BY NoLines, IndexIs
<1>2. Repeats(<<>>, Blank)
  BY DEF Repeats, Blank
<1>3. ASSUME NEW n \in Indexes
      PROVE  ~(n < Cardinality(Heads(<<>>)))
  BY NoLines, IndexIs
<1>4. PICK T : T = [i \in Indexes |-> Empty]
  OBVIOUS
<1>5. \A n \in Indexes : T[n] = Empty
  BY <1>4
<1>6. TableEchoes(T, <<>>)
  BY <1>3, <1>5, Zenon DEF TableEchoes
<1> QED
  BY <1>1, <1>2, <1>4, <1>6

\* What the body of the loop does with a line, taken for the first time or again.
LEMMA EchoLine ==
  ASSUME TypeInv, Counted, EchoInv, ~torn, ~overrun, pc = "body", Body, ~overrun'
  PROVE  /\ lines' = lines /\ TableEchoes(Section', lines)
         /\ \/ pc' = "idle" /\ Cardinality(Heads(lines)) <= MAXINISECTION
            \/ pc' = "getline" /\ Repeats(lines, line') /\ IniDex' < MAXINISECTION
<1>1. /\ line \in Lines /\ lines \in Seq(Lines) /\ Section \in Tables
      /\ IniDex \in Int /\ IniDex < MAXINISECTION /\ MAXINISECTION \in Nat
  BY IndexIs DEF TypeInv
<1>2. \/ TableEchoes(Section, lines) /\ line.kind # "section" /\ Repeats(lines, line)
      \/ \E d \in Seq(Lines) : lines = Append(d, line) /\ TableEchoes(Section, d)
  BY DEF EchoInv
<1>3. Cardinality(Heads(lines)) = IniDex + (IF line.kind = "section" THEN 2 ELSE 1)
  BY DEF Counted
<1>4. ASSUME line.kind \notin {"section", "item"}
      PROVE  TableEchoes(Section, lines) /\ Repeats(lines, line)
             /\ Cardinality(Heads(lines)) <= MAXINISECTION
  <2>1. TableEchoes(Section, lines)
    BY <1>1, <1>2, <1>4, EchoesSkip
  <2>2. Cardinality(Heads(lines)) = IniDex + 1
    BY <1>3, <1>4
  <2> QED
    BY <1>1, <1>4, <2>1, <2>2 DEF Repeats
<1>5. CASE SkipLine
  BY <1>1, <1>4, <1>5 DEF SkipLine, ghosts
<1>6. CASE BadLine
  BY <1>4, <1>6 DEF BadLine, Fail, Return, ghosts
<1>7. CASE NewSection
  <2>1. /\ line.kind = "section" /\ IniDex' = IniDex + 1 /\ lines' = lines
        /\ line' = TitleLine(line.title) /\ IniDex + 1 \in Indexes /\ pc' = "getline"
        /\ Section' = [Section EXCEPT ![IniDex + 1].title = line.title]
    BY <1>7 DEF NewSection
  <2>2. PICK d \in Seq(Lines) : lines = Append(d, line) /\ TableEchoes(Section, d)
    BY <1>2, <2>1
  <2>3. Cardinality(Heads(d)) = IniDex + 1
    <3>1. Cardinality(Heads(lines)) = Cardinality(Heads(d)) + 1 /\ Cardinality(Heads(d)) \in Nat
      BY <1>1, <2>1, <2>2, HeadsAdded
    <3>2. Cardinality(Heads(lines)) = IniDex + 2
      BY <1>3, <2>1
    <3> QED
      BY <1>1, <3>1, <3>2
  <2>4. PICK i \in Indexes : i = IniDex + 1
    BY <2>1
  <2>5. TableEchoes(Section', lines)
    BY <1>1, <2>1, <2>2, <2>3, <2>4, EchoesTitle
  <2>6. IniDex' < MAXINISECTION
    BY <1>1, <2>1, IndexIs
  <2>7. Repeats(lines, line')
    <3> SUFFICES ASSUME line'.kind = "item", NEW n \in Indexes, Cardinality(Heads(lines)) = n + 1
                 PROVE  parse(line') \in TitleItem(Entry(lines, n).title)
      BY DEF Repeats
    <3>1. n = i /\ i \in Nat
      BY <1>1, <1>3, <2>1, <2>4, IndexIs
    <3>2. Entry(lines, i).title = line.title
      BY <1>1, <2>1, <2>2, <2>3, <2>4, <3>1, EntryNew
    <3>3. line.title \in DOMAIN ItemOf /\ line' = ItemOf[line.title]
      <4>1. PICK t : t = line.title /\ line' = TitleLine(t)
        BY <2>1
      <4>2. TitleLine(t).kind = "item"
        BY <4>1
      <4>3. CASE t = "" \/ t \in Comments
        <5>1. t \notin DOMAIN ItemOf
          BY <4>3, IniAssumption
        <5> QED
          BY <4>2, <4>3, <5>1 DEF TitleLine, Blank
      <4>4. CASE t \notin DOMAIN ItemOf /\ ~(t = "" \/ t \in Comments)
        BY <4>2, <4>4 DEF TitleLine
      <4>5. CASE t \in DOMAIN ItemOf /\ ~(t = "" \/ t \in Comments)
        BY <4>1, <4>5 DEF TitleLine
      <4> QED
        BY <4>3, <4>4, <4>5
    <3> QED
      BY <3>1, <3>2, <3>3 DEF TitleItem
  <2> QED
    BY <2>1, <2>5, <2>6, <2>7
<1>8. CASE NewItem
  <2>1. /\ line.kind = "item" /\ IniDex' = IniDex /\ lines' = lines /\ line' = line
        /\ IniDex \in Indexes /\ pc' = "getline"
        /\ Section' = [Section EXCEPT ![IniDex].items = addItems(@, parse(line))]
    BY <1>8 DEF NewItem
  <2>2. PICK i \in Indexes : i = IniDex
    BY <2>1
  <2>3. Section' = [Section EXCEPT ![i].items = addItems(@, parse(line))]
    BY <2>1, <2>2
  <2>4. Cardinality(Heads(lines)) = i + 1
    BY <1>3, <2>1, <2>2
  <2>5. TableEchoes(Section', lines) /\ Repeats(lines, line)
    <3>1. CASE TableEchoes(Section, lines) /\ Repeats(lines, line)
      BY <1>1, <2>1, <2>3, <2>4, <3>1, EchoesItem
    <3>2. CASE \E d \in Seq(Lines) : lines = Append(d, line) /\ TableEchoes(Section, d)
      <4>1. PICK d \in Seq(Lines) : lines = Append(d, line) /\ TableEchoes(Section, d)
        BY <3>2
      <4>2. Cardinality(Heads(lines)) = Cardinality(Heads(d)) + 0 /\ Cardinality(Heads(d)) \in Nat
        BY <1>1, <2>1, <4>1, HeadsAdded
      <4>3. Cardinality(Heads(d)) = i + 1
        BY <2>4, <4>2
      <4> QED
        BY <1>1, <2>1, <2>3, <4>1, <4>3, EchoesItem
    <3> QED
      BY <1>2, <3>1, <3>2
  <2> QED
    BY <1>1, <2>1, <2>5
<1> QED
  BY <1>5, <1>6, <1>7, <1>8 DEF Body

LEMMA EchoKept ==
  ASSUME TypeInv, Counted, EchoInv, [Next]_vars
  PROVE  EchoInv'
<1>1. CASE Open
  BY <1>1, EchoesNone DEF Open, releaseData, Released, EchoInv, Running
<1>2. CASE Close
  <2>1. /\ Section' = [i \in Indexes |-> Empty] /\ lines' = <<>> /\ pc = "idle" /\ pc' = pc
    BY <1>2 DEF Close, releaseData, Released
  <2> QED
    BY <2>1, EchoesNone DEF EchoInv, Running
<1>3. CASE Restart
  BY <1>3, EchoesNone DEF Restart, EchoInv, Running
<1>4. CASE OpenFails
  BY <1>4 DEF OpenFails, ghosts, EchoInv, Running
<1>5. CASE GetLine
  <2> SUFFICES ASSUME ~torn', ~overrun' PROVE EchoInv'
    BY DEF EchoInv
  <2>1. /\ pc = "getline" /\ lines' = Append(lines, line') /\ Section' = Section
        /\ IniDex' = IniDex /\ ~torn /\ ~overrun
    BY <1>5 DEF GetLine
  <2>2. TableEchoes(Section, lines) /\ IniDex < MAXINISECTION /\ lines \in Seq(Lines)
    BY <2>1 DEF EchoInv, Running, TypeInv
  <2>3. pc' = "body"
    BY <1>5, <2>2 DEF GetLine, Turn
  <2> QED
    BY <2>1, <2>2, <2>3 DEF EchoInv
<1>6. CASE GetLineNoMemory
  <2> SUFFICES ASSUME ~torn', ~overrun' PROVE EchoInv'
    BY DEF EchoInv
  <2>1. /\ pc = "getline" /\ lines' = lines /\ line' = line /\ Section' = Section
        /\ IniDex' = IniDex /\ ~torn /\ ~overrun
    BY <1>6 DEF GetLineNoMemory
  <2>2. /\ TableEchoes(Section, lines) /\ IniDex < MAXINISECTION /\ Repeats(lines, line)
        /\ line.kind # "section"
    BY <2>1 DEF EchoInv, Running, Counted
  <2>3. pc' = "body"
    BY <1>6, <2>2 DEF GetLineNoMemory, Turn
  <2> QED
    BY <2>1, <2>2, <2>3 DEF EchoInv
<1>7. CASE GetLineTorn
  BY <1>7 DEF GetLineTorn, EchoInv
<1>8. CASE EndOfFile
  <2> SUFFICES ASSUME ~torn', ~overrun' PROVE EchoInv'
    BY DEF EchoInv
  <2>1. /\ pc = "getline" /\ pc' = "end" /\ lines' = lines /\ Section' = Section
        /\ IniDex' = IniDex /\ ~torn /\ ~overrun
    BY <1>8 DEF EndOfFile, ghosts
  <2>2. /\ TableEchoes(Section, lines) /\ IniDex < MAXINISECTION
        /\ Cardinality(Heads(lines)) = IniDex + 1
    BY <2>1 DEF EchoInv, Running, Counted
  <2>3. Cardinality(Heads(lines)) <= MAXINISECTION
    BY <2>2, IndexIs DEF TypeInv
  <2> QED
    BY <2>1, <2>2, <2>3 DEF EchoInv
<1>9. CASE OpenEnd
  BY <1>9 DEF OpenEnd, Return, ghosts, EchoInv, Running
<1>10. CASE Body
  <2> SUFFICES ASSUME ~torn', ~overrun' PROVE EchoInv'
    BY DEF EchoInv
  <2>1. pc = "body" /\ ~torn /\ ~overrun
    BY <1>10 DEF Body, SkipLine, BadLine, NewSection, NewItem, ghosts, TypeInv
  <2>2. /\ lines' = lines /\ TableEchoes(Section', lines)
        /\ \/ pc' = "idle" /\ Cardinality(Heads(lines)) <= MAXINISECTION
           \/ pc' = "getline" /\ Repeats(lines, line') /\ IniDex' < MAXINISECTION
    BY <1>10, <2>1, EchoLine
  <2> QED
    BY <2>2 DEF EchoInv, Running
<1>11. CASE UNCHANGED vars
  BY <1>11 DEF vars, EchoInv, Running
<1> QED
  BY <1>1, <1>2, <1>3, <1>4, <1>5, <1>6, <1>7, <1>8, <1>9, <1>10, <1>11 DEF Next, Read

\* The sections of a title in the file, and the places of the table with that title.
Titled(d, title) == {n \in 0..(Cardinality(Heads(d)) - 1) : d[Head0(d, n)].title = title}
Hits(title) == {i \in Indexes : Section[i].title = title}

\* The place found first has the title.
LEMMA FirstHit ==
  ASSUME NEW title, Hits(title) # {}
  PROVE  Min(Hits(title)) \in Hits(title)
<1>1. Hits(title) \in SUBSET Nat
  BY IndexIs DEF Hits
<1> QED
  BY <1>1, MinIs

\* A section of the title that the table has room for is found there, in a table
\* that echoes the file; an empty place that comes first holds no items.
LEMMA SectionFound ==
  ASSUME NEW d \in Seq(Lines), Section \in Tables, TableEchoes(Section, d),
         Cardinality(Heads(d)) <= MAXINISECTION, NEW title
  PROVE  /\ Titled(d, title) # {} =>
              Hits(title) # {} /\ Min(Hits(title)) = Min(Titled(d, title))
         /\ Hits(title) # {} =>
              /\ Min(Hits(title)) \in Indexes
              /\ Titled(d, title) = {} => Section[Min(Hits(title))] = Empty
         /\ Titled(d, title) # {} => Min(Titled(d, title)) \in Indexes
                                     /\ Min(Titled(d, title)) < Cardinality(Heads(d))
<1>1. PICK c \in Nat : c = Cardinality(Heads(d))
  <2>1. PICK N \in Nat : N = Len(d) /\ DOMAIN d = 1..N
    BY LenProperties
  <2>2. Heads(d) \in SUBSET (1..N)
    BY <2>1 DEF Heads
  <2> QED
    BY <2>2, RankIs
<1>2. PICK A : A = Titled(d, title)
  OBVIOUS
<1>3. PICK B : B = Hits(title)
  OBVIOUS
<1>4. \A n : n \in A <=> n \in 0..(c - 1) /\ d[Head0(d, n)].title = title
  BY <1>1, <1>2 DEF Titled
<1>5. \A n : n \in B <=> n \in Indexes /\ Section[n].title = title
  BY <1>3 DEF Hits
<1>6. A \in SUBSET Nat /\ B \in SUBSET Nat
  <2>1. \A n \in A : n \in Nat
    BY <1>4
  <2>2. \A n \in B : n \in Nat
    BY <1>5, IndexIs
  <2> QED
    BY <2>1, <2>2
<1>7. \A n \in 0..(c - 1) : n \in Indexes /\ n < c
  BY <1>1, IndexIs
<1>8. \A n \in Indexes : n < c => (n \in A <=> n \in B)
  <2>1. TAKE n \in Indexes
  <2>2. HAVE n < c
  <2>3. Section[n].title = d[Head0(d, n)].title
    BY <1>1, <2>2 DEF TableEchoes, Entry
  <2>4. n \in 0..(c - 1)
    BY <2>2, IndexIs
  <2> QED
    BY <1>4, <1>5, <2>3, <2>4
<1>9. \A n \in Indexes : ~(n < c) => Section[n] = Empty
  BY <1>1 DEF TableEchoes
<1>10. B # {} => Min(B) \in B /\ \A y \in B : Min(B) <= y
  BY <1>6, MinIs
<1>11. A # {} => Min(A) \in A /\ \A y \in A : Min(A) <= y
  BY <1>6, MinIs
<1>12. \A n \in A : n \in B /\ n \in Indexes /\ n < c
  BY <1>4, <1>7, <1>8
<1>13. ASSUME A # {}
       PROVE  B # {} /\ Min(B) = Min(A) /\ Min(A) \in Indexes /\ Min(A) < c
  <2>1. PICK a \in Nat : a = Min(A) /\ a \in A /\ \A y \in A : a <= y
    BY <1>6, <1>11, <1>13
  <2>2. a \in B /\ a \in Indexes /\ a < c
    BY <1>12, <2>1
  <2>3. PICK b \in Nat : b = Min(B) /\ b \in B /\ \A y \in B : b <= y
    BY <1>6, <1>10, <2>2
  <2>4. b <= a
    BY <2>2, <2>3
  <2>5. b \in A
    BY <1>1, <1>5, <1>8, <2>2, <2>3, <2>4
  <2>6. a <= b
    BY <2>1, <2>5
  <2>7. a = b
    BY <2>4, <2>6
  <2> QED
    BY <2>1, <2>2, <2>3, <2>7
<1>14. ASSUME B # {}
       PROVE  Min(B) \in Indexes /\ (A = {} => Section[Min(B)] = Empty)
  <2>1. Min(B) \in B /\ Min(B) \in Indexes
    BY <1>5, <1>10, <1>14
  <2>2. A = {} => ~(Min(B) < c)
    BY <1>8, <2>1
  <2> QED
    BY <1>9, <2>1, <2>2
<1> QED
  BY <1>1, <1>2, <1>3, <1>13, <1>14

\* A key is looked up in the first section of that title in the file; what is
\* found is the value of its first item with that key, also where malloc() failed
\* and lines went into the table twice, unless the title is itself an item with
\* that key, which a failure puts into the table; and without a failure every item
\* is found but the last of its section: for every file, all titles and every size
\* of the table.
THEOREM LookupFinds == Spec => []KeyFound
<1>1. Init => Counted /\ TableInv /\ EchoInv
  <2> SUFFICES ASSUME Init PROVE Counted /\ TableInv /\ EchoInv
    OBVIOUS
  <2>1. Done = <<>> /\ Done \in Seq(Lines)
    BY DEF Init, Done
  <2>2. Counted /\ TableInv
    BY <2>1, TableEmpty DEF Init, Counted, TableInv, Running
  <2>3. EchoInv
    BY EchoesNone DEF Init, EchoInv, Running
  <2> QED
    BY <2>2, <2>3
<1>2. TypeInv /\ TableInv /\ EchoInv => KeyFound
  <2> SUFFICES ASSUME TypeInv, TableInv, EchoInv, pc = "idle", ~torn, ~overrun,
                      NEW title \in Titles, NEW key \in {it.key : it \in Items}
               PROVE
        LET got  == getStringValue(title, key)
            secs == Titled(lines, title)
            its  == IF secs = {} THEN <<>> ELSE ItemsIn(lines, Min(secs))
            hits == {j \in DOMAIN its : its[j].key = key}
        IN /\ got.ret = "ok" =>
                \/ hits # {} /\ got.value = its[Min(hits)].value
                \/ fails > 0 /\ Spelled(title, key, got.value)
           /\ fails = 0 /\ hits \ {Len(its)} # {} => got.ret = "ok"
    BY DEF KeyFound, Titled
  <2>1. /\ lines \in Seq(Lines) /\ Section \in Tables /\ TableEchoes(Section, lines)
        /\ Cardinality(Heads(lines)) <= MAXINISECTION
    BY DEF TypeInv, EchoInv
  <2>2. fails = 0 => TableIs(Section, lines)
    BY DEF TableInv, Done
  <2>3. PICK A : A = Titled(lines, title)
    OBVIOUS
  <2>4. PICK B : B = Hits(title)
    OBVIOUS
  <2>5. PICK got : got = getStringValue(title, key)
    OBVIOUS
  <2>6. got = IF B = {} THEN NotFound ELSE findItems(Section[Min(B)].items, key)
    BY <2>4, <2>5, Zenon DEF getStringValue, Hits
  <2>7. /\ A # {} => B # {} /\ Min(B) = Min(A) /\ Min(A) \in Indexes
                     /\ Min(A) < Cardinality(Heads(lines))
        /\ B # {} => Min(B) \in Indexes /\ (A = {} => Section[Min(B)] = Empty)
    BY <2>1, <2>3, <2>4, SectionFound
  <2>8. CASE A = {}
    <3>1. got.ret # "ok"
      <4>1. CASE B = {}
        BY <2>6, <4>1 DEF NotFound
      <4>2. CASE B # {}
        <5>1. Section[Min(B)].items = <<>>
          <6>1. Section[Min(B)] = Empty
            BY <2>7, <2>8, <4>2, Zenon
          <6>2. Empty.items = <<>>
            BY DEF Empty
          <6> QED
            BY <6>1, <6>2, Zenon
        <5>2. 1..(Len(<<>>) - 1) = {}
          OBVIOUS
        <5>3. {j \in 1..(Len(<<>>) - 1) : <<>>[j].key = key} = {}
          BY <5>2
        <5>4. got = findItems(<<>>, key)
          BY <2>6, <4>2, <5>1, Zenon
        <5>5. got = NotFound
          BY <5>3, <5>4, Zenon DEF findItems
        <5> QED
          BY <5>5 DEF NotFound
      <4> QED
        BY <4>1, <4>2
    <3>2. DOMAIN <<>> = {}
      OBVIOUS
    <3>3. {j \in DOMAIN <<>> : <<>>[j].key = key} = {}
      BY <3>2
    <3> QED
      BY <2>3, <2>5, <2>8, <3>1, <3>3
  <2>9. CASE A # {}
    <3>1. PICK n \in Indexes : n = Min(A) /\ n = Min(B) /\ n < Cardinality(Heads(lines))
      BY <2>7, <2>9
    <3>2. n \in Nat
      BY IndexIs
    <3>3. PICK s \in Seq(Entries) : s = Section[n].items
      BY <2>1 DEF Tables
    <3>4. PICK f \in Seq(Entries) : f = ItemsIn(lines, n)
      BY <2>1, <3>2, ItemsAre
    <3>5. Echoes(s, f, TitleItem(title))
      <4>1. n \in B
        BY <2>7, <2>9, <3>1, <2>4, FirstHit
      <4> QED
        BY <2>1, <2>4, <3>1, <3>3, <3>4, <4>1 DEF TableEchoes, Entry, Hits
    <3>6. got = findItems(s, key)
      BY <2>6, <2>7, <2>9, <3>1, <3>3, Zenon
    <3>7. PICK hits : hits = {j \in DOMAIN f : f[j].key = key}
      OBVIOUS
    <3>8. ASSUME fails = 0
          PROVE  s = f
      <4>1. Section[n] = Entry(lines, n)
        BY <2>2, <3>1, <3>8 DEF TableIs
      <4>2. Entry(lines, n).items = ItemsIn(lines, n)
        BY DEF Entry
      <4> QED
        BY <3>3, <3>4, <4>1, <4>2, Zenon
    <3>9. ASSUME got.ret = "ok"
          PROVE  \/ hits # {} /\ got.value = f[Min(hits)].value
                 \/ fails > 0 /\ Spelled(title, key, got.value)
      <4>1. CASE fails = 0
        <5>1. Echoes(s, f, {})
          BY <3>8, <4>1, EchoesSelf
        <5>2. \/ \E x \in {} : x.key = key /\ x.value = got.value
              \/ hits # {} /\ got.value = f[Min(hits)].value
          BY <3>6, <3>7, <3>9, <5>1, FirstFound
        <5> QED
          BY <5>2
      <4>2. CASE fails # 0
        <5>1. fails > 0
          <6>1. MaxFails \in Nat
            BY IniAssumption
          <6> QED
            BY <4>2, <6>1 DEF TypeInv
        <5>2. ASSUME NEW x \in TitleItem(title), x.key = key, x.value = got.value
              PROVE  Spelled(title, key, got.value)
          <6>1. title \in DOMAIN ItemOf /\ x = parse(ItemOf[title])
            BY DEF TitleItem
          <6>2. PICK v : x = [key |-> ItemOf[title].key, value |-> v]
            BY <6>1 DEF parse
          <6>3. x = [key |-> key, value |-> got.value]
            BY <5>2, <6>2
          <6> QED
            BY <6>1, <6>3 DEF Spelled
        <5>3. \/ \E x \in TitleItem(title) : x.key = key /\ x.value = got.value
              \/ hits # {} /\ got.value = f[Min(hits)].value
          BY <3>5, <3>6, <3>7, <3>9, FirstFound
        <5> QED
          BY <5>1, <5>2, <5>3
      <4> QED
        BY <4>1, <4>2
    <3>10. ASSUME fails = 0, hits \ {Len(f)} # {}
          PROVE  got.ret = "ok"
      <4>1. s = f
        BY <3>10, <3>8
      <4>2. PICK N \in Nat : N = Len(f) /\ DOMAIN f = 1..N
        BY LenProperties
      <4>3. PICK j \in hits : j # N
        BY <3>10, <4>2
      <4>4. j \in 1..(N - 1) /\ s[j].key = key
        BY <3>7, <4>1, <4>2, <4>3
      <4>5. {i \in 1..(Len(s) - 1) : s[i].key = key} # {}
        BY <4>1, <4>2, <4>4
      <4> QED
        BY <3>6, <4>5 DEF findItems
    <3>11. (IF A = {} THEN <<>> ELSE ItemsIn(lines, Min(A))) = f
      BY <2>9, <3>1, <3>4
    <3> QED
      BY <2>3, <2>5, <3>7, <3>9, <3>10, <3>11
  <2> QED
    BY <2>8, <2>9
<1> QED
  BY <1>1, <1>2, TypesInitially, TypesKept, CountedKept, TableKept, EchoKept, PTL DEF Spec
-----------------------------------------------------------------------------
(* The number a text denotes.  A fold applies a recursive function on the   *)
(* sets of its places; that there is one is shown place by place.           *)

\* A set of places that is not empty has a last one.
LEMMA MaxIs ==
  ASSUME NEW N \in Nat, NEW S \in SUBSET (1..N), S # {}
  PROVE  Max(S) \in S /\ \A y \in S : y <= Max(S)
<1>1. PICK B : B = {n \in Nat : \A y \in S : y <= n}
  OBVIOUS
<1>2. N \in B
  BY <1>1
<1>3. PICK m \in B : \A n \in B : m <= n
  BY <1>1, <1>2, MinIs
<1>4. m \in Nat /\ \A y \in S : y <= m
  BY <1>1
<1>5. m \in S
  <2>1. SUFFICES ASSUME m \notin S PROVE FALSE
    OBVIOUS
  <2>2. \A y \in S : y \in 1..N /\ y <= m - 1
    BY <1>4, <2>1
  <2>3. m - 1 \in Nat
    <3>1. PICK y \in S : TRUE
      OBVIOUS
    <3> QED
      BY <1>4, <2>2, <3>1
  <2>4. m - 1 \in B
    BY <1>1, <2>2, <2>3
  <2> QED
    BY <1>3, <1>4, <2>4
<1>6. \E x \in S : \A y \in S : x >= y
  BY <1>4, <1>5
<1>7. Max(S) \in S /\ \A y \in S : Max(S) >= y
  BY <1>6, Zenon DEF Max
<1> QED
  BY <1>7

\* The places up to one.
LEMMA UpTo ==
  ASSUME NEW N \in Nat, NEW j \in 1..N
  PROVE  /\ 1..j \in SUBSET (1..N) /\ 1..j # {} /\ Max(1..j) = j
         /\ (1..j) \ {j} = 1..(j - 1)
<1>1. 1..j \in SUBSET (1..N) /\ j \in 1..j
  OBVIOUS
<1>2. Max(1..j) \in 1..j /\ j <= Max(1..j)
  BY <1>1, MaxIs
<1> QED
  BY <1>1, <1>2

\* There is a function that folds g over each set of places, from its first.
LEMMA FoldExists ==
  ASSUME NEW N \in Nat, NEW g \in [Nat \X Nat -> Nat]
  PROVE  \E it \in [SUBSET (1..N) -> Nat] : \A S \in SUBSET (1..N) :
           it[S] = IF S = {} THEN 0 ELSE g[<<it[S \ {Max(S)}], Max(S)>>]
<1> DEFINE Folds(k) ==
      \E it \in [SUBSET (1..k) -> Nat] : \A S \in SUBSET (1..k) :
        it[S] = IF S = {} THEN 0 ELSE g[<<it[S \ {Max(S)}], Max(S)>>]
<1>1. Folds(0)
  <2>1. SUBSET (1..0) = {{}}
    OBVIOUS
  <2>2. PICK it : it = [S \in SUBSET (1..0) |-> 0]
    OBVIOUS
  <2>3. it \in [SUBSET (1..0) -> Nat] /\ \A S \in SUBSET (1..0) : S = {} /\ it[S] = 0
    BY <2>1, <2>2
  <2> QED
    BY <2>3
<1>2. ASSUME NEW k \in Nat, Folds(k)
      PROVE  Folds(k + 1)
  <2>1. PICK it \in [SUBSET (1..k) -> Nat] : \A S \in SUBSET (1..k) :
          it[S] = IF S = {} THEN 0 ELSE g[<<it[S \ {Max(S)}], Max(S)>>]
    BY <1>2
  <2>2. PICK t : t = [S \in SUBSET (1..(k + 1)) |->
                        IF k + 1 \in S THEN g[<<it[S \ {k + 1}], k + 1>>] ELSE it[S]]
    OBVIOUS
  <2>3. ASSUME NEW S \in SUBSET (1..(k + 1)), k + 1 \in S
        PROVE  /\ S \ {k + 1} \in SUBSET (1..k) /\ t[S] \in Nat
               /\ t[S] = IF S = {} THEN 0 ELSE g[<<t[S \ {Max(S)}], Max(S)>>]
    <3>1. PICK R \in SUBSET (1..k) : R = S \ {k + 1}
      <4>1. \A y \in S : y \in 1..(k + 1)
        OBVIOUS
      <4>2. \A y \in S \ {k + 1} : y \in 1..k
        BY <4>1
      <4> QED
        BY <4>2
    <3>2. Max(S) = k + 1
      <4>1. PICK M \in Nat : M = k + 1
        OBVIOUS
      <4>2. S \in SUBSET (1..M) /\ M \in S
        BY <2>3, <4>1
      <4>3. PICK m \in S : m = Max(S) /\ \A y \in S : y <= m
        BY <4>2, MaxIs
      <4>4. m \in 1..M /\ M <= m
        BY <4>2, <4>3
      <4> QED
        BY <4>1, <4>3, <4>4
    <3>3. R \in SUBSET (1..(k + 1)) /\ k + 1 \notin R
      BY <3>1
    <3>4. t[R] = it[R]
      BY <2>2, <3>3
    <3>5. t[S] = g[<<it[R], k + 1>>] /\ it[R] \in Nat
      BY <2>2, <2>3, <3>1
    <3>6. t[S] \in Nat
      BY <3>5
    <3> QED
      BY <2>3, <3>1, <3>2, <3>4, <3>5, <3>6
  <2>4. ASSUME NEW S \in SUBSET (1..(k + 1)), k + 1 \notin S
        PROVE  /\ t[S] \in Nat
               /\ t[S] = IF S = {} THEN 0 ELSE g[<<t[S \ {Max(S)}], Max(S)>>]
    <3>1. S \in SUBSET (1..k)
      BY <2>4
    <3>2. t[S] = it[S] /\ it[S] \in Nat
      BY <2>2, <2>4, <3>1
    <3>3. CASE S = {}
      BY <2>1, <3>1, <3>2, <3>3
    <3>4. CASE S # {}
      <4>1. PICK R \in SUBSET (1..k) : R = S \ {Max(S)}
        BY <3>1
      <4>2. R \in SUBSET (1..(k + 1)) /\ k + 1 \notin R
        OBVIOUS
      <4>3. t[R] = it[R]
        BY <2>2, <4>2
      <4>4. it[S] = g[<<it[R], Max(S)>>]
        BY <2>1, <3>1, <3>4, <4>1
      <4> QED
        BY <3>2, <3>4, <4>1, <4>3, <4>4
    <3> QED
      BY <3>3, <3>4
  <2>5. t \in [SUBSET (1..(k + 1)) -> Nat]
    <3>1. \A S \in SUBSET (1..(k + 1)) : t[S] \in Nat
      BY <2>3, <2>4
    <3> QED
      BY <2>2, <3>1
  <2>6. \A S \in SUBSET (1..(k + 1)) :
          t[S] = IF S = {} THEN 0 ELSE g[<<t[S \ {Max(S)}], Max(S)>>]
    BY <2>3, <2>4
  <2> QED
    BY <2>5, <2>6
<1>3. PICK Bad : Bad = {k \in Nat : ~Folds(k)}
  OBVIOUS
<1>4. Bad = {}
  <2>1. SUFFICES ASSUME Bad # {} PROVE FALSE
    OBVIOUS
  <2>2. PICK m \in Bad : \A y \in Bad : m <= y
    BY <1>3, <2>1, MinIs
  <2>3. m \in Nat /\ ~Folds(m)
    BY <1>3
  <2> HIDE DEF Folds
  <2>4. m # 0
    BY <1>1, <2>3
  <2>5. m - 1 \in Nat /\ m - 1 \notin Bad
    BY <2>2, <2>3, <2>4
  <2>6. Folds(m - 1)
    BY <1>3, <2>5
  <2>7. PICK k \in Nat : k = m - 1
    BY <2>5
  <2>8. Folds(k + 1)
    BY <1>2, <2>6, <2>7
  <2> QED
    BY <2>3, <2>7, <2>8
<1>5. Folds(N)
  <2> HIDE DEF Folds
  <2> QED
    BY <1>3, <1>4
<1> QED
  BY <1>5

\* A function folds g as far as its values are numbers.
FoldsUp(it, g, N) ==
  /\ it[{}] = 0
  /\ \A S \in SUBSET (1..N) : S # {} /\ it[S \ {Max(S)}] \in Nat =>
       it[S] = g[<<it[S \ {Max(S)}], Max(S)>>]

\* It goes from each place to the next, to r.
GoesUp(L, g, N, r) ==
  /\ L \in [0..N -> Nat] /\ L[0] = 0 /\ \A j \in 1..N : L[j] = g[<<L[j - 1], j>>]
  /\ r = L[N]

\* Any such function goes from each place to the next.
LEMMA PlaceByPlace ==
  ASSUME NEW N \in Nat, NEW g \in [Nat \X Nat -> Nat], NEW it, FoldsUp(it, g, N)
  PROVE  \E L : GoesUp(L, g, N, it[1..N])
<1>1. it[1..0] = 0
  <2>1. 1..0 = {}
    OBVIOUS
  <2> QED
    BY <2>1 DEF FoldsUp
<1>2. ASSUME NEW j \in 1..N, it[1..(j - 1)] \in Nat
      PROVE  it[1..j] = g[<<it[1..(j - 1)], j>>] /\ it[1..j] \in Nat
  <2>1. PICK v \in Nat : v = it[1..(j - 1)]
    BY <1>2
  <2>2. PICK S \in SUBSET (1..N) :
          S = 1..j /\ S # {} /\ Max(S) = j /\ S \ {j} = 1..(j - 1)
    BY UpTo
  <2>3. it[S \ {Max(S)}] = v
    BY <2>1, <2>2
  <2>4. it[S] = g[<<v, j>>]
    BY <2>2, <2>3 DEF FoldsUp
  <2>5. g[<<v, j>>] \in Nat
    BY <2>1
  <2> QED
    BY <2>1, <2>2, <2>4, <2>5
<1>3. \A j \in 0..N : it[1..j] \in Nat
  <2>1. PICK Bad : Bad = {j \in 0..N : it[1..j] \notin Nat}
    OBVIOUS
  <2>2. SUFFICES ASSUME Bad # {} PROVE FALSE
    BY <2>1
  <2>3. PICK m \in Bad : \A y \in Bad : m <= y
    <3>1. Bad \in SUBSET Nat
      BY <2>1
    <3> QED
      BY <2>2, <3>1, MinIs
  <2>4. m \in 0..N /\ it[1..m] \notin Nat
    BY <2>1
  <2>5. m \in 1..N
    BY <1>1, <2>4
  <2>6. m - 1 \in 0..N /\ m - 1 \notin Bad
    BY <2>3, <2>5
  <2>7. it[1..(m - 1)] \in Nat
    BY <2>1, <2>6
  <2> QED
    BY <1>2, <2>4, <2>5, <2>7
<1>4. PICK L : L = [j \in 0..N |-> it[1..j]]
  OBVIOUS
<1>5. L \in [0..N -> Nat] /\ L[0] = 0 /\ L[N] = it[1..N]
  BY <1>1, <1>3, <1>4
<1>6. \A j \in 1..N : L[j] = g[<<L[j - 1], j>>]
  <2>1. TAKE j \in 1..N
  <2>2. j - 1 \in 0..N /\ j \in 0..N
    OBVIOUS
  <2>3. it[1..j] = g[<<it[1..(j - 1)], j>>]
    BY <1>2, <1>3, <2>2
  <2> QED
    BY <1>4, <2>2, <2>3
<1> QED
  BY <1>5, <1>6 DEF GoesUp

LEMMA ShiftInType == \A a, d \in Nat : ShiftIn(a, d) \in Nat
<1>1. LongRange \in Nat \ {0}
  BY IniAssumption, Zenon
<1> QED
  BY <1>1 DEF ShiftIn

\* Shifting in digits, one after the other.
LEMMA ShiftsIn ==
  ASSUME NEW N \in Nat, NEW ds \in [1..N -> Nat]
  PROVE  \E L \in [0..N -> Nat] :
           /\ L[0] = 0 /\ \A j \in 1..N : L[j] = ShiftIn(L[j - 1], ds[j])
           /\ FoldLeft(ShiftIn, 0, ds) = L[N]
<1> DEFINE Fold(it) ==
      it = [S \in SUBSET DOMAIN ds |->
              IF S = {} THEN 0 ELSE ShiftIn(it[S \ {Max(S)}], ds[Max(S)])]
<1>1. PICK g : g = [x \in Nat \X Nat |-> IF x[2] \in 1..N THEN ShiftIn(x[1], ds[x[2]]) ELSE 0]
  OBVIOUS
<1>2. g \in [Nat \X Nat -> Nat]
  <2>1. \A x \in Nat \X Nat : x[1] \in Nat /\ x[2] \in Nat
    OBVIOUS
  <2>2. \A x \in Nat \X Nat : g[x] \in Nat
    BY <1>1, <2>1, ShiftInType
  <2> QED
    BY <1>1, <2>2
<1>3. DOMAIN ds = 1..N
  OBVIOUS
<1>4. ASSUME NEW v \in Nat, NEW m \in 1..N
      PROVE  g[<<v, m>>] = ShiftIn(v, ds[m])
  BY <1>1
<1>5. \E it : Fold(it)
  <2>1. PICK it \in [SUBSET (1..N) -> Nat] : \A S \in SUBSET (1..N) :
           it[S] = IF S = {} THEN 0 ELSE g[<<it[S \ {Max(S)}], Max(S)>>]
    BY <1>2, FoldExists
  <2>2. ASSUME NEW S \in SUBSET (1..N), S # {}
        PROVE  g[<<it[S \ {Max(S)}], Max(S)>>] = ShiftIn(it[S \ {Max(S)}], ds[Max(S)])
    <3>1. PICK m \in 1..N : m = Max(S)
      BY <2>2, MaxIs
    <3>2. PICK v \in Nat : v = it[S \ {m}]
      OBVIOUS
    <3> QED
      BY <1>4, <3>1, <3>2
  <2>3. \A S \in SUBSET (1..N) :
          it[S] = IF S = {} THEN 0 ELSE ShiftIn(it[S \ {Max(S)}], ds[Max(S)])
    BY <2>1, <2>2
  <2>4. it = [S \in SUBSET (1..N) |-> it[S]]
    OBVIOUS
  <2> QED
    BY <1>3, <2>3, <2>4
<1>6. FoldLeft(ShiftIn, 0, ds) = (CHOOSE it : Fold(it))[DOMAIN ds]
  BY DEF FoldLeft, MapThenFoldSet
<1>7. PICK it : Fold(it) /\ FoldLeft(ShiftIn, 0, ds) = it[1..N]
  <2> HIDE DEF Fold
  <2> QED
    BY <1>3, <1>5, <1>6
<1>8. \A S \in SUBSET (1..N) :
        it[S] = IF S = {} THEN 0 ELSE ShiftIn(it[S \ {Max(S)}], ds[Max(S)])
  BY <1>3, <1>7
<1>9. ASSUME NEW S \in SUBSET (1..N), S # {}, it[S \ {Max(S)}] \in Nat
      PROVE  it[S] = g[<<it[S \ {Max(S)}], Max(S)>>]
  <2>1. PICK m \in 1..N : m = Max(S)
    BY <1>9, MaxIs
  <2>2. PICK v \in Nat : v = it[S \ {m}]
    BY <1>9, <2>1
  <2> QED
    BY <1>4, <1>8, <1>9, <2>1, <2>2
<1>10. it[{}] = 0
  BY <1>8
<1>11. PICK L : GoesUp(L, g, N, it[1..N])
  <2>1. FoldsUp(it, g, N)
    BY <1>9, <1>10, Zenon DEF FoldsUp
  <2> HIDE DEF Fold
  <2> QED
    BY <1>2, <2>1, PlaceByPlace, Zenon
<1>12. \A j \in 1..N : L[j] = ShiftIn(L[j - 1], ds[j])
  <2>1. TAKE j \in 1..N
  <2>2. L[j - 1] \in Nat /\ L[j] = g[<<L[j - 1], j>>]
    BY <1>11 DEF GoesUp
  <2> QED
    BY <1>4, <2>2
<1> QED
  BY <1>7, <1>11, <1>12 DEF GoesUp

\* Adding terms, one after the other.
LEMMA SumsUp ==
  ASSUME NEW N \in Nat, NEW ts \in [1..N -> Nat]
  PROVE  \E P \in [0..N -> Nat] :
           /\ P[0] = 0 /\ \A j \in 1..N : P[j] = P[j - 1] + ts[j]
           /\ FoldLeft(LAMBDA a, b : a + b, 0, ts) = P[N]
<1> DEFINE Fold(it) ==
      it = [S \in SUBSET DOMAIN ts |->
              IF S = {} THEN 0 ELSE it[S \ {Max(S)}] + ts[Max(S)]]
<1>1. PICK g : g = [x \in Nat \X Nat |-> IF x[2] \in 1..N THEN x[1] + ts[x[2]] ELSE 0]
  OBVIOUS
<1>2. g \in [Nat \X Nat -> Nat]
  <2>1. \A x \in Nat \X Nat : x[1] \in Nat /\ x[2] \in Nat
    OBVIOUS
  <2>2. \A x \in Nat \X Nat : g[x] \in Nat
    BY <1>1, <2>1
  <2> QED
    BY <1>1, <2>2
<1>3. DOMAIN ts = 1..N
  OBVIOUS
<1>4. ASSUME NEW v \in Nat, NEW m \in 1..N
      PROVE  g[<<v, m>>] = v + ts[m]
  BY <1>1
<1>5. \E it : Fold(it)
  <2>1. PICK it \in [SUBSET (1..N) -> Nat] : \A S \in SUBSET (1..N) :
           it[S] = IF S = {} THEN 0 ELSE g[<<it[S \ {Max(S)}], Max(S)>>]
    BY <1>2, FoldExists
  <2>2. ASSUME NEW S \in SUBSET (1..N), S # {}
        PROVE  g[<<it[S \ {Max(S)}], Max(S)>>] = it[S \ {Max(S)}] + ts[Max(S)]
    <3>1. PICK m \in 1..N : m = Max(S)
      BY <2>2, MaxIs
    <3>2. PICK v \in Nat : v = it[S \ {m}]
      OBVIOUS
    <3> QED
      BY <1>4, <3>1, <3>2
  <2>3. \A S \in SUBSET (1..N) :
          it[S] = IF S = {} THEN 0 ELSE it[S \ {Max(S)}] + ts[Max(S)]
    BY <2>1, <2>2
  <2>4. it = [S \in SUBSET (1..N) |-> it[S]]
    OBVIOUS
  <2> QED
    BY <1>3, <2>3, <2>4
<1>6. FoldLeft(LAMBDA a, b : a + b, 0, ts) = (CHOOSE it : Fold(it))[DOMAIN ts]
  BY DEF FoldLeft, MapThenFoldSet
<1>7. PICK it : Fold(it) /\ FoldLeft(LAMBDA a, b : a + b, 0, ts) = it[1..N]
  <2>1. (CHOOSE it : Fold(it))[DOMAIN ts] = (CHOOSE it : Fold(it))[1..N]
    BY <1>3
  <2> HIDE DEF Fold
  <2> QED
    BY <1>5, <1>6, <2>1
<1>8. \A S \in SUBSET (1..N) :
        it[S] = IF S = {} THEN 0 ELSE it[S \ {Max(S)}] + ts[Max(S)]
  BY <1>3, <1>7
<1>9. ASSUME NEW S \in SUBSET (1..N), S # {}, it[S \ {Max(S)}] \in Nat
      PROVE  it[S] = g[<<it[S \ {Max(S)}], Max(S)>>]
  <2>1. PICK m \in 1..N : m = Max(S)
    BY <1>9, MaxIs
  <2>2. PICK v \in Nat : v = it[S \ {m}]
    BY <1>9, <2>1
  <2> QED
    BY <1>4, <1>8, <1>9, <2>1, <2>2
<1>10. it[{}] = 0
  BY <1>8
<1>11. PICK P : GoesUp(P, g, N, it[1..N])
  <2>1. FoldsUp(it, g, N)
    BY <1>9, <1>10, Zenon DEF FoldsUp
  <2> HIDE DEF Fold
  <2> QED
    BY <1>2, <2>1, PlaceByPlace, Zenon
<1>12. \A j \in 1..N : P[j] = P[j - 1] + ts[j]
  <2>1. TAKE j \in 1..N
  <2>2. P[j - 1] \in Nat /\ P[j] = g[<<P[j - 1], j>>]
    BY <1>11 DEF GoesUp
  <2> QED
    BY <1>4, <2>2
<1> QED
  BY <1>7, <1>11, <1>12 DEF GoesUp

\* The weights of n digits.
LEMMA WeightsExist ==
  ASSUME NEW n \in Nat
  PROVE  \E w \in [0..n -> Nat] : \A k \in 0..n : w[k] = IF k = 0 THEN 1 ELSE 16 * w[k - 1]
<1> DEFINE Weights(m) ==
      \E w \in [0..m -> Nat] : \A k \in 0..m : w[k] = IF k = 0 THEN 1 ELSE 16 * w[k - 1]
<1>1. Weights(0)
  <2>1. PICK w : w = [k \in 0..0 |-> 1]
    OBVIOUS
  <2>2. w \in [0..0 -> Nat] /\ \A k \in 0..0 : k = 0 /\ w[k] = 1
    BY <2>1
  <2> QED
    BY <2>2
<1>2. ASSUME NEW m \in Nat, Weights(m)
      PROVE  Weights(m + 1)
  <2>1. PICK w \in [0..m -> Nat] : \A k \in 0..m : w[k] = IF k = 0 THEN 1 ELSE 16 * w[k - 1]
    BY <1>2
  <2>2. PICK t : t = [k \in 0..(m + 1) |-> IF k = m + 1 THEN 16 * w[m] ELSE w[k]]
    OBVIOUS
  <2>3. m \in 0..m /\ w[m] \in Nat /\ t[m + 1] = 16 * w[m] /\ t[m] = w[m]
    BY <2>2
  <2>4. t \in [0..(m + 1) -> Nat]
    BY <2>2, <2>3
  <2>5. ASSUME NEW k \in 0..(m + 1)
        PROVE  t[k] = IF k = 0 THEN 1 ELSE 16 * t[k - 1]
    <3>1. CASE k = m + 1
      BY <2>3, <3>1
    <3>2. CASE k \in 1..m
      <4>1. t[k] = w[k] /\ t[k - 1] = w[k - 1] /\ w[k] = 16 * w[k - 1]
        BY <2>1, <2>2, <3>2
      <4> QED
        BY <3>2, <4>1
    <3>3. CASE k = 0
      BY <2>1, <2>2, <3>3
    <3> QED
      BY <3>1, <3>2, <3>3
  <2> QED
    BY <2>4, <2>5
<1>3. PICK Bad : Bad = {m \in Nat : ~Weights(m)}
  OBVIOUS
<1> HIDE DEF Weights
<1>4. Bad = {}
  <2>1. SUFFICES ASSUME Bad # {} PROVE FALSE
    OBVIOUS
  <2>2. PICK m \in Bad : \A y \in Bad : m <= y
    BY <1>3, <2>1, MinIs
  <2>3. m \in Nat /\ ~Weights(m)
    BY <1>3
  <2>4. m # 0
    BY <1>1, <2>3
  <2>5. m - 1 \in Nat /\ m - 1 \notin Bad
    BY <2>2, <2>3, <2>4
  <2>6. PICK k \in Nat : k = m - 1
    BY <2>5
  <2>7. Weights(k) /\ k + 1 = m
    BY <1>3, <2>3, <2>5, <2>6
  <2>8. Weights(k + 1)
    BY <1>2, <2>7
  <2> QED
    BY <2>3, <2>7, <2>8
<1>5. Weights(n)
  BY <1>3, <1>4
<1> QED
  BY <1>5 DEF Weights

\* Quotient and remainder, and that there is only one of each.
LEMMA Divided ==
  ASSUME NEW m \in Nat \ {0}, NEW a \in Nat
  PROVE  \E q \in Nat, r \in 0..(m - 1) : a = (m * q) + r /\ a % m = r
<1>1. (a % m) \in 0..(m - 1)
  OBVIOUS
<1>2. a = (m * (a \div m)) + (a % m) /\ (a \div m) \in Int
  OBVIOUS
<1>3. (a \div m) \in Nat
  OBVIOUS
<1> QED
  BY <1>1, <1>2, <1>3

LEMMA Remains ==
  ASSUME NEW m \in Nat \ {0}, NEW q \in Nat, NEW r \in 0..(m - 1)
  PROVE  ((m * q) + r) % m = r
OBVIOUS

\* What is cut off before a digit is shifted in would be cut off after it.
LEMMA CutOnce ==
  ASSUME NEW h \in Nat, NEW d \in Nat
  PROVE  ShiftIn(h % LongRange, d) = (16 * h + d) % LongRange
<1>1. PICK M \in Nat \ {0} : M = LongRange
  BY IniAssumption, Zenon
<1>2. PICK q \in Nat, r \in 0..(M - 1) : h = (M * q) + r /\ h % M = r
  BY Divided
<1>3. PICK p \in Nat, u \in 0..(M - 1) :
        (16 * r) + d = (M * p) + u /\ ((16 * r) + d) % M = u
  BY Divided
<1>4. PICK k \in Nat : k = (16 * q) + p
  OBVIOUS
<1>5. (16 * h) + d = (M * k) + u
  <2>1. 16 * (M * q) = M * (16 * q) /\ M * ((16 * q) + p) = (M * (16 * q)) + (M * p)
    OBVIOUS
  <2> QED
    BY <1>2, <1>3, <1>4, <2>1
<1>6. ((M * k) + u) % M = u
  BY Remains
<1> QED
  BY <1>1, <1>2, <1>3, <1>5, <1>6 DEF ShiftIn


\* The digits of a hexadecimal literal are all that stands after its prefix.
LEMMA DigitsShiftedIn ==
  ASSUME NEW text \in Seq(Chars), Literal(text), NEW n \in Nat, n = Len(text) - 2,
         NEW ds, ds = [k \in 1..n |-> text[k + 2]]
  PROVE  ds \in [1..n -> 0..15] /\ LongValue(text) = FoldLeft(ShiftIn, 0, ds)
<1> DEFINE at == IF After0x(text, CharX) # {} THEN After0x(text, CharX)
                 ELSE After0x(text, CharUpperX)
<1>1. /\ n > 0 /\ Len(text) = n + 2 /\ text[1] = 0 /\ text[2] \in {16, 17}
      /\ \A k \in 3..(n + 2) : text[k] < 16
  BY DEF Literal, CharX, CharUpperX
<1>2. \A k \in 3..(n + 2) : text[k] \in 0..15
  <2>1. TAKE k \in 3..(n + 2)
  <2>2. k \in 1..Len(text)
    BY <1>1
  <2>3. text[k] \in Chars
    BY <2>2
  <2> QED
    BY <1>1, <2>3 DEF Chars
<1>3. ds \in [1..n -> 0..15]
  <2>1. \A k \in 1..n : k + 2 \in 3..(n + 2)
    OBVIOUS
  <2> QED
    BY <1>2, <2>1
<1>4. at = {2}
  <2>1. \A x \in {16, 17} : \A j \in 2..(n + 2) : text[j] = x => j = 2
    BY <1>1
  <2>2. \A x \in {16, 17} : After0x(text, x) = IF text[2] = x THEN {2} ELSE {}
    <3>1. TAKE x \in {16, 17}
    <3>2. 2 \in 2..(n + 2) /\ 2 - 1 = 1
      OBVIOUS
    <3>3. After0x(text, x) = {j \in 2..(n + 2) : text[j - 1] = 0 /\ text[j] = x}
      BY <1>1 DEF After0x
    <3>4. \A j : j \in After0x(text, x) => j = 2 /\ text[2] = x
      BY <2>1, <3>3
    <3>5. text[2] = x => 2 \in After0x(text, x)
      BY <1>1, <3>2, <3>3
    <3> QED
      BY <3>4, <3>5
  <2> QED
    BY <1>1, <2>2 DEF CharX, CharUpperX
<1>5. \A m \in Nat : Min({m}) = m
  <2>1. TAKE m \in Nat
  <2>2. {m} \in SUBSET Nat /\ {m} # {}
    OBVIOUS
  <2>3. Min({m}) \in {m}
    BY <2>2, MinIs
  <2> QED
    BY <2>3
<1>6. SubSeq(text, Min(at) + 1, Len(text)) = ds
  <2>1. Min(at) + 1 = 3
    BY <1>4, <1>5
  <2>2. SubSeq(text, 3, n + 2) = [k \in 1..n |-> text[k + 2]]
    OBVIOUS
  <2> QED
    BY <1>1, <2>1, <2>2
<1>7. Digits(ds, 16) = ds
  <2>1. ds \in Seq(0..15) /\ Len(ds) = n /\ \A j \in 1..n : ~(ds[j] >= 16)
    <3>1. ds \in Seq(0..15)
      <4>1. PICK T : T = [1..n -> 0..15]
        OBVIOUS
      <4>2. T \in {[1..m -> 0..15] : m \in Nat}
        BY <4>1
      <4>3. ds \in UNION {[1..m -> 0..15] : m \in Nat}
        BY <1>3, <4>1, <4>2, Zenon
      <4> QED
        BY <4>3, SeqDef, Zenon
    <3>2. Len(ds) = n
      BY <1>3, <3>1
    <3>3. \A j \in 1..n : ds[j] \in 0..15
      BY <1>3
    <3>4. \A d \in 0..15 : ~(d >= 16)
      OBVIOUS
    <3> QED
      BY <3>1, <3>2, <3>3, <3>4
  <2>2. {j \in 1..Len(ds) : ds[j] >= 16} \cup {Len(ds) + 1} = {n + 1}
    BY <2>1
  <2>3. Min({n + 1}) - 1 = n
    BY <1>5
  <2>4. SubSeq(ds, 1, n) = ds
    BY <2>1
  <2> QED
    BY <2>2, <2>3, <2>4 DEF Digits
<1>8. LongValue(text) = IF at = {} THEN FoldLeft(LAMBDA m, d : m * 10 + d, 0, Digits(text, 10))
                        ELSE FoldLeft(ShiftIn, 0, Digits(SubSeq(text, Min(at) + 1, Len(text)), 16))
  BY Zenon DEF LongValue
<1>9. at # {}
  BY <1>4
<1> HIDE DEF at
<1>10. LongValue(text) = FoldLeft(ShiftIn, 0, ds)
  BY <1>6, <1>7, <1>8, <1>9, Zenon
<1> QED
  BY <1>3, <1>10

\* The weights of n digits, and the digits summed up by them, to r.
Weighted(w, P, n, ds, r) ==
  /\ w \in [0..n -> Nat] /\ w[0] = 1 /\ \A k \in 1..n : w[k] = 16 * w[k - 1]
  /\ P \in [0..n -> Nat] /\ P[0] = 0 /\ \A j \in 1..n : P[j] = P[j - 1] + (ds[j] * w[n - j])
  /\ r = P[n]

\* What is denoted is the sum of the digits by their weights.
LEMMA WeightsSumUp ==
  ASSUME NEW text, Len(text) - 2 \in Nat,
         NEW n, n = Len(text) - 2,
         NEW ds \in [1..n -> 0..15], ds = [k \in 1..n |-> text[k + 2]]
  PROVE  \E w, P : Weighted(w, P, n, ds, Denoted(text))
<1> DEFINE m == Len(text) - 2
           Weighs(x) == x = [k \in 0..m |-> IF k = 0 THEN 1 ELSE 16 * x[k - 1]]
           w == CHOOSE x : Weighs(x)
           ts == [k \in 1..m |-> text[k + 2] * w[m - k]]
<1>1. Denoted(text) = FoldLeft(LAMBDA a, b : a + b, 0, ts)
  BY DEF Denoted
<1> HIDE DEF m
<1>2. m = n /\ n \in Nat
  BY DEF m
<1>3. Weighs(w)
  <2>1. \E x : Weighs(x)
    <3>1. PICK x \in [0..n -> Nat] : \A k \in 0..n : x[k] = IF k = 0 THEN 1 ELSE 16 * x[k - 1]
      BY <1>2, WeightsExist
    <3>2. x = [k \in 0..n |-> x[k]]
      OBVIOUS
    <3> QED
      BY <1>2, <3>1, <3>2
  <2> HIDE DEF Weighs
  <2> QED
    BY <2>1
<1> HIDE DEF w
<1>4. \A k \in 0..n : w[k] = IF k = 0 THEN 1 ELSE 16 * w[k - 1]
  BY <1>2, <1>3
<1>5. \A k \in 0..n : w[k] \in Nat
  <2>1. PICK Bad : Bad = {k \in 0..n : w[k] \notin Nat}
    OBVIOUS
  <2>2. SUFFICES ASSUME Bad # {} PROVE FALSE
    BY <2>1
  <2>3. PICK least \in Bad : \A y \in Bad : least <= y
    <3>1. Bad \in SUBSET Nat
      BY <2>1
    <3> QED
      BY <2>2, <3>1, MinIs
  <2>4. least \in 0..n /\ w[least] \notin Nat
    BY <2>1
  <2>5. least # 0
    BY <1>4, <2>4
  <2>6. least - 1 \in 0..n /\ least - 1 \notin Bad
    BY <2>3, <2>4, <2>5
  <2>7. w[least - 1] \in Nat
    BY <2>1, <2>6
  <2>8. w[least] = 16 * w[least - 1]
    BY <1>4, <2>4, <2>5
  <2> QED
    BY <2>4, <2>7, <2>8
<1>6. w \in [0..n -> Nat]
  BY <1>2, <1>3, <1>5
<1>7. ts = [k \in 1..n |-> text[k + 2] * w[n - k]]
  BY <1>2
<1> HIDE DEF ts
<1>8. \A k \in 1..n : ts[k] = ds[k] * w[n - k]
  BY <1>7
<1>9. ts \in [1..n -> Nat]
  <2>1. \A k \in 1..n : ds[k] \in Nat /\ w[n - k] \in Nat
    <3>1. TAKE k \in 1..n
    <3>2. n - k \in 0..n
      OBVIOUS
    <3>3. ds[k] \in 0..15
      OBVIOUS
    <3>4. w[n - k] \in Nat
      BY <1>6, <3>2
    <3>5. \A d \in 0..15 : d \in Nat
      OBVIOUS
    <3> QED
      BY <3>3, <3>4, <3>5, Zenon
  <2>2. \A a, b \in Nat : a * b \in Nat
    OBVIOUS
  <2>3. \A k \in 1..n : ts[k] \in Nat
    BY <1>8, <2>1, <2>2
  <2> QED
    BY <1>7, <2>3
<1>10. PICK P \in [0..n -> Nat] :
         /\ P[0] = 0 /\ \A j \in 1..n : P[j] = P[j - 1] + ts[j]
         /\ FoldLeft(LAMBDA a, b : a + b, 0, ts) = P[n]
  BY <1>2, <1>9, SumsUp
<1>11. Denoted(text) = P[n]
  BY <1>1, <1>10, Zenon
<1>12. P[0] = 0 /\ \A j \in 1..n : P[j] = P[j - 1] + (ds[j] * w[n - j])
  BY <1>8, <1>10
<1>13. w[0] = 1 /\ \A k \in 1..n : w[k] = 16 * w[k - 1]
  BY <1>4
<1>14. P \in [0..n -> Nat]
  OBVIOUS
<1>15. Weighted(w, P, n, ds, Denoted(text))
  BY <1>6, <1>11, <1>12, <1>13, <1>14, Zenon DEF Weighted
<1> QED
  BY <1>15, Zenon

\* A hexadecimal literal is read as the number it denotes, cut to a long.
LEMMA NumberIs ==
  ASSUME NEW text \in Seq(Chars), Literal(text)
  PROVE  LongValue(text) = Denoted(text) % LongRange
<1>1. PICK n \in Nat : n = Len(text) - 2
  <2>1. Len(text) \in Nat
    OBVIOUS
  <2> QED
    BY <2>1 DEF Literal
<1>2. PICK ds \in [1..n -> 0..15] :
        ds = [k \in 1..n |-> text[k + 2]] /\ LongValue(text) = FoldLeft(ShiftIn, 0, ds)
  BY <1>1, DigitsShiftedIn
<1>3. PICK w \in [0..n -> Nat], P \in [0..n -> Nat] :
        /\ w[0] = 1 /\ \A k \in 1..n : w[k] = 16 * w[k - 1]
        /\ P[0] = 0 /\ \A j \in 1..n : P[j] = P[j - 1] + (ds[j] * w[n - j])
        /\ Denoted(text) = P[n]
  <2>1. Len(text) - 2 \in Nat
    BY <1>1
  <2>2. \E w, P : Weighted(w, P, n, ds, Denoted(text))
    BY <1>1, <1>2, <2>1, WeightsSumUp, Zenon
  <2> QED
    BY <2>2 DEF Weighted
<1>4. PICK L \in [0..n -> Nat] :
        /\ L[0] = 0 /\ \A j \in 1..n : L[j] = ShiftIn(L[j - 1], ds[j])
        /\ FoldLeft(ShiftIn, 0, ds) = L[n]
  <2>1. ds \in [1..n -> Nat]
    <3>1. \A k \in 1..n : ds[k] \in 0..15
      OBVIOUS
    <3>2. \A d \in 0..15 : d \in Nat
      OBVIOUS
    <3>3. ds = [k \in 1..n |-> ds[k]]
      OBVIOUS
    <3> QED
      BY <3>1, <3>2, <3>3, Zenon
  <2> QED
    BY <2>1, ShiftsIn
<1> DEFINE Agree(j) == \E h \in Nat : P[j] = h * w[n - j] /\ L[j] = h % LongRange
<1>5. Agree(0)
  <2>1. PICK M \in Nat \ {0} : M = LongRange
    BY IniAssumption, Zenon
  <2>2. 0 % M = 0
    OBVIOUS
  <2>3. P[0] = 0 * w[n - 0]
    <3>1. w[n - 0] \in Nat
      OBVIOUS
    <3> QED
      BY <1>3, <3>1
  <2> QED
    BY <1>4, <2>1, <2>2, <2>3
<1>6. ASSUME NEW j \in 1..n, Agree(j - 1)
      PROVE  Agree(j)
  <2>1. PICK h \in Nat : P[j - 1] = h * w[n - (j - 1)] /\ L[j - 1] = h % LongRange
    BY <1>6
  <2>2. PICK d \in Nat : d = ds[j]
    <3>1. ds[j] \in 0..15
      OBVIOUS
    <3> QED
      BY <3>1
  <2>3. PICK v \in Nat : v = w[n - j]
    OBVIOUS
  <2>4. n - (j - 1) \in 1..n /\ (n - (j - 1)) - 1 = n - j
    OBVIOUS
  <2>5. w[n - (j - 1)] = 16 * v
    BY <1>3, <2>3, <2>4
  <2>6. P[j] = (h * (16 * v)) + (d * v)
    BY <1>3, <2>1, <2>2, <2>3, <2>5
  <2>7. PICK g \in Nat : g = 16 * h + d
    OBVIOUS
  <2>8. g * v = (h * (16 * v)) + (d * v)
    BY <2>7
  <2>9. L[j] = g % LongRange
    BY <1>4, <2>1, <2>2, <2>7, CutOnce
  <2> QED
    BY <2>3, <2>6, <2>8, <2>9
<1>7. \A j \in 0..n : Agree(j)
  <2> HIDE DEF Agree
  <2>1. PICK Bad : Bad = {j \in 0..n : ~Agree(j)}
    OBVIOUS
  <2>2. SUFFICES ASSUME Bad # {} PROVE FALSE
    BY <2>1
  <2>3. PICK m \in Bad : \A y \in Bad : m <= y
    <3>1. Bad \in SUBSET Nat
      BY <2>1
    <3> QED
      BY <2>2, <3>1, MinIs
  <2>4. m \in 0..n /\ ~Agree(m)
    BY <2>1
  <2>5. m # 0
    BY <1>5, <2>4
  <2>6. m \in 1..n /\ m - 1 \in 0..n /\ m - 1 \notin Bad
    BY <2>3, <2>4, <2>5
  <2>7. Agree(m - 1)
    BY <2>1, <2>6
  <2> QED
    BY <1>6, <2>4, <2>6, <2>7
<1>8. PICK h \in Nat : P[n] = h * w[n - n] /\ L[n] = h % LongRange
  <2>1. n \in 0..n
    OBVIOUS
  <2> QED
    BY <1>7, <2>1
<1>9. P[n] = h
  <2>1. n - n = 0
    OBVIOUS
  <2>2. h * 1 = h
    OBVIOUS
  <2> QED
    BY <1>3, <1>8, <2>1, <2>2
<1> QED
  BY <1>2, <1>3, <1>4, <1>8, <1>9

\* What a key is found with is what the file has there, and as a number it is the
\* one the text denotes, however long the text and however wide a long.
THEOREM LookupIsExact == Spec => []LookupExact
<1>1. TypeInv => NumbersExact
  <2>1. SUFFICES ASSUME TypeInv, NEW i \in Indexes, NEW j \in DOMAIN Section[i].items,
                        Literal(Section[i].items[j].value.text)
                 PROVE  LongValue(Section[i].items[j].value.text)
                          = Denoted(Section[i].items[j].value.text) % LongRange
    BY Zenon DEF NumbersExact
  <2>2. Section[i].items \in Seq(Entries)
    BY <2>1 DEF TypeInv, Tables
  <2>3. Section[i].items[j] \in Entries
    BY <2>2, LenProperties
  <2>4. Section[i].items[j].value.text \in {it.text : it \in Items}
    BY <2>3 DEF Entries, Values
  <2>5. \A it \in Items : it.text \in Seq(Chars)
    BY IniAssumption, Zenon
  <2>6. Section[i].items[j].value.text \in Seq(Chars)
    BY <2>4, <2>5, Zenon
  <2> QED
    BY <2>1, <2>6, NumberIs, Zenon
<1>2. Spec => []TypeInv
  BY TypesInitially, TypesKept, PTL DEF Spec
<1> QED
  BY <1>1, <1>2, LookupFinds, PTL DEF LookupExact
-----------------------------------------------------------------------------
(* Every open() is finite: each turn of its loop takes a line of the file,  *)
(* or memory runs out in it.                                                *)

Stages == [getline |-> 1, body |-> 2, end |-> 0]
Left == 2 * ((MaxLines - Len(lines)) + (MaxFails - fails)) + Stages[pc]

\* No more lines are read than the file has.
LineCount == Len(lines) \in Nat /\ Len(lines) <= MaxLines

LEMMA LinesCounted == Spec => []LineCount
<1>1. Init => LineCount
  <2>1. Len(<<>>) = 0
    OBVIOUS
  <2>2. MaxLines \in Nat
    BY IniAssumption, Zenon
  <2> QED
    BY <2>1, <2>2 DEF Init, LineCount
<1>2. TypeInv /\ LineCount /\ [Next]_vars => LineCount'
  <2> SUFFICES ASSUME TypeInv, LineCount, [Next]_vars PROVE LineCount'
    OBVIOUS
  <2>1. MaxLines \in Nat /\ Len(<<>>) = 0
    <3>1. MaxLines \in Nat
      BY IniAssumption, Zenon
    <3> QED
      BY <3>1
  <2>2. CASE GetLine
    <3>1. lines \in Seq(Lines) /\ line' \in Lines /\ Len(lines) < MaxLines
      BY <2>2 DEF TypeInv, GetLine
    <3>2. Len(Append(lines, line')) = Len(lines) + 1
      BY <3>1, AppendProperties
    <3> QED
      BY <2>1, <2>2, <3>1, <3>2 DEF GetLine, LineCount
  <2>3. CASE Open \/ Close \/ Restart
    BY <2>1, <2>3 DEF Open, Close, Restart, LineCount
  <2>4. ASSUME lines' = lines
        PROVE  LineCount'
    BY <2>4 DEF LineCount
  <2>5. [Next]_vars => lines' = lines \/ GetLine \/ Open \/ Close \/ Restart
    BY DEF Next, Read, Body, vars, ghosts, OpenFails, GetLineNoMemory, GetLineTorn, EndOfFile,
           OpenEnd, SkipLine, BadLine, NewSection, NewItem
  <2> QED
    BY <2>2, <2>3, <2>4, <2>5
<1>3. Spec => []TypeInv
  BY TypesInitially, TypesKept, PTL DEF Spec
<1> QED
  BY <1>1, <1>2, <1>3, PTL DEF Spec

\* At each moment of an open() there is something left, and every step of it
\* leaves less.
LEMMA LessLeft ==
  ASSUME TypeInv, LineCount, TypeInv', LineCount', Next, Running
  PROVE  Left \in Nat /\ (Running' => Left' < Left)
<1>1. PICK m \in Nat, x \in Nat, f \in Nat, n \in Nat :
        m = MaxLines /\ x = MaxFails /\ f = fails /\ n = Len(lines) /\ f <= x /\ n <= m
  <2>1. MaxLines \in Nat /\ MaxFails \in Nat
    BY IniAssumption, Zenon
  <2>2. fails \in Nat /\ fails <= MaxFails /\ Len(lines) \in Nat /\ Len(lines) <= MaxLines
    BY <2>1 DEF TypeInv, LineCount
  <2> QED
    BY <2>1, <2>2
<1>2. Stages["getline"] = 1 /\ Stages["body"] = 2 /\ Stages["end"] = 0
  BY DEF Stages
<1>3. pc \in {"getline", "body", "end"} /\ Stages[pc] \in 0..2
  BY <1>2 DEF Running
<1>4. Left = 2 * ((m - n) + (x - f)) + Stages[pc]
  BY <1>1 DEF Left
<1>5. Left \in Nat
  BY <1>1, <1>3, <1>4
<1>6. ASSUME Running'
      PROVE  Left' < Left
  <2>1. pc' \in {"getline", "body", "end"} /\ Stages[pc'] \in 0..2
    BY <1>2, <1>6 DEF Running
  <2>2. Read \/ Body
    BY <1>3, <2>1 DEF Next, Open, OpenFails, Close, Restart, OpenEnd, Return
  <2>3. CASE GetLine
    <3>1. lines \in Seq(Lines) /\ line' \in Lines /\ pc = "getline" /\ fails' = fails
          /\ lines' = Append(lines, line')
      BY <2>3 DEF TypeInv, GetLine
    <3>2. Len(lines') = n + 1
      BY <1>1, <3>1, AppendProperties
    <3>3. Left' = 2 * ((m - (n + 1)) + (x - f)) + Stages[pc']
      BY <1>1, <3>1, <3>2 DEF Left
    <3> QED
      BY <1>1, <1>2, <1>4, <2>1, <3>1, <3>3
  <2>4. CASE GetLineNoMemory \/ GetLineTorn
    <3>1. lines' = lines /\ pc = "getline" /\ fails' = f + 1
      BY <1>1, <2>4 DEF GetLineNoMemory, GetLineTorn
    <3>2. Left' = 2 * ((m - n) + (x - (f + 1))) + Stages[pc']
      BY <1>1, <3>1 DEF Left
    <3> QED
      BY <1>1, <1>2, <1>4, <2>1, <3>1, <3>2
  <2>5. ASSUME lines' = lines, fails' = fails, Stages[pc'] < Stages[pc]
        PROVE  Left' < Left
    <3>1. Left' = 2 * ((m - n) + (x - f)) + Stages[pc']
      BY <1>1, <2>5 DEF Left
    <3> QED
      BY <1>1, <1>3, <1>4, <2>1, <2>5, <3>1
  <2>6. CASE EndOfFile
    BY <1>2, <2>5, <2>6 DEF EndOfFile, ghosts
  <2>7. CASE Body
    <3>1. pc = "body" /\ pc' = "getline" /\ lines' = lines /\ fails' = fails
      BY <2>1, <2>7 DEF Body, SkipLine, BadLine, Fail, Return, NewSection, NewItem, ghosts
    <3> QED
      BY <1>2, <2>5, <3>1
  <2> QED
    BY <2>2, <2>3, <2>4, <2>6, <2>7 DEF Read
<1> QED
  BY <1>5, <1>6

\* No open() goes on for ever: each of its steps leaves less to do, by a measure that
\* is a natural number.  Where getline() fails the loop goes on as well, but that is
\* another failure of memory.
THEOREM OpenIsFinite ==
  Spec => [][Running => Left \in Nat /\ (Running' => Left' < Left)]_vars
<1>1. TypeInv /\ TypeInv' /\ LineCount /\ LineCount' /\ [Next]_vars
        => [Running => Left \in Nat /\ (Running' => Left' < Left)]_vars
  BY LessLeft
<1>2. Spec => []TypeInv
  BY TypesInitially, TypesKept, PTL DEF Spec
<1> QED
  BY <1>1, <1>2, LinesCounted, PTL DEF Spec
=============================================================================
