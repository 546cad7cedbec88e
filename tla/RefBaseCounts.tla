---------------------------- MODULE RefBaseCounts ----------------------------
(***************************************************************************)
(* Lemmas about RefBase: types, the counting argument behind mWeak and     *)
(* mStrong, and what the invariant says of a slot that holds a reference.  *)
(***************************************************************************)
EXTENDS RefBaseInv, FiniteSetTheorems, TLAPS

\* The initial values have their types, and every step keeps them.
LEMMA TypeInit == Init => TypeOK
  BY RefBaseAssumption DEF Init, TypeOK, Pcs

\* Every step keeps the types.
LEMMA TypeStep ==
  ASSUME TypeOK, [Next]_vars
  PROVE  TypeOK'
<1> USE RefBaseAssumption
    DEF TypeOK, Slots, Pcs, IncPcs, TryPcs, WeakPcs, DecPcs, heap, words, regs,
        Goto, Step, Return, Release, ReleaseLabel, Acquired
<1>1. ASSUME NEW p \in SpSlots, SpBegin(p)
      PROVE  TypeOK'
  BY <1>1 DEF SpBegin, SpNew, Construct, SpFromSp, SpFromRaw, SpForceSet, Promote, Clear, Begin
<1>2. ASSUME NEW p \in WpSlots, WpBegin(p)
      PROVE  TypeOK'
  BY <1>2 DEF WpBegin, WpNew, Construct, WpFromSp, WpFromWp, WpAttempt, WpAssignWp, Clear, Begin
<1>3. ASSUME NEW p \in Slots,
             IncWeak(p) \/ IncStrong(p) \/ ForceIncStrong(p) \/ SubInitial(p) \/ OnFirstRef(p)
      PROVE  TypeOK'
  BY <1>3 DEF IncWeak, IncStrong, ForceIncStrong, SubInitial, OnFirstRef
<1>4. ASSUME NEW p \in Slots, TryRead(p) \/ TryCas(p) \/ TryAsk(p)
      PROVE  TypeOK'
  BY <1>4 DEF TryRead, TryCas, TryAsk, Normal
<1>5. ASSUME NEW p \in Slots, TryCasNever(p) \/ TryInc(p) \/ TryLast(p)
      PROVE  TypeOK'
  BY <1>5 DEF TryCasNever, TryInc, TryLast, AfterHard
<1>6. ASSUME NEW p \in Slots, FixRead(p) \/ FixCas(p) \/ WeakRead(p) \/ WeakCas(p)
      PROVE  TypeOK'
  BY <1>6 DEF FixRead, FixCas, WeakRead, WeakCas
<1>7. ASSUME NEW p \in Slots, DecStrong(p) \/ OnLastStrongRef(p) \/ DecWeak(p) \/ LastWeak(p)
      PROVE  TypeOK'
  BY <1>7 DEF DecStrong, OnLastStrongRef, DecWeak, LastWeak, AfterLast
<1>8. ASSUME NEW p \in Slots, Destroy(p) \/ FreeRefs(p)
      PROVE  TypeOK'
  BY <1>8 DEF Destroy, FreeRefs
<1>9. CASE UNCHANGED vars
  BY <1>9 DEF vars
<1> QED
  BY <1>1, <1>2, <1>3, <1>4, <1>5, <1>6, <1>7, <1>8, <1>9 DEF Next, Client, Run

\* The registers and counters have their types in every reachable state; in
\* particular a running operation always works on some cell.
THEOREM TypeCorrect == Spec => []TypeOK
  BY TypeInit, TypeStep, PTL DEF Spec
-----------------------------------------------------------------------------
(* Counting.  A step changes the registers of one slot, so it changes each  *)
(* of the counted sets at that slot only.                                   *)

\* Both kinds of slots are finitely many.
LEMMA SlotsFinite == IsFiniteSet(Slots) /\ IsFiniteSet(SpSlots) /\ SpSlots \subseteq Slots
  BY RefBaseAssumption, FS_Subset DEF Slots

\* The bias exceeds one.
LEMMA BiasPositive == INITIAL_STRONG_VALUE \in Int /\ INITIAL_STRONG_VALUE > 1
  BY RefBaseAssumption, FS_CardinalityType

\* Cardinality of a set without one element.
LEMMA CardinalityWithout ==
  ASSUME NEW S, NEW p, IsFiniteSet(S)
  PROVE  /\ Cardinality(S) \in Nat
         /\ Cardinality(S \ {p}) = Cardinality(S) - (IF p \in S THEN 1 ELSE 0)
<1>1. Cardinality(S) \in Nat
  BY FS_CardinalityType
<1>2. CASE p \in S
  BY <1>1, <1>2, FS_RemoveElement
<1>3. CASE p \notin S
  <2>1. S \ {p} = S
    BY <1>3
  <2>2. Cardinality(S \ {p}) = Cardinality(S)
    BY <2>1, Zenon
  <2>3. Cardinality(S) = Cardinality(S) - 0
    BY <1>1
  <2> QED
    BY <1>1, <1>3, <2>2, <2>3, Zenon
<1> QED
  BY <1>1, <1>2, <1>3

\* Two finite sets that agree everywhere except at p.
LEMMA CardinalityExceptAt ==
  ASSUME NEW S, NEW T, NEW p, IsFiniteSet(S), IsFiniteSet(T), S \ {p} = T \ {p}
  PROVE  Cardinality(T) - (IF p \in T THEN 1 ELSE 0)
           = Cardinality(S) - (IF p \in S THEN 1 ELSE 0)
<1>1. Cardinality(S \ {p}) = Cardinality(S) - (IF p \in S THEN 1 ELSE 0)
  BY CardinalityWithout
<1>2. Cardinality(T \ {p}) = Cardinality(T) - (IF p \in T THEN 1 ELSE 0)
  BY CardinalityWithout
<1> QED
  BY <1>1, <1>2

\* The registers of every slot but p stay as they are.
OthersSame(p) ==
  \A q \in Slots \ {p} : ptr'[q] = ptr[q] /\ pc'[q] = pc[q] /\ arg'[q] = arg[q]

WeakRefs(o) == Cardinality(WeakOld(o)) + Cardinality(WeakNew(o))
StrongRefs(o) == Cardinality(StrongOld(o)) + Cardinality(StrongNew(o))

\* What slot p contributes to these counts.
WeakPart(p, o) ==
  (IF ptr[p] = o /\ pc[p] \notin ZeroPcs THEN 1 ELSE 0)
  + (IF arg[p] = o /\ pc[p] \notin {"idle"} \cup PreWeakPcs THEN 1 ELSE 0)

StrongOldPcs == {"last_strong", "delete", "dec_weak", "last_weak", "dtor", "free"}
StrongNewPcs == {"inc_sub", "inc_first", "try_last", "fix_read", "fix_cas"} \cup DecPcs
StrongPart(p, o) ==
  (IF p \in SpSlots /\ ptr[p] = o /\ pc[p] \notin StrongOldPcs THEN 1 ELSE 0)
  + (IF p \in SpSlots /\ arg[p] = o /\ pc[p] \in StrongNewPcs THEN 1 ELSE 0)

\* The slots that hold a count are finitely many, so they can be counted.
LEMMA CountedFinite ==
  ASSUME NEW o
  PROVE  /\ IsFiniteSet(WeakOld(o)) /\ IsFiniteSet(WeakNew(o))
         /\ IsFiniteSet(StrongOld(o)) /\ IsFiniteSet(StrongNew(o))
         /\ IsFiniteSet(WeakOld(o)') /\ IsFiniteSet(WeakNew(o)')
         /\ IsFiniteSet(StrongOld(o)') /\ IsFiniteSet(StrongNew(o)')
<1>1. /\ WeakOld(o) \subseteq Slots /\ WeakNew(o) \subseteq Slots
      /\ StrongOld(o) \subseteq SpSlots /\ StrongNew(o) \subseteq SpSlots
      /\ WeakOld(o)' \subseteq Slots /\ WeakNew(o)' \subseteq Slots
      /\ StrongOld(o)' \subseteq SpSlots /\ StrongNew(o)' \subseteq SpSlots
  BY DEF WeakOld, WeakNew, StrongOld, StrongNew
<1> QED
  BY <1>1, SlotsFinite, FS_Subset

\* A step of p changes the number of weak references by what p contributes.
LEMMA WeakDelta ==
  ASSUME NEW p \in Slots, NEW o, OthersSame(p)
  PROVE  /\ WeakRefs(o) \in Nat /\ WeakRefs(o)' \in Nat
         /\ WeakRefs(o)' = WeakRefs(o) + WeakPart(p, o)' - WeakPart(p, o)
<1>1. WeakOld(o)' \ {p} = WeakOld(o) \ {p} /\ WeakNew(o)' \ {p} = WeakNew(o) \ {p}
  BY DEF WeakOld, WeakNew, OthersSame
<1>2. /\ p \in WeakOld(o) <=> ptr[p] = o /\ pc[p] \notin ZeroPcs
      /\ p \in WeakOld(o)' <=> ptr'[p] = o /\ pc'[p] \notin ZeroPcs
  BY DEF WeakOld, ZeroPcs
<1>3. /\ p \in WeakNew(o) <=> arg[p] = o /\ pc[p] \notin {"idle"} \cup PreWeakPcs
      /\ p \in WeakNew(o)' <=> arg'[p] = o /\ pc'[p] \notin {"idle"} \cup PreWeakPcs
  BY DEF WeakNew, PreWeakPcs
<1>4. /\ Cardinality(WeakOld(o)) \in Nat /\ Cardinality(WeakOld(o)') \in Nat
      /\ Cardinality(WeakNew(o)) \in Nat /\ Cardinality(WeakNew(o)') \in Nat
  BY CountedFinite, FS_CardinalityType
<1>5. Cardinality(WeakOld(o)') - (IF p \in WeakOld(o)' THEN 1 ELSE 0)
        = Cardinality(WeakOld(o)) - (IF p \in WeakOld(o) THEN 1 ELSE 0)
  BY <1>1, CountedFinite, CardinalityExceptAt
<1>6. Cardinality(WeakNew(o)') - (IF p \in WeakNew(o)' THEN 1 ELSE 0)
        = Cardinality(WeakNew(o)) - (IF p \in WeakNew(o) THEN 1 ELSE 0)
  BY <1>1, CountedFinite, CardinalityExceptAt
<1> QED
  BY <1>2, <1>3, <1>4, <1>5, <1>6 DEF WeakRefs, WeakPart

\* How one slot's change moves the number of strong references.
LEMMA StrongDelta ==
  ASSUME NEW p \in Slots, NEW o, OthersSame(p)
  PROVE  /\ StrongRefs(o) \in Nat /\ StrongRefs(o)' \in Nat
         /\ StrongRefs(o)' = StrongRefs(o) + StrongPart(p, o)' - StrongPart(p, o)
<1>1. StrongOld(o)' \ {p} = StrongOld(o) \ {p} /\ StrongNew(o)' \ {p} = StrongNew(o) \ {p}
  BY SlotsFinite DEF StrongOld, StrongNew, OthersSame
<1>2. /\ p \in StrongOld(o) <=> p \in SpSlots /\ ptr[p] = o /\ pc[p] \notin StrongOldPcs
      /\ p \in StrongOld(o)' <=> p \in SpSlots /\ ptr'[p] = o /\ pc'[p] \notin StrongOldPcs
  BY DEF StrongOld, StrongOldPcs
<1>3. /\ p \in StrongNew(o) <=> p \in SpSlots /\ arg[p] = o /\ pc[p] \in StrongNewPcs
      /\ p \in StrongNew(o)' <=> p \in SpSlots /\ arg'[p] = o /\ pc'[p] \in StrongNewPcs
  BY DEF StrongNew, StrongNewPcs
<1>4. /\ Cardinality(StrongOld(o)) \in Nat /\ Cardinality(StrongOld(o)') \in Nat
      /\ Cardinality(StrongNew(o)) \in Nat /\ Cardinality(StrongNew(o)') \in Nat
  BY CountedFinite, FS_CardinalityType
<1>5. Cardinality(StrongOld(o)') - (IF p \in StrongOld(o)' THEN 1 ELSE 0)
        = Cardinality(StrongOld(o)) - (IF p \in StrongOld(o) THEN 1 ELSE 0)
  BY <1>1, CountedFinite, CardinalityExceptAt
<1>6. Cardinality(StrongNew(o)') - (IF p \in StrongNew(o)' THEN 1 ELSE 0)
        = Cardinality(StrongNew(o)) - (IF p \in StrongNew(o) THEN 1 ELSE 0)
  BY <1>1, CountedFinite, CardinalityExceptAt
<1> QED
  BY <1>2, <1>3, <1>4, <1>5, <1>6 DEF StrongRefs, StrongPart

\* A count is zero exactly when no slot contributes.
LEMMA WeakZero ==
  ASSUME NEW o
  PROVE  /\ WeakRefs(o) \in Nat
         /\ WeakRefs(o) = 0 <=> \A q \in Slots : WeakPart(q, o) = 0
<1>1. Cardinality(WeakOld(o)) \in Nat /\ Cardinality(WeakNew(o)) \in Nat
  BY CountedFinite, FS_CardinalityType
<1>2. /\ Cardinality(WeakOld(o)) = 0 <=> WeakOld(o) = {}
      /\ Cardinality(WeakNew(o)) = 0 <=> WeakNew(o) = {}
  BY CountedFinite, FS_EmptySet
<1>3. WeakOld(o) = {} /\ WeakNew(o) = {} <=> \A q \in Slots : WeakPart(q, o) = 0
  BY DEF WeakOld, WeakNew, WeakPart, ZeroPcs, PreWeakPcs
<1> QED
  BY <1>1, <1>2, <1>3 DEF WeakRefs

\* The strong references: none if no sp contributes, and never as many as the bias.
LEMMA StrongBounds ==
  ASSUME NEW o
  PROVE  /\ StrongRefs(o) \in Nat
         /\ StrongRefs(o) + 1 < INITIAL_STRONG_VALUE
         /\ StrongRefs(o) = 0 <=> \A q \in SpSlots : StrongPart(q, o) = 0
<1>1. /\ Cardinality(StrongOld(o)) \in Nat /\ Cardinality(StrongNew(o)) \in Nat
      /\ Cardinality(Slots) \in Nat
  BY CountedFinite, SlotsFinite, FS_CardinalityType
<1>2. /\ Cardinality(StrongOld(o)) = 0 <=> StrongOld(o) = {}
      /\ Cardinality(StrongNew(o)) = 0 <=> StrongNew(o) = {}
  BY CountedFinite, FS_EmptySet
<1>3. StrongOld(o) = {} /\ StrongNew(o) = {} <=> \A q \in SpSlots : StrongPart(q, o) = 0
  BY DEF StrongOld, StrongNew, StrongPart, StrongOldPcs, StrongNewPcs
<1>4. StrongOld(o) \subseteq Slots /\ StrongNew(o) \subseteq Slots
  BY DEF StrongOld, StrongNew, Slots
<1>5. /\ Cardinality(StrongOld(o)) <= Cardinality(Slots)
      /\ Cardinality(StrongNew(o)) <= Cardinality(Slots)
  BY <1>4, SlotsFinite, FS_Subset
<1> QED
  BY <1>1, <1>2, <1>3, <1>5, RefBaseAssumption DEF StrongRefs

\* A step of p after which mWeak and mStrong moved with what p contributes; the
\* bias may be taken away where it is.
WeakBalance(p) ==
  \A o \in impls' : mWeak'[o] - mWeak[o] = WeakPart(p, o)' - WeakPart(p, o)

StrongBalance(p) ==
  \A o \in impls' :
    \/ mStrong'[o] - mStrong[o] = StrongPart(p, o)' - StrongPart(p, o)
    \/ /\ mStrong[o] >= INITIAL_STRONG_VALUE
       /\ mStrong'[o] - mStrong[o] = StrongPart(p, o)' - StrongPart(p, o) - INITIAL_STRONG_VALUE

\* What one slot adds to a count is an integer.
LEMMA PartTypes ==
  ASSUME NEW p, NEW o
  PROVE  /\ WeakPart(p, o) \in Int /\ StrongPart(p, o) \in Int
         /\ WeakPart(p, o)' \in Int /\ StrongPart(p, o)' \in Int
  BY DEF WeakPart, StrongPart

\* A step that changes mWeak as it changes the holders keeps the weak count exact.
LEMMA WeakBalanced ==
  ASSUME NEW p \in Slots, OthersSame(p), WeakBalance(p), impls' \subseteq impls,
         TypeOK, TypeOK', WeakCountExact
  PROVE  WeakCountExact'
<1>1. ASSUME NEW o \in impls'
      PROVE  mWeak'[o] = WeakRefs(o)'
  <2>1. mWeak[o] = WeakRefs(o) /\ mWeak[o] \in Int /\ mWeak'[o] \in Int
    BY <1>1 DEF WeakCountExact, WeakRefs, TypeOK
  <2>2. mWeak'[o] - mWeak[o] = WeakPart(p, o)' - WeakPart(p, o)
    BY <1>1 DEF WeakBalance
  <2>3. /\ WeakRefs(o)' \in Int /\ WeakRefs(o) \in Int
        /\ WeakRefs(o)' = WeakRefs(o) + WeakPart(p, o)' - WeakPart(p, o)
    BY WeakDelta
  <2> QED
    BY <2>1, <2>2, <2>3, PartTypes
<1> QED
  BY <1>1 DEF WeakCountExact, WeakRefs

\* A step that changes mStrong as it changes the holders keeps the strong count exact.
LEMMA StrongBalanced ==
  ASSUME NEW p \in Slots, OthersSame(p), StrongBalance(p), impls' \subseteq impls,
         TypeOK, TypeOK', StrongCountExact
  PROVE  StrongCountExact'
<1>1. ASSUME NEW o \in impls'
      PROVE  mStrong'[o] \in {StrongRefs(o)', StrongRefs(o)' + INITIAL_STRONG_VALUE}
  <2>1. mStrong[o] \in {StrongRefs(o), StrongRefs(o) + INITIAL_STRONG_VALUE}
    BY <1>1 DEF StrongCountExact, StrongRefs
  <2>2. mStrong[o] \in Int /\ mStrong'[o] \in Int
    BY <1>1 DEF TypeOK
  <2>3. \/ mStrong'[o] - mStrong[o] = StrongPart(p, o)' - StrongPart(p, o)
        \/ /\ mStrong[o] >= INITIAL_STRONG_VALUE
           /\ mStrong'[o] - mStrong[o]
                = StrongPart(p, o)' - StrongPart(p, o) - INITIAL_STRONG_VALUE
    BY <1>1 DEF StrongBalance
  <2>4. /\ StrongRefs(o)' \in Int /\ StrongRefs(o) \in Int
        /\ StrongRefs(o)' = StrongRefs(o) + StrongPart(p, o)' - StrongPart(p, o)
    BY StrongDelta
  <2>5. StrongRefs(o) < INITIAL_STRONG_VALUE
    BY <2>4, StrongBounds, BiasPositive
  <2> QED
    BY <2>1, <2>2, <2>3, <2>4, <2>5, PartTypes, BiasPositive
<1> QED
  BY <1>1 DEF StrongCountExact, StrongRefs

\* A cell without a weakref_impl is counted by nobody.
LEMMA UnusedUncounted ==
  ASSUME NEW o \in Objects, o \notin impls, RefsAlive
  PROVE  WeakRefs(o) = 0 /\ StrongRefs(o) = 0
<1>1. o # NULL
  BY RefBaseAssumption
<1>2. \A q \in Slots : ptr[q] # o /\ arg[q] # o
  BY <1>1 DEF RefsAlive
<1>3. /\ \A q \in Slots : WeakPart(q, o) = 0
      /\ \A q \in SpSlots : StrongPart(q, o) = 0
  BY <1>2, SlotsFinite DEF WeakPart, StrongPart
<1> QED
  BY <1>3, WeakZero, StrongBounds

\* The constructor of o starts both counts of o and leaves the others alone.
LEMMA ConstructCounts ==
  ASSUME NEW p \in Slots, NEW o \in Objects, Construct(o), pc[p] = "idle",
         OthersSame(p), ptr'[p] = ptr[p], pc'[p] \in {"inc_weak", "create_weak"},
         TypeOK, TypeOK', RefsAlive, Shape, WeakCountExact, StrongCountExact
  PROVE  WeakCountExact' /\ StrongCountExact'
<1>0. o \notin impls /\ impls' = impls \cup {o} /\ o # NULL
  BY RefBaseAssumption DEF Construct
<1>1. ASSUME NEW x \in impls'
      PROVE  /\ WeakPart(p, x)' = WeakPart(p, x)
             /\ StrongPart(p, x)' = StrongPart(p, x)
  <2>1. x # NULL /\ arg[p] = NULL
    BY <1>1, RefBaseAssumption DEF Shape, TypeOK
  <2> QED
    BY <2>1 DEF WeakPart, StrongPart, ZeroPcs, PreWeakPcs, WeakPcs, StrongOldPcs, StrongNewPcs, DecPcs
<1>2. ASSUME NEW x \in impls'
      PROVE  WeakRefs(x)' = WeakRefs(x) /\ StrongRefs(x)' = StrongRefs(x)
  <2>1. /\ WeakRefs(x) \in Int /\ StrongRefs(x) \in Int
        /\ WeakRefs(x)' = WeakRefs(x) + WeakPart(p, x)' - WeakPart(p, x)
        /\ StrongRefs(x)' = StrongRefs(x) + StrongPart(p, x)' - StrongPart(p, x)
    BY WeakDelta, StrongDelta
  <2> QED
    BY <2>1, <1>1, <1>2, PartTypes
<1>3. ASSUME NEW x \in impls'
      PROVE  /\ mWeak'[x] = WeakRefs(x)'
             /\ mStrong'[x] \in {StrongRefs(x)', StrongRefs(x)' + INITIAL_STRONG_VALUE}
  <2>1. CASE x = o
    <3>1. mWeak'[x] = 0 /\ mStrong'[x] = INITIAL_STRONG_VALUE
      BY <2>1 DEF Construct, TypeOK
    <3>2. WeakRefs(x) = 0 /\ StrongRefs(x) = 0
      BY <2>1, <1>0, UnusedUncounted
    <3> QED
      BY <3>1, <3>2, <1>2, <1>3, BiasPositive
  <2>2. CASE x # o
    <3>1. mWeak'[x] = mWeak[x] /\ mStrong'[x] = mStrong[x] /\ x \in impls
      BY <2>2, <1>0, <1>3 DEF Construct, TypeOK
    <3>2. /\ mWeak[x] = WeakRefs(x)
          /\ mStrong[x] \in {StrongRefs(x), StrongRefs(x) + INITIAL_STRONG_VALUE}
      BY <3>1 DEF WeakCountExact, StrongCountExact, WeakRefs, StrongRefs
    <3> QED
      BY <3>1, <3>2, <1>2, <1>3
  <2> QED
    BY <2>1, <2>2
<1> QED
  BY <1>3 DEF WeakCountExact, StrongCountExact, WeakRefs, StrongRefs

-----------------------------------------------------------------------------
(* What the invariant says of a slot that holds a reference.                *)

\* A slot that counts for mWeak keeps it above zero.
LEMMA WeakHolder ==
  ASSUME IInv, NEW o \in impls, NEW q \in Slots, WeakPart(q, o) # 0
  PROVE  mWeak[o] >= 1
<1>1. mWeak[o] = WeakRefs(o)
  BY DEF IInv, WeakCountExact, WeakRefs
<1> QED
  BY <1>1, WeakZero

\* While somebody counts for it mStrong is neither zero nor exactly the bias, and
\* the object is there.
LEMMA StrongHolder ==
  ASSUME IInv, NEW o \in impls, NEW q \in SpSlots, StrongPart(q, o) # 0
  PROVE  mStrong[o] >= 1 /\ mStrong[o] # INITIAL_STRONG_VALUE /\ o \in objs
<1>1. mStrong[o] \in {StrongRefs(o), StrongRefs(o) + INITIAL_STRONG_VALUE}
  BY DEF IInv, StrongCountExact, StrongRefs
<1>2. StrongRefs(o) \in Nat /\ StrongRefs(o) # 0 /\ StrongRefs(o) < INITIAL_STRONG_VALUE
  BY StrongBounds, BiasPositive
<1>3. mStrong[o] >= 1 /\ mStrong[o] # INITIAL_STRONG_VALUE
  BY <1>1, <1>2, BiasPositive
<1> QED
  BY <1>3 DEF IInv, ObjectGone

\* An sp that is not giving its object up.
LEMMA PtrHeld ==
  ASSUME IInv, NEW q \in SpSlots, ptr[q] # NULL, pc[q] \notin StrongOldPcs
  PROVE  /\ ptr[q] \in objs /\ ptr[q] \in impls
         /\ mStrong[ptr[q]] >= 1 /\ mStrong[ptr[q]] < INITIAL_STRONG_VALUE
<1>1. ptr[q] \in impls /\ StrongPart(q, ptr[q]) # 0
  BY SlotsFinite DEF IInv, RefsAlive, StrongPart
<1>2. mStrong[ptr[q]] < INITIAL_STRONG_VALUE
  BY DEF IInv, HeldUnbiased
<1> QED
  BY <1>1, <1>2, StrongHolder

\* An sp operation that counted its new reference.
LEMMA ArgHeld ==
  ASSUME IInv, NEW q \in SpSlots, arg[q] # NULL, pc[q] \in StrongNewPcs
  PROVE  /\ arg[q] \in objs /\ arg[q] \in impls
         /\ mStrong[arg[q]] >= 1 /\ mStrong[arg[q]] # INITIAL_STRONG_VALUE
<1>1. arg[q] \in impls /\ StrongPart(q, arg[q]) # 0
  BY SlotsFinite DEF IInv, RefsAlive, StrongPart
<1> QED
  BY <1>1, StrongHolder

\* The count without the bias is exact.
LEMMA UnbiasedExact ==
  ASSUME IInv, NEW o \in impls, mStrong[o] < INITIAL_STRONG_VALUE
  PROVE  mStrong[o] \in Nat /\ mStrong[o] + 1 < INITIAL_STRONG_VALUE
<1>1. mStrong[o] \in {StrongRefs(o), StrongRefs(o) + INITIAL_STRONG_VALUE}
  BY DEF IInv, StrongCountExact, StrongRefs
<1>2. StrongRefs(o) \in Nat /\ StrongRefs(o) + 1 < INITIAL_STRONG_VALUE
  BY StrongBounds
<1> QED
  BY <1>1, <1>2, BiasPositive

\* Above the bias some reference is counted.
LEMMA AboveBias ==
  ASSUME IInv, NEW o \in impls, mStrong[o] > INITIAL_STRONG_VALUE
  PROVE  \E q \in SpSlots : StrongPart(q, o) # 0
<1>1. mStrong[o] \in {StrongRefs(o), StrongRefs(o) + INITIAL_STRONG_VALUE}
  BY DEF IInv, StrongCountExact, StrongRefs
<1>2. StrongRefs(o) \in Nat /\ StrongRefs(o) + 1 < INITIAL_STRONG_VALUE
  BY StrongBounds
<1>3. StrongRefs(o) # 0
  BY <1>1, <1>2, BiasPositive
<1> QED
  BY <1>3, StrongBounds

\* incStrong() on something that was not held finds the untouched initial value.
LEMMA IncSource ==
  ASSUME IInv, NEW p \in SpSlots, pc[p] \in {"inc_weak", "inc_strong"}
  PROVE  /\ mStrong[this[p]] = INITIAL_STRONG_VALUE
            \/ (mStrong[this[p]] >= 1 /\ mStrong[this[p]] < INITIAL_STRONG_VALUE)
         /\ this[p] \in objs /\ this[p] \in impls
<1>1. this[p] \in Objects /\ this[p] # NULL /\ this[p] \in impls
  BY RefBaseAssumption, SlotsFinite DEF IInv, TypeOK, Shape, RefsAlive, AcqPcs, IncPcs
<1>2. CASE src[p] \notin SpSlots
  <2>1. mStrong[this[p]] = INITIAL_STRONG_VALUE
    BY <1>2 DEF IInv, IncFromHeld
  <2> QED
    BY <1>1, <2>1, BiasPositive DEF IInv, ObjectGone
<1>3. CASE src[p] \in SpSlots
  <2>1. ptr[src[p]] = this[p] /\ (src[p] = p \/ pc[src[p]] = "idle")
    BY <1>3, RefBaseAssumption, SlotsFinite DEF IInv, SrcHeld, Slots
  <2>2. pc[src[p]] \notin StrongOldPcs
    BY <2>1 DEF StrongOldPcs
  <2> QED
    BY <1>1, <1>3, <2>1, <2>2, PtrHeld
<1> QED
  BY <1>2, <1>3

\* The other ways to take a reference through the object find it alive.
LEMMA CreateSource ==
  ASSUME IInv, NEW p \in Slots, pc[p] = "create_weak"
  PROVE  this[p] \in objs
<1>1. CASE src[p] \notin SpSlots
  BY <1>1 DEF IInv, CreateFromHeld, Shape, WeakPcs
<1>2. CASE src[p] \in SpSlots
  <2>1. ptr[src[p]] = this[p] /\ pc[src[p]] \notin StrongOldPcs /\ this[p] # NULL
    BY <1>2, RefBaseAssumption, SlotsFinite DEF IInv, SrcHeld, Slots, StrongOldPcs, TypeOK
  <2> QED
    BY <1>2, <2>1, PtrHeld
<1> QED
  BY <1>1, <1>2

-----------------------------------------------------------------------------
(* How a step changes mStrong.                                              *)

OneUp == \A o \in impls \cap impls' : mStrong'[o] <= mStrong[o] + 1
ZeroStays ==
  \A o \in impls \cap impls' :
    mFlags[o] = "STRONG" /\ mStrong[o] = 0 => mStrong'[o] = 0
UnbiasedStays ==
  \A o \in impls \cap impls' :
    mStrong[o] < INITIAL_STRONG_VALUE => mStrong'[o] \in 0..(INITIAL_STRONG_VALUE - 1)

\* All strong references together stay below the bias.
LEMMA BiasBound ==
  ASSUME IInv, NEW o \in impls
  PROVE  mStrong[o] \in Int /\ mStrong[o] - INITIAL_STRONG_VALUE < INITIAL_STRONG_VALUE
<1>1. mStrong[o] \in {StrongRefs(o), StrongRefs(o) + INITIAL_STRONG_VALUE}
  BY DEF IInv, StrongCountExact, StrongRefs
<1>2. StrongRefs(o) \in Nat /\ StrongRefs(o) + 1 < INITIAL_STRONG_VALUE
  BY StrongBounds
<1> QED
  BY <1>1, <1>2, BiasPositive

\* force_set() never starts from a biased count that somebody already raised.
LEMMA ForceSource ==
  ASSUME IInv, NEW p \in SpSlots, pc[p] = "force_strong"
  PROVE  mStrong[this[p]] = INITIAL_STRONG_VALUE \/ mStrong[this[p]] < INITIAL_STRONG_VALUE
<1>1. this[p] \in Objects /\ arg[p] = this[p] /\ this[p] # NULL /\ this[p] \in impls
  BY RefBaseAssumption, SlotsFinite DEF IInv, TypeOK, Shape, RefsAlive, AcqPcs, IncPcs
<1>2. mStrong[this[p]] \in Int
  BY <1>1 DEF IInv, TypeOK
<1>3. ASSUME mStrong[this[p]] > INITIAL_STRONG_VALUE
      PROVE  FALSE
  <2>1. PICK q \in SpSlots : StrongPart(q, this[p]) # 0
    BY <1>1, <1>3, AboveBias
  <2>2. \/ ptr[q] = this[p]
        \/ arg[q] = this[p] /\ pc[q] \in StrongNewPcs
    BY <2>1 DEF StrongPart
  <2>3. CASE ptr[q] = this[p]
    BY <1>1, <1>2, <1>3, <2>3, BiasPositive DEF IInv, HeldUnbiased
  <2>4. CASE arg[q] = this[p] /\ pc[q] \in DecPcs
    BY <1>1, <1>2, <1>3, <2>4, BiasPositive DEF IInv, HeldUnbiased
  <2>5. CASE arg[q] = this[p] /\ pc[q] \in StrongNewPcs \ DecPcs
    <3>1. pc[q] \in AcqPcs /\ q # p
      BY <2>5 DEF StrongNewPcs, AcqPcs, IncPcs, TryPcs
    <3>2. this[q] = this[p]
      BY <2>5, <3>1, SlotsFinite DEF IInv, Shape
    <3> QED
      BY <1>2, <1>3, <3>1, <3>2, BiasPositive DEF IInv, FirstAlone, IncPcs
  <2> QED
    BY <2>2, <2>3, <2>4, <2>5
<1> QED
  BY <1>2, <1>3, BiasPositive

\* The strong count of a live weakref_impl is a natural number.
LEMMA StrongNat ==
  ASSUME IInv, NEW o \in impls
  PROVE  mStrong[o] \in Nat
<1>1. mStrong[o] \in {StrongRefs(o), StrongRefs(o) + INITIAL_STRONG_VALUE}
  BY DEF IInv, StrongCountExact, StrongRefs
<1> QED
  BY <1>1, StrongBounds, BiasPositive

\* If nobody but p counts for its cell then nobody but p knows it.
LEMMA UncountedUnknown ==
  ASSUME IInv, NEW p \in Slots, pc[p] \in {"dec_weak", "undo_weak"},
         \A q \in Slots \ {p} : WeakPart(q, this[p]) = 0
  PROVE  OnlyUser(p, this[p])
<1> DEFINE o == this[p]
<1>0. o \in Objects /\ o # NULL
  BY RefBaseAssumption DEF IInv, Shape, TypeOK
<1>1. ASSUME NEW q \in Slots \ {p}
      PROVE  pc[q] \notin ZeroPcs \/ o \notin {ptr[q], this[q]}
  BY <1>0 DEF IInv, ZeroAlone, OnlyUser, Shape
<1>2. ASSUME NEW q \in Slots \ {p}
      PROVE  ptr[q] # o
  BY <1>1 DEF WeakPart
<1>3. ASSUME NEW q \in Slots \ {p}, arg[q] = o
      PROVE  FALSE
  <2>1. pc[q] \in {"idle"} \cup PreWeakPcs
    BY <1>3 DEF WeakPart
  <2>2. pc[q] \in PreWeakPcs /\ this[q] = o
    BY <1>0, <1>3, <2>1 DEF IInv, Shape, PreWeakPcs, AcqPcs, IncPcs, TryPcs
  <2>3. src[q] # NULL
    BY <2>2 DEF IInv, FreshAlone, OnlyUser
  <2>4. ptr[src[q]] = o /\ (src[q] = q \/ pc[src[q]] = "idle") /\ src[q] \in Slots
    BY <2>2, <2>3 DEF IInv, SrcHeld, TypeOK
  <2>5. src[q] # p
    BY <2>4
  <2> QED
    BY <1>2, <2>4, <2>5
<1>4. ASSUME NEW q \in Slots \ {p}, this[q] = o
      PROVE  FALSE
  <2>1. pc[q] # "idle" /\ pc[q] \in Pcs
    BY <1>0, <1>4 DEF IInv, Shape, TypeOK
  <2>2. pc[q] \in AcqPcs \/ pc[q] \in RelPcs \/ pc[q] \in ZeroPcs
    BY <2>1 DEF Pcs, AcqPcs, RelPcs, ZeroPcs, IncPcs, TryPcs, WeakPcs, DecPcs
  <2>3. CASE pc[q] \in AcqPcs
    BY <1>3, <1>4, <2>3 DEF IInv, Shape
  <2>4. CASE pc[q] \in RelPcs
    BY <1>2, <1>4, <2>4 DEF IInv, Shape
  <2>5. CASE pc[q] \in ZeroPcs
    BY <1>1, <1>4, <2>5
  <2> QED
    BY <2>2, <2>3, <2>4, <2>5
<1> QED
  BY <1>2, <1>3, <1>4 DEF OnlyUser

\* The cell whose weak count reached zero has no strong reference.
LEMMA ZeroUnheld ==
  ASSUME IInv, NEW p \in Slots, pc[p] \in ZeroPcs
  PROVE  /\ this[p] \in impls
         /\ mStrong[this[p]] \in {0, INITIAL_STRONG_VALUE}
         /\ mStrong[this[p]] = 0 /\ mFlags[this[p]] = "STRONG" => this[p] \notin objs
<1> DEFINE o == this[p]
<1>1. o \in impls /\ o # NULL
  BY RefBaseAssumption DEF IInv, Shape, RefsAlive, TypeOK
<1>2. OnlyUser(p, o) /\ arg[p] # o
  BY DEF IInv, ZeroAlone
<1>3. \A q \in SpSlots : StrongPart(q, o) = 0
  BY <1>2, SlotsFinite DEF OnlyUser, StrongPart, StrongOldPcs, ZeroPcs
<1>4. StrongRefs(o) = 0
  BY <1>3, StrongBounds
<1>5. mStrong[o] \in {0, INITIAL_STRONG_VALUE}
  BY <1>1, <1>4, BiasPositive DEF IInv, StrongCountExact, StrongRefs
<1>6. ~\E q \in SpSlots : pc[q] \in {"last_strong", "delete"} /\ this[q] = o
  BY <1>2, SlotsFinite DEF OnlyUser, ZeroPcs
<1> QED
  BY <1>1, <1>5, <1>6 DEF IInv, DeletePending

\* attemptIncWeak() reads a count that the wp it copies keeps above zero.
LEMMA WeakReadHeld ==
  ASSUME IInv, NEW p \in Slots, pc[p] = "weak_read"
  PROVE  mWeak[this[p]] >= 1
<1>1. src[p] \in Slots /\ ptr[src[p]] = this[p] /\ this[p] # NULL /\ pc[src[p]] = "idle"
  BY RefBaseAssumption DEF IInv, SrcKnown, SrcHeld, Shape, Slots, AcqPcs, WeakPcs
<1>2. this[p] \in impls
  BY <1>1 DEF IInv, RefsAlive
<1> QED
  BY <1>1, <1>2, WeakHolder DEF WeakPart, ZeroPcs, PreWeakPcs, WeakPcs

\* WeakZero of the next state.
LEMMA WeakZeroNext ==
  ASSUME NEW o
  PROVE  WeakRefs(o)' = 0 <=> \A q \in Slots : WeakPart(q, o)' = 0
<1>1. Cardinality(WeakOld(o)') \in Nat /\ Cardinality(WeakNew(o)') \in Nat
  BY CountedFinite, FS_CardinalityType
<1>2. /\ Cardinality(WeakOld(o)') = 0 <=> WeakOld(o)' = {}
      /\ Cardinality(WeakNew(o)') = 0 <=> WeakNew(o)' = {}
  BY CountedFinite, FS_EmptySet
<1>3. WeakOld(o)' = {} /\ WeakNew(o)' = {} <=> \A q \in Slots : WeakPart(q, o)' = 0
  BY DEF WeakOld, WeakNew, WeakPart, ZeroPcs, PreWeakPcs
<1> QED
  BY <1>1, <1>2, <1>3 DEF WeakRefs
==============================================================================
