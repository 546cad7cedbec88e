---------------------------- MODULE RefBaseProofs ----------------------------
(***************************************************************************)
(* Theorems about RefBase, for any number of slots, cells and lifetimes;   *)
(* the last of them that it implements Handles, object by object.          *)
(***************************************************************************)
EXTENDS RefBaseHandles, RefBaseSteps

\* Nothing is referenced when the program starts.
LEMMA InvInit == Init => IInv
<1> SUFFICES ASSUME Init PROVE IInv
  OBVIOUS
<1>1. TypeOK
  BY TypeInit
<1>2. Shape /\ SrcHeld /\ SrcKnown /\ CurTested /\ LifetimeKnown
  BY DEF Init, Shape, SrcHeld, SrcKnown, CurTested, LifetimeKnown,
         IncPcs, TryPcs, WeakPcs, AcqPcs, RelPcs, ZeroPcs, SpPcs
<1>3. objs \subseteq impls /\ RefsAlive /\ FreshAlone /\ ZeroAlone
  BY DEF Init, RefsAlive, FreshAlone, ZeroAlone, PreWeakPcs, WeakPcs, ZeroPcs
<1>4. WeakCountExact /\ StrongCountExact /\ NoLeak
  BY DEF Init, WeakCountExact, StrongCountExact, NoLeak
<1>5. HeldUnbiased /\ FirstAlone /\ IncFromHeld /\ CreateFromHeld
  BY SlotsFinite DEF Init, HeldUnbiased, FirstAlone, IncFromHeld, CreateFromHeld, IncPcs, DecPcs, Slots
<1>6. ObjectGone /\ LastOnce /\ DeletePending /\ ZeroDeletes
  BY SlotsFinite DEF Init, ObjectGone, LastOnce, DeletePending, ZeroDeletes, Slots
<1> QED
  BY <1>1, <1>2, <1>3, <1>4, <1>5, <1>6 DEF IInv

\* Every step keeps the invariant.
LEMMA InvStep ==
  ASSUME ~CopyAssign, ~RawRace, IInv, [Next]_vars
  PROVE  IInv'
<1>1. TypeOK /\ Shape /\ SrcHeld /\ SrcKnown /\ CurTested /\ LifetimeKnown
      /\ RefsAlive /\ objs \subseteq impls
  BY DEF IInv
<1>2. TypeOK'
  BY <1>1, TypeStep
<1>3. Shape' /\ SrcHeld' /\ SrcKnown' /\ CurTested' /\ LifetimeKnown'
  BY <1>1, <1>2, ShapeStep, SrcHeldStep, SrcKnownStep, CurStep, LifeStep
<1>4. (objs \subseteq impls)' /\ RefsAlive' /\ FreshAlone'
  BY <1>2, ImplsStep, RefsStep, FreshStep
<1>5. WeakCountExact' /\ StrongCountExact'
  BY <1>2, WeakStep, StrongStep
<1>6. ZeroStays /\ UnbiasedStays
  BY <1>2, ZeroStaysStep, UnbiasedStaysStep
<1>7. HeldUnbiased' /\ FirstAlone' /\ IncFromHeld' /\ CreateFromHeld'
  BY <1>2, <1>4, <1>6, HeldStep, FirstStep, IncFromStep, CreateStep
<1>8. ObjectGone' /\ LastOnce' /\ DeletePending'
  BY <1>2, <1>4, <1>6, GoneStep, LastStep, PendingStep
<1>9. ZeroAlone' /\ ZeroDeletes' /\ NoLeak'
  BY <1>2, <1>4, <1>5, ZeroAloneStep, ZeroDelStep, NoLeakStep
<1> QED
  BY <1>2, <1>3, <1>4, <1>5, <1>7, <1>8, <1>9 DEF IInv

\* The invariant holds wherever promote() starts, as long as no wp is copied by
\* operator=(const wp&) and no first sp(T* ) races promote().
THEOREM Invariance ==
  ASSUME ~CopyAssign, ~RawRace
  PROVE  Spec => []IInv
<1>1. IInv /\ [Next]_vars => IInv'
  BY InvStep
<1> QED
  BY <1>1, InvInit, PTL DEF Spec

\* Each access of a running operation finds its memory alive.
LEMMA InvMemorySafe == IInv => MemorySafe
<1> SUFFICES ASSUME IInv PROVE MemorySafe
  OBVIOUS
<1>1. ASSUME NEW p \in Slots, pc[p] # "idle"
      PROVE  this[p] \in impls /\ this[p] # NULL
  BY <1>1, RefBaseAssumption DEF IInv, TypeOK, RefsAlive
<1>2. ASSUME NEW p \in Slots, pc[p] # "idle", mFlags[this[p]] = "WEAK"
      PROVE  this[p] \in objs
  BY <1>1, <1>2 DEF IInv, ObjectGone
<1>3. ASSUME NEW p \in Slots, pc[p] \in ObjectPcs
      PROVE  this[p] \in objs
  <2>1. CASE pc[p] = "inc_weak"
    BY <2>1, IncSource DEF IInv, Shape, SpPcs, IncPcs
  <2>2. CASE pc[p] \in {"force_weak", "try_ask"}
    BY <2>2, <1>2 DEF IInv, LifetimeKnown
  <2>3. CASE pc[p] = "create_weak"
    BY <2>3, CreateSource
  <2>4. CASE pc[p] \in {"inc_first", "try_last"}
    <3>1. p \in SpSlots /\ arg[p] = this[p] /\ pc[p] \in StrongNewPcs
      BY <2>4 DEF IInv, Shape, SpPcs, AcqPcs, IncPcs, TryPcs, StrongNewPcs
    <3> QED
      BY <2>4, <3>1, <1>1, ArgHeld
  <2>5. CASE pc[p] = "dec_strong"
    <3>1. p \in SpSlots /\ ptr[p] = this[p] /\ pc[p] \notin StrongOldPcs
      BY <2>5 DEF IInv, Shape, SpPcs, RelPcs, StrongOldPcs
    <3> QED
      BY <2>5, <3>1, <1>1, PtrHeld
  <2>6. CASE pc[p] \in {"last_strong", "delete"}
    <3>1. CASE mFlags[this[p]] = "STRONG"
      BY <2>6, <3>1 DEF IInv, LastOnce, Shape, SpPcs
    <3>2. CASE mFlags[this[p]] = "WEAK"
      BY <2>6, <3>2, <1>2
    <3> QED
      BY <2>6, <3>1, <3>2, <1>1 DEF IInv, TypeOK
  <2>7. CASE pc[p] = "dtor"
    BY <2>7 DEF IInv, ZeroDeletes
  <2> QED
    BY <1>3, <2>1, <2>2, <2>3, <2>4, <2>5, <2>6, <2>7 DEF ObjectPcs
<1> QED
  BY <1>1, <1>2, <1>3 DEF MemorySafe

\* A handle keeps what it points to alive.
LEMMA InvHandlesAlive == IInv => HandlesAlive
<1> SUFFICES ASSUME IInv, NEW p \in Slots, pc[p] = "idle", ptr[p] # NULL
             PROVE  /\ ptr[p] \in impls
                    /\ p \in SpSlots \/ mFlags[ptr[p]] = "WEAK" => ptr[p] \in objs
  BY DEF HandlesAlive
<1>1. ptr[p] \in impls
  BY DEF IInv, RefsAlive
<1>2. CASE p \in SpSlots
  BY <1>1, <1>2, PtrHeld DEF StrongOldPcs
<1>3. CASE mFlags[ptr[p]] = "WEAK"
  BY <1>1, <1>3 DEF IInv, ObjectGone
<1> QED
  BY <1>1, <1>2, <1>3

\* The assertions of the code follow from the exact counts.
LEMMA InvAssertsHold == IInv => AssertsHold
<1> SUFFICES ASSUME IInv PROVE AssertsHold
  OBVIOUS
<1>1. ASSUME NEW p \in Slots, pc[p] # "idle"
      PROVE  /\ this[p] \in impls /\ this[p] # NULL
             /\ mStrong[this[p]] \in Nat /\ mWeak[this[p]] \in Nat
  <2>1. this[p] \in impls /\ this[p] # NULL
    BY <1>1, RefBaseAssumption DEF IInv, TypeOK, RefsAlive
  <2>2. mWeak[this[p]] = WeakRefs(this[p])
    BY <2>1 DEF IInv, WeakCountExact, WeakRefs
  <2> QED
    BY <2>1, <2>2, StrongNat, WeakZero
<1>2. ASSUME NEW p \in Slots, pc[p] = "inc_strong"
      PROVE  mStrong[this[p]] > 0
  BY <1>1, <1>2, IncSource, BiasPositive DEF IInv, Shape, SpPcs, IncPcs
<1>3. ASSUME NEW p \in Slots, pc[p] = "dec_strong"
      PROVE  mStrong[this[p]] >= 1
  <2>1. p \in SpSlots /\ ptr[p] = this[p] /\ pc[p] \notin StrongOldPcs
    BY <1>3 DEF IInv, Shape, SpPcs, RelPcs, StrongOldPcs
  <2> QED
    BY <1>1, <1>3, <2>1, PtrHeld
<1>4. ASSUME NEW p \in Slots, pc[p] \in {"dec_weak", "undo_weak"}
      PROVE  mWeak[this[p]] >= 1
  <2>1. WeakPart(p, this[p]) # 0
    BY <1>1, <1>4 DEF IInv, Shape, RelPcs, AcqPcs, TryPcs, WeakPart, ZeroPcs, PreWeakPcs, WeakPcs
  <2> QED
    BY <1>1, <1>4, <2>1, WeakHolder
<1>5. ASSUME NEW p \in Slots, pc[p] = "fix_read"
      PROVE  mStrong[this[p]] # INITIAL_STRONG_VALUE
  <2>1. p \in SpSlots /\ arg[p] = this[p] /\ pc[p] \in StrongNewPcs
    BY <1>5 DEF IInv, Shape, SpPcs, AcqPcs, TryPcs, StrongNewPcs
  <2> QED
    BY <1>1, <1>5, <2>1, ArgHeld
<1> QED
  BY <1>1, <1>2, <1>3, <1>4, <1>5 DEF AssertsHold

\* For any number of slots: no operation touches freed memory, and an sp keeps
\* its object alive, a wp its weakref_impl.
THEOREM MemoryIsSafe ==
  ASSUME ~CopyAssign, ~RawRace
  PROVE  Spec => [](MemorySafe /\ HandlesAlive)
  BY Invariance, InvMemorySafe, InvHandlesAlive, PTL

\* mWeak is exactly the number of references held, of both kinds.
THEOREM WeakIsExact ==
  ASSUME ~CopyAssign, ~RawRace
  PROVE  Spec => []WeakCountExact
<1>1. IInv => WeakCountExact
  BY DEF IInv
<1> QED
  BY <1>1, Invariance, PTL

\* mStrong is exactly the number of strong references, plus the bias until it is
\* taken away.
THEOREM StrongIsExact ==
  ASSUME ~CopyAssign, ~RawRace
  PROVE  Spec => []StrongCountExact
<1>1. IInv => StrongCountExact
  BY DEF IInv
<1> QED
  BY <1>1, Invariance, PTL

\* So every ALOG_ASSERT of RefBase.cpp holds where it stands.
THEOREM AssertionsHold ==
  ASSUME ~CopyAssign, ~RawRace
  PROVE  Spec => []AssertsHold
  BY Invariance, InvAssertsHold, PTL

\* Whatever the order of the last releases, nothing is left behind.
THEOREM NothingLeaks ==
  ASSUME ~CopyAssign, ~RawRace
  PROVE  Spec => []NoLeak
<1>1. IInv => NoLeak
  BY DEF IInv
<1> QED
  BY <1>1, Invariance, PTL

\* promote() cannot revive an object of normal lifetime.
THEOREM DeadStaysDead ==
  ASSUME ~CopyAssign, ~RawRace
  PROVE  Spec => NoResurrection
<1>1. IInv /\ [Next]_vars =>
        [\A o \in impls \cap impls' :
           mFlags[o] = "STRONG" /\ mStrong[o] = 0 => mStrong'[o] = 0]_vars
  <2> SUFFICES ASSUME IInv, [Next]_vars
               PROVE  \A o \in impls \cap impls' :
                        mFlags[o] = "STRONG" /\ mStrong[o] = 0 => mStrong'[o] = 0
    OBVIOUS
  <2>1. TypeOK'
    BY TypeStep DEF IInv
  <2> QED
    BY <2>1, ZeroStaysStep DEF ZeroStays
<1> QED
  BY <1>1, Invariance, PTL DEF Spec, NoResurrection

\* The bias of mStrong is removed once and the count never underflows or
\* reaches the bias again.
THEOREM BiasGoesOnce ==
  ASSUME ~CopyAssign, ~RawRace
  PROVE  Spec => BiasRemovedOnce
<1>1. IInv /\ [Next]_vars =>
        [\A o \in impls \cap impls' :
           mStrong[o] < INITIAL_STRONG_VALUE
             => mStrong'[o] \in 0..(INITIAL_STRONG_VALUE - 1)]_vars
  <2> SUFFICES ASSUME IInv, [Next]_vars
               PROVE  \A o \in impls \cap impls' :
                        mStrong[o] < INITIAL_STRONG_VALUE
                          => mStrong'[o] \in 0..(INITIAL_STRONG_VALUE - 1)
    OBVIOUS
  <2>1. TypeOK'
    BY TypeStep DEF IInv
  <2> QED
    BY <2>1, UnbiasedStaysStep DEF UnbiasedStays
<1> QED
  BY <1>1, Invariance, PTL DEF Spec, BiasRemovedOnce
-----------------------------------------------------------------------------
(* The implementor's callbacks, when promote() waits for the first sp<T>.   *)

\* When promote() waits for the first sp<T>, what it finds stays that way.
LEMMA BiasGoneStep ==
  ASSUME ~CopyAssign, ~RawRace, ~EarlyPromote, IInv, BiasGoneBefore,
         RefsAlive', UnbiasedStays, TypeOK', [Next]_vars
  PROVE  BiasGoneBefore'
<1> USE RefBaseAssumption DEF IInv, TypeOK, Shape, RefsAlive, LifetimeKnown, BiasGoneBefore, UnbiasedStays, Slots, Pcs, IncPcs, TryPcs, WeakPcs, DecPcs, AcqPcs, RelPcs, ZeroPcs, SpPcs,
        PreWeakPcs, Goto, Step, Return, Release, ReleaseLabel, Acquired, heap, words, regs
<1>1. ASSUME NEW p \in SpSlots, NEW o \in Objects, SpNew(p, o)
      PROVE  BiasGoneBefore'
  BY <1>1 DEF SpNew, Construct, Begin, Free
<1>2. ASSUME NEW p \in SpSlots, NEW q \in Slots,
             \/ q \in SpSlots /\ SpFromSp(p, q)
             \/ q \in WpSlots /\ (SpFromRaw(p, q) \/ SpForceSet(p, q) \/ Promote(p, q))
      PROVE  BiasGoneBefore'
  BY <1>2 DEF SpFromSp, SpFromRaw, SpForceSet, Promote, Begin, Free, Readable
<1>3. ASSUME NEW p \in WpSlots, NEW o \in Objects, WpNew(p, o)
      PROVE  BiasGoneBefore'
  BY <1>3 DEF WpNew, Construct, Begin, Free
<1>4. ASSUME NEW p \in WpSlots, NEW q \in Slots,
             \/ q \in SpSlots /\ WpFromSp(p, q)
             \/ q \in WpSlots /\ (WpFromWp(p, q) \/ WpAttempt(p, q))
      PROVE  BiasGoneBefore'
  BY <1>4 DEF WpFromSp, WpFromWp, WpAttempt, Begin, Free, Readable
<1>5. ASSUME NEW p \in Slots, NEW q \in Slots,
             Clear(p) \/ (p \in WpSlots /\ q \in WpSlots /\ WpAssignWp(p, q))
      PROVE  BiasGoneBefore'
  BY <1>5 DEF Clear, WpAssignWp, Free, Readable
<1>6. ASSUME NEW p \in Slots,
             IncWeak(p) \/ IncStrong(p) \/ ForceIncStrong(p) \/ SubInitial(p) \/ OnFirstRef(p)
      PROVE  BiasGoneBefore'
  BY <1>6 DEF IncWeak, IncStrong, ForceIncStrong, SubInitial, OnFirstRef
<1>7. ASSUME NEW p \in Slots,
             TryRead(p) \/ TryCas(p) \/ TryAsk(p) \/ TryLast(p) \/ TryCasNever(p) \/ TryInc(p)
      PROVE  BiasGoneBefore'
  BY <1>7 DEF TryRead, Normal, TryCas, TryAsk, TryLast, TryCasNever, TryInc, AfterHard, Unneeded
<1>8. ASSUME NEW p \in Slots,
             FixRead(p) \/ FixCas(p) \/ WeakRead(p) \/ WeakCas(p) \/ DecStrong(p) \/ OnLastStrongRef(p)
      PROVE  BiasGoneBefore'
  BY <1>8 DEF FixRead, FixCas, WeakRead, WeakCas, DecStrong, OnLastStrongRef, AfterLast, Last
<1>9. ASSUME NEW p \in Slots, DecWeak(p) \/ LastWeak(p) \/ Destroy(p) \/ FreeRefs(p)
      PROVE  BiasGoneBefore'
  BY <1>9 DEF DecWeak, LastWeak, Orphan, Destroy, OwnsRefs, FreeRefs
<1>10. CASE UNCHANGED vars
  BY <1>10 DEF vars
<1> QED
  BY <1>1, <1>2, <1>3, <1>4, <1>5, <1>6, <1>7, <1>8, <1>9, <1>10
     DEF Next, Client, SpBegin, WpBegin, Run

\* What slot p adds to the credit of o.
CreditPart(p, o) ==
  (IF p \in SpSlots /\ this[p] = o /\ pc[p] \in {"last_strong", "try_inc", "try_last"} THEN 1 ELSE 0)
  - (IF p \in SpSlots /\ this[p] = o /\ pc[p] \in {"inc_sub", "inc_first"} THEN 1 ELSE 0)

CreditRefs(o) == Cardinality(Granted(o)) - Cardinality(Owed(o))

\* What a slot adds, and all slots together, is an integer.
LEMMA CreditTypes ==
  ASSUME NEW p, NEW o
  PROVE  /\ CreditPart(p, o) \in Int /\ CreditPart(p, o)' \in Int
         /\ CreditRefs(o) \in Int /\ CreditRefs(o)' \in Int
         /\ Counted(o) \in Int /\ Counted(o)' \in Int
         /\ IsFiniteSet(Granted(o)) /\ IsFiniteSet(Owed(o))
         /\ IsFiniteSet(Granted(o)') /\ IsFiniteSet(Owed(o)')
<1>1. /\ Granted(o) \subseteq SpSlots /\ Owed(o) \subseteq SpSlots
      /\ Granted(o)' \subseteq SpSlots /\ Owed(o)' \subseteq SpSlots
  BY DEF Granted, Owed
<1>2. /\ IsFiniteSet(Granted(o)) /\ IsFiniteSet(Owed(o))
      /\ IsFiniteSet(Granted(o)') /\ IsFiniteSet(Owed(o)')
  BY <1>1, SlotsFinite, FS_Subset
<1>3. /\ Cardinality(Granted(o)) \in Nat /\ Cardinality(Owed(o)) \in Nat
      /\ Cardinality(Granted(o)') \in Nat /\ Cardinality(Owed(o)') \in Nat
  BY <1>2, FS_CardinalityType
<1> QED
  BY <1>2, <1>3 DEF CreditPart, CreditRefs, Counted

\* A step of p changes the credit that is due by what p adds.
LEMMA CreditDelta ==
  ASSUME NEW p \in Slots, NEW o,
         \A q \in Slots \ {p} : pc'[q] = pc[q] /\ this'[q] = this[q]
  PROVE  CreditRefs(o)' = CreditRefs(o) + CreditPart(p, o)' - CreditPart(p, o)
<1>1. Granted(o)' \ {p} = Granted(o) \ {p} /\ Owed(o)' \ {p} = Owed(o) \ {p}
  BY SlotsFinite DEF Granted, Owed
<1>2. /\ Cardinality(Granted(o)) \in Nat /\ Cardinality(Owed(o)) \in Nat
      /\ Cardinality(Granted(o)') \in Nat /\ Cardinality(Owed(o)') \in Nat
  BY CreditTypes, FS_CardinalityType
<1>3. Cardinality(Granted(o)') - (IF p \in Granted(o)' THEN 1 ELSE 0)
        = Cardinality(Granted(o)) - (IF p \in Granted(o) THEN 1 ELSE 0)
  BY <1>1, CreditTypes, CardinalityExceptAt
<1>4. Cardinality(Owed(o)') - (IF p \in Owed(o)' THEN 1 ELSE 0)
        = Cardinality(Owed(o)) - (IF p \in Owed(o) THEN 1 ELSE 0)
  BY <1>1, CreditTypes, CardinalityExceptAt
<1>5. CreditPart(p, o) = (IF p \in Granted(o) THEN 1 ELSE 0) - (IF p \in Owed(o) THEN 1 ELSE 0)
  BY DEF CreditPart, Granted, Owed
<1>6. CreditPart(p, o)' = (IF p \in Granted(o)' THEN 1 ELSE 0) - (IF p \in Owed(o)' THEN 1 ELSE 0)
  BY DEF CreditPart, Granted, Owed
<1> QED
  BY <1>2, <1>3, <1>4, <1>5, <1>6 DEF CreditRefs

\* A step after which the credit moved with what p adds and with the count.
CreditBalance(p) ==
  /\ \A q \in Slots \ {p} : pc'[q] = pc[q] /\ this'[q] = this[q]
  /\ impls' \subseteq impls
  /\ \A o \in impls' :
       credit'[o] - credit[o] = Counted(o)' - Counted(o) + CreditPart(p, o)' - CreditPart(p, o)

\* Such a step keeps the credit exact.
LEMMA CreditBalanced ==
  ASSUME NEW p \in Slots, CreditBalance(p), TypeOK, TypeOK', CreditExact
  PROVE  CreditExact'
<1> SUFFICES ASSUME NEW o \in impls'
             PROVE  credit'[o] = Counted(o)' + CreditRefs(o)'
  BY CreditTypes, FS_CardinalityType DEF CreditExact, CreditRefs
<1>1. o \in impls /\ credit[o] = Counted(o) + CreditRefs(o)
  BY CreditTypes, FS_CardinalityType DEF CreditBalance, CreditExact, CreditRefs
<1>2. credit[o] \in Int /\ credit'[o] \in Int
  BY <1>1 DEF TypeOK
<1>3. CreditRefs(o)' = CreditRefs(o) + CreditPart(p, o)' - CreditPart(p, o)
  BY CreditDelta DEF CreditBalance
<1>4. credit'[o] - credit[o] = Counted(o)' - Counted(o) + CreditPart(p, o)' - CreditPart(p, o)
  BY DEF CreditBalance
<1> QED
  BY <1>1, <1>2, <1>3, <1>4, CreditTypes

\* A new object has no credit, and nobody works on it yet.
LEMMA ConstructCredit ==
  ASSUME NEW p \in Slots, NEW o \in Objects, Construct(o), pc[p] = "idle",
         \A q \in Slots \ {p} : pc'[q] = pc[q] /\ this'[q] = this[q],
         pc'[p] \in {"inc_weak", "create_weak"},
         TypeOK, TypeOK', RefsAlive, CreditExact
  PROVE  CreditExact'
<1> SUFFICES ASSUME NEW x \in impls'
             PROVE  credit'[x] = Counted(x)' + CreditRefs(x)'
  BY CreditTypes, FS_CardinalityType DEF CreditExact, CreditRefs
<1>1. CreditPart(p, x) = 0 /\ CreditPart(p, x)' = 0
  BY DEF CreditPart
<1>2. CreditRefs(x)' = CreditRefs(x)
  BY <1>1, CreditDelta, CreditTypes
<1>3. CASE x = o
  <2>1. credit'[x] = 0 /\ Counted(x)' = 0
    BY <1>3 DEF Construct, Counted, TypeOK
  <2>2. Granted(x) = {} /\ Owed(x) = {}
    BY <1>3, SlotsFinite, RefBaseAssumption DEF Construct, RefsAlive, Granted, Owed
  <2>3. CreditRefs(x) = 0
    BY <2>2, FS_EmptySet DEF CreditRefs
  <2> QED
    BY <1>2, <2>1, <2>3
<1>4. CASE x # o
  <2>1. x \in impls /\ credit'[x] = credit[x] /\ Counted(x)' = Counted(x)
    BY <1>4 DEF Construct, Counted, TypeOK
  <2>2. credit[x] = Counted(x) + CreditRefs(x)
    BY <2>1, CreditTypes, FS_CardinalityType DEF CreditExact, CreditRefs
  <2> QED
    BY <1>2, <2>1, <2>2
<1> QED
  BY <1>3, <1>4

\* Every step keeps the credit exact.
LEMMA CreditStep ==
  ASSUME ~CopyAssign, ~RawRace, ~EarlyPromote, IInv, BiasGoneBefore, CreditExact,
         TypeOK', [Next]_vars
  PROVE  CreditExact'
<1> USE RefBaseAssumption DEF IInv, TypeOK, Shape, RefsAlive, Slots, Pcs, IncPcs, TryPcs, WeakPcs, DecPcs, AcqPcs, RelPcs, ZeroPcs, SpPcs,
        PreWeakPcs, Goto, Step, Return, Release, ReleaseLabel, Acquired, heap, words, regs
<1>1. ASSUME NEW p \in SpSlots, NEW o \in Objects, SpNew(p, o)
      PROVE  CreditExact'
  <2>1. /\ Construct(o) /\ pc[p] = "idle" /\ pc'[p] \in {"inc_weak", "create_weak"}
        /\ \A q \in Slots \ {p} : pc'[q] = pc[q] /\ this'[q] = this[q]
    BY <1>1 DEF SpNew, Begin, Free
  <2> QED
    BY <2>1, ConstructCredit
<1>2. ASSUME NEW p \in SpSlots, NEW q \in Slots,
             \/ q \in SpSlots /\ SpFromSp(p, q)
             \/ q \in WpSlots /\ (SpFromRaw(p, q) \/ SpForceSet(p, q) \/ Promote(p, q))
      PROVE  CreditExact'
  <2>1. CreditBalance(p)
    BY <1>2 DEF CreditBalance, CreditPart, Counted, SpFromSp, SpFromRaw, SpForceSet, Promote, Begin, Free, Readable
  <2> QED
    BY <2>1, CreditBalanced
<1>3. ASSUME NEW p \in WpSlots, NEW o \in Objects, WpNew(p, o)
      PROVE  CreditExact'
  <2>1. /\ Construct(o) /\ pc[p] = "idle" /\ pc'[p] \in {"inc_weak", "create_weak"}
        /\ \A q \in Slots \ {p} : pc'[q] = pc[q] /\ this'[q] = this[q]
    BY <1>3 DEF WpNew, Begin, Free
  <2> QED
    BY <2>1, ConstructCredit
<1>4. ASSUME NEW p \in WpSlots, NEW q \in Slots,
             \/ q \in SpSlots /\ WpFromSp(p, q)
             \/ q \in WpSlots /\ (WpFromWp(p, q) \/ WpAttempt(p, q))
      PROVE  CreditExact'
  <2>1. CreditBalance(p)
    BY <1>4 DEF CreditBalance, CreditPart, Counted, WpFromSp, WpFromWp, WpAttempt, Begin, Free, Readable
  <2> QED
    BY <2>1, CreditBalanced
<1>5. ASSUME NEW p \in Slots, NEW q \in Slots,
             Clear(p) \/ (p \in WpSlots /\ q \in WpSlots /\ WpAssignWp(p, q))
      PROVE  CreditExact'
  <2>1. CreditBalance(p)
    BY <1>5 DEF CreditBalance, CreditPart, Counted, Clear, WpAssignWp, Free, Readable
  <2> QED
    BY <2>1, CreditBalanced
<1>6. ASSUME NEW p \in Slots,
             IncWeak(p) \/ IncStrong(p) \/ ForceIncStrong(p) \/ SubInitial(p) \/ OnFirstRef(p)
      PROVE  CreditExact'
  <2>1. ASSUME IncWeak(p) \/ OnFirstRef(p) PROVE CreditBalance(p)
    BY <2>1 DEF CreditBalance, CreditPart, Counted, IncWeak, OnFirstRef
  <2>2. ASSUME IncStrong(p) PROVE CreditBalance(p)
    <3>1. this[p] \in Objects /\ (mStrong[this[p]] # INITIAL_STRONG_VALUE =>
            mStrong[this[p]] >= 1 /\ mStrong[this[p]] + 1 < INITIAL_STRONG_VALUE)
      BY <2>2, IncSource, UnbiasedExact DEF IncStrong
    <3> QED
      BY <2>2, <3>1, BiasPositive DEF CreditBalance, CreditPart, Counted, IncStrong
  <2>3. ASSUME ForceIncStrong(p) PROVE CreditBalance(p)
    <3>1. this[p] \in impls /\ mStrong[this[p]] \in Nat
      BY <2>3, StrongNat DEF ForceIncStrong
    <3>2. mStrong[this[p]] # INITIAL_STRONG_VALUE => mStrong[this[p]] + 1 < INITIAL_STRONG_VALUE
      BY <2>3, <3>1, ForceSource, UnbiasedExact DEF ForceIncStrong
    <3> QED
      BY <2>3, <3>1, <3>2, BiasPositive DEF CreditBalance, CreditPart, Counted, ForceIncStrong
  <2>4. ASSUME SubInitial(p) PROVE CreditBalance(p)
    <3>1. /\ this[p] \in impls /\ mStrong[this[p]] >= INITIAL_STRONG_VALUE
          /\ mStrong[this[p]] # INITIAL_STRONG_VALUE
          /\ mStrong[this[p]] - INITIAL_STRONG_VALUE < INITIAL_STRONG_VALUE
      BY <2>4, ArgHeld, BiasBound DEF SubInitial, StrongNewPcs, HeldUnbiased
    <3> QED
      BY <2>4, <3>1, BiasPositive DEF CreditBalance, CreditPart, Counted, SubInitial
  <2> QED
    BY <1>6, <2>1, <2>2, <2>3, <2>4, CreditBalanced
<1>7. ASSUME NEW p \in Slots,
             TryRead(p) \/ TryCas(p) \/ TryAsk(p) \/ TryLast(p) \/ TryCasNever(p) \/ TryInc(p)
      PROVE  CreditExact'
  <2>1. ASSUME TryRead(p) \/ TryAsk(p) \/ TryLast(p) \/ TryCasNever(p) PROVE CreditBalance(p)
    BY <2>1 DEF CreditBalance, CreditPart, Counted, BiasGoneBefore, TryRead, Normal, TryAsk, TryLast, TryCasNever
  <2>2. ASSUME TryCas(p) \/ TryInc(p) PROVE CreditBalance(p)
    <3>1. /\ this[p] \in impls /\ mStrong[this[p]] \in Nat
          /\ mStrong[this[p]] + 1 < INITIAL_STRONG_VALUE
      BY <2>2, UnbiasedExact DEF TryCas, TryInc, BiasGoneBefore
    <3>2. pc[p] = "try_cas" => cur[p] > 0
      BY DEF CurTested
    <3> QED
      BY <2>2, <3>1, <3>2, BiasPositive DEF CreditBalance, CreditPart, Counted, TryCas, TryInc, AfterHard, Unneeded
  <2> QED
    BY <1>7, <2>1, <2>2, CreditBalanced
<1>8. ASSUME NEW p \in Slots,
             FixRead(p) \/ FixCas(p) \/ WeakRead(p) \/ WeakCas(p) \/ DecStrong(p) \/ OnLastStrongRef(p)
      PROVE  CreditExact'
  <2>1. ASSUME FixRead(p) \/ FixCas(p) \/ WeakRead(p) \/ WeakCas(p) \/ OnLastStrongRef(p)
        PROVE  CreditBalance(p)
    BY <2>1 DEF CreditBalance, CreditPart, Counted, BiasGoneBefore, FixRead, FixCas, WeakRead, WeakCas, OnLastStrongRef, AfterLast
  <2>2. ASSUME DecStrong(p) PROVE CreditBalance(p)
    <3>1. /\ this[p] \in Objects /\ mStrong[this[p]] >= 1
          /\ mStrong[this[p]] < INITIAL_STRONG_VALUE
      BY <2>2, PtrHeld DEF DecStrong, StrongOldPcs
    <3> QED
      BY <2>2, <3>1, BiasPositive DEF CreditBalance, CreditPart, Counted, DecStrong, Last
  <2> QED
    BY <1>8, <2>1, <2>2, CreditBalanced
<1>9. ASSUME NEW p \in Slots, DecWeak(p) \/ LastWeak(p) \/ Destroy(p) \/ FreeRefs(p)
      PROVE  CreditExact'
  <2>1. CreditBalance(p)
    BY <1>9 DEF CreditBalance, CreditPart, Counted, DecWeak, LastWeak, Orphan, Destroy, OwnsRefs, FreeRefs
  <2> QED
    BY <2>1, CreditBalanced
<1>10. CASE UNCHANGED vars
  BY <1>10 DEF vars, CreditExact, Counted, Granted, Owed
<1> QED
  BY <1>1, <1>2, <1>3, <1>4, <1>5, <1>6, <1>7, <1>8, <1>9, <1>10
     DEF Next, Client, SpBegin, WpBegin, Run

\* No grant is outstanding at the start.
LEMMA CallbacksInit == Init => BiasGoneBefore /\ CreditExact
  BY DEF Init, BiasGoneBefore, TryPcs, CreditExact

\* The two together are inductive with the invariant.
LEMMA CallbacksInv ==
  ASSUME ~CopyAssign, ~RawRace, ~EarlyPromote
  PROVE  Spec => [](IInv /\ BiasGoneBefore /\ CreditExact)
<1>1. ASSUME IInv, BiasGoneBefore, CreditExact, [Next]_vars
      PROVE  IInv' /\ BiasGoneBefore' /\ CreditExact'
  <2>1. IInv' /\ TypeOK' /\ RefsAlive'
    BY <1>1, InvStep DEF IInv
  <2>2. UnbiasedStays
    BY <1>1, <2>1, UnbiasedStaysStep
  <2> QED
    BY <1>1, <2>1, <2>2, BiasGoneStep, CreditStep
<1> QED
  BY <1>1, InvInit, CallbacksInit, PTL DEF Spec

\* With every operation returned the exact credit is what the sp<T>s promise.
LEMMA CreditPairs == IInv /\ CreditExact => CallbacksPair
<1> SUFFICES ASSUME IInv, CreditExact, \A p \in Slots : pc[p] = "idle", NEW o \in objs
             PROVE  credit[o] = IF \E p \in SpSlots : ptr[p] = o THEN 1 ELSE 0
  BY DEF CallbacksPair
<1>1. o \in impls /\ o # NULL
  BY RefBaseAssumption DEF IInv, TypeOK
<1>2. Granted(o) = {} /\ Owed(o) = {}
  BY SlotsFinite DEF Granted, Owed
<1>3. credit[o] = Counted(o) + 0 - 0
  BY <1>1, <1>2, FS_EmptySet DEF CreditExact
<1>4. CASE \E p \in SpSlots : ptr[p] = o
  <2>1. PICK p \in SpSlots : ptr[p] = o
    BY <1>4
  <2>2. mStrong[o] >= 1 /\ mStrong[o] < INITIAL_STRONG_VALUE
    BY <1>1, <2>1, PtrHeld, SlotsFinite DEF StrongOldPcs
  <2> QED
    BY <1>3, <1>4, <2>2, BiasPositive DEF Counted
<1>5. CASE ~\E p \in SpSlots : ptr[p] = o
  <2>1. \A q \in SpSlots : StrongPart(q, o) = 0
    BY <1>5, SlotsFinite DEF StrongPart, StrongNewPcs, DecPcs
  <2>2. StrongRefs(o) = 0
    BY <2>1, StrongBounds
  <2>3. mStrong[o] \in {0, INITIAL_STRONG_VALUE}
    BY <1>1, <2>2, BiasPositive DEF IInv, StrongCountExact, StrongRefs
  <2> QED
    BY <1>3, <1>5, <2>3 DEF Counted
<1> QED
  BY <1>4, <1>5

\* A normal object is told of its last strong reference when no sp<T> holds it.
LEMMA LastTold == IInv /\ BiasGoneBefore => LastRefUnheld
<1> SUFFICES ASSUME IInv, BiasGoneBefore, NEW p \in Slots, pc[p] \in {"last_strong", "try_last"},
                    mFlags[this[p]] = "STRONG", NEW q \in SpSlots, pc[q] = "idle", ptr[q] = this[p]
             PROVE  FALSE
  BY DEF LastRefUnheld
<1>1. pc[p] = "last_strong" /\ p \in SpSlots
  BY DEF BiasGoneBefore, IInv, Shape, SpPcs
<1>2. mStrong[this[p]] = 0
  BY <1>1 DEF IInv, LastOnce
<1>3. ptr[q] # NULL
  BY <1>1, RefBaseAssumption DEF IInv, TypeOK
<1> QED
  BY <1>2, <1>3, PtrHeld DEF StrongOldPcs

\* Where promote() waits for the first sp<T>, onFirstRef() and
\* onIncStrongAttempted() are matched by onLastStrongRef() whatever the
\* interleaving: when all is quiet one grant is left if the object is held.
THEOREM CallbacksArePaired ==
  ASSUME ~CopyAssign, ~RawRace, ~EarlyPromote
  PROVE  Spec => []CallbacksPair
  BY CallbacksInv, CreditPairs, PTL

\* And the last strong reference of a normal object is reported when it is the
\* last: no sp<T> at rest still holds the object.
THEOREM LastIsLast ==
  ASSUME ~CopyAssign, ~RawRace, ~EarlyPromote
  PROVE  Spec => []LastRefUnheld
  BY CallbacksInv, LastTold, PTL

-----------------------------------------------------------------------------
(* RefBase implements Handles: every step on the words and registers is,    *)
(* for each cell, one step of the abstract object or none at all.           *)

\* A first reference on a new object is taken by sp(T* ) or wp(T* ) and finds the
\* initial count.
FirstKnown ==
  \A p \in Slots : src[p] = NULL =>
    /\ pc[p] \notin {"force_weak", "try_weak"}
    /\ pc[p] = "create_weak" => mStrong[this[p]] = INITIAL_STRONG_VALUE

\* What is true of the cell x in a step of slot p that works on another cell.
Elsewhere(p, x) ==
  /\ mStrong'[x] = mStrong[x] /\ mWeak'[x] = mWeak[x] /\ mFlags'[x] = mFlags[x]
  /\ x \in impls' <=> x \in impls
  /\ x \in objs' <=> x \in objs
  /\ WeakPart(p, x)' = WeakPart(p, x)
  /\ StrongPart(p, x)' = StrongPart(p, x)
  /\ this'[p] = x => \E q \in Slots : ptr[q] = x /\ pc[q] \notin ZeroPcs

\* The step changes the registers of slot p only.
Alone(p) == OthersSame(p) /\ \A q \in Slots \ {p} : this'[q] = this[q]

\* The step is one of the abstract object in cell x, or is nothing to it.
Keeps(x) == UNCHANGED Handle(x)!vars \/ Handle(x)!Next

-----------------------------------------------------------------------------
(* The refinement mapping, by cases.                                        *)

\* The abstract state of a cell.
LEMMA StateIs ==
  ASSUME NEW o, objs \subseteq impls
  PROVE  /\ o \notin impls => State(o) = "none"
         /\ o \in impls \ objs => State(o) = "husk"
         /\ o \in objs /\ mStrong[o] # INITIAL_STRONG_VALUE => State(o) = "strong"
         /\ o \in objs /\ mStrong[o] = INITIAL_STRONG_VALUE /\ Untouched(o)
              => State(o) = "fresh"
         /\ o \in objs /\ mStrong[o] = INITIAL_STRONG_VALUE /\ ~Untouched(o)
              => State(o) = "weak"
  BY DEF State

\* The abstract state of a cell after a step.
LEMMA StateNext ==
  ASSUME NEW o, (objs \subseteq impls)'
  PROVE  /\ o \notin impls' => State(o)' = "none"
         /\ o \in impls' \ objs' => State(o)' = "husk"
         /\ o \in objs' /\ mStrong'[o] # INITIAL_STRONG_VALUE => State(o)' = "strong"
         /\ o \in objs' /\ mStrong'[o] = INITIAL_STRONG_VALUE /\ Untouched(o)'
              => State(o)' = "fresh"
         /\ o \in objs' /\ mStrong'[o] = INITIAL_STRONG_VALUE /\ ~Untouched(o)'
              => State(o)' = "weak"
  BY DEF State

\* It does not change with the counts the words held before.
LEMMA StateSame ==
  ASSUME NEW o, objs \subseteq impls, (objs \subseteq impls)',
         o \in impls' <=> o \in impls, o \in objs' <=> o \in objs,
         mStrong'[o] = mStrong[o], Untouched(o)' <=> Untouched(o)
  PROVE  State(o)' = State(o)
  BY StateIs, StateNext

\* The abstract counts are sums of parts, so a step moves them by what it does
\* to the part of the slot that takes it.
LEMMA RefsMove ==
  ASSUME NEW p \in Slots, NEW o, OthersSame(p)
  PROVE  /\ WeakRefs(o) \in Nat /\ StrongRefs(o) \in Nat
         /\ WeakPart(p, o)' = WeakPart(p, o) => WeakRefs(o)' = WeakRefs(o)
         /\ StrongPart(p, o)' = StrongPart(p, o) => StrongRefs(o)' = StrongRefs(o)
         /\ WeakPart(p, o)' = WeakPart(p, o) + 1 => WeakRefs(o)' = WeakRefs(o) + 1
         /\ StrongPart(p, o)' = StrongPart(p, o) + 1 => StrongRefs(o)' = StrongRefs(o) + 1
         /\ WeakPart(p, o)' = WeakPart(p, o) - 1 => WeakRefs(o)' = WeakRefs(o) - 1
         /\ StrongPart(p, o)' = StrongPart(p, o) - 1 => StrongRefs(o)' = StrongRefs(o) - 1
<1>1. /\ WeakRefs(o) \in Nat /\ WeakRefs(o)' \in Nat
      /\ WeakRefs(o)' = WeakRefs(o) + WeakPart(p, o)' - WeakPart(p, o)
      /\ StrongRefs(o) \in Nat /\ StrongRefs(o)' \in Nat
      /\ StrongRefs(o)' = StrongRefs(o) + StrongPart(p, o)' - StrongPart(p, o)
  BY WeakDelta, StrongDelta
<1> QED
  BY <1>1, PartTypes

\* Every strong reference comes with a weak one, and a slot that has a weak one
\* alone makes the difference.
LEMMA StrongBelowWeak ==
  ASSUME NEW p \in Slots, NEW o, StrongPart(p, o) < WeakPart(p, o)
  PROVE  StrongRefs(o) < WeakRefs(o)
<1>1. StrongOld(o) \subseteq WeakOld(o) /\ StrongNew(o) \subseteq WeakNew(o)
  BY SlotsFinite DEF StrongOld, WeakOld, StrongNew, WeakNew, DecPcs, WeakPcs
<1>2. /\ Cardinality(StrongOld(o)) \in Nat /\ Cardinality(WeakOld(o)) \in Nat
      /\ Cardinality(StrongNew(o)) \in Nat /\ Cardinality(WeakNew(o)) \in Nat
  BY CountedFinite, FS_CardinalityType
<1>3. /\ Cardinality(StrongOld(o)) <= Cardinality(WeakOld(o))
      /\ Cardinality(StrongNew(o)) <= Cardinality(WeakNew(o))
  BY <1>1, CountedFinite, FS_Subset
<1>4. p \in WeakOld(o) \ StrongOld(o) \/ p \in WeakNew(o) \ StrongNew(o)
  BY DEF StrongPart, WeakPart, StrongOld, StrongNew, WeakOld, WeakNew,
         StrongOldPcs, StrongNewPcs, ZeroPcs, PreWeakPcs
<1>5. ASSUME p \in WeakOld(o) \ StrongOld(o)
      PROVE  Cardinality(StrongOld(o)) < Cardinality(WeakOld(o))
  <2>1. StrongOld(o) # WeakOld(o)
    BY <1>5
  <2> QED
    BY <1>1, <2>1, <1>2, <1>3, CountedFinite, FS_Subset
<1>6. ASSUME p \in WeakNew(o) \ StrongNew(o)
      PROVE  Cardinality(StrongNew(o)) < Cardinality(WeakNew(o))
  <2>1. StrongNew(o) # WeakNew(o)
    BY <1>6
  <2> QED
    BY <1>1, <2>1, <1>2, <1>3, CountedFinite, FS_Subset
<1> QED
  BY <1>2, <1>3, <1>4, <1>5, <1>6 DEF StrongRefs, WeakRefs

\* A counted cell is not untouched.
LEMMA Touched ==
  ASSUME NEW o, mWeak[o] # 0
  PROVE  ~Untouched(o)
  BY DEF Untouched

\* Without the bias, and just below it, the strong references are mStrong.
LEMMA StrongIs ==
  ASSUME IInv, NEW o \in impls
  PROVE  /\ mStrong[o] \in Nat /\ StrongRefs(o) \in Nat
         /\ mStrong[o] = 0 => StrongRefs(o) = 0
         /\ mStrong[o] \notin {0, INITIAL_STRONG_VALUE} => StrongRefs(o) > 0
         /\ mStrong[o] + 1 # INITIAL_STRONG_VALUE
         /\ mStrong[o] > 0 => o \in objs
         /\ mWeak[o] = WeakRefs(o)
<1>1. mStrong[o] \in {StrongRefs(o), StrongRefs(o) + INITIAL_STRONG_VALUE}
  BY DEF IInv, StrongCountExact, StrongRefs
<1>2. StrongRefs(o) \in Nat /\ StrongRefs(o) + 1 < INITIAL_STRONG_VALUE
  BY StrongBounds
<1>3. mStrong[o] > 0 => o \in objs
  BY DEF IInv, ObjectGone
<1>4. mWeak[o] = WeakRefs(o)
  BY DEF IInv, WeakCountExact, WeakRefs
<1> QED
  BY <1>1, <1>2, <1>3, <1>4, BiasPositive
-----------------------------------------------------------------------------
(* Steps that are nothing to a cell.                                        *)

\* A step of p that works on another cell.
LEMMA ElsewhereKeeps ==
  ASSUME IInv, IInv', NEW p \in Slots, NEW x \in Objects,
         Alone(p), this[p] # x, Elsewhere(p, x)
  PROVE  UNCHANGED Handle(x)!vars
<1>1. WeakRefs(x)' = WeakRefs(x) /\ StrongRefs(x)' = StrongRefs(x)
  BY RefsMove DEF Alone, Elsewhere
<1>2. Untouched(x)' <=> Untouched(x)
  <2>1. CASE this'[p] = x
    <3>1. PICK q \in Slots : WeakPart(q, x) # 0 /\ x \in impls
      BY <2>1, RefBaseAssumption DEF Elsewhere, WeakPart, IInv, RefsAlive
    <3>2. mWeak[x] >= 1
      BY <3>1, WeakHolder
    <3> QED
      BY <3>2 DEF Elsewhere, Untouched
  <2>2. CASE this'[p] # x
    <3>1. \A q \in Slots : this'[q] = x <=> this[q] = x
      BY <2>2 DEF Alone
    <3>2. \A q \in Slots : this[q] = x => pc'[q] = pc[q]
      BY DEF Alone, OthersSame
    <3> QED
      BY <3>1, <3>2 DEF Untouched, Elsewhere
  <2> QED
    BY <2>1, <2>2
<1>3. State(x)' = State(x)
  BY <1>2, StateSame DEF Elsewhere, IInv
<1> QED
  BY <1>1, <1>3 DEF Elsewhere, Handle!vars, WeakRefs, StrongRefs

\* A step that only moves the program counter of a counted reference.
LEMMA SilentKeeps ==
  ASSUME IInv, IInv', NEW p \in Slots, NEW x \in Objects, Alone(p),
         mFlags'[x] = mFlags[x], x \in impls' <=> x \in impls, x \in objs' <=> x \in objs,
         WeakPart(p, x)' = WeakPart(p, x), StrongPart(p, x)' = StrongPart(p, x),
         x \in objs => \/ mStrong'[x] = mStrong[x] /\ ~Untouched(x) /\ ~Untouched(x)'
                       \/ INITIAL_STRONG_VALUE \notin {mStrong[x], mStrong'[x]}
  PROVE  UNCHANGED Handle(x)!vars
<1>1. WeakRefs(x)' = WeakRefs(x) /\ StrongRefs(x)' = StrongRefs(x)
  BY RefsMove DEF Alone
<1>2. State(x)' = State(x)
  <2>1. objs \subseteq impls /\ (objs \subseteq impls)'
    BY DEF IInv
  <2> QED
    BY <2>1, StateIs, StateNext
<1> QED
  BY <1>1, <1>2 DEF Handle!vars, WeakRefs, StrongRefs
-----------------------------------------------------------------------------
(* The creator of an object finds the initial count.                        *)

\* Nothing runs at first.
LEMMA FirstKnownInit == Init => FirstKnown
  BY DEF Init, FirstKnown

\* The creator is alone with the object, so nobody else changes the count.
LEMMA FirstKnownStep ==
  ASSUME ~CopyAssign, IInv, TypeOK', FirstKnown, [Next]_vars
  PROVE  FirstKnown'
<1> USE RefBaseAssumption DEF IInv, TypeOK, Shape, SrcKnown, RefsAlive, FreshAlone, OnlyUser, FirstKnown,
        Slots, Pcs, IncPcs, TryPcs, WeakPcs, DecPcs, AcqPcs, RelPcs, ZeroPcs, SpPcs, PreWeakPcs,
        Goto, Step, Return, Release, ReleaseLabel, Acquired, heap, words, regs
<1>1. ASSUME NEW p \in SpSlots, NEW o \in Objects, SpNew(p, o)
      PROVE  FirstKnown'
  BY <1>1 DEF SpNew, Construct, Begin, Free
<1>2. ASSUME NEW p \in SpSlots, NEW q \in Slots,
             \/ q \in SpSlots /\ SpFromSp(p, q)
             \/ q \in WpSlots /\ (SpFromRaw(p, q) \/ SpForceSet(p, q) \/ Promote(p, q))
      PROVE  FirstKnown'
  BY <1>2 DEF SpFromSp, SpFromRaw, SpForceSet, Promote, Begin, Free, Readable
<1>3. ASSUME NEW p \in WpSlots, NEW o \in Objects, WpNew(p, o)
      PROVE  FirstKnown'
  BY <1>3 DEF WpNew, Construct, Begin, Free
<1>4. ASSUME NEW p \in WpSlots, NEW q \in Slots,
             \/ q \in SpSlots /\ WpFromSp(p, q)
             \/ q \in WpSlots /\ (WpFromWp(p, q) \/ WpAttempt(p, q))
      PROVE  FirstKnown'
  BY <1>4 DEF WpFromSp, WpFromWp, WpAttempt, Begin, Free, Readable
<1>5. ASSUME NEW p \in Slots, NEW q \in Slots,
             Clear(p) \/ (p \in WpSlots /\ q \in WpSlots /\ WpAssignWp(p, q))
      PROVE  FirstKnown'
  BY <1>5 DEF Clear, WpAssignWp, Release, ReleaseLabel, Return, Free, Readable
<1>6. ASSUME NEW p \in Slots,
             IncWeak(p) \/ IncStrong(p) \/ ForceIncStrong(p) \/ SubInitial(p) \/
             OnFirstRef(p) \/ TryRead(p) \/ TryCas(p) \/ TryAsk(p) \/ TryLast(p)
      PROVE  FirstKnown'
  BY <1>6 DEF IncWeak, IncStrong, ForceIncStrong, SubInitial, OnFirstRef, TryRead, Normal, TryCas, TryAsk, TryLast
<1>7. ASSUME NEW p \in Slots,
             TryCasNever(p) \/ TryInc(p) \/ FixRead(p) \/ FixCas(p) \/ WeakRead(p) \/
             WeakCas(p) \/ DecStrong(p) \/ OnLastStrongRef(p)
      PROVE  FirstKnown'
  BY <1>7 DEF TryCasNever, TryInc, AfterHard, Unneeded, FixRead, FixCas, WeakRead, WeakCas, DecStrong, OnLastStrongRef, AfterLast, Last
<1>8. ASSUME NEW p \in Slots,
             DecWeak(p) \/ LastWeak(p) \/ Destroy(p) \/ FreeRefs(p)
      PROVE  FirstKnown'
  BY <1>8 DEF DecWeak, LastWeak, Orphan, Destroy, OwnsRefs, FreeRefs
<1>9. CASE UNCHANGED vars
  BY <1>9 DEF vars
<1> QED
  BY <1>1, <1>2, <1>3, <1>4, <1>5, <1>6, <1>7, <1>8, <1>9
     DEF Next, Client, SpBegin, WpBegin, Run

\* Every step of a running operation leaves the cells it does not work on alone.
LEMMA RunElsewhere ==
  ASSUME IInv, TypeOK', NEW p \in Slots, Run(p), NEW x \in Objects, this[p] # x
  PROVE  Alone(p) /\ Elsewhere(p, x)
<1> USE RefBaseAssumption DEF IInv, TypeOK, Shape, Alone, OthersSame, Elsewhere, WeakPart, StrongPart,
        StrongOldPcs, StrongNewPcs,
        Slots, Pcs, IncPcs, TryPcs, WeakPcs, DecPcs, AcqPcs, RelPcs, ZeroPcs, SpPcs, PreWeakPcs,
        Goto, Step, Return, Release, ReleaseLabel, Acquired, heap, words, regs
<1>1. CASE IncWeak(p)
  BY <1>1 DEF IncWeak
<1>2. CASE IncStrong(p) \/ ForceIncStrong(p) \/ SubInitial(p) \/ OnFirstRef(p)
  BY <1>2 DEF IncStrong, ForceIncStrong, SubInitial, OnFirstRef
<1>3. CASE TryRead(p) \/ TryCas(p) \/ TryAsk(p) \/ TryLast(p)
  BY <1>3 DEF TryRead, Normal, TryCas, TryAsk, TryLast
<1>4. CASE TryCasNever(p) \/ TryInc(p) \/ FixRead(p) \/ FixCas(p)
  BY <1>4 DEF TryCasNever, TryInc, AfterHard, Unneeded, FixRead, FixCas
<1>5. CASE WeakRead(p) \/ WeakCas(p)
  BY <1>5 DEF WeakRead, WeakCas
<1>6. CASE DecStrong(p) \/ OnLastStrongRef(p)
  BY <1>6 DEF DecStrong, OnLastStrongRef, AfterLast, Last
<1>7. CASE DecWeak(p)
  BY <1>7 DEF DecWeak
<1>8. CASE LastWeak(p) \/ Destroy(p) \/ FreeRefs(p)
  BY <1>8 DEF LastWeak, Orphan, Destroy, OwnsRefs, FreeRefs
<1> QED
  BY <1>1, <1>2, <1>3, <1>4, <1>5, <1>6, <1>7, <1>8 DEF Run
-----------------------------------------------------------------------------
(* Each operation, as the abstract object sees it.                          *)

\* The constructor creates the object in its cell.
LEMMA ConstructKeeps ==
  ASSUME IInv, IInv', NEW p \in Slots, NEW o \in Objects,
         \/ p \in SpSlots /\ SpNew(p, o)
         \/ p \in WpSlots /\ WpNew(p, o),
         NEW x \in Objects
  PROVE  Keeps(x)
<1>1. /\ Alone(p) /\ this[p] = NULL /\ ptr'[p] = ptr[p] /\ arg[p] = NULL /\ arg'[p] = o
      /\ pc[p] = "idle" /\ pc'[p] \in {"inc_weak", "create_weak"} /\ this'[p] = o
      /\ Construct(o)
  BY DEF IInv, TypeOK, Shape, SpNew, WpNew, Begin, Free, Goto, Alone, OthersSame
<1>2. WeakPart(p, x)' = WeakPart(p, x) /\ StrongPart(p, x)' = StrongPart(p, x)
  <2>1. x # NULL
    BY RefBaseAssumption
  <2> QED
    BY <1>1, <2>1 DEF WeakPart, StrongPart, ZeroPcs, PreWeakPcs, WeakPcs,
                      StrongOldPcs, StrongNewPcs, DecPcs
<1>3. CASE x # o
  <2>1. Elsewhere(p, x)
    BY <1>1, <1>2, <1>3 DEF Elsewhere, Construct, IInv, TypeOK
  <2>2. this[p] # x
    BY <1>1, RefBaseAssumption
  <2> QED
    BY <1>1, <2>1, <2>2, ElsewhereKeeps DEF Keeps
<1>4. CASE x = o
  <2>1. State(x) = "none"
    BY <1>1, <1>4, StateIs DEF IInv, Construct
  <2>2. /\ x \in objs' /\ mStrong'[x] = INITIAL_STRONG_VALUE /\ mWeak'[x] = 0
        /\ mFlags'[x] \in Lifetimes
    BY <1>1, <1>4 DEF Construct, IInv, TypeOK
  <2>3. \A q \in Slots : this'[q] = x => q = p
    BY <1>1, <1>4, RefBaseAssumption DEF Construct, IInv, RefsAlive, Alone
  <2>4. State(x)' = "fresh"
    BY <1>1, <2>2, <2>3, StateNext DEF IInv, Untouched
  <2>5. WeakRefs(x)' = WeakRefs(x) /\ StrongRefs(x)' = StrongRefs(x)
    BY <1>1, <1>2, RefsMove DEF Alone
  <2>6. Handle(x)!Create
    BY <2>1, <2>2, <2>4, <2>5 DEF Handle!Create, WeakRefs, StrongRefs
  <2> QED
    BY <2>6 DEF Keeps, Handle!Next
<1> QED
  BY <1>3, <1>4

\* An operation that begins takes no reference yet, and one that ends its old
\* reference still has it.
LEMMA BeginKeeps ==
  ASSUME ~CopyAssign, IInv, IInv', NEW p \in Slots, NEW q \in Slots,
         \/ Clear(p)
         \/ p \in SpSlots /\ q \in SpSlots /\ SpFromSp(p, q)
         \/ p \in SpSlots /\ q \in WpSlots /\ (SpFromRaw(p, q) \/ SpForceSet(p, q) \/ Promote(p, q))
         \/ p \in WpSlots /\ q \in SpSlots /\ WpFromSp(p, q)
         \/ p \in WpSlots /\ q \in WpSlots /\ (WpFromWp(p, q) \/ WpAttempt(p, q) \/ WpAssignWp(p, q)),
         NEW x \in Objects
  PROVE  Keeps(x)
<1>1. this[p] # x
  BY RefBaseAssumption
     DEF IInv, Shape, Clear, SpFromSp, SpFromRaw, SpForceSet, Promote, WpFromSp, WpFromWp, WpAttempt,
         WpAssignWp, Begin, Free
<1>2. Alone(p) /\ Elsewhere(p, x)
  BY RefBaseAssumption
     DEF IInv, TypeOK, Shape, Alone, OthersSame, Elsewhere, WeakPart, StrongPart,
         ZeroPcs, PreWeakPcs, WeakPcs, StrongOldPcs, StrongNewPcs, DecPcs, Slots,
         Clear, SpFromSp, SpFromRaw, SpForceSet, Promote, WpFromSp, WpFromWp, WpAttempt,
         WpAssignWp, Begin, Free, Readable, Release, ReleaseLabel, Return, Goto, heap, words
<1> QED
  BY <1>1, <1>2, ElsewhereKeeps DEF Keeps

\* A slot that counts a weak reference, or none but the creator's, takes one more.
LEMMA TakesWeak ==
  ASSUME IInv, IInv', NEW p \in Slots, NEW x \in Objects, Alone(p), x \in impls,
         mFlags'[x] = mFlags[x], mStrong'[x] = mStrong[x], mWeak'[x] # 0,
         x \in impls' <=> x \in impls, x \in objs' <=> x \in objs,
         WeakPart(p, x)' = WeakPart(p, x) + 1, StrongPart(p, x)' = StrongPart(p, x),
         mWeak[x] # 0 \/ State(x) = "fresh"
  PROVE  Keeps(x)
<1>1. WeakRefs(x)' = WeakRefs(x) + 1 /\ StrongRefs(x)' = StrongRefs(x)
  BY RefsMove DEF Alone
<1>2. mWeak[x] = WeakRefs(x) /\ WeakRefs(x) \in Nat
  BY StrongIs, WeakZero
<1>3. State(x)' = IF State(x) = "fresh" THEN "weak" ELSE State(x)
  <2>1. ~Untouched(x)' /\ (State(x) # "fresh" /\ mWeak[x] # 0 => ~Untouched(x))
    BY DEF Untouched
  <2>2. objs \subseteq impls /\ (objs \subseteq impls)'
    BY DEF IInv
  <2> QED
    BY <2>1, <2>2, StateIs, StateNext
<1>4. Handle(x)!TakeWeak
  BY <1>1, <1>2, <1>3 DEF Handle!TakeWeak, WeakRefs, StrongRefs
<1> QED
  BY <1>4 DEF Keeps, Handle!Next

\* Under a weak reference of its own a slot takes a strong one.
LEMMA TakesStrong ==
  ASSUME IInv, IInv', NEW p \in Slots, NEW x \in Objects, Alone(p), x \in impls,
         mFlags'[x] = mFlags[x], x \in impls' <=> x \in impls, x \in objs' <=> x \in objs,
         WeakPart(p, x)' = WeakPart(p, x), StrongPart(p, x)' = StrongPart(p, x) + 1,
         StrongPart(p, x) < WeakPart(p, x),
         mStrong'[x] = mStrong[x] + 1, x \in objs,
         mStrong[x] # 0 \/ mFlags[x] = "WEAK"
  PROVE  Keeps(x)
<1>1. WeakRefs(x)' = WeakRefs(x) /\ StrongRefs(x)' = StrongRefs(x) + 1
  BY RefsMove DEF Alone
<1>2. StrongRefs(x) < WeakRefs(x)
  BY StrongBelowWeak
<1>3. /\ mStrong[x] \in Nat /\ mStrong[x] + 1 # INITIAL_STRONG_VALUE
      /\ StrongRefs(x) \in Nat
      /\ mStrong[x] \notin {0, INITIAL_STRONG_VALUE} => StrongRefs(x) > 0
      /\ mWeak[x] = WeakRefs(x) /\ WeakRefs(x) \in Nat
  BY StrongIs, WeakZero
<1>4. objs \subseteq impls /\ (objs \subseteq impls)'
  BY DEF IInv
<1>5. State(x)' = "strong"
  BY <1>3, <1>4, StateNext
<1>6. /\ State(x) \in {"weak", "strong"}
      /\ State(x) = "strong" => mStrong[x] # INITIAL_STRONG_VALUE
  <2>1. ~Untouched(x)
    BY <1>2, <1>3 DEF Untouched
  <2> QED
    BY <2>1, <1>4, StateIs
<1>7. State(x) = "weak" \/ StrongRefs(x) > 0 \/ mFlags[x] = "WEAK"
  BY <1>3, <1>6
<1>8. Handle(x)!TakeStrong
  BY <1>1, <1>2, <1>5, <1>6, <1>7 DEF Handle!TakeStrong, WeakRefs, StrongRefs
<1> QED
  BY <1>8 DEF Keeps, Handle!Next

\* The cell a running operation works on is there, and so is its own.
LEMMA RunsOn ==
  ASSUME IInv, NEW p \in Slots, pc[p] # "idle"
  PROVE  this[p] \in Objects /\ this[p] \in impls
  BY RefBaseAssumption DEF IInv, TypeOK, RefsAlive

\* incWeak(): the first weak reference of a new object is its creator's.
LEMMA IncWeakKeeps ==
  ASSUME IInv, IInv', FirstKnown, NEW p \in Slots, IncWeak(p), NEW x \in Objects, x = this[p]
  PROVE  Keeps(x)
<1>1. x \in impls /\ pc[p] # "idle" /\ pc[p] \in PreWeakPcs
  BY RunsOn DEF IncWeak, PreWeakPcs, WeakPcs
<1>2. /\ Alone(p)
      /\ mFlags'[x] = mFlags[x] /\ mStrong'[x] = mStrong[x] /\ mWeak'[x] = mWeak[x] + 1
      /\ x \in impls' <=> x \in impls
      /\ x \in objs' <=> x \in objs
  BY DEF IncWeak, IInv, TypeOK, heap, Alone, OthersSame, Acquired, Step, Goto, Release, Return
<1>3. WeakPart(p, x)' = WeakPart(p, x) + 1 /\ StrongPart(p, x)' = StrongPart(p, x)
  BY RefBaseAssumption
     DEF IncWeak, IInv, TypeOK, Shape, WeakPart, StrongPart, ZeroPcs, PreWeakPcs, WeakPcs, AcqPcs, SpPcs,
         StrongOldPcs, StrongNewPcs, DecPcs, IncPcs, TryPcs, Slots,
         Acquired, Step, Goto, Release, ReleaseLabel, Return
<1>4. mWeak[x] \in Nat
  BY <1>1, StrongIs, WeakZero
<1>5. mWeak[x] # 0 \/ State(x) = "fresh"
  <2>1. CASE src[p] # NULL
    <3>1. src[p] \in Slots /\ ptr[src[p]] = x /\ pc[src[p]] \notin ZeroPcs
      BY <1>1, <2>1 DEF IInv, TypeOK, SrcHeld, ZeroPcs, PreWeakPcs, WeakPcs
    <3>2. WeakPart(src[p], x) # 0
      BY <3>1 DEF WeakPart
    <3> QED
      BY <1>1, <3>1, <3>2, WeakHolder
  <2>2. CASE src[p] = NULL
    <3>1. OnlyUser(p, x) /\ mWeak[x] = 0
      BY <1>1, <2>2 DEF IInv, FreshAlone
    <3>2. src[p] \notin Slots
      BY <2>2, RefBaseAssumption
    <3>3. pc[p] \in {"inc_weak", "create_weak"}
      BY <2>2, <3>2 DEF IncWeak, FirstKnown, IInv, SrcKnown, Slots
    <3>4. mStrong[x] = INITIAL_STRONG_VALUE /\ x \in objs
      <4>1. CASE pc[p] = "inc_weak"
        <5>1. p \in SpSlots
          BY <4>1 DEF IInv, Shape, SpPcs, IncPcs
        <5>2. mStrong[x] = INITIAL_STRONG_VALUE
          BY <4>1, <5>1, <3>2, SlotsFinite DEF IInv, IncFromHeld
        <5> QED
          BY <4>1, <5>1, <5>2, IncSource
      <4>2. CASE pc[p] = "create_weak"
        BY <4>2, <2>2, CreateSource DEF FirstKnown
      <4> QED
        BY <3>3, <4>1, <4>2
    <3>5. Untouched(x)
      BY <3>1, <3>3, <3>4 DEF Untouched, OnlyUser
    <3> QED
      BY <3>4, <3>5, StateIs DEF IInv
  <2> QED
    BY <2>1, <2>2
<1> QED
  BY <1>1, <1>2, <1>3, <1>4, <1>5, TakesWeak

\* attemptIncWeak() adds to a count that the wp it reads keeps above zero.
LEMMA WeakCasKeeps ==
  ASSUME IInv, IInv', NEW p \in Slots, WeakRead(p) \/ WeakCas(p), NEW x \in Objects, x = this[p]
  PROVE  Keeps(x)
<1>1. x \in impls /\ pc[p] \in {"weak_read", "weak_cas"}
  BY RunsOn DEF WeakRead, WeakCas
<1>2. /\ Alone(p)
      /\ mFlags'[x] = mFlags[x] /\ mStrong'[x] = mStrong[x]
      /\ x \in impls' <=> x \in impls
      /\ x \in objs' <=> x \in objs
  BY DEF WeakRead, WeakCas, IInv, TypeOK, heap, words, Alone, OthersSame, Acquired, Step, Goto, Release, Return
<1>3. mWeak[x] \in Nat /\ mWeak[x] # 0
  <2>1. src[p] \in Slots /\ ptr[src[p]] = x /\ pc[src[p]] \notin ZeroPcs
    BY <1>1, RefBaseAssumption DEF IInv, SrcKnown, SrcHeld, Slots, ZeroPcs
  <2>2. WeakPart(src[p], x) # 0
    BY <2>1 DEF WeakPart
  <2> QED
    BY <1>1, <2>1, <2>2, WeakHolder, StrongIs, WeakZero
<1>4. \/ mWeak'[x] = mWeak[x] + 1 /\ WeakPart(p, x)' = WeakPart(p, x) + 1
      \/ mWeak'[x] = mWeak[x] /\ WeakPart(p, x)' = WeakPart(p, x)
  BY <1>1, <1>3, RefBaseAssumption
     DEF WeakRead, WeakCas, IInv, TypeOK, Shape, WeakPart, ZeroPcs, PreWeakPcs, WeakPcs, AcqPcs, SpPcs,
         IncPcs, TryPcs, Slots, words, Acquired, Step, Goto, Release, ReleaseLabel, Return
<1>5. StrongPart(p, x)' = StrongPart(p, x)
  BY <1>1, RefBaseAssumption DEF IInv, Shape, WeakPcs, StrongPart
<1>6. ~Untouched(x) /\ (mWeak'[x] # 0 => ~Untouched(x)')
  BY <1>3 DEF Untouched
<1>7. CASE mWeak'[x] = mWeak[x] + 1 /\ WeakPart(p, x)' = WeakPart(p, x) + 1
  BY <1>1, <1>2, <1>3, <1>5, <1>7, TakesWeak
<1>8. CASE mWeak'[x] = mWeak[x] /\ WeakPart(p, x)' = WeakPart(p, x)
  BY <1>2, <1>3, <1>5, <1>6, <1>8, SilentKeeps DEF Keeps
<1> QED
  BY <1>4, <1>7, <1>8

\* incStrong(), froceIncStrong() and the three increments of attemptIncStrong()
\* take a strong reference; a failed compare-and-swap is nothing.
LEMMA IncStrongKeeps ==
  ASSUME IInv, IInv', NEW p \in Slots,
         IncStrong(p) \/ ForceIncStrong(p) \/ TryCas(p) \/ TryCasNever(p) \/ TryInc(p),
         NEW x \in Objects, x = this[p]
  PROVE  Keeps(x)
<1>1. /\ x \in impls /\ p \in SpSlots /\ arg[p] = x
      /\ pc[p] \in {"inc_strong", "force_strong", "try_cas", "try_cas_never", "try_inc"}
  BY RunsOn DEF IncStrong, ForceIncStrong, TryCas, TryCasNever, TryInc,
                IInv, Shape, SpPcs, AcqPcs, IncPcs, TryPcs
<1>2. /\ Alone(p)
      /\ mFlags'[x] = mFlags[x] /\ mWeak'[x] = mWeak[x]
      /\ x \in impls' <=> x \in impls
      /\ x \in objs' <=> x \in objs
  BY DEF IncStrong, ForceIncStrong, TryCas, TryCasNever, TryInc, IInv, TypeOK, heap, words,
         Alone, OthersSame, Acquired, Step, Goto, Release, Return
<1>3. WeakPart(p, x)' = WeakPart(p, x) /\ StrongPart(p, x) < WeakPart(p, x)
  BY <1>1, RefBaseAssumption
     DEF IncStrong, ForceIncStrong, TryCas, TryCasNever, TryInc, AfterHard,
         IInv, TypeOK, Shape, WeakPart, StrongPart, ZeroPcs, PreWeakPcs, WeakPcs, AcqPcs, SpPcs,
         StrongOldPcs, StrongNewPcs, DecPcs, IncPcs, TryPcs, Slots,
         Acquired, Step, Goto, Release, ReleaseLabel, Return
<1>4. \/ mStrong'[x] = mStrong[x] + 1 /\ StrongPart(p, x)' = StrongPart(p, x) + 1
      \/ mStrong'[x] = mStrong[x] /\ StrongPart(p, x)' = StrongPart(p, x)
  BY <1>1, RefBaseAssumption
     DEF IncStrong, ForceIncStrong, TryCas, TryCasNever, TryInc, AfterHard,
         IInv, TypeOK, Shape, StrongPart, AcqPcs, SpPcs,
         StrongOldPcs, StrongNewPcs, DecPcs, IncPcs, TryPcs, Slots,
         Acquired, Step, Goto, Release, ReleaseLabel, Return
<1>5. mWeak[x] \in Nat /\ mWeak[x] # 0 /\ ~Untouched(x) /\ ~Untouched(x)'
  <2>1. WeakPart(p, x) # 0
    BY <1>1 DEF WeakPart, PreWeakPcs, WeakPcs
  <2> QED
    BY <1>1, <1>2, <2>1, WeakHolder, StrongIs, WeakZero DEF Untouched
<1>6. ASSUME mStrong'[x] = mStrong[x] + 1
      PROVE  x \in objs /\ (mStrong[x] # 0 \/ mFlags[x] = "WEAK")
  <2>1. mStrong[x] \in Nat
    BY <1>1, StrongIs
  <2>2. CASE pc[p] = "inc_strong"
    BY <1>1, <2>2, IncSource, BiasPositive
  <2>3. CASE pc[p] \in {"force_strong", "try_inc"}
    BY <1>1, <2>3 DEF IInv, LifetimeKnown, ObjectGone
  <2>4. CASE pc[p] \in {"try_cas", "try_cas_never"}
    <3>1. cur[p] > 0 /\ mStrong[x] = cur[p]
      BY <1>6, <2>1, <2>4 DEF TryCas, TryCasNever, IncStrong, ForceIncStrong, TryInc, IInv, CurTested
    <3> QED
      BY <1>1, <2>1, <3>1, StrongIs
  <2> QED
    BY <1>1, <2>2, <2>3, <2>4
<1>7. CASE mStrong'[x] = mStrong[x] + 1 /\ StrongPart(p, x)' = StrongPart(p, x) + 1
  BY <1>1, <1>2, <1>3, <1>6, <1>7, TakesStrong
<1>8. CASE mStrong'[x] = mStrong[x] /\ StrongPart(p, x)' = StrongPart(p, x)
  BY <1>2, <1>3, <1>5, <1>8, SilentKeeps DEF Keeps
<1> QED
  BY <1>4, <1>7, <1>8

\* The callbacks, the loads, and the removal of the bias are nothing to the
\* abstract object: the reference is held before and after.
LEMMA SilentSteps ==
  ASSUME IInv, IInv', NEW p \in Slots,
         \/ SubInitial(p) \/ OnFirstRef(p) \/ TryRead(p) \/ TryAsk(p) \/ TryLast(p)
         \/ FixRead(p) \/ FixCas(p) \/ OnLastStrongRef(p) \/ LastWeak(p),
         NEW x \in Objects, x = this[p]
  PROVE  Keeps(x)
<1>1. /\ x \in impls
      /\ pc[p] \in {"inc_sub", "inc_first", "try_read", "try_read_never", "try_ask", "try_last",
                    "fix_read", "fix_cas", "last_strong", "last_weak"}
  BY RunsOn DEF SubInitial, OnFirstRef, TryRead, TryAsk, TryLast, FixRead, FixCas, OnLastStrongRef, LastWeak
<1>2. /\ Alone(p)
      /\ mFlags'[x] = mFlags[x] /\ mWeak'[x] = mWeak[x]
      /\ x \in impls' <=> x \in impls
      /\ x \in objs' <=> x \in objs
  BY DEF SubInitial, OnFirstRef, TryRead, TryAsk, TryLast, FixRead, FixCas, OnLastStrongRef, LastWeak,
         heap, words, Alone, OthersSame, Acquired, Step, Goto, Release, Return,
         IInv, TypeOK
<1>3. WeakPart(p, x)' = WeakPart(p, x) /\ StrongPart(p, x)' = StrongPart(p, x)
  <2> USE <1>1, RefBaseAssumption
      DEF IInv, TypeOK, Shape, WeakPart, StrongPart, ZeroPcs, PreWeakPcs, WeakPcs, AcqPcs, SpPcs, RelPcs,
          StrongOldPcs, StrongNewPcs, DecPcs, IncPcs, TryPcs, Slots,
          Acquired, Step, Goto, Release, ReleaseLabel, Return
  <2>1. CASE SubInitial(p) \/ OnFirstRef(p) \/ TryLast(p) \/ FixRead(p) \/ FixCas(p)
    BY <2>1 DEF SubInitial, OnFirstRef, TryLast, FixRead, FixCas
  <2>2. CASE TryRead(p) \/ TryAsk(p)
    BY <2>2 DEF TryRead, TryAsk
  <2>3. CASE OnLastStrongRef(p) \/ LastWeak(p)
    BY <2>3 DEF OnLastStrongRef, AfterLast, LastWeak
  <2> QED
    BY <2>1, <2>2, <2>3
<1>4. ~Untouched(x)
  <2>1. pc[p] \notin {"inc_weak", "create_weak"}
    BY <1>1
  <2> QED
    BY <2>1 DEF Untouched
<1>5. ~Untouched(x)'
  <2>1. CASE LastWeak(p)
    <3>1. this'[p] = x /\ pc'[p] \in {"free", "dtor"}
      BY <2>1 DEF LastWeak, Step, Goto, IInv, TypeOK
    <3> QED
      BY <3>1 DEF Untouched
  <2>2. CASE ~LastWeak(p)
    <3>1. pc[p] # "last_weak"
      BY <2>2, <1>1 DEF SubInitial, OnFirstRef, TryRead, TryAsk, TryLast, FixRead, FixCas, OnLastStrongRef
    <3>2. WeakPart(p, x) # 0
      BY <1>1, <3>1 DEF WeakPart, IInv, Shape, ZeroPcs, PreWeakPcs, WeakPcs, AcqPcs, IncPcs, TryPcs, RelPcs
    <3> QED
      BY <1>1, <1>2, <3>2, WeakHolder DEF Untouched
  <2> QED
    BY <2>1, <2>2
<1>6. \/ mStrong'[x] = mStrong[x]
      \/ INITIAL_STRONG_VALUE \notin {mStrong[x], mStrong'[x]}
  <2>1. CASE SubInitial(p) \/ FixCas(p)
    <3>1. p \in SpSlots /\ arg[p] = x /\ pc[p] \in StrongNewPcs
      BY <2>1 DEF SubInitial, FixCas, IInv, Shape, SpPcs, AcqPcs, IncPcs, TryPcs, StrongNewPcs
    <3>2. mStrong[x] # INITIAL_STRONG_VALUE
      BY <1>1, <3>1, ArgHeld, RefBaseAssumption
    <3>3. mStrong'[x] \in {mStrong[x], mStrong[x] - INITIAL_STRONG_VALUE}
      BY <1>1, <2>1 DEF SubInitial, FixCas, IInv, TypeOK
    <3>4. mStrong[x] \in Int /\ mStrong[x] - INITIAL_STRONG_VALUE < INITIAL_STRONG_VALUE
      BY <1>1, BiasBound
    <3> QED
      BY <3>2, <3>3, <3>4, BiasPositive
  <2>2. CASE ~(SubInitial(p) \/ FixCas(p))
    BY <2>2 DEF OnFirstRef, TryRead, TryAsk, TryLast, FixRead, OnLastStrongRef, LastWeak, words
  <2> QED
    BY <2>1, <2>2
<1> QED
  BY <1>2, <1>3, <1>4, <1>5, <1>6, SilentKeeps DEF Keeps

\* decStrong() gives the strong reference up and keeps the weak one for a while.
LEMMA DecStrongKeeps ==
  ASSUME IInv, IInv', NEW p \in Slots, DecStrong(p), NEW x \in Objects, x = this[p]
  PROVE  Keeps(x)
<1>1. /\ x \in impls /\ p \in SpSlots /\ ptr[p] = x /\ x # NULL
      /\ pc[p] = "dec_strong" /\ pc[p] \notin StrongOldPcs
  BY RunsOn, RefBaseAssumption DEF DecStrong, IInv, Shape, SpPcs, RelPcs, StrongOldPcs
<1>2. /\ Alone(p)
      /\ mFlags'[x] = mFlags[x] /\ mStrong'[x] = mStrong[x] - 1
      /\ objs' = objs
  BY DEF DecStrong, IInv, TypeOK, heap, Alone, OthersSame, Step, Goto
<1>3. WeakPart(p, x)' = WeakPart(p, x) /\ StrongPart(p, x)' = StrongPart(p, x) - 1
  BY <1>1, RefBaseAssumption
     DEF DecStrong, IInv, TypeOK, Shape, WeakPart, StrongPart, ZeroPcs, PreWeakPcs, WeakPcs,
         StrongOldPcs, StrongNewPcs, DecPcs, Step, Goto
<1>4. /\ WeakRefs(x)' = WeakRefs(x) /\ StrongRefs(x)' = StrongRefs(x) - 1
      /\ StrongRefs(x) \in Nat
  BY <1>2, <1>3, RefsMove DEF Alone
<1>5. x \in objs /\ mStrong[x] >= 1 /\ mStrong[x] < INITIAL_STRONG_VALUE /\ mStrong[x] \in Nat
  BY <1>1, PtrHeld, StrongIs
<1>6. StrongRefs(x) > 0
  BY <1>1, <1>5, StrongIs, BiasPositive
<1>7. State(x)' = State(x)
  <2>1. objs \subseteq impls /\ (objs \subseteq impls)'
    BY DEF IInv
  <2>2. State(x) = "strong"
    BY <2>1, <1>5, StateIs
  <2>3. State(x)' = "strong"
    BY <2>1, <1>2, <1>5, StateNext, BiasPositive
  <2> QED
    BY <2>2, <2>3
<1>8. Handle(x)!DropStrong
  BY <1>2, <1>4, <1>6, <1>7 DEF Handle!DropStrong, WeakRefs, StrongRefs
<1> QED
  BY <1>8 DEF Keeps, Handle!Next

\* decWeak() gives up a weak reference that has no strong one above it.
LEMMA DecWeakKeeps ==
  ASSUME IInv, IInv', NEW p \in Slots, DecWeak(p), NEW x \in Objects, x = this[p]
  PROVE  Keeps(x)
<1>1. x \in impls /\ x # NULL /\ pc[p] \in {"dec_weak", "undo_weak"}
  BY RunsOn, RefBaseAssumption DEF DecWeak
<1>2. /\ Alone(p)
      /\ mFlags'[x] = mFlags[x] /\ mStrong'[x] = mStrong[x] /\ mWeak'[x] = mWeak[x] - 1
      /\ x \in impls' <=> x \in impls
      /\ x \in objs' <=> x \in objs
  BY DEF DecWeak, IInv, TypeOK, heap, Alone, OthersSame, Goto, Return
<1>3. /\ WeakPart(p, x)' = WeakPart(p, x) - 1 /\ StrongPart(p, x)' = StrongPart(p, x)
      /\ StrongPart(p, x) < WeakPart(p, x) /\ WeakPart(p, x) # 0
  BY <1>1, RefBaseAssumption
     DEF DecWeak, IInv, TypeOK, Shape, WeakPart, StrongPart, ZeroPcs, PreWeakPcs, WeakPcs, RelPcs, AcqPcs,
         SpPcs, StrongOldPcs, StrongNewPcs, DecPcs, IncPcs, TryPcs, Goto, Return
<1>4. /\ WeakRefs(x)' = WeakRefs(x) - 1 /\ StrongRefs(x)' = StrongRefs(x)
      /\ StrongRefs(x) < WeakRefs(x)
  BY <1>2, <1>3, RefsMove, StrongBelowWeak DEF Alone
<1>5. mWeak[x] \in Nat /\ mWeak[x] # 0
  BY <1>1, <1>3, WeakHolder, StrongIs, WeakZero
<1>6. ~Untouched(x) /\ ~Untouched(x)'
  <2>1. CASE mWeak[x] = 1
    <3>1. this'[p] = x /\ pc'[p] = "last_weak"
      BY <2>1 DEF DecWeak, Goto, IInv, TypeOK
    <3> QED
      BY <3>1, <1>5 DEF Untouched
  <2>2. CASE mWeak[x] # 1
    BY <2>2, <1>2, <1>5 DEF Untouched
  <2> QED
    BY <2>1, <2>2
<1>7. State(x)' = State(x)
  BY <1>2, <1>6, StateSame DEF IInv
<1>8. Handle(x)!DropWeak
  BY <1>2, <1>4, <1>7 DEF Handle!DropWeak, WeakRefs, StrongRefs
<1> QED
  BY <1>8 DEF Keeps, Handle!Next

\* ~RefBase() and delete impl: by the last strong reference under a weak one, or
\* by the last reference of all.
LEMMA DeleteKeeps ==
  ASSUME IInv, IInv', NEW p \in Slots, Destroy(p) \/ FreeRefs(p), NEW x \in Objects, x = this[p]
  PROVE  Keeps(x)
<1>1. x \in impls /\ x # NULL /\ pc[p] \in {"delete", "dtor", "free"}
  BY RunsOn, RefBaseAssumption DEF Destroy, FreeRefs
<1>2. Alone(p) /\ mFlags'[x] = mFlags[x] /\ mStrong'[x] = mStrong[x]
  BY DEF Destroy, FreeRefs, IInv, TypeOK, words, Alone, OthersSame, Goto, Step, Return
<1>3. WeakPart(p, x)' = WeakPart(p, x) /\ StrongPart(p, x)' = StrongPart(p, x)
  BY <1>1, RefBaseAssumption
     DEF Destroy, FreeRefs, IInv, TypeOK, Shape, ZeroAlone, WeakPart, StrongPart,
         ZeroPcs, PreWeakPcs, WeakPcs, RelPcs, StrongOldPcs, StrongNewPcs, DecPcs, Step, Goto, Return
<1>4. WeakRefs(x)' = WeakRefs(x) /\ StrongRefs(x)' = StrongRefs(x)
  BY <1>2, <1>3, RefsMove DEF Alone
<1>5. mWeak[x] = WeakRefs(x) /\ (mStrong[x] = 0 => StrongRefs(x) = 0)
  BY <1>1, StrongIs
<1>6. objs \subseteq impls /\ (objs \subseteq impls)'
  BY DEF IInv
<1>7. CASE pc[p] = "delete"
  <2>1. mFlags[x] = "STRONG" /\ mStrong[x] = 0 /\ x \in objs /\ p \in SpSlots
    BY <1>7 DEF IInv, LifetimeKnown, LastOnce, Shape, SpPcs
  <2>2. impls' = impls /\ x \notin objs'
    BY <1>7, <2>1, BiasPositive DEF Destroy, FreeRefs, OwnsRefs
  <2>3. mWeak[x] >= 1
    <3>1. WeakPart(p, x) # 0
      BY <1>1, <1>7 DEF WeakPart, IInv, Shape, RelPcs, ZeroPcs
    <3> QED
      BY <1>1, <3>1, WeakHolder
  <2>4. State(x) = "strong" /\ State(x)' = "husk"
    BY <1>1, <1>6, <2>1, <2>2, StateIs, StateNext, BiasPositive
  <2>5. Handle(x)!DeleteStrong
    BY <1>2, <1>4, <1>5, <2>1, <2>3, <2>4, WeakZero DEF Handle!DeleteStrong, WeakRefs, StrongRefs
  <2> QED
    BY <2>5 DEF Keeps, Handle!Next
<1>8. CASE pc[p] \in {"dtor", "free"}
  <2>1. mWeak[x] = 0
    BY <1>8 DEF IInv, ZeroAlone, ZeroPcs
  <2>2. x \notin impls'
    BY <1>8 DEF Destroy, FreeRefs, IInv, ZeroDeletes
  <2>3. State(x)' = "none"
    BY <1>6, <2>2, StateNext
  <2>4. State(x) \in {"husk", "weak"} \/ (State(x) = "strong" /\ mFlags[x] = "WEAK")
    <3>1. CASE pc[p] = "free"
      BY <1>1, <1>6, <3>1, StateIs DEF IInv, ZeroDeletes
    <3>2. CASE pc[p] = "dtor"
      <4>1. x \in objs /\ OwnsRefs(x) /\ ~Untouched(x)
        BY <3>2 DEF IInv, ZeroDeletes, Untouched
      <4> QED
        BY <1>6, <4>1, StateIs DEF OwnsRefs, IInv, TypeOK
    <3> QED
      BY <1>8, <3>1, <3>2
  <2>5. Handle(x)!DeleteAll
    BY <1>2, <1>4, <1>5, <2>1, <2>3, <2>4 DEF Handle!DeleteAll, WeakRefs, StrongRefs
  <2> QED
    BY <2>5 DEF Keeps, Handle!Next
<1> QED
  BY <1>1, <1>7, <1>8

-----------------------------------------------------------------------------
\* Each step of RefBase is, for every cell, a step of Handles or none at all.
LEMMA PromiseStep ==
  ASSUME ~CopyAssign, IInv, IInv', FirstKnown, [Next]_vars, NEW x \in Objects
  PROVE  Keeps(x)
<1>1. ASSUME NEW p \in SpSlots, SpBegin(p)
      PROVE  Keeps(x)
  BY <1>1, SlotsFinite, ConstructKeeps, BeginKeeps DEF SpBegin, Slots
<1>2. ASSUME NEW p \in WpSlots, WpBegin(p)
      PROVE  Keeps(x)
  BY <1>2, SlotsFinite, ConstructKeeps, BeginKeeps DEF WpBegin, Slots
<1>3. ASSUME NEW p \in Slots, Run(p), this[p] # x
      PROVE  Keeps(x)
  <2>1. TypeOK'
    BY DEF IInv
  <2> QED
    BY <1>3, <2>1, RunElsewhere, ElsewhereKeeps DEF Keeps
<1>4. ASSUME NEW p \in Slots, Run(p), this[p] = x
      PROVE  Keeps(x)
  BY <1>4, IncWeakKeeps, WeakCasKeeps, IncStrongKeeps, SilentSteps, DecStrongKeeps, DecWeakKeeps, DeleteKeeps
     DEF Run
<1>5. CASE UNCHANGED vars
  <2>1. UNCHANGED <<State(x), WeakOld(x), WeakNew(x), StrongOld(x), StrongNew(x)>>
    BY <1>5 DEF vars, State, Untouched, WeakOld, WeakNew, StrongOld, StrongNew
  <2> QED
    BY <1>5, <2>1 DEF vars, Keeps, Handle!vars
<1> QED
  BY <1>1, <1>2, <1>3, <1>4, <1>5 DEF Next, Client

\* A cell that holds nothing is an abstract object that is not there.
LEMMA PromiseInit ==
  ASSUME Init, NEW o \in Objects
  PROVE  Handle(o)!Init
<1>1. State(o) = "none"
  BY StateIs DEF Init
<1>2. WeakRefs(o) = 0 /\ StrongRefs(o) = 0
  BY UnusedUncounted DEF Init, RefsAlive
<1>3. /\ Cardinality(WeakOld(o)) \in Nat /\ Cardinality(WeakNew(o)) \in Nat
      /\ Cardinality(StrongOld(o)) \in Nat /\ Cardinality(StrongNew(o)) \in Nat
  BY CountedFinite, FS_CardinalityType
<1> QED
  BY <1>1, <1>2, <1>3 DEF Handle!Init, Init, WeakRefs, StrongRefs

\* What the refinement rests on holds in every reachable state.
LEMMA PromiseInvariance ==
  ASSUME ~CopyAssign, ~RawRace
  PROVE  Spec => [](IInv /\ FirstKnown)
<1>1. IInv /\ FirstKnown /\ [Next]_vars => IInv' /\ FirstKnown'
  <2> SUFFICES ASSUME IInv, FirstKnown, [Next]_vars
               PROVE  IInv' /\ FirstKnown'
    OBVIOUS
  <2>1. IInv'
    BY InvStep
  <2> QED
    BY <2>1, FirstKnownStep DEF IInv
<1> QED
  BY <1>1, InvInit, FirstKnownInit, PTL DEF Spec

\* RefBase keeps the promise of smart pointers, for any number of slots and cells:
\* in every interleaving an object is deleted once, when its lifetime mode allows
\* it and nobody relies on it, and is not had again after that.
THEOREM PromiseKept ==
  ASSUME ~CopyAssign, ~RawRace
  PROVE  Spec => KeepsPromise
<1>1. Init => \A o \in Objects : Handle(o)!Init
  BY PromiseInit
<1>2. IInv /\ IInv' /\ FirstKnown /\ [Next]_vars
        => [\A o \in Objects : UNCHANGED Handle(o)!vars \/ Handle(o)!Next]_vars
  BY PromiseStep DEF Keeps
<1> QED
  BY <1>1, <1>2, PromiseInvariance, PTL DEF Spec, KeepsPromise

\* The same as an implementation: under the refinement mapping every behaviour
\* of RefBase is, at each cell, a behaviour of Handles.
THEOREM ImplementsHandles ==
  ASSUME ~CopyAssign, ~RawRace, NEW CONSTANT o \in Objects
  PROVE  Spec => Handle(o)!Spec
<1>1. Init => Handle(o)!Init
  BY PromiseInit
<1>2. IInv /\ IInv' /\ FirstKnown /\ [Next]_vars => [Handle(o)!Next]_(Handle(o)!vars)
  BY PromiseStep DEF Keeps
<1> QED
  BY <1>1, <1>2, PromiseInvariance, PTL DEF Spec, Handle!Spec
=============================================================================
