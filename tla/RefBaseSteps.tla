---------------------------- MODULE RefBaseSteps -----------------------------
(***************************************************************************)
(* Every step of RefBase keeps every part of the inductive invariant: one  *)
(* lemma per part, one step per action or group of like actions.           *)
(***************************************************************************)
EXTENDS RefBaseCounts

\* The registers keep the shape each label needs.
LEMMA ShapeStep ==
  ASSUME ~CopyAssign, TypeOK, Shape, TypeOK', [Next]_vars
  PROVE  Shape'
<1> USE RefBaseAssumption DEF TypeOK, Shape, Slots, Pcs, IncPcs, TryPcs, WeakPcs, DecPcs, AcqPcs, RelPcs, ZeroPcs, SpPcs, PreWeakPcs,
        Goto, Step, Return, Release, ReleaseLabel, Acquired, heap, words, regs
<1>1. ASSUME NEW p \in SpSlots, NEW o \in Objects, SpNew(p, o)
      PROVE  Shape'
  BY <1>1 DEF SpNew, Construct, Begin, Free
<1>2. ASSUME NEW p \in SpSlots, NEW q \in Slots,
             \/ q \in SpSlots /\ SpFromSp(p, q)
             \/ q \in WpSlots /\ (SpFromRaw(p, q) \/ SpForceSet(p, q) \/ Promote(p, q))
      PROVE  Shape'
  BY <1>2 DEF SpFromSp, SpFromRaw, SpForceSet, Promote, Begin, Free, Readable
<1>3. ASSUME NEW p \in WpSlots, NEW o \in Objects, WpNew(p, o)
      PROVE  Shape'
  BY <1>3 DEF WpNew, Construct, Begin, Free
<1>4. ASSUME NEW p \in WpSlots, NEW q \in Slots,
             \/ q \in SpSlots /\ WpFromSp(p, q)
             \/ q \in WpSlots /\ (WpFromWp(p, q) \/ WpAttempt(p, q))
      PROVE  Shape'
  BY <1>4 DEF WpFromSp, WpFromWp, WpAttempt, Begin, Free, Readable
<1>5. ASSUME NEW p \in Slots, NEW q \in Slots,
             Clear(p) \/ (p \in WpSlots /\ q \in WpSlots /\ WpAssignWp(p, q))
      PROVE  Shape'
  BY <1>5 DEF Clear, WpAssignWp, Release, ReleaseLabel, Return, Free, Readable
<1>6. ASSUME NEW p \in Slots,
             IncWeak(p) \/ IncStrong(p) \/ ForceIncStrong(p) \/ SubInitial(p) \/
             OnFirstRef(p) \/ TryRead(p) \/ TryCas(p) \/ TryAsk(p) \/ TryLast(p)
      PROVE  Shape'
  BY <1>6 DEF IncWeak, IncStrong, ForceIncStrong, SubInitial, OnFirstRef, TryRead, Normal, TryCas, TryAsk, TryLast
<1>7. ASSUME NEW p \in Slots,
             TryCasNever(p) \/ TryInc(p) \/ FixRead(p) \/ FixCas(p) \/ WeakRead(p) \/
             WeakCas(p) \/ DecStrong(p) \/ OnLastStrongRef(p)
      PROVE  Shape'
  BY <1>7 DEF TryCasNever, TryInc, AfterHard, Unneeded, FixRead, FixCas, WeakRead, WeakCas, DecStrong, OnLastStrongRef, AfterLast, Last
<1>8. ASSUME NEW p \in Slots,
             DecWeak(p) \/ LastWeak(p) \/ Destroy(p) \/ FreeRefs(p)
      PROVE  Shape'
  BY <1>8 DEF DecWeak, LastWeak, Orphan, Destroy, OwnsRefs, FreeRefs
<1>9. CASE UNCHANGED vars
  BY <1>9 DEF vars
<1> QED
  BY <1>1, <1>2, <1>3, <1>4, <1>5, <1>6, <1>7, <1>8, <1>9
     DEF Next, Client, SpBegin, WpBegin, Run

\* The slot being read does not change under the operation reading it.
LEMMA SrcHeldStep ==
  ASSUME ~CopyAssign, TypeOK, Shape, SrcHeld, TypeOK', [Next]_vars
  PROVE  SrcHeld'
<1> USE RefBaseAssumption DEF TypeOK, Shape, SrcHeld, Slots, Pcs, IncPcs, TryPcs, WeakPcs, DecPcs, AcqPcs, RelPcs, ZeroPcs, SpPcs, PreWeakPcs,
        Goto, Step, Return, Release, ReleaseLabel, Acquired, heap, words, regs
<1>1. ASSUME NEW p \in SpSlots, NEW o \in Objects, SpNew(p, o)
      PROVE  SrcHeld'
  BY <1>1 DEF SpNew, Construct, Begin, Free
<1>2. ASSUME NEW p \in SpSlots, NEW q \in Slots,
             \/ q \in SpSlots /\ SpFromSp(p, q)
             \/ q \in WpSlots /\ (SpFromRaw(p, q) \/ SpForceSet(p, q) \/ Promote(p, q))
      PROVE  SrcHeld'
  BY <1>2 DEF SpFromSp, SpFromRaw, SpForceSet, Promote, Begin, Free, Readable
<1>3. ASSUME NEW p \in WpSlots, NEW o \in Objects, WpNew(p, o)
      PROVE  SrcHeld'
  BY <1>3 DEF WpNew, Construct, Begin, Free
<1>4. ASSUME NEW p \in WpSlots, NEW q \in Slots,
             \/ q \in SpSlots /\ WpFromSp(p, q)
             \/ q \in WpSlots /\ (WpFromWp(p, q) \/ WpAttempt(p, q))
      PROVE  SrcHeld'
  BY <1>4 DEF WpFromSp, WpFromWp, WpAttempt, Begin, Free, Readable
<1>5. ASSUME NEW p \in Slots, NEW q \in Slots,
             Clear(p) \/ (p \in WpSlots /\ q \in WpSlots /\ WpAssignWp(p, q))
      PROVE  SrcHeld'
  BY <1>5 DEF Clear, WpAssignWp, Release, ReleaseLabel, Return, Free, Readable
<1>6. ASSUME NEW p \in Slots,
             IncWeak(p) \/ IncStrong(p) \/ ForceIncStrong(p) \/ SubInitial(p) \/
             OnFirstRef(p) \/ TryRead(p) \/ TryCas(p) \/ TryAsk(p) \/ TryLast(p)
      PROVE  SrcHeld'
  BY <1>6 DEF IncWeak, IncStrong, ForceIncStrong, SubInitial, OnFirstRef, TryRead, Normal, TryCas, TryAsk, TryLast
<1>7. ASSUME NEW p \in Slots,
             TryCasNever(p) \/ TryInc(p) \/ FixRead(p) \/ FixCas(p) \/ WeakRead(p) \/
             WeakCas(p) \/ DecStrong(p) \/ OnLastStrongRef(p)
      PROVE  SrcHeld'
  BY <1>7 DEF TryCasNever, TryInc, AfterHard, Unneeded, FixRead, FixCas, WeakRead, WeakCas, DecStrong, OnLastStrongRef, AfterLast, Last
<1>8. ASSUME NEW p \in Slots,
             DecWeak(p) \/ LastWeak(p) \/ Destroy(p) \/ FreeRefs(p)
      PROVE  SrcHeld'
  BY <1>8 DEF DecWeak, LastWeak, Orphan, Destroy, OwnsRefs, FreeRefs
<1>9. CASE UNCHANGED vars
  BY <1>9 DEF vars
<1> QED
  BY <1>1, <1>2, <1>3, <1>4, <1>5, <1>6, <1>7, <1>8, <1>9
     DEF Next, Client, SpBegin, WpBegin, Run

\* What is read stays of the kind the operation started with.
LEMMA SrcKnownStep ==
  ASSUME ~CopyAssign, TypeOK, Shape, SrcKnown, TypeOK', [Next]_vars
  PROVE  SrcKnown'
<1> USE RefBaseAssumption DEF TypeOK, Shape, SrcKnown, Slots, Pcs, IncPcs, TryPcs, WeakPcs, DecPcs, AcqPcs, RelPcs, ZeroPcs, SpPcs, PreWeakPcs,
        Goto, Step, Return, Release, ReleaseLabel, Acquired, heap, words, regs
<1>1. ASSUME NEW p \in SpSlots, NEW o \in Objects, SpNew(p, o)
      PROVE  SrcKnown'
  BY <1>1 DEF SpNew, Construct, Begin, Free
<1>2. ASSUME NEW p \in SpSlots, NEW q \in Slots,
             \/ q \in SpSlots /\ SpFromSp(p, q)
             \/ q \in WpSlots /\ (SpFromRaw(p, q) \/ SpForceSet(p, q) \/ Promote(p, q))
      PROVE  SrcKnown'
  BY <1>2 DEF SpFromSp, SpFromRaw, SpForceSet, Promote, Begin, Free, Readable
<1>3. ASSUME NEW p \in WpSlots, NEW o \in Objects, WpNew(p, o)
      PROVE  SrcKnown'
  BY <1>3 DEF WpNew, Construct, Begin, Free
<1>4. ASSUME NEW p \in WpSlots, NEW q \in Slots,
             \/ q \in SpSlots /\ WpFromSp(p, q)
             \/ q \in WpSlots /\ (WpFromWp(p, q) \/ WpAttempt(p, q))
      PROVE  SrcKnown'
  BY <1>4 DEF WpFromSp, WpFromWp, WpAttempt, Begin, Free, Readable
<1>5. ASSUME NEW p \in Slots, NEW q \in Slots,
             Clear(p) \/ (p \in WpSlots /\ q \in WpSlots /\ WpAssignWp(p, q))
      PROVE  SrcKnown'
  BY <1>5 DEF Clear, WpAssignWp, Release, ReleaseLabel, Return, Free, Readable
<1>6. ASSUME NEW p \in Slots,
             IncWeak(p) \/ IncStrong(p) \/ ForceIncStrong(p) \/ SubInitial(p) \/
             OnFirstRef(p) \/ TryRead(p) \/ TryCas(p) \/ TryAsk(p) \/ TryLast(p)
      PROVE  SrcKnown'
  BY <1>6 DEF IncWeak, IncStrong, ForceIncStrong, SubInitial, OnFirstRef, TryRead, Normal, TryCas, TryAsk, TryLast
<1>7. ASSUME NEW p \in Slots,
             TryCasNever(p) \/ TryInc(p) \/ FixRead(p) \/ FixCas(p) \/ WeakRead(p) \/
             WeakCas(p) \/ DecStrong(p) \/ OnLastStrongRef(p)
      PROVE  SrcKnown'
  BY <1>7 DEF TryCasNever, TryInc, AfterHard, Unneeded, FixRead, FixCas, WeakRead, WeakCas, DecStrong, OnLastStrongRef, AfterLast, Last
<1>8. ASSUME NEW p \in Slots,
             DecWeak(p) \/ LastWeak(p) \/ Destroy(p) \/ FreeRefs(p)
      PROVE  SrcKnown'
  BY <1>8 DEF DecWeak, LastWeak, Orphan, Destroy, OwnsRefs, FreeRefs
<1>9. CASE UNCHANGED vars
  BY <1>9 DEF vars
<1> QED
  BY <1>1, <1>2, <1>3, <1>4, <1>5, <1>6, <1>7, <1>8, <1>9
     DEF Next, Client, SpBegin, WpBegin, Run

\* curCount keeps what the tests said of it.
LEMMA CurStep ==
  ASSUME ~CopyAssign, TypeOK, Shape, CurTested, TypeOK', [Next]_vars
  PROVE  CurTested'
<1> USE RefBaseAssumption DEF TypeOK, Shape, CurTested, Slots, Pcs, IncPcs, TryPcs, WeakPcs, DecPcs, AcqPcs, RelPcs, ZeroPcs, SpPcs, PreWeakPcs,
        Goto, Step, Return, Release, ReleaseLabel, Acquired, heap, words, regs
<1>1. ASSUME NEW p \in SpSlots, NEW o \in Objects, SpNew(p, o)
      PROVE  CurTested'
  BY <1>1 DEF SpNew, Construct, Begin, Free
<1>2. ASSUME NEW p \in SpSlots, NEW q \in Slots,
             \/ q \in SpSlots /\ SpFromSp(p, q)
             \/ q \in WpSlots /\ (SpFromRaw(p, q) \/ SpForceSet(p, q) \/ Promote(p, q))
      PROVE  CurTested'
  BY <1>2 DEF SpFromSp, SpFromRaw, SpForceSet, Promote, Begin, Free, Readable
<1>3. ASSUME NEW p \in WpSlots, NEW o \in Objects, WpNew(p, o)
      PROVE  CurTested'
  BY <1>3 DEF WpNew, Construct, Begin, Free
<1>4. ASSUME NEW p \in WpSlots, NEW q \in Slots,
             \/ q \in SpSlots /\ WpFromSp(p, q)
             \/ q \in WpSlots /\ (WpFromWp(p, q) \/ WpAttempt(p, q))
      PROVE  CurTested'
  BY <1>4 DEF WpFromSp, WpFromWp, WpAttempt, Begin, Free, Readable
<1>5. ASSUME NEW p \in Slots, NEW q \in Slots,
             Clear(p) \/ (p \in WpSlots /\ q \in WpSlots /\ WpAssignWp(p, q))
      PROVE  CurTested'
  BY <1>5 DEF Clear, WpAssignWp, Release, ReleaseLabel, Return, Free, Readable
<1>6. ASSUME NEW p \in Slots,
             IncWeak(p) \/ IncStrong(p) \/ ForceIncStrong(p) \/ SubInitial(p) \/
             OnFirstRef(p)
      PROVE  CurTested'
  BY <1>6 DEF IncWeak, IncStrong, ForceIncStrong, SubInitial, OnFirstRef
<1>7. ASSUME NEW p \in Slots, TryRead(p)
      PROVE  CurTested'
  <2>1. \A q \in Slots \ {p} : pc'[q] = pc[q] /\ cur'[q] = cur[q]
    BY <1>7 DEF TryRead
  <2>2. mStrong[this[p]] \in Int /\ cur'[p] = mStrong[this[p]]
    BY <1>7 DEF TryRead
  <2>3. pc'[p] # "fix_cas"
    BY <1>7 DEF TryRead
  <2>4. ASSUME pc'[p] = "try_cas"
        PROVE  mStrong[this[p]] > 0 /\ mStrong[this[p]] # INITIAL_STRONG_VALUE
    BY <1>7, <2>4 DEF TryRead
  <2>5. ASSUME pc'[p] = "try_cas_never", INITIAL_STRONG_VALUE > 1
        PROVE  mStrong[this[p]] > 0
    BY <1>7, <2>5 DEF TryRead
  <2> QED
    BY <2>1, <2>2, <2>3, <2>4, <2>5, BiasPositive
<1>8. ASSUME NEW p \in Slots,
             TryCas(p) \/ TryAsk(p) \/ TryLast(p) \/ TryCasNever(p) \/ TryInc(p) \/
             FixRead(p) \/ FixCas(p) \/ WeakRead(p) \/ WeakCas(p)
      PROVE  CurTested'
  BY <1>8 DEF TryCas, TryAsk, TryLast, TryCasNever, TryInc, AfterHard, Unneeded, FixRead, FixCas, WeakRead, WeakCas
<1>9. ASSUME NEW p \in Slots,
             DecStrong(p) \/ OnLastStrongRef(p) \/ DecWeak(p) \/ LastWeak(p) \/
             Destroy(p)
      PROVE  CurTested'
  BY <1>9 DEF DecStrong, OnLastStrongRef, AfterLast, Last, DecWeak, LastWeak, Orphan, Destroy, OwnsRefs
<1>10. ASSUME NEW p \in Slots,
             FreeRefs(p)
      PROVE  CurTested'
  BY <1>10 DEF FreeRefs
<1>11. CASE UNCHANGED vars
  BY <1>11 DEF vars
<1> QED
  BY <1>1, <1>2, <1>3, <1>4, <1>5, <1>6, <1>7, <1>8, <1>9, <1>10, <1>11
     DEF Next, Client, SpBegin, WpBegin, Run

\* mFlags of a cell that is known to a slot never changes.
LEMMA LifeStep ==
  ASSUME ~CopyAssign, TypeOK, Shape, RefsAlive, objs \subseteq impls, LifetimeKnown, TypeOK', [Next]_vars
  PROVE  LifetimeKnown'
<1> USE RefBaseAssumption DEF TypeOK, Shape, RefsAlive, LifetimeKnown, Slots, Pcs, IncPcs, TryPcs, WeakPcs, DecPcs, AcqPcs, RelPcs, ZeroPcs, SpPcs, PreWeakPcs,
        Goto, Step, Return, Release, ReleaseLabel, Acquired, heap, words, regs
<1>1. ASSUME NEW p \in SpSlots, NEW o \in Objects, SpNew(p, o)
      PROVE  LifetimeKnown'
  BY <1>1 DEF SpNew, Construct, Begin, Free
<1>2. ASSUME NEW p \in SpSlots, NEW q \in Slots,
             \/ q \in SpSlots /\ SpFromSp(p, q)
             \/ q \in WpSlots /\ (SpFromRaw(p, q) \/ SpForceSet(p, q) \/ Promote(p, q))
      PROVE  LifetimeKnown'
  BY <1>2 DEF SpFromSp, SpFromRaw, SpForceSet, Promote, Begin, Free, Readable
<1>3. ASSUME NEW p \in WpSlots, NEW o \in Objects, WpNew(p, o)
      PROVE  LifetimeKnown'
  BY <1>3 DEF WpNew, Construct, Begin, Free
<1>4. ASSUME NEW p \in WpSlots, NEW q \in Slots,
             \/ q \in SpSlots /\ WpFromSp(p, q)
             \/ q \in WpSlots /\ (WpFromWp(p, q) \/ WpAttempt(p, q))
      PROVE  LifetimeKnown'
  BY <1>4 DEF WpFromSp, WpFromWp, WpAttempt, Begin, Free, Readable
<1>5. ASSUME NEW p \in Slots, NEW q \in Slots,
             Clear(p) \/ (p \in WpSlots /\ q \in WpSlots /\ WpAssignWp(p, q))
      PROVE  LifetimeKnown'
  BY <1>5 DEF Clear, WpAssignWp, Release, ReleaseLabel, Return, Free, Readable
<1>6. ASSUME NEW p \in Slots,
             IncWeak(p) \/ IncStrong(p) \/ ForceIncStrong(p) \/ SubInitial(p) \/
             OnFirstRef(p) \/ TryRead(p) \/ TryCas(p) \/ TryAsk(p) \/ TryLast(p)
      PROVE  LifetimeKnown'
  BY <1>6 DEF IncWeak, IncStrong, ForceIncStrong, SubInitial, OnFirstRef, TryRead, Normal, TryCas, TryAsk, TryLast
<1>7. ASSUME NEW p \in Slots,
             TryCasNever(p) \/ TryInc(p) \/ FixRead(p) \/ FixCas(p) \/ WeakRead(p) \/
             WeakCas(p) \/ DecStrong(p) \/ OnLastStrongRef(p)
      PROVE  LifetimeKnown'
  BY <1>7 DEF TryCasNever, TryInc, AfterHard, Unneeded, FixRead, FixCas, WeakRead, WeakCas, DecStrong, OnLastStrongRef, AfterLast, Last
<1>8. ASSUME NEW p \in Slots,
             DecWeak(p) \/ LastWeak(p) \/ Destroy(p) \/ FreeRefs(p)
      PROVE  LifetimeKnown'
  BY <1>8 DEF DecWeak, LastWeak, Orphan, Destroy, OwnsRefs, FreeRefs
<1>9. CASE UNCHANGED vars
  BY <1>9 DEF vars
<1> QED
  BY <1>1, <1>2, <1>3, <1>4, <1>5, <1>6, <1>7, <1>8, <1>9
     DEF Next, Client, SpBegin, WpBegin, Run

\* A weakref_impl is freed only by the last slot that knows of it.
LEMMA RefsStep ==
  ASSUME ~CopyAssign, IInv, TypeOK', [Next]_vars
  PROVE  RefsAlive'
<1> USE RefBaseAssumption DEF IInv, TypeOK, Shape, RefsAlive, SrcHeld, ZeroAlone, OnlyUser, LifetimeKnown, LastOnce, Slots, Pcs, IncPcs, TryPcs, WeakPcs, DecPcs, AcqPcs, RelPcs, ZeroPcs, SpPcs, PreWeakPcs,
        Goto, Step, Return, Release, ReleaseLabel, Acquired, heap, words, regs
<1>1. ASSUME NEW p \in SpSlots, NEW o \in Objects, SpNew(p, o)
      PROVE  RefsAlive'
  BY <1>1 DEF SpNew, Construct, Begin, Free
<1>2. ASSUME NEW p \in SpSlots, NEW q \in Slots,
             \/ q \in SpSlots /\ SpFromSp(p, q)
             \/ q \in WpSlots /\ (SpFromRaw(p, q) \/ SpForceSet(p, q) \/ Promote(p, q))
      PROVE  RefsAlive'
  BY <1>2 DEF SpFromSp, SpFromRaw, SpForceSet, Promote, Begin, Free, Readable
<1>3. ASSUME NEW p \in WpSlots, NEW o \in Objects, WpNew(p, o)
      PROVE  RefsAlive'
  BY <1>3 DEF WpNew, Construct, Begin, Free
<1>4. ASSUME NEW p \in WpSlots, NEW q \in Slots,
             \/ q \in SpSlots /\ WpFromSp(p, q)
             \/ q \in WpSlots /\ (WpFromWp(p, q) \/ WpAttempt(p, q))
      PROVE  RefsAlive'
  BY <1>4 DEF WpFromSp, WpFromWp, WpAttempt, Begin, Free, Readable
<1>5. ASSUME NEW p \in Slots, NEW q \in Slots,
             Clear(p) \/ (p \in WpSlots /\ q \in WpSlots /\ WpAssignWp(p, q))
      PROVE  RefsAlive'
  BY <1>5 DEF Clear, WpAssignWp, Release, ReleaseLabel, Return, Free, Readable
<1>6. ASSUME NEW p \in Slots,
             IncWeak(p) \/ IncStrong(p) \/ ForceIncStrong(p) \/ SubInitial(p) \/
             OnFirstRef(p) \/ TryRead(p) \/ TryCas(p) \/ TryAsk(p) \/ TryLast(p)
      PROVE  RefsAlive'
  BY <1>6 DEF IncWeak, IncStrong, ForceIncStrong, SubInitial, OnFirstRef, TryRead, Normal, TryCas, TryAsk, TryLast
<1>7. ASSUME NEW p \in Slots,
             TryCasNever(p) \/ TryInc(p) \/ FixRead(p) \/ FixCas(p) \/ WeakRead(p) \/
             WeakCas(p) \/ DecStrong(p) \/ OnLastStrongRef(p)
      PROVE  RefsAlive'
  BY <1>7 DEF TryCasNever, TryInc, AfterHard, Unneeded, FixRead, FixCas, WeakRead, WeakCas, DecStrong, OnLastStrongRef, AfterLast, Last
<1>8. ASSUME NEW p \in Slots,
             DecWeak(p) \/ LastWeak(p)
      PROVE  RefsAlive'
  BY <1>8 DEF DecWeak, LastWeak, Orphan
<1>9. ASSUME NEW p \in Slots, Destroy(p)
      PROVE  RefsAlive'
  <2>1. CASE pc[p] = "delete"
    <3>1. mFlags[this[p]] = "STRONG" /\ mStrong[this[p]] = 0
      BY <2>1
    <3>2. impls' = impls
      BY <1>9, <3>1, BiasPositive DEF Destroy, OwnsRefs
    <3> QED
      BY <1>9, <2>1, <3>2 DEF Destroy
  <2>2. CASE pc[p] = "dtor"
    BY <1>9, <2>2 DEF Destroy, OwnsRefs
  <2> QED
    BY <1>9, <2>1, <2>2 DEF Destroy
<1>10. ASSUME NEW p \in Slots,
             FreeRefs(p)
      PROVE  RefsAlive'
  BY <1>10 DEF FreeRefs
<1>11. CASE UNCHANGED vars
  BY <1>11 DEF vars
<1> QED
  BY <1>1, <1>2, <1>3, <1>4, <1>5, <1>6, <1>7, <1>8, <1>9, <1>10, <1>11
     DEF Next, Client, SpBegin, WpBegin, Run

\* The creator of an object stays alone until it counted its reference.
LEMMA FreshStep ==
  ASSUME ~CopyAssign, IInv, TypeOK', [Next]_vars
  PROVE  FreshAlone'
<1> USE RefBaseAssumption DEF IInv, TypeOK, Shape, RefsAlive, SrcHeld, FreshAlone, OnlyUser, Slots, Pcs, IncPcs, TryPcs, WeakPcs, DecPcs, AcqPcs, RelPcs, ZeroPcs, SpPcs, PreWeakPcs,
        Goto, Step, Return, Release, ReleaseLabel, Acquired, heap, words, regs
<1>1. ASSUME NEW p \in SpSlots, NEW o \in Objects, SpNew(p, o)
      PROVE  FreshAlone'
  BY <1>1 DEF SpNew, Construct, Begin, Free
<1>2. ASSUME NEW p \in SpSlots, NEW q \in Slots,
             \/ q \in SpSlots /\ SpFromSp(p, q)
             \/ q \in WpSlots /\ (SpFromRaw(p, q) \/ SpForceSet(p, q) \/ Promote(p, q))
      PROVE  FreshAlone'
  BY <1>2 DEF SpFromSp, SpFromRaw, SpForceSet, Promote, Begin, Free, Readable
<1>3. ASSUME NEW p \in WpSlots, NEW o \in Objects, WpNew(p, o)
      PROVE  FreshAlone'
  BY <1>3 DEF WpNew, Construct, Begin, Free
<1>4. ASSUME NEW p \in WpSlots, NEW q \in Slots,
             \/ q \in SpSlots /\ WpFromSp(p, q)
             \/ q \in WpSlots /\ (WpFromWp(p, q) \/ WpAttempt(p, q))
      PROVE  FreshAlone'
  BY <1>4 DEF WpFromSp, WpFromWp, WpAttempt, Begin, Free, Readable
<1>5. ASSUME NEW p \in Slots, NEW q \in Slots,
             Clear(p) \/ (p \in WpSlots /\ q \in WpSlots /\ WpAssignWp(p, q))
      PROVE  FreshAlone'
  BY <1>5 DEF Clear, WpAssignWp, Release, ReleaseLabel, Return, Free, Readable
<1>6. ASSUME NEW p \in Slots,
             IncWeak(p) \/ IncStrong(p) \/ ForceIncStrong(p) \/ SubInitial(p) \/
             OnFirstRef(p) \/ TryRead(p) \/ TryCas(p) \/ TryAsk(p) \/ TryLast(p)
      PROVE  FreshAlone'
  BY <1>6 DEF IncWeak, IncStrong, ForceIncStrong, SubInitial, OnFirstRef, TryRead, Normal, TryCas, TryAsk, TryLast
<1>7. ASSUME NEW p \in Slots,
             TryCasNever(p) \/ TryInc(p) \/ FixRead(p) \/ FixCas(p) \/ WeakRead(p) \/
             WeakCas(p) \/ DecStrong(p) \/ OnLastStrongRef(p)
      PROVE  FreshAlone'
  BY <1>7 DEF TryCasNever, TryInc, AfterHard, Unneeded, FixRead, FixCas, WeakRead, WeakCas, DecStrong, OnLastStrongRef, AfterLast, Last
<1>8. ASSUME NEW p \in Slots,
             DecWeak(p) \/ LastWeak(p) \/ Destroy(p) \/ FreeRefs(p)
      PROVE  FreshAlone'
  BY <1>8 DEF DecWeak, LastWeak, Orphan, Destroy, OwnsRefs, FreeRefs
<1>9. CASE UNCHANGED vars
  BY <1>9 DEF vars
<1> QED
  BY <1>1, <1>2, <1>3, <1>4, <1>5, <1>6, <1>7, <1>8, <1>9
     DEF Next, Client, SpBegin, WpBegin, Run

\* mWeak stays the number of references, step by step.
LEMMA WeakStep ==
  ASSUME ~CopyAssign, IInv, TypeOK', [Next]_vars
  PROVE  WeakCountExact'
<1> USE RefBaseAssumption DEF IInv, TypeOK, Shape, Slots, Pcs, IncPcs, TryPcs, WeakPcs, DecPcs, AcqPcs, RelPcs, ZeroPcs, SpPcs, PreWeakPcs,
        Goto, Step, Return, Release, ReleaseLabel, Acquired, heap, words, regs
<1>1. ASSUME NEW p \in SpSlots, NEW o \in Objects, SpNew(p, o)
      PROVE  WeakCountExact'
  <2>1. /\ OthersSame(p) /\ Construct(o) /\ pc[p] = "idle"
        /\ ptr'[p] = ptr[p] /\ pc'[p] \in {"inc_weak", "create_weak"}
    BY <1>1 DEF OthersSame, SpNew, Begin, Free
  <2> QED
    BY <2>1, ConstructCounts
<1>2. ASSUME NEW p \in SpSlots, NEW q \in Slots,
             \/ q \in SpSlots /\ SpFromSp(p, q)
             \/ q \in WpSlots /\ (SpFromRaw(p, q) \/ SpForceSet(p, q) \/ Promote(p, q))
      PROVE  WeakCountExact'
  <2>1. OthersSame(p) /\ impls' \subseteq impls
    BY <1>2 DEF OthersSame, SpFromSp, SpFromRaw, SpForceSet, Promote, Begin, Free, Readable
  <2>2. WeakBalance(p)
    BY <1>2 DEF WeakBalance, WeakPart, SpFromSp, SpFromRaw, SpForceSet, Promote, Begin, Free, Readable
  <2> QED
    BY <2>1, <2>2, WeakBalanced
<1>3. ASSUME NEW p \in WpSlots, NEW o \in Objects, WpNew(p, o)
      PROVE  WeakCountExact'
  <2>1. /\ OthersSame(p) /\ Construct(o) /\ pc[p] = "idle"
        /\ ptr'[p] = ptr[p] /\ pc'[p] \in {"inc_weak", "create_weak"}
    BY <1>3 DEF OthersSame, WpNew, Begin, Free
  <2> QED
    BY <2>1, ConstructCounts
<1>4. ASSUME NEW p \in WpSlots, NEW q \in Slots,
             \/ q \in SpSlots /\ WpFromSp(p, q)
             \/ q \in WpSlots /\ (WpFromWp(p, q) \/ WpAttempt(p, q))
      PROVE  WeakCountExact'
  <2>1. OthersSame(p) /\ impls' \subseteq impls
    BY <1>4 DEF OthersSame, WpFromSp, WpFromWp, WpAttempt, Begin, Free, Readable
  <2>2. WeakBalance(p)
    BY <1>4 DEF WeakBalance, WeakPart, WpFromSp, WpFromWp, WpAttempt, Begin, Free, Readable
  <2> QED
    BY <2>1, <2>2, WeakBalanced
<1>5. ASSUME NEW p \in Slots, NEW q \in Slots,
             Clear(p) \/ (p \in WpSlots /\ q \in WpSlots /\ WpAssignWp(p, q))
      PROVE  WeakCountExact'
  <2>1. OthersSame(p) /\ impls' \subseteq impls
    BY <1>5 DEF OthersSame, Clear, WpAssignWp, Release, ReleaseLabel, Return, Free, Readable
  <2>2. WeakBalance(p)
    BY <1>5 DEF WeakBalance, WeakPart, Clear, WpAssignWp, Release, ReleaseLabel, Return, Free, Readable
  <2> QED
    BY <2>1, <2>2, WeakBalanced
<1>6. ASSUME NEW p \in Slots,
             IncWeak(p) \/ IncStrong(p) \/ ForceIncStrong(p) \/ SubInitial(p) \/
             OnFirstRef(p) \/ TryRead(p) \/ TryCas(p) \/ TryAsk(p) \/ TryLast(p)
      PROVE  WeakCountExact'
  <2>1. OthersSame(p) /\ impls' \subseteq impls
    BY <1>6 DEF OthersSame, IncWeak, IncStrong, ForceIncStrong, SubInitial, OnFirstRef, TryRead, Normal, TryCas, TryAsk, TryLast
  <2>2. WeakBalance(p)
    BY <1>6 DEF WeakBalance, WeakPart, IncWeak, IncStrong, ForceIncStrong, SubInitial, OnFirstRef, TryRead, Normal, TryCas, TryAsk, TryLast
  <2> QED
    BY <2>1, <2>2, WeakBalanced
<1>7. ASSUME NEW p \in Slots,
             TryCasNever(p) \/ TryInc(p) \/ FixRead(p) \/ FixCas(p) \/ WeakRead(p) \/
             WeakCas(p) \/ DecStrong(p) \/ OnLastStrongRef(p)
      PROVE  WeakCountExact'
  <2>1. OthersSame(p) /\ impls' \subseteq impls
    BY <1>7 DEF OthersSame, TryCasNever, TryInc, AfterHard, Unneeded, FixRead, FixCas, WeakRead, WeakCas, DecStrong, OnLastStrongRef, AfterLast, Last
  <2>2. WeakBalance(p)
    BY <1>7 DEF WeakBalance, WeakPart, TryCasNever, TryInc, AfterHard, Unneeded, FixRead, FixCas, WeakRead, WeakCas, DecStrong, OnLastStrongRef, AfterLast, Last
  <2> QED
    BY <2>1, <2>2, WeakBalanced
<1>8. ASSUME NEW p \in Slots,
             DecWeak(p) \/ LastWeak(p) \/ Destroy(p) \/ FreeRefs(p)
      PROVE  WeakCountExact'
  <2>1. OthersSame(p) /\ impls' \subseteq impls
    BY <1>8 DEF OthersSame, DecWeak, LastWeak, Orphan, Destroy, OwnsRefs, FreeRefs
  <2>2. WeakBalance(p)
    BY <1>8 DEF WeakBalance, WeakPart, DecWeak, LastWeak, Orphan, Destroy, OwnsRefs, FreeRefs
  <2> QED
    BY <2>1, <2>2, WeakBalanced
<1>9. CASE UNCHANGED vars
  BY <1>9 DEF vars, WeakCountExact, WeakOld, WeakNew
<1> QED
  BY <1>1, <1>2, <1>3, <1>4, <1>5, <1>6, <1>7, <1>8, <1>9
     DEF Next, Client, SpBegin, WpBegin, Run

\* mStrong stays the number of strong references, with or without the bias.
LEMMA StrongStep ==
  ASSUME ~CopyAssign, ~RawRace, IInv, TypeOK', [Next]_vars
  PROVE  StrongCountExact'
<1> USE RefBaseAssumption DEF IInv, TypeOK, Shape, HeldUnbiased, CurTested, Slots, Pcs, IncPcs, TryPcs, WeakPcs, DecPcs, AcqPcs, RelPcs, ZeroPcs, SpPcs, PreWeakPcs,
        Goto, Step, Return, Release, ReleaseLabel, Acquired, heap, words, regs
<1>1. ASSUME NEW p \in SpSlots, NEW o \in Objects, SpNew(p, o)
      PROVE  StrongCountExact'
  <2>1. /\ OthersSame(p) /\ Construct(o) /\ pc[p] = "idle"
        /\ ptr'[p] = ptr[p] /\ pc'[p] \in {"inc_weak", "create_weak"}
    BY <1>1 DEF OthersSame, SpNew, Begin, Free
  <2> QED
    BY <2>1, ConstructCounts
<1>2. ASSUME NEW p \in SpSlots, NEW q \in Slots,
             \/ q \in SpSlots /\ SpFromSp(p, q)
             \/ q \in WpSlots /\ (SpFromRaw(p, q) \/ SpForceSet(p, q) \/ Promote(p, q))
      PROVE  StrongCountExact'
  <2>1. OthersSame(p) /\ impls' \subseteq impls
    BY <1>2 DEF OthersSame, SpFromSp, SpFromRaw, SpForceSet, Promote, Begin, Free, Readable
  <2>2. StrongBalance(p)
    BY <1>2 DEF StrongBalance, StrongPart, StrongOldPcs, StrongNewPcs, SpFromSp, SpFromRaw, SpForceSet, Promote, Begin, Free, Readable
  <2> QED
    BY <2>1, <2>2, StrongBalanced
<1>3. ASSUME NEW p \in WpSlots, NEW o \in Objects, WpNew(p, o)
      PROVE  StrongCountExact'
  <2>1. /\ OthersSame(p) /\ Construct(o) /\ pc[p] = "idle"
        /\ ptr'[p] = ptr[p] /\ pc'[p] \in {"inc_weak", "create_weak"}
    BY <1>3 DEF OthersSame, WpNew, Begin, Free
  <2> QED
    BY <2>1, ConstructCounts
<1>4. ASSUME NEW p \in WpSlots, NEW q \in Slots,
             \/ q \in SpSlots /\ WpFromSp(p, q)
             \/ q \in WpSlots /\ (WpFromWp(p, q) \/ WpAttempt(p, q))
      PROVE  StrongCountExact'
  <2>1. OthersSame(p) /\ impls' \subseteq impls
    BY <1>4 DEF OthersSame, WpFromSp, WpFromWp, WpAttempt, Begin, Free, Readable
  <2>2. StrongBalance(p)
    BY <1>4 DEF StrongBalance, StrongPart, StrongOldPcs, StrongNewPcs, WpFromSp, WpFromWp, WpAttempt, Begin, Free, Readable
  <2> QED
    BY <2>1, <2>2, StrongBalanced
<1>5. ASSUME NEW p \in Slots, NEW q \in Slots,
             Clear(p) \/ (p \in WpSlots /\ q \in WpSlots /\ WpAssignWp(p, q))
      PROVE  StrongCountExact'
  <2>1. OthersSame(p) /\ impls' \subseteq impls
    BY <1>5 DEF OthersSame, Clear, WpAssignWp, Release, ReleaseLabel, Return, Free, Readable
  <2>2. StrongBalance(p)
    BY <1>5 DEF StrongBalance, StrongPart, StrongOldPcs, StrongNewPcs, Clear, WpAssignWp, Release, ReleaseLabel, Return, Free, Readable
  <2> QED
    BY <2>1, <2>2, StrongBalanced
<1>6. ASSUME NEW p \in Slots,
             IncWeak(p) \/ IncStrong(p) \/ ForceIncStrong(p) \/ SubInitial(p) \/
             OnFirstRef(p) \/ TryRead(p) \/ TryCas(p) \/ TryAsk(p) \/ TryLast(p)
      PROVE  StrongCountExact'
  <2>1. OthersSame(p) /\ impls' \subseteq impls
    BY <1>6 DEF OthersSame, IncWeak, IncStrong, ForceIncStrong, SubInitial, OnFirstRef, TryRead, Normal, TryCas, TryAsk, TryLast
  <2>2. StrongBalance(p)
    BY <1>6 DEF StrongBalance, StrongPart, StrongOldPcs, StrongNewPcs, IncWeak, IncStrong, ForceIncStrong, SubInitial, OnFirstRef, TryRead, Normal, TryCas, TryAsk, TryLast
  <2> QED
    BY <2>1, <2>2, StrongBalanced
<1>7. ASSUME NEW p \in Slots,
             TryCasNever(p) \/ TryInc(p) \/ FixRead(p) \/ FixCas(p) \/ WeakRead(p) \/
             WeakCas(p) \/ DecStrong(p) \/ OnLastStrongRef(p)
      PROVE  StrongCountExact'
  <2>1. OthersSame(p) /\ impls' \subseteq impls
    BY <1>7 DEF OthersSame, TryCasNever, TryInc, AfterHard, Unneeded, FixRead, FixCas, WeakRead, WeakCas, DecStrong, OnLastStrongRef, AfterLast, Last
  <2>2. StrongBalance(p)
    BY <1>7 DEF StrongBalance, StrongPart, StrongOldPcs, StrongNewPcs, TryCasNever, TryInc, AfterHard, Unneeded, FixRead, FixCas, WeakRead, WeakCas, DecStrong, OnLastStrongRef, AfterLast, Last
  <2> QED
    BY <2>1, <2>2, StrongBalanced
<1>8. ASSUME NEW p \in Slots,
             DecWeak(p) \/ LastWeak(p) \/ Destroy(p) \/ FreeRefs(p)
      PROVE  StrongCountExact'
  <2>1. OthersSame(p) /\ impls' \subseteq impls
    BY <1>8 DEF OthersSame, DecWeak, LastWeak, Orphan, Destroy, OwnsRefs, FreeRefs
  <2>2. StrongBalance(p)
    BY <1>8 DEF StrongBalance, StrongPart, StrongOldPcs, StrongNewPcs, DecWeak, LastWeak, Orphan, Destroy, OwnsRefs, FreeRefs
  <2> QED
    BY <2>1, <2>2, StrongBalanced
<1>9. CASE UNCHANGED vars
  BY <1>9 DEF vars, StrongCountExact, StrongOld, StrongNew
<1> QED
  BY <1>1, <1>2, <1>3, <1>4, <1>5, <1>6, <1>7, <1>8, <1>9
     DEF Next, Client, SpBegin, WpBegin, Run

\* No step raises mStrong by more than one.
LEMMA OneUpStep ==
  ASSUME ~CopyAssign, IInv, TypeOK', [Next]_vars
  PROVE  OneUp
<1> USE RefBaseAssumption DEF IInv, TypeOK, OneUp, Shape, Slots, Pcs, IncPcs, TryPcs, WeakPcs, DecPcs, AcqPcs, RelPcs, ZeroPcs, SpPcs, PreWeakPcs,
        Goto, Step, Return, Release, ReleaseLabel, Acquired, heap, words, regs
<1>1. ASSUME NEW p \in SpSlots, NEW o \in Objects, SpNew(p, o)
      PROVE  OneUp
  BY <1>1 DEF SpNew, Construct, Begin, Free
<1>2. ASSUME NEW p \in SpSlots, NEW q \in Slots,
             \/ q \in SpSlots /\ SpFromSp(p, q)
             \/ q \in WpSlots /\ (SpFromRaw(p, q) \/ SpForceSet(p, q) \/ Promote(p, q))
      PROVE  OneUp
  BY <1>2 DEF SpFromSp, SpFromRaw, SpForceSet, Promote, Begin, Free, Readable
<1>3. ASSUME NEW p \in WpSlots, NEW o \in Objects, WpNew(p, o)
      PROVE  OneUp
  BY <1>3 DEF WpNew, Construct, Begin, Free
<1>4. ASSUME NEW p \in WpSlots, NEW q \in Slots,
             \/ q \in SpSlots /\ WpFromSp(p, q)
             \/ q \in WpSlots /\ (WpFromWp(p, q) \/ WpAttempt(p, q))
      PROVE  OneUp
  BY <1>4 DEF WpFromSp, WpFromWp, WpAttempt, Begin, Free, Readable
<1>5. ASSUME NEW p \in Slots, NEW q \in Slots,
             Clear(p) \/ (p \in WpSlots /\ q \in WpSlots /\ WpAssignWp(p, q))
      PROVE  OneUp
  BY <1>5 DEF Clear, WpAssignWp, Release, ReleaseLabel, Return, Free, Readable
<1>6. ASSUME NEW p \in Slots,
             IncWeak(p) \/ IncStrong(p) \/ ForceIncStrong(p) \/ SubInitial(p) \/
             OnFirstRef(p) \/ TryRead(p) \/ TryCas(p) \/ TryAsk(p) \/ TryLast(p)
      PROVE  OneUp
  BY <1>6 DEF IncWeak, IncStrong, ForceIncStrong, SubInitial, OnFirstRef, TryRead, Normal, TryCas, TryAsk, TryLast
<1>7. ASSUME NEW p \in Slots,
             TryCasNever(p) \/ TryInc(p) \/ FixRead(p) \/ FixCas(p) \/ WeakRead(p) \/
             WeakCas(p) \/ DecStrong(p) \/ OnLastStrongRef(p)
      PROVE  OneUp
  BY <1>7 DEF TryCasNever, TryInc, AfterHard, Unneeded, FixRead, FixCas, WeakRead, WeakCas, DecStrong, OnLastStrongRef, AfterLast, Last
<1>8. ASSUME NEW p \in Slots,
             DecWeak(p) \/ LastWeak(p) \/ Destroy(p) \/ FreeRefs(p)
      PROVE  OneUp
  BY <1>8 DEF DecWeak, LastWeak, Orphan, Destroy, OwnsRefs, FreeRefs
<1>9. CASE UNCHANGED vars
  BY <1>9 DEF vars
<1> QED
  BY <1>1, <1>2, <1>3, <1>4, <1>5, <1>6, <1>7, <1>8, <1>9
     DEF Next, Client, SpBegin, WpBegin, Run

\* A strong count of zero is final for a normal lifetime.
LEMMA ZeroStaysStep ==
  ASSUME ~CopyAssign, ~RawRace, IInv, TypeOK', [Next]_vars
  PROVE  ZeroStays
<1> USE RefBaseAssumption DEF IInv, TypeOK, ZeroStays, Shape, LifetimeKnown, CurTested, Slots, Pcs, IncPcs, TryPcs, WeakPcs, DecPcs, AcqPcs, RelPcs, ZeroPcs, SpPcs, PreWeakPcs,
        Goto, Step, Return, Release, ReleaseLabel, Acquired, heap, words, regs
<1>1. ASSUME NEW p \in SpSlots, NEW o \in Objects, SpNew(p, o)
      PROVE  ZeroStays
  BY <1>1 DEF SpNew, Construct, Begin, Free
<1>2. ASSUME NEW p \in SpSlots, NEW q \in Slots,
             \/ q \in SpSlots /\ SpFromSp(p, q)
             \/ q \in WpSlots /\ (SpFromRaw(p, q) \/ SpForceSet(p, q) \/ Promote(p, q))
      PROVE  ZeroStays
  BY <1>2 DEF SpFromSp, SpFromRaw, SpForceSet, Promote, Begin, Free, Readable
<1>3. ASSUME NEW p \in WpSlots, NEW o \in Objects, WpNew(p, o)
      PROVE  ZeroStays
  BY <1>3 DEF WpNew, Construct, Begin, Free
<1>4. ASSUME NEW p \in WpSlots, NEW q \in Slots,
             \/ q \in SpSlots /\ WpFromSp(p, q)
             \/ q \in WpSlots /\ (WpFromWp(p, q) \/ WpAttempt(p, q))
      PROVE  ZeroStays
  BY <1>4 DEF WpFromSp, WpFromWp, WpAttempt, Begin, Free, Readable
<1>5. ASSUME NEW p \in Slots, NEW q \in Slots,
             Clear(p) \/ (p \in WpSlots /\ q \in WpSlots /\ WpAssignWp(p, q))
      PROVE  ZeroStays
  BY <1>5 DEF Clear, WpAssignWp, Release, ReleaseLabel, Return, Free, Readable
<1>6. ASSUME NEW p \in Slots,
             IncWeak(p)
      PROVE  ZeroStays
  BY <1>6 DEF IncWeak
<1>7. ASSUME NEW p \in Slots,
             IncStrong(p) \/ ForceIncStrong(p) \/ SubInitial(p) \/ OnFirstRef(p)
      PROVE  ZeroStays
  <2>1. ASSUME pc[p] = "inc_strong"
        PROVE  mStrong[this[p]] # 0
    BY <2>1, IncSource, BiasPositive
  <2>2. ASSUME pc[p] = "inc_sub"
        PROVE  mStrong[this[p]] # 0
    BY <2>2, BiasPositive DEF HeldUnbiased
  <2> QED
    BY <1>7, <2>1, <2>2 DEF IncStrong, ForceIncStrong, SubInitial, OnFirstRef
<1>8. ASSUME NEW p \in Slots,
             TryRead(p) \/ TryCas(p) \/ TryAsk(p) \/ TryLast(p) \/ TryCasNever(p) \/
             TryInc(p)
      PROVE  ZeroStays
  BY <1>8 DEF TryRead, Normal, TryCas, TryAsk, TryLast, TryCasNever, TryInc, AfterHard, Unneeded
<1>9. ASSUME NEW p \in Slots, FixRead(p) \/ FixCas(p)
      PROVE  ZeroStays
  BY <1>9, BiasPositive DEF FixRead, FixCas
<1>10. ASSUME NEW p \in Slots,
             WeakRead(p) \/ WeakCas(p)
      PROVE  ZeroStays
  BY <1>10 DEF WeakRead, WeakCas
<1>11. ASSUME NEW p \in Slots, DecStrong(p) \/ OnLastStrongRef(p)
      PROVE  ZeroStays
  <2>1. ASSUME pc[p] = "dec_strong"
        PROVE  mStrong[this[p]] # 0
    BY <2>1, PtrHeld DEF StrongOldPcs
  <2> QED
    BY <1>11, <2>1 DEF DecStrong, OnLastStrongRef, AfterLast, Last
<1>12. ASSUME NEW p \in Slots,
             DecWeak(p) \/ LastWeak(p) \/ Destroy(p) \/ FreeRefs(p)
      PROVE  ZeroStays
  BY <1>12 DEF DecWeak, LastWeak, Orphan, Destroy, OwnsRefs, FreeRefs
<1>13. CASE UNCHANGED vars
  BY <1>13 DEF vars
<1> QED
  BY <1>1, <1>2, <1>3, <1>4, <1>5, <1>6, <1>7, <1>8, <1>9, <1>10, <1>11, <1>12, <1>13
     DEF Next, Client, SpBegin, WpBegin, Run

\* Once the bias is gone mStrong is a plain count for good.
LEMMA UnbiasedStaysStep ==
  ASSUME ~CopyAssign, ~RawRace, IInv, TypeOK', [Next]_vars
  PROVE  UnbiasedStays
<1>1. ASSUME NEW o \in impls \cap impls', mStrong[o] < INITIAL_STRONG_VALUE
      PROVE  mStrong'[o] \in 0..(INITIAL_STRONG_VALUE - 1)
  <2>1. mStrong'[o] <= mStrong[o] + 1
    BY OneUpStep DEF OneUp
  <2>2. mStrong[o] \in Nat /\ mStrong[o] + 1 < INITIAL_STRONG_VALUE
    BY <1>1, UnbiasedExact
  <2>3. mStrong'[o] \in {StrongRefs(o)', StrongRefs(o)' + INITIAL_STRONG_VALUE}
    BY StrongStep DEF StrongCountExact, StrongRefs
  <2>4. StrongRefs(o)' \in Nat
    BY CountedFinite, FS_CardinalityType DEF StrongRefs
  <2> QED
    BY <2>1, <2>2, <2>3, <2>4, BiasPositive
<1> QED
  BY <1>1 DEF UnbiasedStays

\* Only references whose bias was removed are stored.
LEMMA HeldStep ==
  ASSUME ~CopyAssign, ~RawRace, IInv, RefsAlive', UnbiasedStays, TypeOK', [Next]_vars
  PROVE  HeldUnbiased'
<1> USE RefBaseAssumption DEF IInv, TypeOK, Shape, RefsAlive, HeldUnbiased, UnbiasedStays, Slots, Pcs, IncPcs, TryPcs, WeakPcs, DecPcs, AcqPcs, RelPcs, ZeroPcs, SpPcs, PreWeakPcs,
        Goto, Step, Return, Release, ReleaseLabel, Acquired, heap, words, regs
<1>1. ASSUME NEW p \in SpSlots, NEW o \in Objects, SpNew(p, o)
      PROVE  HeldUnbiased'
  <2>1. /\ o \notin impls /\ \A q \in Slots : ptr[q] # o /\ arg[q] # o /\ this[q] # o
        /\ mStrong'[o] = INITIAL_STRONG_VALUE
    BY <1>1 DEF SpNew, Construct
  <2> QED
    BY <1>1, <2>1, BiasPositive DEF SpNew, Construct, Begin, Free
<1>2. ASSUME NEW p \in SpSlots, NEW q \in Slots,
             \/ q \in SpSlots /\ SpFromSp(p, q)
             \/ q \in WpSlots /\ (SpFromRaw(p, q) \/ SpForceSet(p, q) \/ Promote(p, q))
      PROVE  HeldUnbiased'
  BY <1>2 DEF SpFromSp, SpFromRaw, SpForceSet, Promote, Begin, Free, Readable
<1>3. ASSUME NEW p \in WpSlots, NEW o \in Objects, WpNew(p, o)
      PROVE  HeldUnbiased'
  <2>1. /\ o \notin impls /\ \A q \in Slots : ptr[q] # o /\ arg[q] # o /\ this[q] # o
        /\ mStrong'[o] = INITIAL_STRONG_VALUE
    BY <1>3 DEF WpNew, Construct
  <2> QED
    BY <1>3, <2>1, BiasPositive DEF WpNew, Construct, Begin, Free
<1>4. ASSUME NEW p \in WpSlots, NEW q \in Slots,
             \/ q \in SpSlots /\ WpFromSp(p, q)
             \/ q \in WpSlots /\ (WpFromWp(p, q) \/ WpAttempt(p, q))
      PROVE  HeldUnbiased'
  BY <1>4 DEF WpFromSp, WpFromWp, WpAttempt, Begin, Free, Readable
<1>5. ASSUME NEW p \in Slots, NEW q \in Slots,
             Clear(p) \/ (p \in WpSlots /\ q \in WpSlots /\ WpAssignWp(p, q))
      PROVE  HeldUnbiased'
  BY <1>5 DEF Clear, WpAssignWp, Release, ReleaseLabel, Return, Free, Readable
<1>6. ASSUME NEW p \in Slots,
             IncWeak(p)
      PROVE  HeldUnbiased'
  BY <1>6 DEF IncWeak
<1>7. ASSUME NEW p \in Slots,
             IncStrong(p) \/ ForceIncStrong(p) \/ SubInitial(p) \/ OnFirstRef(p)
      PROVE  HeldUnbiased'
  <2>1. CASE IncStrong(p)
    BY <1>7, <2>1, IncSource, BiasPositive DEF IncStrong
  <2>2. CASE ForceIncStrong(p)
    BY <1>7, <2>2, ForceSource, BiasPositive DEF ForceIncStrong
  <2>3. CASE SubInitial(p)
    BY <1>7, <2>3, BiasBound, BiasPositive DEF SubInitial, FirstAlone
  <2>4. CASE OnFirstRef(p)
    BY <1>7, <2>4 DEF OnFirstRef
  <2> QED
    BY <1>7, <2>1, <2>2, <2>3, <2>4
<1>8. ASSUME NEW p \in Slots,
             TryRead(p) \/ TryCas(p) \/ TryAsk(p) \/ TryLast(p) \/ TryCasNever(p) \/
             TryInc(p)
      PROVE  HeldUnbiased'
  BY <1>8 DEF TryRead, Normal, TryCas, TryAsk, TryLast, TryCasNever, TryInc, AfterHard, Unneeded
<1>9. ASSUME NEW p \in Slots, FixRead(p) \/ FixCas(p)
      PROVE  HeldUnbiased'
  BY <1>9, BiasBound, BiasPositive DEF FixRead, FixCas, FirstAlone
<1>10. ASSUME NEW p \in Slots,
             WeakRead(p) \/ WeakCas(p)
      PROVE  HeldUnbiased'
  BY <1>10 DEF WeakRead, WeakCas
<1>11. ASSUME NEW p \in Slots, DecStrong(p) \/ OnLastStrongRef(p)
      PROVE  HeldUnbiased'
  <2>1. ASSUME pc[p] = "dec_strong"
        PROVE  mStrong[this[p]] < INITIAL_STRONG_VALUE
    BY <2>1
  <2> QED
    BY <1>11, <2>1, BiasPositive DEF DecStrong, OnLastStrongRef, AfterLast, Last
<1>12. ASSUME NEW p \in Slots,
             DecWeak(p) \/ LastWeak(p) \/ Destroy(p) \/ FreeRefs(p)
      PROVE  HeldUnbiased'
  BY <1>12 DEF DecWeak, LastWeak, Orphan, Destroy, OwnsRefs, FreeRefs
<1>13. CASE UNCHANGED vars
  BY <1>13 DEF vars
<1> QED
  BY <1>1, <1>2, <1>3, <1>4, <1>5, <1>6, <1>7, <1>8, <1>9, <1>10, <1>11, <1>12, <1>13
     DEF Next, Client, SpBegin, WpBegin, Run

\* The first incStrong() stays alone on the object.
LEMMA FirstStep ==
  ASSUME ~CopyAssign, ~RawRace, IInv, RefsAlive', UnbiasedStays, TypeOK', [Next]_vars
  PROVE  FirstAlone'
<1> USE RefBaseAssumption DEF IInv, TypeOK, Shape, RefsAlive, HeldUnbiased, FirstAlone, UnbiasedStays, Slots, Pcs, IncPcs, TryPcs, WeakPcs, DecPcs, AcqPcs, RelPcs, ZeroPcs, SpPcs, PreWeakPcs,
        Goto, Step, Return, Release, ReleaseLabel, Acquired, heap, words, regs
<1>1. ASSUME NEW p \in SpSlots, NEW o \in Objects, SpNew(p, o)
      PROVE  FirstAlone'
  <2>1. o \notin impls /\ \A q \in Slots : this[q] # o
    BY <1>1 DEF SpNew, Construct
  <2> QED
    BY <1>1, <2>1, BiasPositive DEF SpNew, Construct, Begin, Free
<1>2. ASSUME NEW p \in SpSlots, NEW q \in Slots,
             \/ q \in SpSlots /\ SpFromSp(p, q)
             \/ q \in WpSlots /\ (SpFromRaw(p, q) \/ SpForceSet(p, q) \/ Promote(p, q))
      PROVE  FirstAlone'
  <2>1. CASE q \in SpSlots /\ SpFromSp(p, q)
    BY <1>2, <2>1, BiasPositive DEF SpFromSp, Begin, Free, Readable
  <2>2. CASE q \in WpSlots /\ SpFromRaw(p, q)
    BY <1>2, <2>2, BiasPositive DEF SpFromRaw, Begin, Free, Readable, Acquiring
  <2>3. CASE q \in WpSlots /\ SpForceSet(p, q)
    BY <1>2, <2>3, BiasPositive DEF SpForceSet, Begin, Free, Readable, Acquiring
  <2>4. CASE q \in WpSlots /\ Promote(p, q)
    BY <1>2, <2>4, BiasPositive DEF Promote, Begin, Free, Readable, FirstInProgress
  <2> QED
    BY <1>2, <2>1, <2>2, <2>3, <2>4
<1>3. ASSUME NEW p \in WpSlots, NEW o \in Objects, WpNew(p, o)
      PROVE  FirstAlone'
  <2>1. o \notin impls /\ \A q \in Slots : this[q] # o
    BY <1>3 DEF WpNew, Construct
  <2> QED
    BY <1>3, <2>1, BiasPositive DEF WpNew, Construct, Begin, Free
<1>4. ASSUME NEW p \in WpSlots, NEW q \in Slots,
             \/ q \in SpSlots /\ WpFromSp(p, q)
             \/ q \in WpSlots /\ (WpFromWp(p, q) \/ WpAttempt(p, q))
      PROVE  FirstAlone'
  BY <1>4 DEF WpFromSp, WpFromWp, WpAttempt, Begin, Free, Readable
<1>5. ASSUME NEW p \in Slots, NEW q \in Slots,
             Clear(p) \/ (p \in WpSlots /\ q \in WpSlots /\ WpAssignWp(p, q))
      PROVE  FirstAlone'
  BY <1>5 DEF Clear, WpAssignWp, Release, ReleaseLabel, Return, Free, Readable
<1>6. ASSUME NEW p \in Slots,
             IncWeak(p) \/ IncStrong(p) \/ ForceIncStrong(p) \/ SubInitial(p) \/
             OnFirstRef(p) \/ TryRead(p) \/ TryCas(p) \/ TryAsk(p) \/ TryLast(p)
      PROVE  FirstAlone'
  BY <1>6 DEF IncWeak, IncStrong, ForceIncStrong, SubInitial, OnFirstRef, TryRead, Normal, TryCas, TryAsk, TryLast
<1>7. ASSUME NEW p \in Slots,
             TryCasNever(p) \/ TryInc(p) \/ FixRead(p) \/ FixCas(p) \/ WeakRead(p) \/
             WeakCas(p) \/ DecStrong(p) \/ OnLastStrongRef(p)
      PROVE  FirstAlone'
  BY <1>7 DEF TryCasNever, TryInc, AfterHard, Unneeded, FixRead, FixCas, WeakRead, WeakCas, DecStrong, OnLastStrongRef, AfterLast, Last
<1>8. ASSUME NEW p \in Slots,
             DecWeak(p) \/ LastWeak(p) \/ Destroy(p) \/ FreeRefs(p)
      PROVE  FirstAlone'
  BY <1>8 DEF DecWeak, LastWeak, Orphan, Destroy, OwnsRefs, FreeRefs
<1>9. CASE UNCHANGED vars
  BY <1>9 DEF vars
<1> QED
  BY <1>1, <1>2, <1>3, <1>4, <1>5, <1>6, <1>7, <1>8, <1>9
     DEF Next, Client, SpBegin, WpBegin, Run

\* Where nobody held the object, incStrong() still finds the initial value.
LEMMA IncFromStep ==
  ASSUME ~CopyAssign, ~RawRace, IInv, RefsAlive', TypeOK', [Next]_vars
  PROVE  IncFromHeld'
<1> USE RefBaseAssumption DEF IInv, TypeOK, Shape, RefsAlive, HeldUnbiased, FirstAlone, IncFromHeld, Slots, Pcs, IncPcs, TryPcs, WeakPcs, DecPcs, AcqPcs, RelPcs, ZeroPcs, SpPcs, PreWeakPcs,
        Goto, Step, Return, Release, ReleaseLabel, Acquired, heap, words, regs
<1>1. ASSUME NEW p \in SpSlots, NEW o \in Objects, SpNew(p, o)
      PROVE  IncFromHeld'
  <2>1. o \notin impls /\ \A q \in Slots : this[q] # o
    BY <1>1 DEF SpNew, Construct
  <2> QED
    BY <1>1, <2>1, BiasPositive DEF SpNew, Construct, Begin, Free
<1>2. ASSUME NEW p \in SpSlots, NEW q \in Slots,
             \/ q \in SpSlots /\ SpFromSp(p, q)
             \/ q \in WpSlots /\ (SpFromRaw(p, q) \/ SpForceSet(p, q) \/ Promote(p, q))
      PROVE  IncFromHeld'
  BY <1>2 DEF SpFromSp, SpFromRaw, SpForceSet, Promote, Begin, Free, Readable
<1>3. ASSUME NEW p \in WpSlots, NEW o \in Objects, WpNew(p, o)
      PROVE  IncFromHeld'
  <2>1. o \notin impls /\ \A q \in Slots : this[q] # o
    BY <1>3 DEF WpNew, Construct
  <2> QED
    BY <1>3, <2>1, BiasPositive DEF WpNew, Construct, Begin, Free
<1>4. ASSUME NEW p \in WpSlots, NEW q \in Slots,
             \/ q \in SpSlots /\ WpFromSp(p, q)
             \/ q \in WpSlots /\ (WpFromWp(p, q) \/ WpAttempt(p, q))
      PROVE  IncFromHeld'
  BY <1>4 DEF WpFromSp, WpFromWp, WpAttempt, Begin, Free, Readable
<1>5. ASSUME NEW p \in Slots, NEW q \in Slots,
             Clear(p) \/ (p \in WpSlots /\ q \in WpSlots /\ WpAssignWp(p, q))
      PROVE  IncFromHeld'
  BY <1>5 DEF Clear, WpAssignWp, Release, ReleaseLabel, Return, Free, Readable
<1>6. ASSUME NEW p \in Slots,
             IncWeak(p) \/ IncStrong(p) \/ ForceIncStrong(p) \/ SubInitial(p) \/
             OnFirstRef(p) \/ TryRead(p) \/ TryCas(p) \/ TryAsk(p) \/ TryLast(p)
      PROVE  IncFromHeld'
  BY <1>6 DEF IncWeak, IncStrong, ForceIncStrong, SubInitial, OnFirstRef, TryRead, Normal, TryCas, TryAsk, TryLast
<1>7. ASSUME NEW p \in Slots,
             TryCasNever(p) \/ TryInc(p)
      PROVE  IncFromHeld'
  BY <1>7 DEF TryCasNever, TryInc, AfterHard, Unneeded
<1>8. ASSUME NEW p \in Slots, FixRead(p) \/ FixCas(p)
      PROVE  IncFromHeld'
  BY <1>8, BiasPositive DEF FixRead, FixCas
<1>9. ASSUME NEW p \in Slots,
             WeakRead(p) \/ WeakCas(p)
      PROVE  IncFromHeld'
  BY <1>9 DEF WeakRead, WeakCas
<1>10. ASSUME NEW p \in Slots, DecStrong(p) \/ OnLastStrongRef(p)
      PROVE  IncFromHeld'
  BY <1>10, BiasPositive DEF DecStrong, OnLastStrongRef, AfterLast, Last
<1>11. ASSUME NEW p \in Slots,
             DecWeak(p) \/ LastWeak(p) \/ Destroy(p) \/ FreeRefs(p)
      PROVE  IncFromHeld'
  BY <1>11 DEF DecWeak, LastWeak, Orphan, Destroy, OwnsRefs, FreeRefs
<1>12. CASE UNCHANGED vars
  BY <1>12 DEF vars
<1> QED
  BY <1>1, <1>2, <1>3, <1>4, <1>5, <1>6, <1>7, <1>8, <1>9, <1>10, <1>11, <1>12
     DEF Next, Client, SpBegin, WpBegin, Run

\* A new object stays alive until its first weak reference is counted.
LEMMA CreateStep ==
  ASSUME ~CopyAssign, ~RawRace, IInv, TypeOK', [Next]_vars
  PROVE  CreateFromHeld'
<1> USE RefBaseAssumption DEF IInv, TypeOK, Shape, SrcKnown, CreateFromHeld, FreshAlone, OnlyUser, Slots, Pcs, IncPcs, TryPcs, WeakPcs, DecPcs, AcqPcs, RelPcs, ZeroPcs, SpPcs, PreWeakPcs,
        Goto, Step, Return, Release, ReleaseLabel, Acquired, heap, words, regs
<1>1. ASSUME NEW p \in SpSlots, NEW o \in Objects, SpNew(p, o)
      PROVE  CreateFromHeld'
  BY <1>1 DEF SpNew, Construct, Begin, Free
<1>2. ASSUME NEW p \in SpSlots, NEW q \in Slots,
             \/ q \in SpSlots /\ SpFromSp(p, q)
             \/ q \in WpSlots /\ (SpFromRaw(p, q) \/ SpForceSet(p, q) \/ Promote(p, q))
      PROVE  CreateFromHeld'
  BY <1>2 DEF SpFromSp, SpFromRaw, SpForceSet, Promote, Begin, Free, Readable
<1>3. ASSUME NEW p \in WpSlots, NEW o \in Objects, WpNew(p, o)
      PROVE  CreateFromHeld'
  BY <1>3 DEF WpNew, Construct, Begin, Free
<1>4. ASSUME NEW p \in WpSlots, NEW q \in Slots,
             \/ q \in SpSlots /\ WpFromSp(p, q)
             \/ q \in WpSlots /\ (WpFromWp(p, q) \/ WpAttempt(p, q))
      PROVE  CreateFromHeld'
  BY <1>4 DEF WpFromSp, WpFromWp, WpAttempt, Begin, Free, Readable
<1>5. ASSUME NEW p \in Slots, NEW q \in Slots,
             Clear(p) \/ (p \in WpSlots /\ q \in WpSlots /\ WpAssignWp(p, q))
      PROVE  CreateFromHeld'
  BY <1>5 DEF Clear, WpAssignWp, Release, ReleaseLabel, Return, Free, Readable
<1>6. ASSUME NEW p \in Slots,
             IncWeak(p) \/ IncStrong(p) \/ ForceIncStrong(p) \/ SubInitial(p) \/
             OnFirstRef(p) \/ TryRead(p) \/ TryCas(p) \/ TryAsk(p) \/ TryLast(p)
      PROVE  CreateFromHeld'
  BY <1>6 DEF IncWeak, IncStrong, ForceIncStrong, SubInitial, OnFirstRef, TryRead, Normal, TryCas, TryAsk, TryLast
<1>7. ASSUME NEW p \in Slots,
             TryCasNever(p) \/ TryInc(p) \/ FixRead(p) \/ FixCas(p) \/ WeakRead(p) \/
             WeakCas(p) \/ DecStrong(p) \/ OnLastStrongRef(p)
      PROVE  CreateFromHeld'
  BY <1>7 DEF TryCasNever, TryInc, AfterHard, Unneeded, FixRead, FixCas, WeakRead, WeakCas, DecStrong, OnLastStrongRef, AfterLast, Last
<1>8. ASSUME NEW p \in Slots,
             DecWeak(p) \/ LastWeak(p) \/ Destroy(p) \/ FreeRefs(p)
      PROVE  CreateFromHeld'
  BY <1>8 DEF DecWeak, LastWeak, Orphan, Destroy, OwnsRefs, FreeRefs
<1>9. CASE UNCHANGED vars
  BY <1>9 DEF vars
<1> QED
  BY <1>1, <1>2, <1>3, <1>4, <1>5, <1>6, <1>7, <1>8, <1>9
     DEF Next, Client, SpBegin, WpBegin, Run

\* The object dies first only with a normal lifetime and after the last sp.
LEMMA GoneStep ==
  ASSUME ~CopyAssign, ~RawRace, IInv, ZeroStays, TypeOK', [Next]_vars
  PROVE  ObjectGone'
<1> USE RefBaseAssumption DEF IInv, TypeOK, Shape, ObjectGone, ZeroStays, LifetimeKnown, Slots, Pcs, IncPcs, TryPcs, WeakPcs, DecPcs, AcqPcs, RelPcs, ZeroPcs, SpPcs, PreWeakPcs,
        Goto, Step, Return, Release, ReleaseLabel, Acquired, heap, words, regs
<1>1. ASSUME NEW p \in SpSlots, NEW o \in Objects, SpNew(p, o)
      PROVE  ObjectGone'
  BY <1>1 DEF SpNew, Construct, Begin, Free
<1>2. ASSUME NEW p \in SpSlots, NEW q \in Slots,
             \/ q \in SpSlots /\ SpFromSp(p, q)
             \/ q \in WpSlots /\ (SpFromRaw(p, q) \/ SpForceSet(p, q) \/ Promote(p, q))
      PROVE  ObjectGone'
  BY <1>2 DEF SpFromSp, SpFromRaw, SpForceSet, Promote, Begin, Free, Readable
<1>3. ASSUME NEW p \in WpSlots, NEW o \in Objects, WpNew(p, o)
      PROVE  ObjectGone'
  BY <1>3 DEF WpNew, Construct, Begin, Free
<1>4. ASSUME NEW p \in WpSlots, NEW q \in Slots,
             \/ q \in SpSlots /\ WpFromSp(p, q)
             \/ q \in WpSlots /\ (WpFromWp(p, q) \/ WpAttempt(p, q))
      PROVE  ObjectGone'
  BY <1>4 DEF WpFromSp, WpFromWp, WpAttempt, Begin, Free, Readable
<1>5. ASSUME NEW p \in Slots, NEW q \in Slots,
             Clear(p) \/ (p \in WpSlots /\ q \in WpSlots /\ WpAssignWp(p, q))
      PROVE  ObjectGone'
  BY <1>5 DEF Clear, WpAssignWp, Release, ReleaseLabel, Return, Free, Readable
<1>6. ASSUME NEW p \in Slots,
             IncWeak(p) \/ IncStrong(p) \/ ForceIncStrong(p) \/ SubInitial(p) \/
             OnFirstRef(p) \/ TryRead(p) \/ TryCas(p) \/ TryAsk(p) \/ TryLast(p)
      PROVE  ObjectGone'
  BY <1>6 DEF IncWeak, IncStrong, ForceIncStrong, SubInitial, OnFirstRef, TryRead, Normal, TryCas, TryAsk, TryLast
<1>7. ASSUME NEW p \in Slots,
             TryCasNever(p) \/ TryInc(p) \/ FixRead(p) \/ FixCas(p) \/ WeakRead(p) \/
             WeakCas(p) \/ DecStrong(p) \/ OnLastStrongRef(p)
      PROVE  ObjectGone'
  BY <1>7 DEF TryCasNever, TryInc, AfterHard, Unneeded, FixRead, FixCas, WeakRead, WeakCas, DecStrong, OnLastStrongRef, AfterLast, Last
<1>8. ASSUME NEW p \in Slots,
             DecWeak(p) \/ LastWeak(p)
      PROVE  ObjectGone'
  BY <1>8 DEF DecWeak, LastWeak, Orphan
<1>9. ASSUME NEW p \in Slots, Destroy(p)
      PROVE  ObjectGone'
  <2>1. CASE pc[p] = "delete"
    BY <1>9, <2>1 DEF Destroy, LastOnce
  <2>2. CASE pc[p] = "dtor"
    BY <1>9, <2>2 DEF Destroy, ZeroDeletes, OwnsRefs
  <2> QED
    BY <1>9, <2>1, <2>2 DEF Destroy
<1>10. ASSUME NEW p \in Slots,
             FreeRefs(p)
      PROVE  ObjectGone'
  BY <1>10 DEF FreeRefs
<1>11. CASE UNCHANGED vars
  BY <1>11 DEF vars
<1> QED
  BY <1>1, <1>2, <1>3, <1>4, <1>5, <1>6, <1>7, <1>8, <1>9, <1>10, <1>11
     DEF Next, Client, SpBegin, WpBegin, Run

\* Only one slot deletes a normal lifetime object.
LEMMA LastStep ==
  ASSUME ~CopyAssign, ~RawRace, IInv, RefsAlive', ZeroStays, TypeOK', [Next]_vars
  PROVE  LastOnce'
<1> USE RefBaseAssumption DEF IInv, TypeOK, Shape, RefsAlive, LastOnce, ZeroStays, Slots, Pcs, IncPcs, TryPcs, WeakPcs, DecPcs, AcqPcs, RelPcs, ZeroPcs, SpPcs, PreWeakPcs,
        Goto, Step, Return, Release, ReleaseLabel, Acquired, heap, words, regs
<1>1. ASSUME NEW p \in SpSlots, NEW o \in Objects, SpNew(p, o)
      PROVE  LastOnce'
  <2>1. o \notin impls /\ \A q \in Slots : this[q] # o
    BY <1>1 DEF SpNew, Construct
  <2> QED
    BY <1>1, <2>1 DEF SpNew, Construct, Begin, Free
<1>2. ASSUME NEW p \in SpSlots, NEW q \in Slots,
             \/ q \in SpSlots /\ SpFromSp(p, q)
             \/ q \in WpSlots /\ (SpFromRaw(p, q) \/ SpForceSet(p, q) \/ Promote(p, q))
      PROVE  LastOnce'
  BY <1>2 DEF SpFromSp, SpFromRaw, SpForceSet, Promote, Begin, Free, Readable
<1>3. ASSUME NEW p \in WpSlots, NEW o \in Objects, WpNew(p, o)
      PROVE  LastOnce'
  <2>1. o \notin impls /\ \A q \in Slots : this[q] # o
    BY <1>3 DEF WpNew, Construct
  <2> QED
    BY <1>3, <2>1 DEF WpNew, Construct, Begin, Free
<1>4. ASSUME NEW p \in WpSlots, NEW q \in Slots,
             \/ q \in SpSlots /\ WpFromSp(p, q)
             \/ q \in WpSlots /\ (WpFromWp(p, q) \/ WpAttempt(p, q))
      PROVE  LastOnce'
  BY <1>4 DEF WpFromSp, WpFromWp, WpAttempt, Begin, Free, Readable
<1>5. ASSUME NEW p \in Slots, NEW q \in Slots,
             Clear(p) \/ (p \in WpSlots /\ q \in WpSlots /\ WpAssignWp(p, q))
      PROVE  LastOnce'
  BY <1>5 DEF Clear, WpAssignWp, Release, ReleaseLabel, Return, Free, Readable
<1>6. ASSUME NEW p \in Slots,
             IncWeak(p) \/ IncStrong(p) \/ ForceIncStrong(p) \/ SubInitial(p) \/
             OnFirstRef(p) \/ TryRead(p) \/ TryCas(p) \/ TryAsk(p) \/ TryLast(p)
      PROVE  LastOnce'
  BY <1>6 DEF IncWeak, IncStrong, ForceIncStrong, SubInitial, OnFirstRef, TryRead, Normal, TryCas, TryAsk, TryLast
<1>7. ASSUME NEW p \in Slots,
             TryCasNever(p) \/ TryInc(p) \/ FixRead(p) \/ FixCas(p) \/ WeakRead(p) \/
             WeakCas(p)
      PROVE  LastOnce'
  BY <1>7 DEF TryCasNever, TryInc, AfterHard, Unneeded, FixRead, FixCas, WeakRead, WeakCas
<1>8. ASSUME NEW p \in Slots, DecStrong(p) \/ OnLastStrongRef(p)
      PROVE  LastOnce'
  <2>1. ASSUME pc[p] = "dec_strong"
        PROVE  mStrong[this[p]] >= 1 /\ this[p] \in objs
    BY <2>1, PtrHeld DEF StrongOldPcs
  <2> QED
    BY <1>8, <2>1 DEF DecStrong, OnLastStrongRef, AfterLast, Last
<1>9. ASSUME NEW p \in Slots,
             DecWeak(p) \/ LastWeak(p)
      PROVE  LastOnce'
  BY <1>9 DEF DecWeak, LastWeak, Orphan
<1>10. ASSUME NEW p \in Slots, Destroy(p)
      PROVE  LastOnce'
  <2>1. CASE pc[p] = "delete"
    BY <1>10, <2>1 DEF Destroy
  <2>2. CASE pc[p] = "dtor"
    BY <1>10, <2>2 DEF Destroy, ZeroAlone, OnlyUser
  <2> QED
    BY <1>10, <2>1, <2>2 DEF Destroy
<1>11. ASSUME NEW p \in Slots,
             FreeRefs(p)
      PROVE  LastOnce'
  BY <1>11 DEF FreeRefs
<1>12. CASE UNCHANGED vars
  BY <1>12 DEF vars
<1> QED
  BY <1>1, <1>2, <1>3, <1>4, <1>5, <1>6, <1>7, <1>8, <1>9, <1>10, <1>11, <1>12
     DEF Next, Client, SpBegin, WpBegin, Run

\* An object never outlives its weakref_impl.
LEMMA ImplsStep ==
  ASSUME ~CopyAssign, ~RawRace, IInv, TypeOK', [Next]_vars
  PROVE  (objs \subseteq impls)'
<1> USE RefBaseAssumption DEF IInv, TypeOK, Shape, Slots, Pcs, IncPcs, TryPcs, WeakPcs, DecPcs, AcqPcs, RelPcs, ZeroPcs, SpPcs, PreWeakPcs,
        Goto, Step, Return, Release, ReleaseLabel, Acquired, heap, words, regs
<1>1. ASSUME NEW p \in SpSlots, NEW o \in Objects, SpNew(p, o)
      PROVE  (objs \subseteq impls)'
  BY <1>1 DEF SpNew, Construct, Begin, Free
<1>2. ASSUME NEW p \in SpSlots, NEW q \in Slots,
             \/ q \in SpSlots /\ SpFromSp(p, q)
             \/ q \in WpSlots /\ (SpFromRaw(p, q) \/ SpForceSet(p, q) \/ Promote(p, q))
      PROVE  (objs \subseteq impls)'
  BY <1>2 DEF SpFromSp, SpFromRaw, SpForceSet, Promote, Begin, Free, Readable
<1>3. ASSUME NEW p \in WpSlots, NEW o \in Objects, WpNew(p, o)
      PROVE  (objs \subseteq impls)'
  BY <1>3 DEF WpNew, Construct, Begin, Free
<1>4. ASSUME NEW p \in WpSlots, NEW q \in Slots,
             \/ q \in SpSlots /\ WpFromSp(p, q)
             \/ q \in WpSlots /\ (WpFromWp(p, q) \/ WpAttempt(p, q))
      PROVE  (objs \subseteq impls)'
  BY <1>4 DEF WpFromSp, WpFromWp, WpAttempt, Begin, Free, Readable
<1>5. ASSUME NEW p \in Slots, NEW q \in Slots,
             Clear(p) \/ (p \in WpSlots /\ q \in WpSlots /\ WpAssignWp(p, q))
      PROVE  (objs \subseteq impls)'
  BY <1>5 DEF Clear, WpAssignWp, Release, ReleaseLabel, Return, Free, Readable
<1>6. ASSUME NEW p \in Slots,
             IncWeak(p) \/ IncStrong(p) \/ ForceIncStrong(p) \/ SubInitial(p) \/
             OnFirstRef(p) \/ TryRead(p) \/ TryCas(p) \/ TryAsk(p) \/ TryLast(p)
      PROVE  (objs \subseteq impls)'
  BY <1>6 DEF IncWeak, IncStrong, ForceIncStrong, SubInitial, OnFirstRef, TryRead, Normal, TryCas, TryAsk, TryLast
<1>7. ASSUME NEW p \in Slots,
             TryCasNever(p) \/ TryInc(p) \/ FixRead(p) \/ FixCas(p) \/ WeakRead(p) \/
             WeakCas(p) \/ DecStrong(p) \/ OnLastStrongRef(p)
      PROVE  (objs \subseteq impls)'
  BY <1>7 DEF TryCasNever, TryInc, AfterHard, Unneeded, FixRead, FixCas, WeakRead, WeakCas, DecStrong, OnLastStrongRef, AfterLast, Last
<1>8. ASSUME NEW p \in Slots,
             DecWeak(p) \/ LastWeak(p) \/ Destroy(p)
      PROVE  (objs \subseteq impls)'
  BY <1>8 DEF DecWeak, LastWeak, Orphan, Destroy, OwnsRefs
<1>9. ASSUME NEW p \in Slots, FreeRefs(p)
      PROVE  (objs \subseteq impls)'
  BY <1>9 DEF FreeRefs, ZeroDeletes
<1>10. CASE UNCHANGED vars
  BY <1>10 DEF vars
<1> QED
  BY <1>1, <1>2, <1>3, <1>4, <1>5, <1>6, <1>7, <1>8, <1>9, <1>10
     DEF Next, Client, SpBegin, WpBegin, Run

\* A strong count of zero always has a slot that will delete the object.
LEMMA PendingStep ==
  ASSUME ~CopyAssign, ~RawRace, IInv, TypeOK', [Next]_vars
  PROVE  DeletePending'
<1> USE RefBaseAssumption DEF IInv, TypeOK, Shape, DeletePending, LifetimeKnown, Slots, Pcs, IncPcs, TryPcs, WeakPcs, DecPcs, AcqPcs, RelPcs, ZeroPcs, SpPcs, PreWeakPcs,
        Goto, Step, Return, Release, ReleaseLabel, Acquired, heap, words, regs
<1>1. ASSUME NEW p \in SpSlots, NEW o \in Objects, SpNew(p, o)
      PROVE  DeletePending'
  BY <1>1, BiasPositive DEF SpNew, Construct, Begin, Free
<1>2. ASSUME NEW p \in SpSlots, NEW q \in Slots,
             \/ q \in SpSlots /\ SpFromSp(p, q)
             \/ q \in WpSlots /\ (SpFromRaw(p, q) \/ SpForceSet(p, q) \/ Promote(p, q))
      PROVE  DeletePending'
  BY <1>2 DEF SpFromSp, SpFromRaw, SpForceSet, Promote, Begin, Free, Readable
<1>3. ASSUME NEW p \in WpSlots, NEW o \in Objects, WpNew(p, o)
      PROVE  DeletePending'
  BY <1>3, BiasPositive DEF WpNew, Construct, Begin, Free
<1>4. ASSUME NEW p \in WpSlots, NEW q \in Slots,
             \/ q \in SpSlots /\ WpFromSp(p, q)
             \/ q \in WpSlots /\ (WpFromWp(p, q) \/ WpAttempt(p, q))
      PROVE  DeletePending'
  BY <1>4 DEF WpFromSp, WpFromWp, WpAttempt, Begin, Free, Readable
<1>5. ASSUME NEW p \in Slots, NEW q \in Slots,
             Clear(p) \/ (p \in WpSlots /\ q \in WpSlots /\ WpAssignWp(p, q))
      PROVE  DeletePending'
  BY <1>5 DEF Clear, WpAssignWp, Release, ReleaseLabel, Return, Free, Readable
<1>6. ASSUME NEW p \in Slots,
             IncWeak(p)
      PROVE  DeletePending'
  BY <1>6 DEF IncWeak
<1>7. ASSUME NEW p \in Slots,
             IncStrong(p) \/ ForceIncStrong(p) \/ SubInitial(p) \/ OnFirstRef(p)
      PROVE  DeletePending'
  <2>1. mStrong[this[p]] \in Nat
    BY <1>7, StrongNat DEF RefsAlive, IncStrong, ForceIncStrong, SubInitial, OnFirstRef
  <2>2. pc[p] = "inc_sub" => mStrong[this[p]] # INITIAL_STRONG_VALUE
    BY ArgHeld DEF StrongNewPcs
  <2> QED
    BY <1>7, <2>1, <2>2 DEF IncStrong, ForceIncStrong, SubInitial, OnFirstRef
<1>8. ASSUME NEW p \in Slots,
             TryRead(p)
      PROVE  DeletePending'
  BY <1>8 DEF TryRead, Normal
<1>9. ASSUME NEW p \in Slots, TryCas(p) \/ TryAsk(p) \/ TryLast(p)
      PROVE  DeletePending'
  <2>1. mStrong[this[p]] \in Nat
    BY <1>9, StrongNat DEF RefsAlive, TryCas, TryAsk, TryLast
  <2> QED
    BY <1>9, <2>1 DEF TryCas, TryAsk, TryLast
<1>10. ASSUME NEW p \in Slots, TryCasNever(p) \/ TryInc(p)
      PROVE  DeletePending'
  <2>1. mStrong[this[p]] \in Nat
    BY <1>10, StrongNat DEF RefsAlive, TryCasNever, TryInc, AfterHard, Unneeded
  <2> QED
    BY <1>10, <2>1 DEF TryCasNever, TryInc, AfterHard, Unneeded
<1>11. ASSUME NEW p \in Slots, FixRead(p) \/ FixCas(p)
      PROVE  DeletePending'
  <2>1. mStrong[this[p]] \in Nat
    BY <1>11, StrongNat DEF RefsAlive, FixRead, FixCas
  <2>2. pc[p] = "fix_cas" => mStrong[this[p]] # INITIAL_STRONG_VALUE
    BY ArgHeld DEF StrongNewPcs
  <2> QED
    BY <1>11, <2>1, <2>2, BiasPositive DEF FixRead, FixCas
<1>12. ASSUME NEW p \in Slots,
             WeakRead(p) \/ WeakCas(p)
      PROVE  DeletePending'
  BY <1>12 DEF WeakRead, WeakCas
<1>13. ASSUME NEW p \in Slots, DecStrong(p) \/ OnLastStrongRef(p)
      PROVE  DeletePending'
  <2>1. mStrong[this[p]] \in Nat
    BY <1>13, StrongNat DEF RefsAlive, DecStrong, OnLastStrongRef, AfterLast, Last
  <2> QED
    BY <1>13, <2>1 DEF DecStrong, OnLastStrongRef, AfterLast, Last
<1>14. ASSUME NEW p \in Slots,
             DecWeak(p) \/ LastWeak(p) \/ Destroy(p) \/ FreeRefs(p)
      PROVE  DeletePending'
  BY <1>14 DEF DecWeak, LastWeak, Orphan, Destroy, OwnsRefs, FreeRefs
<1>15. CASE UNCHANGED vars
  BY <1>15 DEF vars
<1> QED
  BY <1>1, <1>2, <1>3, <1>4, <1>5, <1>6, <1>7, <1>8, <1>9, <1>10, <1>11, <1>12, <1>13, <1>14, <1>15
     DEF Next, Client, SpBegin, WpBegin, Run

\* The slot that brought mWeak to zero stays alone with the cell.
LEMMA ZeroAloneStep ==
  ASSUME ~CopyAssign, ~RawRace, IInv, WeakCountExact', TypeOK', [Next]_vars
  PROVE  ZeroAlone'
<1> USE RefBaseAssumption DEF IInv, TypeOK, Shape, RefsAlive, SrcHeld, ZeroAlone, OnlyUser, Slots, Pcs, IncPcs, TryPcs, WeakPcs, DecPcs, AcqPcs, RelPcs, ZeroPcs, SpPcs, PreWeakPcs,
        Goto, Step, Return, Release, ReleaseLabel, Acquired, heap, words, regs
<1>1. ASSUME NEW p \in SpSlots, NEW o \in Objects, SpNew(p, o)
      PROVE  ZeroAlone'
  BY <1>1 DEF SpNew, Construct, Begin, Free
<1>2. ASSUME NEW p \in SpSlots, NEW q \in Slots,
             \/ q \in SpSlots /\ SpFromSp(p, q)
             \/ q \in WpSlots /\ (SpFromRaw(p, q) \/ SpForceSet(p, q) \/ Promote(p, q))
      PROVE  ZeroAlone'
  BY <1>2 DEF SpFromSp, SpFromRaw, SpForceSet, Promote, Begin, Free, Readable
<1>3. ASSUME NEW p \in WpSlots, NEW o \in Objects, WpNew(p, o)
      PROVE  ZeroAlone'
  BY <1>3 DEF WpNew, Construct, Begin, Free
<1>4. ASSUME NEW p \in WpSlots, NEW q \in Slots,
             \/ q \in SpSlots /\ WpFromSp(p, q)
             \/ q \in WpSlots /\ (WpFromWp(p, q) \/ WpAttempt(p, q))
      PROVE  ZeroAlone'
  BY <1>4 DEF WpFromSp, WpFromWp, WpAttempt, Begin, Free, Readable
<1>5. ASSUME NEW p \in Slots, NEW q \in Slots,
             Clear(p) \/ (p \in WpSlots /\ q \in WpSlots /\ WpAssignWp(p, q))
      PROVE  ZeroAlone'
  BY <1>5 DEF Clear, WpAssignWp, Release, ReleaseLabel, Return, Free, Readable
<1>6. ASSUME NEW p \in Slots,
             IncWeak(p) \/ IncStrong(p) \/ ForceIncStrong(p) \/ SubInitial(p) \/
             OnFirstRef(p) \/ TryRead(p) \/ TryCas(p) \/ TryAsk(p) \/ TryLast(p)
      PROVE  ZeroAlone'
  BY <1>6 DEF IncWeak, IncStrong, ForceIncStrong, SubInitial, OnFirstRef, TryRead, Normal, TryCas, TryAsk, TryLast
<1>7. ASSUME NEW p \in Slots,
             TryCasNever(p) \/ TryInc(p) \/ FixRead(p) \/ FixCas(p) \/ WeakRead(p) \/
             WeakCas(p) \/ DecStrong(p) \/ OnLastStrongRef(p)
      PROVE  ZeroAlone'
  BY <1>7 DEF TryCasNever, TryInc, AfterHard, Unneeded, FixRead, FixCas, WeakRead, WeakCas, DecStrong, OnLastStrongRef, AfterLast, Last
<1>8. ASSUME NEW p \in Slots, DecWeak(p)
      PROVE  ZeroAlone'
  <2>1. ASSUME NEW o \in Objects, o = this[p], mWeak[o] = 1
        PROVE  OnlyUser(p, o) /\ arg'[p] # o /\ mWeak'[o] = 0
    <3>1. /\ o \in impls' /\ OthersSame(p)
          /\ mWeak'[o] = 0 /\ pc'[p] = "last_weak"
      BY <1>8, <2>1, RefBaseAssumption DEF DecWeak, OthersSame
    <3>2. WeakRefs(o)' = 0
      BY <3>1 DEF WeakCountExact, WeakRefs
    <3>3. \A q \in Slots : WeakPart(q, o)' = 0
      BY <3>2, WeakZeroNext
    <3>4. \A q \in Slots \ {p} : WeakPart(q, this[p]) = 0
      BY <2>1, <3>1, <3>3 DEF OthersSame, WeakPart
    <3>5. arg'[p] # o
      BY <3>1, <3>3 DEF WeakPart
    <3>6. pc[p] \in {"dec_weak", "undo_weak"}
      BY <1>8 DEF DecWeak
    <3>7. OnlyUser(p, this[p])
      BY <3>4, <3>6, UncountedUnknown
    <3> QED
      BY <2>1, <3>1, <3>5, <3>7
  <2>2. this[p] \in Objects
    BY <1>8 DEF DecWeak
  <2> QED
    BY <1>8, <2>1, <2>2 DEF DecWeak
<1>9. ASSUME NEW p \in Slots,
             LastWeak(p) \/ Destroy(p) \/ FreeRefs(p)
      PROVE  ZeroAlone'
  BY <1>9 DEF LastWeak, Orphan, Destroy, OwnsRefs, FreeRefs
<1>10. CASE UNCHANGED vars
  BY <1>10 DEF vars
<1> QED
  BY <1>1, <1>2, <1>3, <1>4, <1>5, <1>6, <1>7, <1>8, <1>9, <1>10
     DEF Next, Client, SpBegin, WpBegin, Run

\* The slot that brought mWeak to zero deletes what is left, once.
LEMMA ZeroDelStep ==
  ASSUME ~CopyAssign, ~RawRace, IInv, TypeOK', [Next]_vars
  PROVE  ZeroDeletes'
<1> USE RefBaseAssumption DEF IInv, TypeOK, Shape, RefsAlive, ZeroAlone, OnlyUser, ZeroDeletes, OwnsRefs, Slots, Pcs, IncPcs, TryPcs, WeakPcs, DecPcs, AcqPcs, RelPcs, ZeroPcs, SpPcs, PreWeakPcs,
        Goto, Step, Return, Release, ReleaseLabel, Acquired, heap, words, regs
<1>1. ASSUME NEW p \in SpSlots, NEW o \in Objects, SpNew(p, o)
      PROVE  ZeroDeletes'
  BY <1>1 DEF SpNew, Construct, Begin, Free
<1>2. ASSUME NEW p \in SpSlots, NEW q \in Slots,
             \/ q \in SpSlots /\ SpFromSp(p, q)
             \/ q \in WpSlots /\ (SpFromRaw(p, q) \/ SpForceSet(p, q) \/ Promote(p, q))
      PROVE  ZeroDeletes'
  BY <1>2 DEF SpFromSp, SpFromRaw, SpForceSet, Promote, Begin, Free, Readable
<1>3. ASSUME NEW p \in WpSlots, NEW o \in Objects, WpNew(p, o)
      PROVE  ZeroDeletes'
  BY <1>3 DEF WpNew, Construct, Begin, Free
<1>4. ASSUME NEW p \in WpSlots, NEW q \in Slots,
             \/ q \in SpSlots /\ WpFromSp(p, q)
             \/ q \in WpSlots /\ (WpFromWp(p, q) \/ WpAttempt(p, q))
      PROVE  ZeroDeletes'
  BY <1>4 DEF WpFromSp, WpFromWp, WpAttempt, Begin, Free, Readable
<1>5. ASSUME NEW p \in Slots, NEW q \in Slots,
             Clear(p) \/ (p \in WpSlots /\ q \in WpSlots /\ WpAssignWp(p, q))
      PROVE  ZeroDeletes'
  BY <1>5 DEF Clear, WpAssignWp, Release, ReleaseLabel, Return, Free, Readable
<1>6. ASSUME NEW p \in Slots,
             IncWeak(p) \/ IncStrong(p) \/ ForceIncStrong(p) \/ SubInitial(p) \/
             OnFirstRef(p) \/ TryRead(p) \/ TryCas(p) \/ TryAsk(p) \/ TryLast(p)
      PROVE  ZeroDeletes'
  BY <1>6 DEF IncWeak, IncStrong, ForceIncStrong, SubInitial, OnFirstRef, TryRead, Normal, TryCas, TryAsk, TryLast
<1>7. ASSUME NEW p \in Slots,
             TryCasNever(p) \/ TryInc(p) \/ FixRead(p) \/ FixCas(p) \/ WeakRead(p) \/
             WeakCas(p) \/ DecStrong(p) \/ OnLastStrongRef(p)
      PROVE  ZeroDeletes'
  BY <1>7 DEF TryCasNever, TryInc, AfterHard, Unneeded, FixRead, FixCas, WeakRead, WeakCas, DecStrong, OnLastStrongRef, AfterLast, Last
<1>8. ASSUME NEW p \in Slots,
             DecWeak(p)
      PROVE  ZeroDeletes'
  BY <1>8 DEF DecWeak
<1>9. ASSUME NEW p \in Slots, LastWeak(p)
      PROVE  ZeroDeletes'
  BY <1>9, ZeroUnheld, BiasPositive DEF LastWeak, Orphan, ObjectGone
<1>10. ASSUME NEW p \in Slots,
             Destroy(p) \/ FreeRefs(p)
      PROVE  ZeroDeletes'
  BY <1>10 DEF Destroy, OwnsRefs, FreeRefs
<1>11. CASE UNCHANGED vars
  BY <1>11 DEF vars
<1> QED
  BY <1>1, <1>2, <1>3, <1>4, <1>5, <1>6, <1>7, <1>8, <1>9, <1>10, <1>11
     DEF Next, Client, SpBegin, WpBegin, Run

\* Memory that is not freed is still known to some slot.
LEMMA NoLeakStep ==
  ASSUME ~CopyAssign, ~RawRace, IInv, WeakCountExact', (objs \subseteq impls)', TypeOK', [Next]_vars
  PROVE  NoLeak'
<1> USE RefBaseAssumption DEF IInv, TypeOK, Shape, NoLeak, InUse, Slots, Pcs, IncPcs, TryPcs, WeakPcs, DecPcs, AcqPcs, RelPcs, ZeroPcs, SpPcs, PreWeakPcs,
        Goto, Step, Return, Release, ReleaseLabel, Acquired, heap, words, regs
<1>1. ASSUME NEW p \in SpSlots, NEW o \in Objects, SpNew(p, o)
      PROVE  NoLeak'
  BY <1>1 DEF SpNew, Construct, Begin, Free
<1>2. ASSUME NEW p \in SpSlots, NEW q \in Slots,
             \/ q \in SpSlots /\ SpFromSp(p, q)
             \/ q \in WpSlots /\ (SpFromRaw(p, q) \/ SpForceSet(p, q) \/ Promote(p, q))
      PROVE  NoLeak'
  BY <1>2 DEF SpFromSp, SpFromRaw, SpForceSet, Promote, Begin, Free, Readable
<1>3. ASSUME NEW p \in WpSlots, NEW o \in Objects, WpNew(p, o)
      PROVE  NoLeak'
  BY <1>3 DEF WpNew, Construct, Begin, Free
<1>4. ASSUME NEW p \in WpSlots, NEW q \in Slots,
             \/ q \in SpSlots /\ WpFromSp(p, q)
             \/ q \in WpSlots /\ (WpFromWp(p, q) \/ WpAttempt(p, q))
      PROVE  NoLeak'
  BY <1>4 DEF WpFromSp, WpFromWp, WpAttempt, Begin, Free, Readable
<1>5. ASSUME NEW p \in Slots, NEW q \in Slots,
             Clear(p) \/ (p \in WpSlots /\ q \in WpSlots /\ WpAssignWp(p, q))
      PROVE  NoLeak'
  BY <1>5 DEF Clear, WpAssignWp, Release, ReleaseLabel, Return, Free, Readable
<1>6. ASSUME NEW p \in Slots,
             IncWeak(p) \/ IncStrong(p) \/ ForceIncStrong(p) \/ SubInitial(p) \/
             OnFirstRef(p) \/ TryRead(p) \/ TryCas(p) \/ TryAsk(p) \/ TryLast(p)
      PROVE  NoLeak'
  BY <1>6 DEF IncWeak, IncStrong, ForceIncStrong, SubInitial, OnFirstRef, TryRead, Normal, TryCas, TryAsk, TryLast
<1>7. ASSUME NEW p \in Slots,
             TryCasNever(p) \/ TryInc(p) \/ FixRead(p) \/ FixCas(p)
      PROVE  NoLeak'
  BY <1>7 DEF TryCasNever, TryInc, AfterHard, Unneeded, FixRead, FixCas
<1>8. ASSUME NEW p \in Slots, WeakRead(p) \/ WeakCas(p)
      PROVE  NoLeak'
  BY <1>8, WeakReadHeld DEF WeakRead, WeakCas
<1>9. ASSUME NEW p \in Slots,
             DecStrong(p) \/ OnLastStrongRef(p)
      PROVE  NoLeak'
  BY <1>9 DEF DecStrong, OnLastStrongRef, AfterLast, Last
<1>10. ASSUME NEW p \in Slots, DecWeak(p)
      PROVE  NoLeak'
  <2>1. ASSUME NEW o \in Objects, o = this[p], mWeak[o] # 1
        PROVE  InUse(o)'
    <3>1. o \in impls' /\ mWeak'[o] # 0
      BY <1>10, <2>1, RefBaseAssumption DEF DecWeak, RefsAlive
    <3>2. WeakRefs(o)' # 0
      BY <3>1 DEF WeakCountExact, WeakRefs
    <3>3. PICK q \in Slots : WeakPart(q, o)' # 0
      BY <3>2, WeakZeroNext
    <3> QED
      BY <3>3 DEF WeakPart
  <2>2. this[p] \in Objects
    BY <1>10 DEF DecWeak
  <2> QED
    BY <1>10, <2>1, <2>2 DEF DecWeak
<1>11. ASSUME NEW p \in Slots,
             LastWeak(p)
      PROVE  NoLeak'
  BY <1>11 DEF LastWeak, Orphan
<1>12. ASSUME NEW p \in Slots, Destroy(p)
      PROVE  NoLeak'
  BY <1>12 DEF Destroy, OwnsRefs, ZeroDeletes
<1>13. ASSUME NEW p \in Slots,
             FreeRefs(p)
      PROVE  NoLeak'
  BY <1>13 DEF FreeRefs
<1>14. CASE UNCHANGED vars
  BY <1>14 DEF vars
<1> QED
  BY <1>1, <1>2, <1>3, <1>4, <1>5, <1>6, <1>7, <1>8, <1>9, <1>10, <1>11, <1>12, <1>13, <1>14
     DEF Next, Client, SpBegin, WpBegin, Run
==============================================================================
