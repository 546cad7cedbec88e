------------------------------- MODULE RefBase -------------------------------
(***************************************************************************)
(* Reference counting of base/utils: RefBase, its weakref_impl, and the    *)
(* smart pointers sp<T> and wp<T>.                                         *)
(*                                                                         *)
(* A process is one smart-pointer variable (a "slot").  One thread works   *)
(* on a slot at a time; different slots are worked on concurrently.  Every *)
(* access to a shared word (mStrong, mWeak), every callback and every      *)
(* delete is a step of its own, in the order of the code.                  *)
(***************************************************************************)
EXTENDS Integers, FiniteSets

CONSTANTS
  Objects,               \* heap cells that may hold a RefBase and its weakref_impl
  SpSlots,               \* the sp<T> variables of the program
  WpSlots,               \* the wp<T> variables of the program
  NULL,
  INITIAL_STRONG_VALUE,  \* bias of mStrong: more than all slots can ever add
  Lifetimes,             \* the modes given to extendObjectLifetime()
  EarlyPromote,  \* may promote() run before the first sp<T> is complete?
  RawRace,       \* may a first sp<T>(T* ) run concurrently with promote()?
  CopyAssign     \* may wp<T>::operator=(const wp<T>&) copy a non-null wp?

Slots == SpSlots \cup WpSlots

ASSUME RefBaseAssumption ==
  /\ NULL \notin Objects \cup Slots
  /\ SpSlots \cap WpSlots = {}
  /\ IsFiniteSet(Slots)
  /\ INITIAL_STRONG_VALUE \in Nat
  /\ INITIAL_STRONG_VALUE > 2 * Cardinality(Slots) + 1
  /\ Lifetimes \subseteq {"STRONG", "WEAK"}
  /\ {EarlyPromote, RawRace, CopyAssign} \subseteq BOOLEAN

VARIABLES
  objs,     \* cells whose RefBase object is alive
  impls,    \* cells whose weakref_impl is alive
  mStrong,
  mWeak,
  mFlags,
  credit,   \* ghost: onFirstRef()/onIncStrongAttempted() granted - onLastStrongRef()
  ptr,      \* m_ptr of each slot
  pc,       \* next step of the operation running on the slot
  this,     \* the object whose member function is running
  arg,      \* the value m_ptr gets when the operation returns
  src,      \* the slot the operation reads (const other), until it is done with it
  cur       \* curCount of attemptIncStrong() and attemptIncWeak()

heap  == <<objs, impls, mFlags>>
words == <<mStrong, mWeak>>
regs  == <<ptr, pc, this, arg, src, cur>>
vars  == <<objs, impls, mStrong, mWeak, mFlags, credit, ptr, pc, this, arg, src, cur>>

IncPcs == {"inc_weak", "inc_strong", "force_weak", "force_strong", "inc_sub", "inc_first"}
TryPcs == {"try_weak", "try_read", "try_cas", "try_cas_never", "try_read_never",
           "try_ask", "try_inc", "try_last", "fix_read", "fix_cas", "undo_weak"}
WeakPcs == {"create_weak", "ref_weak", "weak_read", "weak_cas"}
DecPcs == {"dec_strong", "last_strong", "delete", "dec_weak", "last_weak", "dtor", "free"}
Pcs == {"idle"} \cup IncPcs \cup TryPcs \cup WeakPcs \cup DecPcs

Init ==
  /\ objs = {} /\ impls = {}
  /\ mStrong = [o \in Objects |-> 0]
  /\ mWeak = [o \in Objects |-> 0]
  /\ mFlags = [o \in Objects |-> "STRONG"]
  /\ credit = [o \in Objects |-> 0]
  /\ ptr = [p \in Slots |-> NULL]
  /\ pc = [p \in Slots |-> "idle"]
  /\ this = [p \in Slots |-> NULL]
  /\ arg = [p \in Slots |-> NULL]
  /\ src = [p \in Slots |-> NULL]
  /\ cur = [p \in Slots |-> 0]

-----------------------------------------------------------------------------
(* How an operation starts, moves on and ends.                              *)

\* The thread owning slot p may start an operation on it: it is not inside
\* one, and no other slot is reading p.
Free(p) == pc[p] = "idle" /\ \A q \in Slots : src[q] # p

\* Another slot may read q: no operation is changing it.
Readable(q) == pc[q] = "idle"

Goto(p, l) == pc' = [pc EXCEPT ![p] = l]

\* Operation on p starts at label l, on object o, to be stored in p; it reads s.
Begin(p, l, o, s) ==
  /\ Free(p)
  /\ Goto(p, l)
  /\ this' = [this EXCEPT ![p] = o]
  /\ arg' = [arg EXCEPT ![p] = o]
  /\ src' = [src EXCEPT ![p] = s]
  /\ UNCHANGED <<ptr, cur>>

\* The operation returns and m_ptr becomes o.
Return(p, o) ==
  /\ ptr' = [ptr EXCEPT ![p] = o]
  /\ Goto(p, "idle")
  /\ this' = [this EXCEPT ![p] = NULL]
  /\ arg' = [arg EXCEPT ![p] = NULL]
  /\ src' = [src EXCEPT ![p] = NULL]
  /\ cur' = [cur EXCEPT ![p] = 0]

\* "if (m_ptr) m_ptr->decStrong(this)" and "if (m_ptr) m_refs->decWeak(this)".
ReleaseLabel(p) == IF p \in SpSlots THEN "dec_strong" ELSE "dec_weak"

Release(p) ==
  /\ Goto(p, ReleaseLabel(p))
  /\ this' = [this EXCEPT ![p] = ptr[p]]
  /\ src' = [src EXCEPT ![p] = NULL]
  /\ cur' = [cur EXCEPT ![p] = 0]
  /\ UNCHANGED ptr

\* The new reference is held: release the old one, if any, then store the new.
Acquired(p) ==
  \/ ptr[p] # NULL /\ Release(p) /\ UNCHANGED arg
  \/ ptr[p] = NULL /\ Return(p, arg[p])

\* The operation moves on to label l.
Step(p, l) == Goto(p, l) /\ UNCHANGED <<ptr, this, arg, src, cur>>

-----------------------------------------------------------------------------
(* Operations of the program on its smart pointers.                         *)

\* The constructor of the object: a fresh weakref_impl, no reference yet.
Construct(o) ==
  /\ o \notin objs /\ o \notin impls
  /\ objs' = objs \cup {o}
  /\ impls' = impls \cup {o}
  /\ mStrong' = [mStrong EXCEPT ![o] = INITIAL_STRONG_VALUE]
  /\ mWeak' = [mWeak EXCEPT ![o] = 0]
  /\ credit' = [credit EXCEPT ![o] = 0]
  /\ \E mode \in Lifetimes : mFlags' = [mFlags EXCEPT ![o] = mode]

\* sp<T> p = new T, or p = new T.
SpNew(p, o) == Construct(o) /\ Begin(p, "inc_weak", o, NULL)

\* wp<T> p = new T, or p = new T.
WpNew(p, o) == Construct(o) /\ Begin(p, "create_weak", o, NULL)

\* sp copy constructor, sp = sp, sp(T* ) and sp = T* with the T* of another sp.
SpFromSp(p, q) ==
  /\ Readable(q) /\ ptr[q] # NULL
  /\ Begin(p, "inc_weak", ptr[q], q)
  /\ UNCHANGED <<heap, words, credit>>

\* A slot is taking a strong reference on o.
Acquiring(o) == \E p \in SpSlots : this[p] = o /\ pc[p] \in IncPcs \cup TryPcs

\* The first strong reference on o is being taken by incStrong().
FirstInProgress(o) ==
  mStrong[o] >= INITIAL_STRONG_VALUE /\ \E p \in SpSlots : this[p] = o /\ pc[p] \in IncPcs

\* sp(T* ) with the T* from new, after wp(T* ): the object never had a strong
\* reference and a wp keeps it alive (mytest/spwptest.cpp does this).
SpFromRaw(p, w) ==
  /\ Readable(w) /\ ptr[w] # NULL
  /\ mStrong[ptr[w]] = INITIAL_STRONG_VALUE
  /\ RawRace \/ ~Acquiring(ptr[w])
  /\ Begin(p, "inc_weak", ptr[w], w)
  /\ UNCHANGED <<heap, words, credit>>

\* sp::force_set(T* ) on an empty sp, with an object a wp keeps alive.
SpForceSet(p, w) ==
  /\ Readable(w) /\ ptr[w] # NULL /\ ptr[p] = NULL
  /\ mFlags[ptr[w]] = "WEAK"
  /\ RawRace \/ mStrong[ptr[w]] < INITIAL_STRONG_VALUE \/ ~Acquiring(ptr[w])
  /\ Begin(p, "force_weak", ptr[w], w)
  /\ UNCHANGED <<heap, words, credit>>

\* sp<T> p = w.promote().
Promote(p, w) ==
  /\ Readable(w) /\ ptr[w] # NULL /\ ptr[p] = NULL
  /\ EarlyPromote \/ mStrong[ptr[w]] < INITIAL_STRONG_VALUE
  /\ RawRace \/ ~FirstInProgress(ptr[w])
  /\ Begin(p, "try_weak", ptr[w], w)
  /\ UNCHANGED <<heap, words, credit>>

\* wp(sp), wp = sp, wp(T* ) and wp = T* : createWeak() through the object.
WpFromSp(p, q) ==
  /\ Readable(q) /\ ptr[q] # NULL
  /\ Begin(p, "create_weak", ptr[q], q)
  /\ UNCHANGED <<heap, words, credit>>

\* Fault: the copy constructor takes no weak reference.
WpFromWp_NoInc(p, q) ==
  /\ Free(p) /\ Readable(q) /\ ptr[q] # NULL /\ ptr[p] = NULL
  /\ Return(p, ptr[q])
  /\ UNCHANGED <<heap, words, credit>>

\* wp(const wp&), the template operator=(const wp<U>&), set_object_and_refs().
WpFromWp(p, q) ==
  /\ Readable(q) /\ ptr[q] # NULL
  /\ Begin(p, "ref_weak", ptr[q], q)
  /\ UNCHANGED <<heap, words, credit>>

\* get_refs()->attemptIncWeak(), for an empty wp.
WpAttempt(p, q) ==
  /\ Readable(q) /\ ptr[q] # NULL /\ ptr[p] = NULL
  /\ Begin(p, "weak_read", ptr[q], q)
  /\ UNCHANGED <<heap, words, credit>>

\* wp::operator=(const wp<T>&): copies the pointers, takes no reference, and
\* releases the old one.
WpAssignWp(p, q) ==
  /\ Free(p) /\ Readable(q)
  /\ CopyAssign \/ ptr[q] = NULL
  /\ \/ /\ ptr[p] # NULL
        /\ Release(p)
        /\ arg' = [arg EXCEPT ![p] = ptr[q]]
     \/ ptr[p] = NULL /\ ptr[q] # NULL /\ Return(p, ptr[q])
  /\ UNCHANGED <<heap, words, credit>>

\* Fault: clear() without its null test.
Clear_NoNullTest(p) == Free(p) /\ Release(p) /\ UNCHANGED <<arg, heap, words, credit>>

\* clear(), the destructors, and assignment of a null pointer.
Clear(p) ==
  /\ Free(p) /\ ptr[p] # NULL
  /\ Release(p)
  /\ UNCHANGED <<arg, heap, words, credit>>

-----------------------------------------------------------------------------
(* incStrong() and froceIncStrong().                                        *)

\* weakref_type::incWeak(), called first by every way to take a reference.
IncWeak(p) ==
  /\ pc[p] \in {"inc_weak", "force_weak", "try_weak", "create_weak", "ref_weak"}
  /\ mWeak' = [mWeak EXCEPT ![this[p]] = @ + 1]
  /\ \/ pc[p] = "inc_weak" /\ Step(p, "inc_strong")
     \/ pc[p] = "force_weak" /\ Step(p, "force_strong")
     \/ pc[p] = "try_weak" /\ Step(p, "try_read")
     \/ pc[p] \in {"create_weak", "ref_weak"} /\ Acquired(p)
  /\ UNCHANGED <<heap, mStrong, credit>>

\* Fault: incStrong() without "if (c != INITIAL_STRONG_VALUE) return".
IncStrong_AlwaysSub(p) ==
  /\ pc[p] = "inc_strong"
  /\ mStrong' = [mStrong EXCEPT ![this[p]] = @ + 1]
  /\ Step(p, "inc_sub")
  /\ UNCHANGED <<heap, mWeak, credit>>

IncStrong(p) ==
  LET c == mStrong[this[p]]
  IN /\ pc[p] = "inc_strong"
     /\ mStrong' = [mStrong EXCEPT ![this[p]] = c + 1]
     /\ \/ c = INITIAL_STRONG_VALUE /\ Step(p, "inc_sub")
        \/ c # INITIAL_STRONG_VALUE /\ Acquired(p)
     /\ UNCHANGED <<heap, mWeak, credit>>

ForceIncStrong(p) ==
  LET c == mStrong[this[p]]
  IN /\ pc[p] = "force_strong"
     /\ mStrong' = [mStrong EXCEPT ![this[p]] = c + 1]
     /\ \/ c = INITIAL_STRONG_VALUE /\ Step(p, "inc_sub")
        \/ c = 0 /\ Step(p, "inc_first")
        \/ c \notin {0, INITIAL_STRONG_VALUE} /\ Acquired(p)
     /\ UNCHANGED <<heap, mWeak, credit>>

\* linux_atomic_add(-INITIAL_STRONG_VALUE, &mStrong).
SubInitial(p) ==
  /\ pc[p] = "inc_sub"
  /\ Step(p, "inc_first")
  /\ mStrong' = [mStrong EXCEPT ![this[p]] = @ - INITIAL_STRONG_VALUE]
  /\ UNCHANGED <<heap, mWeak, credit>>

OnFirstRef(p) ==
  /\ pc[p] = "inc_first"
  /\ credit' = [credit EXCEPT ![this[p]] = @ + 1]
  /\ Acquired(p)
  /\ UNCHANGED <<heap, words>>

-----------------------------------------------------------------------------
(* attemptIncStrong().                                                      *)

\* The lifetime test of attemptIncStrong(); the fault has it always fail.
Normal_Never(o) == FALSE
Normal(o) == mFlags[o] = "STRONG"

\* curCount = impl->mStrong, then the tests on it that lead to the next access.
TryRead(p) ==
  LET c == mStrong[this[p]]
      strong == Normal(this[p])
  IN /\ pc[p] \in {"try_read", "try_read_never"}
     /\ cur' = [cur EXCEPT ![p] = c]
     /\ \/ c <= 0 /\ strong /\ Goto(p, "undo_weak")
        \/ pc[p] = "try_read" /\ c > 0 /\ c # INITIAL_STRONG_VALUE /\ Goto(p, "try_cas")
        \/ pc[p] = "try_read" /\ c = INITIAL_STRONG_VALUE /\ strong
           /\ Goto(p, "try_cas_never")
        \/ pc[p] = "try_read" /\ (c <= 0 \/ c = INITIAL_STRONG_VALUE) /\ ~strong
           /\ Goto(p, "try_ask")
        \/ pc[p] = "try_read_never" /\ c > 0 /\ Goto(p, "try_cas_never")
     /\ UNCHANGED <<heap, words, credit, ptr, this, arg, src>>

\* Fault: a load and a store instead of the compare-and-swap.
TryCas_Store(p) ==
  /\ pc[p] = "try_cas"
  /\ mStrong' = [mStrong EXCEPT ![this[p]] = cur[p] + 1]
  /\ Step(p, "fix_read")
  /\ UNCHANGED <<heap, mWeak, credit>>

\* The compare-and-swap of the common case: a strong reference exists.
TryCas(p) ==
  /\ pc[p] = "try_cas"
  /\ \/ /\ mStrong[this[p]] = cur[p]
        /\ mStrong' = [mStrong EXCEPT ![this[p]] = @ + 1]
        /\ Step(p, "fix_read")
     \/ /\ mStrong[this[p]] # cur[p]
        /\ Step(p, "try_read")
        /\ UNCHANGED mStrong
  /\ UNCHANGED <<heap, mWeak, credit>>

\* The test before onLastStrongRef(): another thread incremented the count
\* first.  The fault drops the call.
Unneeded_Never(c) == FALSE
Unneeded(c) == c > 0 /\ c < INITIAL_STRONG_VALUE
AfterHard(c) == IF Unneeded(c) THEN "try_last" ELSE "fix_read"

\* The compare-and-swap of a normal-lifetime object that had no strong reference.
TryCasNever(p) ==
  /\ pc[p] = "try_cas_never"
  /\ \/ /\ mStrong[this[p]] = cur[p]
        /\ mStrong' = [mStrong EXCEPT ![this[p]] = @ + 1]
        /\ Step(p, AfterHard(cur[p]))
     \/ /\ mStrong[this[p]] # cur[p]
        /\ Step(p, "try_read_never")
        /\ UNCHANGED mStrong
  /\ UNCHANGED <<heap, mWeak, credit>>

\* onIncStrongAttempted(): the implementor of an extended-lifetime object answers.
TryAsk(p) ==
  /\ pc[p] = "try_ask"
  /\ \/ /\ Step(p, "try_inc")
        /\ credit' = [credit EXCEPT ![this[p]] = @ + 1]
     \/ Step(p, "undo_weak") /\ UNCHANGED credit
  /\ UNCHANGED <<heap, words>>

TryInc(p) ==
  /\ pc[p] = "try_inc"
  /\ Step(p, AfterHard(mStrong[this[p]]))
  /\ mStrong' = [mStrong EXCEPT ![this[p]] = @ + 1]
  /\ UNCHANGED <<heap, mWeak, credit>>

TryLast(p) ==
  /\ pc[p] = "try_last"
  /\ Step(p, "fix_read")
  /\ credit' = [credit EXCEPT ![this[p]] = @ - 1]
  /\ UNCHANGED <<heap, words>>

\* The fix-up loop: read, and stop once the bias is gone.
FixRead(p) ==
  /\ pc[p] = "fix_read"
  /\ \/ /\ mStrong[this[p]] >= INITIAL_STRONG_VALUE
        /\ cur' = [cur EXCEPT ![p] = mStrong[this[p]]]
        /\ Goto(p, "fix_cas")
        /\ UNCHANGED <<ptr, this, arg, src>>
     \/ mStrong[this[p]] < INITIAL_STRONG_VALUE /\ Acquired(p)
  /\ UNCHANGED <<heap, words, credit>>

\* Fault: after a failed exchange the loop does not read the count again.
FixCas_NoReload(p) ==
  /\ pc[p] = "fix_cas"
  /\ \/ /\ mStrong[this[p]] = cur[p]
        /\ mStrong' = [mStrong EXCEPT ![this[p]] = @ - INITIAL_STRONG_VALUE]
        /\ Acquired(p)
     \/ mStrong[this[p]] # cur[p] /\ UNCHANGED <<mStrong, regs>>
  /\ UNCHANGED <<heap, mWeak, credit>>

\* Fault: a plain subtraction instead of the compare-and-swap.
FixCas_Plain(p) ==
  /\ pc[p] = "fix_cas"
  /\ mStrong' = [mStrong EXCEPT ![this[p]] = @ - INITIAL_STRONG_VALUE]
  /\ Acquired(p)
  /\ UNCHANGED <<heap, mWeak, credit>>

FixCas(p) ==
  /\ pc[p] = "fix_cas"
  /\ \/ /\ mStrong[this[p]] = cur[p]
        /\ mStrong' = [mStrong EXCEPT ![this[p]] = @ - INITIAL_STRONG_VALUE]
        /\ Acquired(p)
     \/ /\ mStrong[this[p]] # cur[p]
        /\ Step(p, "fix_read")
        /\ UNCHANGED mStrong
  /\ UNCHANGED <<heap, mWeak, credit>>

-----------------------------------------------------------------------------
(* attemptIncWeak().                                                        *)

WeakRead(p) ==
  /\ pc[p] = "weak_read"
  /\ \/ /\ mWeak[this[p]] > 0
        /\ cur' = [cur EXCEPT ![p] = mWeak[this[p]]]
        /\ Goto(p, "weak_cas")
        /\ UNCHANGED <<ptr, this, arg, src>>
     \/ mWeak[this[p]] <= 0 /\ Return(p, NULL)
  /\ UNCHANGED <<heap, words, credit>>

WeakCas(p) ==
  /\ pc[p] = "weak_cas"
  /\ \/ /\ mWeak[this[p]] = cur[p]
        /\ mWeak' = [mWeak EXCEPT ![this[p]] = @ + 1]
        /\ Acquired(p)
     \/ /\ mWeak[this[p]] # cur[p]
        /\ Step(p, "weak_read")
        /\ UNCHANGED mWeak
  /\ UNCHANGED <<heap, mStrong, credit>>

-----------------------------------------------------------------------------
(* decStrong(), decWeak() and the destructors.                              *)

\* Was this the last strong reference?  c is the count before the decrement.
Last_NewValue(c) == c = 0
Last_OffByOne(c) == c <= 2
Last(c) == c = 1

DecStrong(p) ==
  LET c == mStrong[this[p]]
  IN /\ pc[p] = "dec_strong"
     /\ Step(p, IF Last(c) THEN "last_strong" ELSE "dec_weak")
     /\ mStrong' = [mStrong EXCEPT ![this[p]] = c - 1]
     /\ UNCHANGED <<heap, mWeak, credit>>

\* decStrong() deletes the object of normal lifetime only.
AfterLast_AlwaysDelete(o) == "delete"
AfterLast(o) == IF mFlags[o] = "STRONG" THEN "delete" ELSE "dec_weak"

OnLastStrongRef(p) ==
  /\ pc[p] = "last_strong"
  /\ Step(p, AfterLast(this[p]))
  /\ credit' = [credit EXCEPT ![this[p]] = @ - 1]
  /\ UNCHANGED <<heap, words>>

\* weakref_type::decWeak(): the end of decStrong(), the whole of releasing a
\* wp ("dec_weak"), and how a failed attemptIncStrong() backs out ("undo_weak").
DecWeak(p) ==
  LET c == mWeak[this[p]]
      result == IF pc[p] = "undo_weak" THEN NULL ELSE arg[p]
  IN /\ pc[p] \in {"dec_weak", "undo_weak"}
     /\ mWeak' = [mWeak EXCEPT ![this[p]] = c - 1]
     /\ \/ /\ c = 1
           /\ Goto(p, "last_weak")
           /\ arg' = [arg EXCEPT ![p] = result]
           /\ src' = [src EXCEPT ![p] = NULL]
           /\ UNCHANGED <<ptr, this, cur>>
        \/ c # 1 /\ Return(p, result)
     /\ UNCHANGED <<heap, mStrong, credit>>

\* The weakref_impl outlived the object.  The fault forgets the special case of
\* an object that never had a strong reference.
Orphan_NoSpecialCase(o) == mFlags[o] = "STRONG"
Orphan(o) == mFlags[o] = "STRONG" /\ mStrong[o] # INITIAL_STRONG_VALUE

\* The weak count reached zero: what is deleted depends on the lifetime and,
\* for a normal lifetime, on whether there ever was a strong reference.
LastWeak(p) ==
  /\ pc[p] = "last_weak"
  /\ Step(p, IF Orphan(this[p]) THEN "free" ELSE "dtor")
  /\ UNCHANGED <<heap, words, credit>>

\* ~RefBase() also frees the weakref_impl.
OwnsRefs_Always(o) == TRUE
OwnsRefs(o) == \/ mStrong[o] = INITIAL_STRONG_VALUE
               \/ mFlags[o] # "STRONG" /\ mWeak[o] = 0

\* ~RefBase(), reached from decStrong() ("delete") or from decWeak() ("dtor").
Destroy(p) ==
  LET o == this[p]
  IN /\ pc[p] \in {"delete", "dtor"}
     /\ objs' = objs \ {o}
     /\ impls' = IF OwnsRefs(o) THEN impls \ {o} ELSE impls
     /\ \/ pc[p] = "delete" /\ Step(p, "dec_weak")
        \/ pc[p] = "dtor" /\ Return(p, arg[p])
     /\ UNCHANGED <<words, mFlags, credit>>

\* delete impl: the weakref_impl outlived the object.
FreeRefs(p) ==
  /\ pc[p] = "free"
  /\ impls' = impls \ {this[p]}
  /\ Return(p, arg[p])
  /\ UNCHANGED <<words, objs, mFlags, credit>>

-----------------------------------------------------------------------------

SpBegin(p) ==
  \/ \E o \in Objects : SpNew(p, o)
  \/ \E q \in SpSlots : SpFromSp(p, q)
  \/ \E w \in WpSlots : SpFromRaw(p, w) \/ SpForceSet(p, w) \/ Promote(p, w)
  \/ Clear(p)

WpBegin(p) ==
  \/ \E o \in Objects : WpNew(p, o)
  \/ \E q \in SpSlots : WpFromSp(p, q)
  \/ \E q \in WpSlots : WpFromWp(p, q) \/ WpAttempt(p, q) \/ WpAssignWp(p, q)
  \/ Clear(p)

Client == (\E p \in SpSlots : SpBegin(p)) \/ (\E p \in WpSlots : WpBegin(p))

Run(p) ==
  \/ IncWeak(p) \/ IncStrong(p) \/ ForceIncStrong(p) \/ SubInitial(p) \/ OnFirstRef(p)
  \/ TryRead(p) \/ TryCas(p) \/ TryCasNever(p) \/ TryAsk(p) \/ TryInc(p) \/ TryLast(p)
  \/ FixRead(p) \/ FixCas(p) \/ WeakRead(p) \/ WeakCas(p)
  \/ DecStrong(p) \/ OnLastStrongRef(p) \/ DecWeak(p) \/ LastWeak(p)
  \/ Destroy(p) \/ FreeRefs(p)

Next == Client \/ \E p \in Slots : Run(p)

Spec == Init /\ [][Next]_vars

\* A thread inside an operation is scheduled again; none has to start one.
FairSpec == Spec /\ \A p \in Slots : WF_vars(Run(p))
-----------------------------------------------------------------------------
(* Properties.                                                              *)

\* The variables have their types: a slot holds a cell or null, and a running
\* operation works on some cell.
TypeOK ==
  /\ objs \subseteq Objects /\ impls \subseteq Objects
  /\ mStrong \in [Objects -> Int]
  /\ mWeak \in [Objects -> Int]
  /\ mFlags \in [Objects -> {"STRONG", "WEAK"}]
  /\ credit \in [Objects -> Int]
  /\ ptr \in [Slots -> Objects \cup {NULL}]
  /\ pc \in [Slots -> Pcs]
  /\ this \in [Slots -> Objects \cup {NULL}]
  /\ arg \in [Slots -> Objects \cup {NULL}]
  /\ src \in [Slots -> Slots \cup {NULL}]
  /\ cur \in [Slots -> Int]
  /\ \A p \in Slots : pc[p] # "idle" => this[p] # NULL

\* Labels at which the running member function uses the RefBase object itself
\* (reads mRefs, calls a virtual function, runs the destructor).
ObjectPcs == {"inc_weak", "force_weak", "create_weak", "inc_first", "try_ask", "try_last",
              "dec_strong", "last_strong", "delete", "dtor"}

\* No operation touches a freed object or a freed weakref_impl: each access
\* of a running operation finds its memory alive (so nothing is freed twice).
MemorySafe ==
  \A p \in Slots : pc[p] # "idle" =>
    /\ this[p] \in impls
    /\ pc[p] \in ObjectPcs => this[p] \in objs
    /\ pc[p] = "last_weak" /\ mFlags[this[p]] = "WEAK" => this[p] \in objs

\* A smart pointer that is not being changed keeps alive what it promises: an
\* sp the object, a wp the weakref_impl, and the object if its lifetime is WEAK.
HandlesAlive ==
  \A p \in Slots : pc[p] = "idle" /\ ptr[p] # NULL =>
    /\ ptr[p] \in impls
    /\ p \in SpSlots \/ mFlags[ptr[p]] = "WEAK" => ptr[p] \in objs

\* The slots that hold a weak count on o: through the pointer they still have
\* to give up, and through the one they are about to store.
WeakOld(o) == {p \in Slots : ptr[p] = o /\ pc[p] \notin {"last_weak", "dtor", "free"}}
WeakNew(o) ==
  {p \in Slots : arg[p] = o /\ pc[p] \notin {"idle", "inc_weak", "force_weak", "try_weak"} \cup WeakPcs}

StrongOld(o) ==
  {p \in SpSlots : ptr[p] = o /\ pc[p] \notin {"last_strong", "delete", "dec_weak", "last_weak", "dtor", "free"}}
StrongNew(o) ==
  {p \in SpSlots : /\ arg[p] = o
                   /\ pc[p] \in {"inc_sub", "inc_first", "try_last", "fix_read", "fix_cas"} \cup DecPcs}

\* mWeak counts exactly the references that slots hold, of both kinds.
WeakCountExact ==
  \A o \in impls : mWeak[o] = Cardinality(WeakOld(o)) + Cardinality(WeakNew(o))

\* mStrong counts exactly the strong references, plus the bias until the first
\* of them has been fixed up.
StrongCountExact ==
  \A o \in impls :
    LET n == Cardinality(StrongOld(o)) + Cardinality(StrongNew(o))
    IN mStrong[o] \in {n, n + INITIAL_STRONG_VALUE}

\* The ALOG_ASSERTs of RefBase.cpp hold where they stand.
AssertsHold ==
  \A p \in Slots :
    /\ pc[p] = "inc_strong" => mStrong[this[p]] > 0
    /\ pc[p] = "dec_strong" => mStrong[this[p]] >= 1
    /\ pc[p] = "force_strong" => mStrong[this[p]] >= 0
    /\ pc[p] \in {"inc_weak", "force_weak", "try_weak", "create_weak", "ref_weak", "weak_read"}
         => mWeak[this[p]] >= 0
    /\ pc[p] \in {"dec_weak", "undo_weak"} => mWeak[this[p]] >= 1
    /\ pc[p] = "try_read" => mStrong[this[p]] >= 0
    /\ pc[p] = "fix_read" => mStrong[this[p]] # INITIAL_STRONG_VALUE

\* Somebody holds o or is at work on it.
InUse(o) == \E p \in Slots : o \in {ptr[p], this[p], arg[p]}

\* Once nobody holds an object or is at work on it, both the object and its
\* weakref_impl have been freed, whatever the order of the last releases.
NoLeak == \A o \in objs \cup impls : InUse(o)

\* An object of normal lifetime whose strong count came back to zero is never
\* strongly referenced again: promote() cannot revive it.
NoResurrection ==
  [][\A o \in impls \cap impls' :
       mFlags[o] = "STRONG" /\ mStrong[o] = 0 => mStrong'[o] = 0]_vars

\* The bias is removed once: after that mStrong is a plain count for good.
BiasRemovedOnce ==
  [][\A o \in impls \cap impls' :
       mStrong[o] < INITIAL_STRONG_VALUE => mStrong'[o] \in 0..(INITIAL_STRONG_VALUE - 1)]_vars

\* The implementor's callbacks pair up: when no operation is running, grants of
\* a strong reference (onFirstRef, onIncStrongAttempted) exceed
\* onLastStrongRef by one if the object is strongly held and by none if not.
CallbacksPair ==
  (\A p \in Slots : pc[p] = "idle") =>
    \A o \in objs :
      credit[o] = IF \E p \in SpSlots : ptr[p] = o THEN 1 ELSE 0

\* RefBase.h:128 and RefBase.cpp:226-230: an object of normal lifetime is told
\* onLastStrongRef() only when no sp holds it any more.
LastRefUnheld ==
  \A p \in Slots : pc[p] \in {"last_strong", "try_last"} /\ mFlags[this[p]] = "STRONG" =>
    ~\E q \in SpSlots : pc[q] = "idle" /\ ptr[q] = this[p]

\* RefBase.cpp:165: attemptIncStrong() never meets a count that underflowed.
NoUnderflow == \A p \in Slots : pc[p] = "try_read" => mStrong[this[p]] >= 0

\* RefBase.cpp:131: decWeak() is never called too many times.
NotTooManyDecWeak ==
  \A p \in Slots : pc[p] \in {"dec_weak", "undo_weak"} => mWeak[this[p]] >= 1

\* The loops of attemptIncStrong() do not block one another for ever: either
\* new operations keep starting or the running ones all return.
LockFree == []<>(\A p \in Slots : pc[p] = "idle") \/ []<><<Client>>_vars

\* Every cell is freed again and again unless a slot keeps holding it: the
\* last release leads to the deletes even when it races other operations.
Reclaimed == \A o \in Objects : []<>(o \notin objs \cup impls \/ \E p \in Slots : ptr[p] = o \/ arg[p] = o)

=============================================================================
