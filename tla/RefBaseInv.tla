----------------------------- MODULE RefBaseInv -----------------------------
(***************************************************************************)
(* The inductive invariant behind the theorems about RefBase: what the     *)
(* registers of a slot look like at each label, who counts for mWeak and   *)
(* mStrong, and why nobody else can be near a cell that is being deleted.  *)
(***************************************************************************)
EXTENDS RefBase

\* The labels by phase: a reference is being taken, with no weak count on it
\* yet or with one; the old reference is being given up; its weak_impl's count
\* reached zero.
PreWeakPcs == {"inc_weak", "force_weak", "try_weak"} \cup WeakPcs
AcqPcs == IncPcs \cup TryPcs \cup WeakPcs
RelPcs == {"dec_strong", "last_strong", "delete", "dec_weak"}
ZeroPcs == {"last_weak", "dtor", "free"}
SpPcs == IncPcs \cup TryPcs \cup {"dec_strong", "last_strong", "delete"}

\* The registers of a running operation.
Shape ==
  \A p \in Slots :
    /\ pc[p] = "idle" => this[p] = NULL /\ arg[p] = NULL /\ src[p] = NULL
    /\ pc[p] \in AcqPcs => this[p] \in Objects /\ arg[p] = this[p]
    /\ pc[p] \in TryPcs \cup {"weak_read", "weak_cas"} => ptr[p] = NULL
    /\ pc[p] \in RelPcs => this[p] \in Objects /\ this[p] = ptr[p]
    /\ pc[p] \in ZeroPcs =>
         this[p] \in Objects /\ (ptr[p] = this[p] \/ (ptr[p] = NULL /\ arg[p] = NULL))
    /\ pc[p] \in SpPcs => p \in SpSlots
    /\ pc[p] \in WeakPcs => p \in WpSlots

\* The slot being read stays as it is until the new reference is counted.
SrcHeld ==
  \A p \in Slots : src[p] # NULL =>
    /\ pc[p] \in AcqPcs
    /\ ptr[src[p]] = this[p]
    /\ src[p] = p \/ pc[src[p]] = "idle"

\* What the operations on a wp read.
SrcKnown ==
  \A p \in Slots :
    /\ pc[p] \in {"ref_weak", "weak_read", "weak_cas"} => src[p] \in WpSlots
    /\ pc[p] = "create_weak" => src[p] \in SpSlots \cup {NULL}

\* curCount where a compare-and-swap relies on an earlier test of it.
CurTested ==
  \A p \in Slots :
    /\ pc[p] = "try_cas" => cur[p] > 0 /\ cur[p] # INITIAL_STRONG_VALUE
    /\ pc[p] = "try_cas_never" => cur[p] > 0
    /\ pc[p] = "fix_cas" => cur[p] >= INITIAL_STRONG_VALUE

\* Labels reached for one lifetime only.
LifetimeKnown ==
  \A p \in Slots :
    /\ pc[p] \in {"force_weak", "force_strong", "try_ask", "try_inc"} => mFlags[this[p]] = "WEAK"
    /\ pc[p] = "delete" => mFlags[this[p]] = "STRONG"

\* Every cell a slot knows of still has its weakref_impl.
RefsAlive == \A p \in Slots : {ptr[p], this[p], arg[p]} \subseteq impls \cup {NULL}

\* Nobody but p knows o.
OnlyUser(p, o) == \A q \in Slots \ {p} : o \notin {ptr[q], this[q], arg[q]}

\* The first reference on a new object: its creator is alone with it.
FreshAlone ==
  \A p \in Slots : pc[p] \in PreWeakPcs /\ src[p] = NULL =>
    OnlyUser(p, this[p]) /\ ptr[p] # this[p] /\ mWeak[this[p]] = 0

\* Who brought mWeak to zero is alone with the cell.
ZeroAlone ==
  \A p \in Slots : pc[p] \in ZeroPcs =>
    OnlyUser(p, this[p]) /\ arg[p] # this[p] /\ mWeak[this[p]] = 0

\* An sp holds, or is about to store, only objects whose bias is gone.
HeldUnbiased ==
  \A p \in SpSlots :
    /\ ptr[p] # NULL => mStrong[ptr[p]] < INITIAL_STRONG_VALUE
    /\ pc[p] \in DecPcs /\ arg[p] # NULL => mStrong[arg[p]] < INITIAL_STRONG_VALUE
    /\ pc[p] = "inc_first" => mStrong[this[p]] < INITIAL_STRONG_VALUE
    /\ pc[p] = "inc_sub" => mStrong[this[p]] >= INITIAL_STRONG_VALUE

\* While incStrong() takes the first strong reference no other slot takes one.
FirstAlone ==
  \A p, q \in SpSlots :
    /\ p # q /\ this[p] = this[q]
    /\ pc[p] \in IncPcs /\ mStrong[this[p]] >= INITIAL_STRONG_VALUE
    => pc[q] \notin AcqPcs

\* incStrong() starts from a held sp or from the untouched initial value.
IncFromHeld ==
  \A p \in SpSlots :
    pc[p] \in {"inc_weak", "inc_strong"} /\ src[p] \notin SpSlots =>
      mStrong[this[p]] = INITIAL_STRONG_VALUE

\* createWeak() starts from a held sp or from a new object.
CreateFromHeld ==
  \A p \in WpSlots :
    pc[p] = "create_weak" /\ src[p] \notin SpSlots => this[p] \in objs

\* An object dies before its weakref_impl only with a normal lifetime and no
\* strong reference left.
ObjectGone ==
  \A o \in impls \ objs : mFlags[o] = "STRONG" /\ mStrong[o] = 0

\* Of a normal lifetime object there is one last strong reference, and its
\* holder still finds the object.
LastOnce ==
  \A p \in SpSlots :
    pc[p] \in {"last_strong", "delete"} /\ mFlags[this[p]] = "STRONG" =>
      /\ this[p] \in objs
      /\ mStrong[this[p]] = 0
      /\ \A q \in SpSlots : pc[q] \in {"last_strong", "delete"} /\ this[q] = this[p] => q = p

\* A normal lifetime object without a strong reference is being deleted.
DeletePending ==
  \A o \in objs : mFlags[o] = "STRONG" /\ mStrong[o] = 0 =>
    \E p \in SpSlots : pc[p] \in {"last_strong", "delete"} /\ this[p] = o

\* What is deleted when mWeak reached zero.
ZeroDeletes ==
  \A p \in Slots :
    /\ pc[p] = "dtor" => this[p] \in objs /\ OwnsRefs(this[p])
    /\ pc[p] = "free" => this[p] \notin objs

IInv ==
  /\ TypeOK /\ Shape /\ SrcHeld /\ SrcKnown /\ CurTested /\ LifetimeKnown
  /\ objs \subseteq impls
  /\ RefsAlive /\ FreshAlone /\ ZeroAlone
  /\ WeakCountExact /\ StrongCountExact
  /\ HeldUnbiased /\ FirstAlone /\ IncFromHeld /\ CreateFromHeld
  /\ ObjectGone /\ LastOnce /\ DeletePending /\ ZeroDeletes /\ NoLeak

-----------------------------------------------------------------------------
(* Two more parts, for programs in which promote() waits for the first     *)
(* sp<T> (EarlyPromote = FALSE): what they say needs that discipline.       *)

\* What an operation of promote() then finds: the bias is gone before it starts,
\* so the branches for objects that never had an sp are not taken.
BiasGoneBefore ==
  \A p \in Slots :
    /\ pc[p] \in TryPcs => mStrong[this[p]] < INITIAL_STRONG_VALUE
    /\ pc[p] \notin {"try_cas_never", "try_read_never", "fix_cas"}
    /\ pc[p] = "try_last" => mFlags[this[p]] = "WEAK"

\* The slots that owe the object onFirstRef(), and those that owe it
\* onLastStrongRef() or hold a grant they have not counted yet.
Owed(o) == {p \in SpSlots : this[p] = o /\ pc[p] \in {"inc_sub", "inc_first"}}
Granted(o) == {p \in SpSlots : this[p] = o /\ pc[p] \in {"last_strong", "try_inc", "try_last"}}

\* Is there a strong reference on o?
Counted(o) == IF mStrong[o] \in {0, INITIAL_STRONG_VALUE} THEN 0 ELSE 1

\* The callbacks at every moment: one grant while there are strong references,
\* give or take those of the operations in progress.
CreditExact ==
  \A o \in impls : credit[o] = Counted(o) + Cardinality(Granted(o)) - Cardinality(Owed(o))
=============================================================================
