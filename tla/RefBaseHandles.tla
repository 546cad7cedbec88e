--------------------------- MODULE RefBaseHandles ---------------------------
(***************************************************************************)
(* The lock-free counting of RefBase implements Handles: the references of *)
(* an object are those the slots hold or are about to store, whatever the  *)
(* words mStrong and mWeak are going through.                              *)
(***************************************************************************)
EXTENDS RefBase

\* Nobody has taken a reference on o since it was constructed.
Untouched(o) ==
  /\ mStrong[o] = INITIAL_STRONG_VALUE /\ mWeak[o] = 0
  /\ \A p \in Slots : this[p] = o => pc[p] \in {"inc_weak", "create_weak"}

State(o) ==
  CASE o \notin impls -> "none"
    [] o \in impls \ objs -> "husk"
    [] o \in objs /\ mStrong[o] # INITIAL_STRONG_VALUE -> "strong"
    [] OTHER -> IF Untouched(o) THEN "fresh" ELSE "weak"

Handle(o) ==
  INSTANCE Handles WITH
    state  <- State(o),
    mode   <- mFlags[o],
    strong <- Cardinality(StrongOld(o)) + Cardinality(StrongNew(o)),
    weak   <- Cardinality(WeakOld(o)) + Cardinality(WeakNew(o))

\* RefBase keeps the promise of smart pointers: an object is deleted once, when
\* its lifetime mode allows it and nobody relies on it, and is not had again
\* after that, in every interleaving of the operations of all slots.
KeepsPromise ==
  /\ \A o \in Objects : Handle(o)!Init
  /\ [][\A o \in Objects : UNCHANGED Handle(o)!vars \/ Handle(o)!Next]_vars
=============================================================================
