------------------------------- MODULE Handles -------------------------------
(***************************************************************************)
(* What smart pointers promise about one object, without the words and the *)
(* interleavings behind it: the object lives as long as its lifetime mode  *)
(* says, is deleted once, and is not had again.  Every step is atomic.     *)
(***************************************************************************)
EXTENDS Naturals

CONSTANT Lifetimes  \* the modes an object may be given: "STRONG", "WEAK"

VARIABLES
  state,   \* "none", "fresh" (no reference yet), "weak" (never had a strong one),
           \* "strong" (has or had one), "husk" (deleted, its wp still know)
  mode,    \* OBJECT_LIFETIME_STRONG or OBJECT_LIFETIME_WEAK
  strong,  \* strong references held
  weak     \* references held of either kind

vars == <<state, mode, strong, weak>>

Init == state = "none" /\ mode \in {"STRONG", "WEAK"} /\ strong = 0 /\ weak = 0

\* new T.
Create ==
  /\ state = "none"
  /\ state' = "fresh"
  /\ mode' \in Lifetimes
  /\ UNCHANGED <<strong, weak>>

\* A reference comes from a reference, or from the one who made the object.
TakeWeak ==
  /\ state = "fresh" \/ weak > 0
  /\ weak' = weak + 1
  /\ state' = IF state = "fresh" THEN "weak" ELSE state
  /\ UNCHANGED <<mode, strong>>

\* Under a weak reference of its own.  Without a strong reference the object can
\* be had if it never had one, or if only the last wp deletes it.
TakeStrong ==
  /\ state \in {"weak", "strong"}
  /\ weak > strong
  /\ state = "weak" \/ strong > 0 \/ mode = "WEAK"
  /\ strong' = strong + 1
  /\ state' = "strong"
  /\ UNCHANGED <<mode, weak>>

DropStrong ==
  /\ strong > 0
  /\ strong' = strong - 1
  /\ UNCHANGED <<state, mode, weak>>

DropWeak ==
  /\ weak > strong
  /\ weak' = weak - 1
  /\ UNCHANGED <<state, mode, strong>>

\* Under OBJECT_LIFETIME_STRONG the last strong reference deletes the object,
\* while its holder still has a weak one: what is left serves the wp.
DeleteStrong ==
  /\ state = "strong" /\ mode = "STRONG"
  /\ strong = 0 /\ weak > 0
  /\ state' = "husk"
  /\ UNCHANGED <<mode, strong, weak>>

\* The last reference of all deletes what is left.
DeleteAll ==
  /\ weak = 0
  /\ state \in {"husk", "weak"} \/ (state = "strong" /\ mode = "WEAK")
  /\ state' = "none"
  /\ UNCHANGED <<mode, strong, weak>>

Next == Create \/ TakeWeak \/ TakeStrong \/ DropStrong \/ DropWeak \/ DeleteStrong \/ DeleteAll

Spec == Init /\ [][Next]_vars
=============================================================================
