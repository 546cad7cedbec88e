------------------------------ MODULE MCRefBase ------------------------------
(* Instances of RefBase for TLC.                                            *)
EXTENDS RefBaseHandles, TLC

CONSTANTS o1, o2, s1, s2, w1, w2

\* Slots and cells of one kind are interchangeable.
Symm == Permutations(Objects) \cup Permutations(SpSlots) \cup Permutations(WpSlots)
=============================================================================
