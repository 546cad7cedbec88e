------------------------------ MODULE MCThread ------------------------------
(* Instances of Thread for TLC: three callers, two pthread ids.               *)
EXTENDS Thread, TLC

CONSTANTS c1, c2, c3, t1, t2

Symm == Permutations(Callers) \cup Permutations(Pthreads)
=============================================================================
