------------------------------ MODULE MCDataDb ------------------------------
(* Instance of DataDb for TLC: all trees of up to three nodes, three deep,   *)
(* and one call of any function on any paths.                               *)
EXTENDS DataDb
=============================================================================
