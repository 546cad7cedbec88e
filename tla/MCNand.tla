------------------------------- MODULE MCNand -------------------------------
(* Instance of Nand for TLC.                                                *)
EXTENDS Nand
=============================================================================
