-------------------------------- MODULE MCIni --------------------------------
(* Instance of Ini for TLC: two keys, hexadecimal and decimal texts, each    *)
(* way a ';' can end a value or not, and an item that is also a title.      *)
EXTENDS Ini

Nine == [kind |-> "item", key |-> "k2", text |-> <<9>>, early |-> FALSE, late |-> FALSE]

MCItems ==
  {Nine,
   [kind |-> "item", key |-> "k1", text |-> <<0, CharX, 13, 9>>, early |-> FALSE, late |-> TRUE],
   [kind |-> "item", key |-> "k2", text |-> <<0, CharUpperX, 8, 0, 1>>, early |-> TRUE, late |-> TRUE]}

MCItemOf == [t \in {"k2=9"} |-> Nine]
=============================================================================
