------------------------------ MODULE MCImages ------------------------------
(* Instance of Images for TLC: widths with 1, 2 and 0 bytes of padding, and  *)
(* bytes in numbers of 8 bits, which the last picture has too many of.       *)
EXTENDS Images

MCSizes == {<<1, 2>>, <<2, 3>>, <<4, 24>>}
MCDefaultSize == <<4, 2>>
MCSlack == {-1, 1}
=============================================================================
