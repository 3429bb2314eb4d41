------------------------------- MODULE MCCpio --------------------------------
(***************************************************************************)
(* Sizes on which TLC runs DracutCpio, with "&" from the Bitwise module.   *)
(***************************************************************************)
EXTENDS DracutCpio, Bitwise

MCBitAnd(x, y) == x & y
=============================================================================
