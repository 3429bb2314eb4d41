--------------------------------- MODULE MCNet ---------------------------------
(***************************************************************************)
(* Two setups of different bridges that compete for the same two taps, and *)
(* a teardown of the first bridge.                                         *)
(***************************************************************************)
EXTENDS NetSetup

CONSTANTS s1, s2, t

MCConf == <<"tap1", "tap2">>
MCBr == [r \in {s1, s2, t} |-> IF r = s2 THEN "br1" ELSE "br0"]
=============================================================================
