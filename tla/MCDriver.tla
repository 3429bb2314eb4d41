------------------------------- MODULE MCDriver -------------------------------
(***************************************************************************)
(* Three tests' archives: the trailer last, and the rapido-rsc/ entries    *)
(* together, as net.fest and the cut scripts have them.                    *)
(***************************************************************************)
EXTENDS Driver

E(t, s, v) == [test |-> t, sets |-> s, val |-> v]
MCArchive ==
  [t \in {"t1", "t2", "t3"} |->
     CASE t = "t1" -> <<E(t, "other", 0), E(t, "mem", 2048), E(t, "other", 0),
                        E(t, "trailer", 0)>>
       [] t = "t2" -> <<E(t, "rsc", 0), E(t, "net", 1), E(t, "trailer", 0)>>
       [] t = "t3" -> <<E(t, "bad", 0)>>]
=============================================================================
