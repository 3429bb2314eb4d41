------------------------------- MODULE VmNumbers -------------------------------
(***************************************************************************)
(* What rapido-vm promises of VM numbers: an invocation runs at most one   *)
(* VM, under one number for as long as it runs, and takes a number that no *)
(* VM that runs has.                                                       *)
(***************************************************************************)
CONSTANTS
  Procs,       \* rapido-vm invocations
  Numbers,     \* VM numbers
  NoNumber

VARIABLES
  vm,          \* invocation -> the number its VM runs under, or NoNumber
  over         \* invocations that will not run a VM any more

vars == <<vm, over>>

Init == vm = [p \in Procs |-> NoNumber] /\ over = {}

Boot(p) ==
  /\ vm[p] = NoNumber /\ p \notin over
  /\ \E n \in Numbers : /\ \A q \in Procs : vm[q] # n
                        /\ vm' = [vm EXCEPT ![p] = n]
  /\ UNCHANGED over

(* The VM ends, or there will be none.                                     *)
End(p) ==
  /\ p \notin over
  /\ vm' = [vm EXCEPT ![p] = NoNumber]
  /\ over' = over \union {p}

Next == \E p \in Procs : Boot(p) \/ End(p)
Spec == Init /\ [][Next]_vars
=============================================================================
