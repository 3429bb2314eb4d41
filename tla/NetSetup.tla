------------------------------- MODULE NetSetup -------------------------------
(***************************************************************************)
(* "rapido setup-network" and "rapido teardown-network": br_tap_setup.sh   *)
(* and br_tap_teardown.sh.  Each works through a list of ip commands, some *)
(* of them for the tap devices of a manifest it generates and the user may *)
(* edit.  A setup prepends to unwind the command that takes back the one   *)
(* that succeeded, and runs them when it exits early; a teardown stops at  *)
(* the first that fails and is run again.                                  *)
(*                                                                         *)
(* Commands are pairs of an operation and a device.  What they do is the   *)
(* kernel's part, modelled from the use the scripts make of it.            *)
(***************************************************************************)
EXTENDS Naturals, Sequences, Functions

CONSTANTS
  Setups, Teardowns,   \* invocations
  Br,                  \* invocation -> name of its bridge
  BR_IF,               \* host interface to connect, or None
  BR_ADDR, DHCP,       \* are BR_ADDR and BR_DHCP_SRV_RANGE set?
  Conf,                \* the taps that VM_NET_CONF names, in order, or None
  MaxFaults,           \* commands that fail although they could succeed
  MaxLines,            \* lines of a manifest the user edited
  None

Runs == Setups \union Teardowns
Taps == IF Conf = None THEN {} ELSE Range(Conf)
Bridges == {Br[r] : r \in Runs}
Devs == Taps \union Bridges \union ({BR_IF} \ {None})

(* Taps, bridges and the host's interface have different names.            *)
ASSUME NetAssumption ==
  /\ Setups \intersect Teardowns = {} /\ {"host", None} \intersect Runs = {}
  /\ {BR_ADDR, DHCP} \subseteq BOOLEAN /\ {MaxFaults, MaxLines} \subseteq Nat
  /\ Conf # None => Conf \in Seq(Range(Conf))
  /\ Taps \intersect Bridges = {} /\ {BR_IF, None} \intersect (Taps \union Bridges) = {}

VARIABLES
  owner,               \* device -> who made it, "host" or a run, or None
  master,              \* device -> bridge it is connected to, or None
  up, addr,            \* devices that are up, bridges with an address
  dhcp,                \* bridge -> the run whose dnsmasq serves it, or None
  held,                \* taps that a VM has open
  pc,                  \* run -> "idle", "begin", "edit", "taps", "unwind",
                       \*        "done" or "failed"
  todo,                \* run -> commands to come
  unwind,              \* setup -> commands that take back the ones done
  tap_devs,            \* run -> taps of its manifest
  faults,
  spared               \* setup -> taps a VM had open when unwind came to
                       \* delete them (history: no step depends on it)

net == <<owner, master, up, addr, dhcp>>
vars == <<owner, master, up, addr, dhcp, held, pc, todo, unwind, tap_devs, faults, spared>>

Exists(d) == owner[d] # None

Init ==
  /\ \E there \in SUBSET Taps :
       owner = [d \in Devs |-> IF d \in there \union {BR_IF} THEN "host" ELSE None]
  /\ master = [d \in Devs |-> None]
  /\ up = {} /\ addr = {} /\ dhcp = [b \in Bridges |-> None] /\ held = {}
  /\ pc = [r \in Runs |-> "idle"] /\ todo = [r \in Runs |-> <<>>]
  /\ unwind = [r \in Setups |-> <<>>] /\ tap_devs = [r \in Runs |-> <<>>]
  /\ faults = 0 /\ spared = [r \in Setups |-> {}]

-----------------------------------------------------------------------------
(* ip and dnsmasq: when a command of run r can succeed, and what it does.  *)
Can(c, r) ==
  CASE c[1] \in {"add bridge", "add tap"} -> ~Exists(c[2])
    [] c[1] \in {"delete bridge", "nomaster", "up", "down"} -> Exists(c[2])
    [] c[1] = "delete tap" -> Exists(c[2]) /\ c[2] \notin held
    [] c[1] = "add addr" -> Exists(c[2]) /\ c[2] \notin addr
    [] c[1] = "del addr" -> c[2] \in addr
    [] c[1] = "master" -> Exists(c[2]) /\ Exists(Br[r])
    [] c[1] = "dnsmasq" -> Exists(c[2]) /\ dhcp[c[2]] = None
    [] c[1] = "kill" -> dhcp[c[2]] # None

Do(c, r) ==
  LET d == c[2]
      made == CASE c[1] \in {"add bridge", "add tap"} -> r
                [] c[1] \in {"delete bridge", "delete tap"} -> None
                [] OTHER -> owner[d]
  IN  /\ owner' = [owner EXCEPT ![d] = made]
      /\ master' = [x \in Devs |-> IF made = None /\ (x = d \/ master[x] = d) THEN None
                                   ELSE IF x # d THEN master[x]
                                   ELSE IF c[1] = "master" THEN Br[r]
                                   ELSE IF c[1] = "nomaster" THEN None ELSE master[d]]
      /\ up' = IF c[1] = "up" THEN up \union {d}
               ELSE IF c[1] = "down" \/ made = None THEN up \ {d} ELSE up
      /\ addr' = IF c[1] = "add addr" THEN addr \union {d}
                 ELSE IF c[1] = "del addr" \/ made = None THEN addr \ {d} ELSE addr
      /\ dhcp' = IF c[1] = "dnsmasq" THEN [dhcp EXCEPT ![d] = r]
                 ELSE IF c[1] = "kill" THEN [dhcp EXCEPT ![d] = None] ELSE dhcp

-----------------------------------------------------------------------------
If(cond, s) == IF cond THEN s ELSE <<>>

(* Loops over devices, with one command for each or two.                   *)
Each(op, devs) == [i \in DOMAIN devs |-> <<op, devs[i]>>]
EachTwo(op1, op2, devs) ==
  [i \in 1..2 * Len(devs) |-> <<IF i % 2 = 1 THEN op1 ELSE op2, devs[(i + 1) \div 2]>>]

(* What br_tap_setup.sh runs before the manifest is edited, and after.     *)
BridgeCmds(r) ==
  <<<<"add bridge", Br[r]>>>>
    \o If(BR_ADDR, <<<<"add addr", Br[r]>>>>)
    \o If(BR_IF # None, <<<<"master", BR_IF>>>>)
(* Mutant: the bridge is not brought up.                                   *)
TapCmdsBridgeDown(r, devs) ==
  EachTwo("add tap", "master", devs) \o Each("up", devs)
    \o If(DHCP, <<<<"dnsmasq", Br[r]>>>>)
TapCmds(r, devs) ==
  EachTwo("add tap", "master", devs) \o Each("up", <<Br[r]>> \o devs)
    \o If(DHCP, <<<<"dnsmasq", Br[r]>>>>)

(* What it prepends to unwind.                                             *)
(* Mutant: a tap is disconnected and not deleted.                          *)
UndoKeepsTap(c) ==
  <<CASE c[1] = "add bridge" -> "delete bridge" [] c[1] = "add tap" -> "nomaster"
      [] c[1] = "add addr" -> "del addr" [] c[1] = "master" -> "nomaster"
      [] c[1] = "up" -> "down" [] c[1] = "dnsmasq" -> "kill", c[2]>>
Undo(c) ==
  <<CASE c[1] = "add bridge" -> "delete bridge" [] c[1] = "add tap" -> "delete tap"
      [] c[1] = "add addr" -> "del addr" [] c[1] = "master" -> "nomaster"
      [] c[1] = "up" -> "down" [] c[1] = "dnsmasq" -> "kill", c[2]>>

(* What br_tap_teardown.sh runs.                                           *)
TeardownCmds(r, devs) ==
  Each("down", devs) \o EachTwo("nomaster", "delete tap", devs)
    \o <<<<"delete bridge", Br[r]>>>>

(* The manifest: a setup lists the taps that do not exist, a teardown      *)
(* those that do.  "fail", called when the directory is missing, is no     *)
(* function and no command, so that both go on.  It is the one element of  *)
(* a set: the taps at some places of Conf, in its order.                   *)
Ascending(I) ==
  {f \in UNION {[1..n -> I] : n \in 0..Len(Conf)} :
     Range(f) = I /\ \A m, n \in DOMAIN f : m < n => f[m] < f[n]}
ConfAt(I) == {[n \in DOMAIN f |-> Conf[f[n]]] : f \in Ascending(I)}
(* Mutant: a teardown lists every tap of the configuration.                *)
_tap_manifest_gen_all(r) ==
  IF Conf = None THEN {<<>>}
  ELSE ConfAt({i \in DOMAIN Conf : ~Exists(Conf[i]) \/ r \in Teardowns})
_tap_manifest_gen(r) ==
  IF Conf = None THEN {<<>>}
  ELSE ConfAt({i \in DOMAIN Conf : Exists(Conf[i]) <=> r \in Teardowns})

(* A setup starts.                                                         *)
SetupBegin(r) ==
  /\ r \in Setups /\ pc[r] = "idle"
  /\ pc' = [pc EXCEPT ![r] = "begin"]
  /\ \E devs \in _tap_manifest_gen(r) : tap_devs' = [tap_devs EXCEPT ![r] = devs]
  /\ todo' = [todo EXCEPT ![r] = BridgeCmds(r)]
  /\ UNCHANGED <<net, held, unwind, faults, spared>>

(* The user leaves the manifest as it is, or takes out and adds entries,   *)
(* taps that exist or are listed already among them.                       *)
Edit(r) ==
  /\ pc[r] = "edit"
  /\ \E devs \in {tap_devs[r]} \union UNION {[1..n -> Taps] : n \in 0..MaxLines} :
       /\ tap_devs' = [tap_devs EXCEPT ![r] = devs]
       /\ todo' = [todo EXCEPT ![r] = TapCmds(r, devs)]
  /\ pc' = [pc EXCEPT ![r] = "taps"]
  /\ UNCHANGED <<net, held, unwind, faults, spared>>

(* A command succeeds.                                                     *)
After(r, rest) ==
  IF rest # <<>> THEN pc[r] ELSE IF pc[r] = "begin" THEN "edit" ELSE "done"

Command(r) ==
  /\ pc[r] \in {"begin", "taps"} /\ Can(Head(todo[r]), r) /\ Do(Head(todo[r]), r)
  /\ todo' = [todo EXCEPT ![r] = Tail(@)]
  /\ pc' = [pc EXCEPT ![r] = After(r, Tail(todo[r]))]
  /\ unwind' = IF r \notin Setups THEN unwind
               ELSE [unwind EXCEPT ![r] = IF pc'[r] = "done" THEN <<>>
                                          ELSE <<Undo(Head(todo[r]))>> \o @]
  /\ UNCHANGED <<held, tap_devs, faults, spared>>

(* A command fails: a setup unwinds, a teardown exits.                     *)
(* Mutant: the command that failed is taken back too.                      *)
CommandFailsUndone(r) ==
  /\ pc[r] \in {"begin", "taps"} /\ (Can(Head(todo[r]), r) => faults < MaxFaults)
  /\ faults' = IF Can(Head(todo[r]), r) THEN faults + 1 ELSE faults
  /\ pc' = [pc EXCEPT ![r] = IF r \in Setups THEN "unwind" ELSE "failed"]
  /\ unwind' = IF r \in Setups THEN [unwind EXCEPT ![r] = <<Undo(Head(todo[r]))>> \o @]
               ELSE unwind
  /\ UNCHANGED <<net, held, todo, tap_devs, spared>>
CommandFails(r) ==
  /\ pc[r] \in {"begin", "taps"} /\ (Can(Head(todo[r]), r) => faults < MaxFaults)
  /\ faults' = IF Can(Head(todo[r]), r) THEN faults + 1 ELSE faults
  /\ pc' = [pc EXCEPT ![r] = IF r \in Setups THEN "unwind" ELSE "failed"]
  /\ UNCHANGED <<net, held, todo, unwind, tap_devs, spared>>

(* The tap that a command cannot delete because a VM has it open.          *)
Busy(c) == {d \in held : c = <<"delete tap", d>>}

(* eval $unwind: one command after the other, whether it succeeds or not.  *)
Unwind(r) ==
  /\ pc[r] = "unwind"
  /\ IF unwind[r] = <<>>
     THEN UNCHANGED <<net, unwind, spared>> /\ pc' = [pc EXCEPT ![r] = "failed"]
     ELSE /\ unwind' = [unwind EXCEPT ![r] = Tail(@)] /\ UNCHANGED pc
          /\ IF Can(Head(unwind[r]), r) THEN Do(Head(unwind[r]), r) ELSE UNCHANGED net
          /\ spared' = [spared EXCEPT ![r] = @ \union Busy(Head(unwind[r]))]
  /\ UNCHANGED <<held, todo, tap_devs, faults>>

(* A teardown starts, or is started again after it failed: dnsmasq is      *)
(* killed when it is found, the manifest is left as it is generated.       *)
TeardownBegin(r) ==
  /\ r \in Teardowns /\ pc[r] \in {"idle", "failed"}
  /\ \A s \in Setups : pc[s] \in {"done", "failed"}
  /\ dhcp' = IF DHCP THEN [dhcp EXCEPT ![Br[r]] = None] ELSE dhcp
  /\ pc' = [pc EXCEPT ![r] = "taps"]
  /\ \E devs \in _tap_manifest_gen(r) :
       /\ tap_devs' = [tap_devs EXCEPT ![r] = devs]
       /\ todo' = [todo EXCEPT ![r] = TeardownCmds(r, devs)]
  /\ UNCHANGED <<owner, master, up, addr, held, unwind, faults, spared>>

(* rapido-vm opens a tap, and closes it when the VM ends.                  *)
Hold(d) ==
  /\ d \in Taps \ held /\ Exists(d)
  /\ \A t \in Teardowns : pc[t] = "idle"
  /\ held' = held \union {d}
  /\ UNCHANGED <<net, pc, todo, unwind, tap_devs, faults, spared>>
Release(d) ==
  /\ d \in held /\ held' = held \ {d}
  /\ UNCHANGED <<net, pc, todo, unwind, tap_devs, faults, spared>>

Script(r) == SetupBegin(r) \/ Edit(r) \/ Command(r) \/ CommandFails(r) \/ Unwind(r)
Next ==
  \/ \E r \in Runs : Script(r) \/ TeardownBegin(r)
  \/ \E d \in Taps : Hold(d) \/ Release(d)

(* Scripts run on, a failed teardown is run again, VMs end.                *)
Spec ==
  /\ Init /\ [][Next]_vars
  /\ \A r \in Runs : WF_vars(Script(r)) /\ WF_vars(TeardownBegin(r))
  /\ \A d \in Taps : WF_vars(Release(d))

-----------------------------------------------------------------------------
(* A setup that fails leaves nothing of its own, wherever it fails and     *)
(* whatever runs beside it: only a tap that a VM had open at the moment    *)
(* unwind came to delete it, and that one is off the bridge.               *)
Unwound ==
  \A r \in Setups : pc[r] = "failed" =>
    /\ \A d \in Devs : owner[d] = r => d \in spared[r] /\ master[d] # Br[r]
    /\ \A b \in Bridges : dhcp[b] # r

(* A setup never deletes, cuts off or takes down a device of another: the  *)
(* command that failed is not taken back, and the devices of the others    *)
(* are not among those it names.                                           *)
OthersKept ==
  [][\A r \in Setups : Command(r) \/ Unwind(r) =>
       \A d \in Taps \union Bridges : owner[d] \notin {r, None} =>
         owner'[d] = owner[d] /\ master'[d] = master[d] /\ (d \in up => d \in up')]_vars

(* A setup that succeeds has made its bridge and all taps of its manifest, *)
(* and they are connected and up until a teardown is run.                  *)
Wired ==
  \A r \in Setups : pc[r] = "done" /\ (\A t \in Teardowns : pc[t] = "idle") =>
    /\ owner[Br[r]] = r /\ Br[r] \in up /\ (DHCP => dhcp[Br[r]] = r)
    /\ \A d \in Range(tap_devs[r]) : owner[d] = r /\ master[d] = Br[r] /\ d \in up

(* A teardown that is repeated after each failure ends with the bridge and *)
(* all taps of the configuration gone.                                     *)
TornDown ==
  \A t \in Teardowns :
    pc[t] = "taps" ~> (\A d \in Taps \union {Br[t]} : ~Exists(d)) /\ dhcp[Br[t]] = None
=============================================================================
