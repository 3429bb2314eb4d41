------------------------------- MODULE NetProofs -------------------------------
(***************************************************************************)
(* br_tap_setup.sh for any number of setups and teardowns, any manifests   *)
(* and any failures: what fails leaves nothing behind, what succeeds is    *)
(* wired, and nobody touches the devices of another.                       *)
(*                                                                         *)
(* The invariant says of the commands to come that a device is made before *)
(* it is used (Todo), of the commands in unwind that each is about a       *)
(* device the setup made and will delete after it, once (Back), of a       *)
(* connected device that its bridge is of the same setup (Masters), and of *)
(* what Wired promises that it is there or among the commands to come      *)
(* (Wiring).                                                               *)
(***************************************************************************)
EXTENDS NetSetup, TLAPS

(* A leaf that names no prover is tried with Zenon, then with SMT.         *)
USE Zenon, SMTT(20)

Made == Taps \union Bridges
AddOf(d) == <<IF d \in Taps THEN "add tap" ELSE "add bridge", d>>
DelOf(d) == <<IF d \in Taps THEN "delete tap" ELSE "delete bridge", d>>
Adds == {"add bridge", "add tap"}
Dels == {"delete bridge", "delete tap"}
SetupOps == Adds \union {"add addr", "master", "up", "dnsmasq"}
BackOps == Dels \union {"del addr", "nomaster", "down"}
TeardownOps == Dels \union {"nomaster", "down"}

Quiet == \A t \in Teardowns : pc[t] = "idle"

Types ==
  /\ owner \in [Devs -> Runs \union {"host", None}]
  /\ BR_IF # None => owner[BR_IF] = "host"
  /\ master \in [Devs -> Bridges \union {None}]
  /\ dhcp \in [Bridges -> Setups \union {None}]
  /\ pc \in [Runs -> {"idle", "begin", "edit", "taps", "unwind", "done", "failed"}]
  /\ DOMAIN todo = Runs /\ DOMAIN unwind = Setups /\ DOMAIN tap_devs = Runs
  /\ \A r \in Setups : todo[r] \in Seq(SetupOps \X Devs)
                       /\ unwind[r] \in Seq(BackOps \X Devs)
                       /\ tap_devs[r] \in Seq(Taps)
  /\ \A t \in Teardowns : todo[t] \in Seq(TeardownOps \X Made)
                          /\ pc[t] \in {"idle", "taps", "done", "failed"}
                          /\ (pc[t] = "taps" => todo[t] # <<>>)
  /\ DOMAIN spared = Setups /\ \A r \in Setups : spared[r] \subseteq Taps

(* Command c of a setup names a device as it should: a tap that is added   *)
(* is a tap, the only bridge is its own, and taps are connected to it once *)
(* it is made (p is the setup's place).                                    *)
Proper(c, r, p) ==
  /\ c[1] = "add tap" => c[2] \in Taps
  /\ c[1] \in {"add bridge", "add addr", "dnsmasq"} => c[2] = Br[r]
  /\ c[2] \in Bridges => c[2] = Br[r] /\ c[1] # "master"
  /\ c[1] = "master" /\ c[2] \in Taps => p = "taps"
Todo(r) ==
  /\ pc[r] \in {"begin", "taps"} =>
       /\ todo[r] # <<>>
       /\ \A i \in DOMAIN todo[r] :
            LET c == todo[r][i]
            IN  /\ Proper(c, r, pc[r])
                /\ c[1] = "dnsmasq" => i = Len(todo[r]) /\ pc[r] = "taps"
                /\ c[1] \notin Adds /\ c[2] \in Made =>
                     owner[c[2]] = r \/ \E j \in 1..(i - 1) : todo[r][j] = AddOf(c[2])
  /\ pc[r] = "begin" =>
       owner[Br[r]] = r \/ \E j \in DOMAIN todo[r] : todo[r][j] = AddOf(Br[r])
  /\ pc[r] \in {"edit", "taps", "done"} /\ Quiet => owner[Br[r]] = r

(* Every command of unwind is about a device that is deleted after it, and *)
(* is the setup's own as long as it is not deleted; each is deleted once.  *)
BackOwned(r) ==
  \A i \in DOMAIN unwind[r] :
    /\ unwind[r][i][1] \in Dels =>
         unwind[r][i] = DelOf(unwind[r][i][2]) /\ owner[unwind[r][i][2]] = r
    /\ unwind[r][i][1] \in Dels \union {"del addr"} => unwind[r][i][2] \in Made
BackLater(r) ==
  \A i \in DOMAIN unwind[r] : unwind[r][i][2] \in Made =>
    \E j \in i..Len(unwind[r]) : unwind[r][j] = DelOf(unwind[r][i][2])
BackOnce(r) ==
  \A i, j \in DOMAIN unwind[r] :
    unwind[r][i] = unwind[r][j] /\ unwind[r][i][1] \in Dels => i = j
(* What the setup made will be deleted, but for the taps that unwind came  *)
(* to while they were held.                                                *)
BackAll(r) ==
  pc[r] # "done" =>
    \A d \in Made : owner[d] = r /\ (pc[r] \in {"unwind", "failed"} => d \notin spared[r]) =>
      \E i \in DOMAIN unwind[r] : unwind[r][i] = DelOf(d)
Back(r) ==
  /\ pc[r] \in {"idle", "done", "failed"} => unwind[r] = <<>>
  /\ BackOwned(r) /\ BackLater(r) /\ BackOnce(r) /\ BackAll(r)

Masters ==
  Quiet => \A d \in Made : master[d] # None =>
    /\ owner[d] \in Setups /\ master[d] = Br[owner[d]]
    /\ owner[Br[owner[d]]] = owner[d]

(* What is not established of Wired is among the commands to come.         *)
Ahead(c, r) == pc[r] = "taps" /\ \E i \in DOMAIN todo[r] : todo[r][i] = c
WiredTap(d, r) ==
  /\ owner[d] = r \/ Ahead(<<"add tap", d>>, r)
  /\ (owner[d] = r /\ master[d] = Br[r]) \/ Ahead(<<"master", d>>, r)
  /\ (owner[d] = r /\ d \in up) \/ Ahead(<<"up", d>>, r)
Wiring(r) ==
  pc[r] \in {"taps", "done"} /\ Quiet =>
    /\ Br[r] \in up \/ Ahead(<<"up", Br[r]>>, r)
    /\ DHCP => dhcp[Br[r]] = r \/ Ahead(<<"dnsmasq", Br[r]>>, r)
    /\ \A d \in Range(tap_devs[r]) : WiredTap(d, r)

Settled == ~Quiet => \A s \in Setups : pc[s] \in {"done", "failed"}
Served == \A b \in Bridges : dhcp[b] # None => pc[dhcp[b]] = "done"

(* The inductive invariant.                                                *)
NetInv ==
  /\ Types /\ Settled /\ Masters /\ Served /\ Unwound
  /\ \A r \in Setups : Todo(r) /\ Back(r) /\ Wiring(r)

-----------------------------------------------------------------------------
(* Sequences.                                                              *)

(* What is left of a list when its first command has been run.             *)
LEMMA TailFacts ==
  ASSUME NEW S, NEW s \in Seq(S), s # <<>>
  PROVE  /\ Len(s) \in Nat /\ DOMAIN s = 1..Len(s) /\ 1 \in DOMAIN s
         /\ Head(s) = s[1] /\ s[1] \in S
         /\ Tail(s) \in Seq(S) /\ Len(Tail(s)) = Len(s) - 1
         /\ DOMAIN Tail(s) = 1..(Len(s) - 1)
         /\ \A i \in 1..(Len(s) - 1) : Tail(s)[i] = s[i + 1]
         /\ (Tail(s) = <<>> <=> Len(s) = 1)
<1>1. /\ Len(s) \in Nat /\ DOMAIN s = 1..Len(s) /\ 1 \in DOMAIN s
      /\ Head(s) = s[1] /\ s[1] \in S
      /\ Tail(s) \in Seq(S) /\ Len(Tail(s)) = Len(s) - 1
      /\ DOMAIN Tail(s) = 1..(Len(s) - 1)
      /\ \A i \in 1..(Len(s) - 1) : Tail(s)[i] = s[i + 1]
  OBVIOUS
<1> DEFINE t == Tail(s)
<1>2. t \in Seq(S)
  BY <1>1
<1> HIDE DEF t
<1>3. t = <<>> <=> Len(t) = 0
  BY <1>2
<1> QED
  BY <1>1, <1>3 DEF t

(* A list to which a command is prepended.                                 *)
LEMMA ConsFacts ==
  ASSUME NEW S, NEW s \in Seq(S), NEW x \in S
  PROVE  /\ Len(s) \in Nat /\ DOMAIN s = 1..Len(s)
         /\ <<x>> \o s \in Seq(S) /\ Len(<<x>> \o s) = Len(s) + 1
         /\ DOMAIN (<<x>> \o s) = 1..(Len(s) + 1)
         /\ (<<x>> \o s)[1] = x
         /\ \A i \in 1..Len(s) : (<<x>> \o s)[i + 1] = s[i]
OBVIOUS

-----------------------------------------------------------------------------
(* What a command changes.                                                 *)

(* How runs and devices are named.                                         *)
LEMMA Names ==
  /\ None \notin Runs /\ "host" \notin Runs /\ None \notin Bridges /\ None \notin Taps
  /\ Taps \intersect Bridges = {} /\ BR_IF \notin Made
  /\ Setups \subseteq Runs /\ Teardowns \subseteq Runs /\ Setups \intersect Teardowns = {}
  /\ Made \subseteq Devs /\ \A d \in Devs : d \in Made \/ (d = BR_IF /\ BR_IF # None)
  /\ \A r \in Runs : Br[r] \in Bridges
BY NetAssumption DEF Runs, Made, Devs, Bridges

(* A command that adds a device ...                                        *)
LEMMA DoAdd ==
  ASSUME Types, NEW r \in Runs, NEW d \in Devs, NEW c, c[1] \in Adds, c[2] = d, Do(c, r)
  PROVE  /\ owner' = [owner EXCEPT ![d] = r] /\ master' = master
         /\ up' = up /\ dhcp' = dhcp
<1>1. r # None
  BY Names
<1>2. owner' = [owner EXCEPT ![d] = r] /\ up' = up /\ dhcp' = dhcp
  BY <1>1 DEF Do, Adds
<1>3. master' = [x \in Devs |-> IF x # d THEN master[x] ELSE master[d]]
  BY <1>1 DEF Do, Adds
<1>4. master' = master
  BY <1>3 DEF Types
<1> QED
  BY <1>2, <1>4

(* ... deletes one ...                                                     *)
LEMMA DoDel ==
  ASSUME Types, NEW r \in Runs, NEW d \in Devs, NEW c, c[1] \in Dels, c[2] = d, Do(c, r)
  PROVE  /\ owner' = [owner EXCEPT ![d] = None]
         /\ master' = [x \in Devs |-> IF x = d \/ master[x] = d THEN None ELSE master[x]]
         /\ up' = up \ {d} /\ dhcp' = dhcp
<1>1. owner' = [owner EXCEPT ![d] = None] /\ up' = up \ {d} /\ dhcp' = dhcp
  BY DEF Do, Dels
<1>2. master' = [x \in Devs |-> IF x = d \/ master[x] = d THEN None ELSE master[x]]
  BY DEF Do, Dels
<1> QED
  BY <1>1, <1>2

(* ... or changes one that is there.                                       *)
LEMMA DoOther ==
  ASSUME Types, NEW r \in Runs, NEW d \in Devs, NEW c, c[2] = d, owner[d] # None, Do(c, r),
         c[1] \in {"add addr", "del addr", "master", "nomaster", "up", "down", "dnsmasq"}
  PROVE  /\ owner' = owner
         /\ master' = [master EXCEPT ![d] = IF c[1] = "master" THEN Br[r]
                                            ELSE IF c[1] = "nomaster" THEN None ELSE @]
         /\ up' = IF c[1] = "up" THEN up \union {d} ELSE IF c[1] = "down" THEN up \ {d} ELSE up
         /\ dhcp' = IF c[1] = "dnsmasq" THEN [dhcp EXCEPT ![d] = r] ELSE dhcp
<1>1. c[1] \notin {"add bridge", "add tap", "delete bridge", "delete tap", "kill"}
  OBVIOUS
<1>2. owner' = [owner EXCEPT ![d] = owner[d]]
  BY <1>1 DEF Do
<1>3. owner' = owner
  BY <1>2 DEF Types
<1>4. master' = [x \in Devs |-> IF x # d THEN master[x]
                                ELSE IF c[1] = "master" THEN Br[r]
                                ELSE IF c[1] = "nomaster" THEN None ELSE master[d]]
  BY <1>1 DEF Do
<1>5. up' = IF c[1] = "up" THEN up \union {d} ELSE IF c[1] = "down" THEN up \ {d} ELSE up
  BY <1>1 DEF Do
<1>6. dhcp' = IF c[1] = "dnsmasq" THEN [dhcp EXCEPT ![d] = r] ELSE dhcp
  BY <1>1 DEF Do
<1> QED
  BY <1>3, <1>4, <1>5, <1>6 DEF Types

-----------------------------------------------------------------------------
(* The others.                                                             *)

(* A step of setup r leaves the devices of the others as they are, makes   *)
(* devices only its own, and stops no DHCP server.                         *)
Frame(r) ==
  /\ \A d \in Made : owner[d] \notin {r, None} =>
       owner'[d] = owner[d] /\ master'[d] = master[d] /\ (d \in up => d \in up')
  /\ \A d \in Made : owner'[d] # owner[d] => owner'[d] \in {r, None}
  /\ \A b \in Bridges : dhcp[b] # None => dhcp'[b] = dhcp[b]
  /\ \A b \in Bridges : dhcp'[b] # dhcp[b] => dhcp'[b] = r

(* What a step of setup r, or of nobody, leaves alone of another setup s.  *)
Aside(s) ==
  /\ pc'[s] = pc[s] /\ todo'[s] = todo[s] /\ unwind'[s] = unwind[s]
  /\ tap_devs'[s] = tap_devs[s] /\ spared'[s] = spared[s]
  /\ \A t \in Teardowns : pc'[t] = pc[t]

(* What is known of another setup stays true.                              *)
LEMMA OthersStep ==
  ASSUME Types, NEW r, Frame(r), NEW s \in Setups, s # r, Aside(s),
         Todo(s), Back(s), Wiring(s)
  PROVE  Todo(s)' /\ Back(s)' /\ Wiring(s)'
<1>1. /\ pc'[s] = pc[s] /\ todo'[s] = todo[s] /\ unwind'[s] = unwind[s]
      /\ tap_devs'[s] = tap_devs[s] /\ spared'[s] = spared[s] /\ Quiet' = Quiet
  BY DEF Aside, Quiet
<1>2. Br[s] \in Made /\ s # None /\ Br[s] \in Bridges
  BY Names DEF Made
<1>3. \A d \in Made : owner[d] = s =>
        owner'[d] = s /\ master'[d] = master[d] /\ (d \in up => d \in up')
  BY <1>2 DEF Frame
<1>4. \A d \in Made : owner'[d] = s => owner[d] = s
  BY <1>2 DEF Frame
<1>5. dhcp[Br[s]] = s => dhcp'[Br[s]] = s
  BY <1>2 DEF Frame
<1>6. Todo(s)'
  <2>1. ASSUME pc[s] \in {"begin", "taps"}, NEW i \in DOMAIN todo[s],
               todo[s][i][1] \notin Adds, todo[s][i][2] \in Made
        PROVE  \/ owner'[todo[s][i][2]] = s
               \/ \E j \in 1..(i - 1) : todo[s][j] = AddOf(todo[s][i][2])
    BY <1>3, <2>1 DEF Todo
  <2>2. pc[s] \in {"begin", "taps"} =>
          /\ todo[s] # <<>>
          /\ \A i \in DOMAIN todo[s] :
               /\ Proper(todo[s][i], s, pc[s])
               /\ todo[s][i][1] = "dnsmasq" => i = Len(todo[s]) /\ pc[s] = "taps"
    BY DEF Todo
  <2>3. pc[s] = "begin" =>
          owner'[Br[s]] = s \/ \E j \in DOMAIN todo[s] : todo[s][j] = AddOf(Br[s])
    BY <1>2, <1>3 DEF Todo
  <2>4. pc[s] \in {"edit", "taps", "done"} /\ Quiet => owner'[Br[s]] = s
    BY <1>2, <1>3 DEF Todo
  <2> QED
    BY ONLY Zenon, <1>1, <2>1, <2>2, <2>3, <2>4 DEF Todo, Proper
<1>7. Back(s)'
  <2>1. BackOwned(s)'
    BY <1>1, <1>3 DEF Back, BackOwned, DelOf
  <2>2. BackLater(s)' /\ BackOnce(s)'
    BY <1>1 DEF Back, BackLater, BackOnce, DelOf
  <2>3. BackAll(s)'
    BY <1>1, <1>4 DEF Back, BackAll, DelOf
  <2> QED
    BY <1>1, <2>1, <2>2, <2>3 DEF Back
<1>8. Wiring(s)'
  <2> SUFFICES ASSUME pc[s] \in {"taps", "done"}, Quiet PROVE Wiring(s)'
    BY <1>1 DEF Wiring
  <2>1. owner[Br[s]] = s
    BY DEF Todo
  <2>2. \A c : Ahead(c, s)' <=> Ahead(c, s)
    BY <1>1 DEF Ahead
  <2>3. ASSUME NEW d \in Range(tap_devs[s]) PROVE WiredTap(d, s)'
    <3>1. d \in Made /\ WiredTap(d, s)
      BY DEF Types, Range, Made, Wiring
    <3>2. /\ owner[d] = s => owner'[d] = s
          /\ owner[d] = s /\ master[d] = Br[s] => owner'[d] = s /\ master'[d] = Br[s]
          /\ owner[d] = s /\ d \in up => owner'[d] = s /\ d \in up'
      BY <1>3, <3>1
    <3> QED
      BY <2>2, <3>1, <3>2 DEF WiredTap
  <2>4. Range(tap_devs[s])' = Range(tap_devs[s])
    BY <1>1 DEF Range
  <2>5. Br[s] \in up' \/ Ahead(<<"up", Br[s]>>, s)'
    BY <1>2, <1>3, <2>1, <2>2 DEF Wiring
  <2>6. DHCP => dhcp'[Br[s]] = s \/ Ahead(<<"dnsmasq", Br[s]>>, s)'
    BY <1>5, <2>2 DEF Wiring
  <2> QED
    BY <2>3, <2>4, <2>5, <2>6 DEF Wiring
<1> QED
  BY <1>6, <1>7, <1>8

-----------------------------------------------------------------------------
(* A setup runs a command.                                                 *)

(* Commands are pairs.                                                     *)
LEMMA PairFacts ==
  ASSUME NEW a, NEW b PROVE <<a, b>>[1] = a /\ <<a, b>>[2] = b
OBVIOUS

(* The parts of a pair.                                                    *)
LEMMA PairIs ==
  ASSUME NEW x, NEW a, NEW b, x = <<a, b>> PROVE x[1] = a /\ x[2] = b
OBVIOUS

(* A pair of an operation and a device.                                    *)
LEMMA PairIn ==
  ASSUME NEW A, NEW B, NEW a \in A, NEW b \in B PROVE <<a, b>> \in A \X B
OBVIOUS

(* The commands that add and delete a device.                              *)
LEMMA AddDelFacts ==
  ASSUME NEW d
  PROVE  /\ AddOf(d)[1] = IF d \in Taps THEN "add tap" ELSE "add bridge"
         /\ DelOf(d)[1] = IF d \in Taps THEN "delete tap" ELSE "delete bridge"
         /\ AddOf(d)[2] = d /\ DelOf(d)[2] = d
         /\ AddOf(d)[1] \in Adds /\ DelOf(d)[1] \in Dels
BY DEF AddOf, DelOf, Adds, Dels

(* What is prepended to unwind is about the same device.                   *)
LEMMA UndoFacts ==
  ASSUME NEW c \in SetupOps \X Devs, c[1] # "dnsmasq"
  PROVE  /\ Undo(c) \in BackOps \X Devs /\ Undo(c)[2] = c[2]
         /\ (Undo(c)[1] \in Dels <=> c[1] \in Adds)
         /\ (Undo(c)[1] = "del addr" => c[1] = "add addr")
         /\ (c[2] \in Made /\ c = AddOf(c[2]) => Undo(c) = DelOf(c[2]))
<1>1. c[1] \in {"add bridge", "add tap", "add addr", "master", "up"} /\ c[2] \in Devs
  BY DEF SetupOps, Adds
<1>2. PICK u : /\ Undo(c) = <<u, c[2]>>
               /\ \/ c[1] = "add bridge" /\ u = "delete bridge"
                  \/ c[1] = "add tap" /\ u = "delete tap"
                  \/ c[1] = "add addr" /\ u = "del addr"
                  \/ c[1] = "master" /\ u = "nomaster"
                  \/ c[1] = "up" /\ u = "down"
  BY <1>1 DEF Undo
<1>3. Undo(c)[1] = u /\ Undo(c)[2] = c[2]
  <2>1. Undo(c) = <<u, c[2]>>
    BY <1>2
  <2> QED
    BY ONLY <2>1, PairFacts
<1>4. u \in BackOps /\ (u \in Dels <=> c[1] \in Adds) /\ (u = "del addr" => c[1] = "add addr")
  BY <1>2 DEF BackOps, Dels, Adds
<1>5. Undo(c) \in BackOps \X Devs
  <2>1. Undo(c) = <<u, c[2]>>
    BY <1>2
  <2>2. u \in BackOps /\ c[2] \in Devs
    BY ONLY <1>1, <1>4
  <2>3. <<u, c[2]>> \in BackOps \X Devs
    BY ONLY <2>2, PairIn
  <2> QED
    BY ONLY <2>1, <2>3
<1>6. ASSUME c = AddOf(c[2]) PROVE Undo(c) = DelOf(c[2])
  <2>1. c[1] = IF c[2] \in Taps THEN "add tap" ELSE "add bridge"
    <3>1. c[1] = AddOf(c[2])[1]
      BY ONLY <1>6
    <3> QED
      BY ONLY <3>1, AddDelFacts
  <2>2. u = IF c[2] \in Taps THEN "delete tap" ELSE "delete bridge"
    BY <1>2, <2>1
  <2> QED
    BY <1>2, <2>2 DEF DelOf
<1> QED
  BY <1>3, <1>4, <1>5, <1>6

First(r) == todo[r][1]

(* The first of the commands to come adds a device that was not there, or  *)
(* is about one of the setup's own or about BR_IF.                         *)
LEMMA FirstFacts ==
  ASSUME NetInv, NEW r \in Setups, pc[r] \in {"begin", "taps"}
  PROVE  /\ todo[r] \in Seq(SetupOps \X Devs) /\ todo[r] # <<>>
         /\ Head(todo[r]) = First(r) /\ First(r) \in SetupOps \X Devs
         /\ Proper(First(r), r, pc[r]) /\ Quiet
         /\ First(r)[1] \in Adds => First(r)[2] \in Made /\ First(r) = AddOf(First(r)[2])
         /\ First(r)[1] \notin Adds /\ First(r)[2] \in Made => owner[First(r)[2]] = r
         /\ First(r)[1] = "dnsmasq" => Len(todo[r]) = 1 /\ pc[r] = "taps"
<1>1. Types /\ Todo(r) /\ Settled
  BY DEF NetInv
<1>2. todo[r] \in Seq(SetupOps \X Devs) /\ todo[r] # <<>>
  BY <1>1 DEF Types, Todo
<1>3. 1 \in DOMAIN todo[r] /\ Head(todo[r]) = First(r) /\ First(r) \in SetupOps \X Devs
  BY <1>2, TailFacts DEF First
<1>4. Proper(First(r), r, pc[r])
      /\ (First(r)[1] = "dnsmasq" => Len(todo[r]) = 1 /\ pc[r] = "taps")
      /\ (First(r)[1] \notin Adds /\ First(r)[2] \in Made => owner[First(r)[2]] = r)
  <2>1. /\ Proper(todo[r][1], r, pc[r])
        /\ todo[r][1][1] = "dnsmasq" => 1 = Len(todo[r]) /\ pc[r] = "taps"
        /\ todo[r][1][1] \notin Adds /\ todo[r][1][2] \in Made =>
             \/ owner[todo[r][1][2]] = r
             \/ \E j \in 1..(1 - 1) : todo[r][j] = AddOf(todo[r][1][2])
    BY <1>1, <1>3 DEF Todo
  <2>2. 1..(1 - 1) = {}
    OBVIOUS
  <2> QED
    BY <2>1, <2>2 DEF First
<1>5. ASSUME First(r)[1] \in Adds
      PROVE  First(r)[2] \in Made /\ First(r) = AddOf(First(r)[2])
  <2>1. First(r) = <<First(r)[1], First(r)[2]>>
    BY <1>3
  <2>2. CASE First(r)[1] = "add tap"
    <3>1. First(r)[2] \in Taps
      BY <1>4, <2>2 DEF Proper
    <3> QED
      BY <2>1, <2>2, <3>1 DEF Made, AddOf
  <2>3. CASE First(r)[1] = "add bridge"
    <3>1. First(r)[2] = Br[r]
      BY <1>4, <2>3 DEF Proper
    <3>2. Br[r] \in Bridges /\ Br[r] \notin Taps
      BY Names
    <3> QED
      BY <2>1, <2>3, <3>1, <3>2 DEF Made, AddOf
  <2> QED
    BY <1>5, <2>2, <2>3 DEF Adds
<1>6. Quiet
  BY <1>1 DEF Settled
<1> QED
  BY <1>2, <1>3, <1>4, <1>5, <1>6

(* What it changes.                                                        *)
Effect(r) ==
  LET c == First(r)
  IN  /\ c[1] \in Adds => owner[c[2]] = None
      /\ c[1] \notin Adds => owner[c[2]] # None
      /\ owner' = IF c[1] \in Adds THEN [owner EXCEPT ![c[2]] = r] ELSE owner
      /\ master' = IF c[1] = "master" THEN [master EXCEPT ![c[2]] = Br[r]] ELSE master
      /\ up' = IF c[1] = "up" THEN up \union {c[2]} ELSE up
      /\ dhcp' = IF c[1] = "dnsmasq" THEN [dhcp EXCEPT ![c[2]] = r] ELSE dhcp
      /\ c[1] = "dnsmasq" => dhcp[c[2]] = None

(* A command that a setup runs has that effect.                            *)
LEMMA CommandEffect ==
  ASSUME NetInv, NEW r \in Setups, Command(r) PROVE Effect(r)
<1> DEFINE c == First(r)
<1>1. Head(todo[r]) = c /\ c \in SetupOps \X Devs
  BY FirstFacts DEF Command
<1>2. Can(c, r) /\ Do(c, r) /\ Types /\ r \in Runs
  BY <1>1, Names DEF Command, NetInv
<1> HIDE DEF c
<1>3. c[1] \in SetupOps /\ c[2] \in Devs
  BY <1>1
<1>4. CASE c[1] \in Adds
  <2>1. owner[c[2]] = None
    BY <1>2, <1>4 DEF Can, Exists, Adds
  <2>2. owner' = [owner EXCEPT ![c[2]] = r] /\ master' = master /\ up' = up /\ dhcp' = dhcp
    BY <1>2, <1>3, <1>4, DoAdd
  <2> QED
    BY <1>4, <2>1, <2>2 DEF Effect, c, Adds
<1>5. CASE c[1] \notin Adds
  <2>1. c[1] \in {"add addr", "master", "up", "dnsmasq"}
    BY <1>3, <1>5 DEF SetupOps, Adds
  <2>2. owner[c[2]] # None /\ (c[1] = "dnsmasq" => dhcp[c[2]] = None)
    BY <1>2, <2>1 DEF Can, Exists
  <2>3. /\ owner' = owner
        /\ master' = [master EXCEPT ![c[2]] = IF c[1] = "master" THEN Br[r]
                                              ELSE IF c[1] = "nomaster" THEN None ELSE @]
        /\ up' = IF c[1] = "up" THEN up \union {c[2]}
                 ELSE IF c[1] = "down" THEN up \ {c[2]} ELSE up
        /\ dhcp' = IF c[1] = "dnsmasq" THEN [dhcp EXCEPT ![c[2]] = r] ELSE dhcp
    BY <1>2, <1>3, <2>1, <2>2, DoOther
  <2>4. master' = IF c[1] = "master" THEN [master EXCEPT ![c[2]] = Br[r]] ELSE master
    BY <1>2, <1>3, <2>1, <2>3 DEF Types
  <2>5. up' = IF c[1] = "up" THEN up \union {c[2]} ELSE up
    BY <2>1, <2>3
  <2> QED
    BY <1>5, <2>2, <2>3, <2>4, <2>5 DEF Effect, c
<1> QED
  BY <1>4, <1>5

(* It touches no device of another.                                        *)
LEMMA CommandFrame ==
  ASSUME NetInv, NEW r \in Setups, Command(r) PROVE Frame(r)
<1> DEFINE c == First(r)
<1>1. pc[r] \in {"begin", "taps"} /\ Types
  BY DEF Command, NetInv
<1>2. c[2] \in Devs /\ (c[1] \notin Adds /\ c[2] \in Made => owner[c[2]] = r)
  BY <1>1, FirstFacts
<1>3. Effect(r)
  BY CommandEffect
<1> HIDE DEF c
<1>4. \A d \in Made : owner[d] \notin {r, None} =>
        owner'[d] = owner[d] /\ master'[d] = master[d] /\ (d \in up => d \in up')
  <2> SUFFICES ASSUME NEW d \in Made, owner[d] \notin {r, None}
               PROVE  owner'[d] = owner[d] /\ master'[d] = master[d] /\ (d \in up => d \in up')
    OBVIOUS
  <2>1. d \in Devs /\ d # c[2]
    BY <1>2, <1>3, Names DEF Effect, c
  <2> QED
    BY <1>1, <1>3, <2>1 DEF Effect, c, Types
<1>5. \A d \in Made : owner'[d] # owner[d] => owner'[d] \in {r, None}
  BY <1>1, <1>2, <1>3, Names DEF Effect, c, Types
<1>6. \A b \in Bridges : dhcp[b] # None => dhcp'[b] = dhcp[b]
  BY <1>1, <1>3 DEF Effect, c, Types
<1>7. \A b \in Bridges : dhcp'[b] # dhcp[b] => dhcp'[b] = r
  BY <1>1, <1>3 DEF Effect, c, Types
<1> QED
  BY <1>4, <1>5, <1>6, <1>7 DEF Frame

(* What Unwound says of one setup.                                         *)
Clean(r) ==
  pc[r] = "failed" =>
    /\ \A d \in Devs : owner[d] = r => d \in spared[r] /\ master[d] # Br[r]
    /\ \A b \in Bridges : dhcp[b] # r

(* It stays true of another.                                               *)
LEMMA OthersClean ==
  ASSUME Types, Types', NEW r \in Setups, Frame(r), NEW s \in Setups, s # r, Aside(s), Clean(s)
  PROVE  Clean(s)'
<1> SUFFICES ASSUME pc'[s] = "failed"
             PROVE  /\ \A d \in Devs : owner'[d] = s => d \in spared'[s] /\ master'[d] # Br[s]
                    /\ \A b \in Bridges : dhcp'[b] # s
  BY DEF Clean
<1>1. pc[s] = "failed" /\ spared'[s] = spared[s] /\ s # None /\ s # "host"
  BY Names DEF Aside
<1>2. ASSUME NEW d \in Devs, owner'[d] = s PROVE d \in spared'[s] /\ master'[d] # Br[s]
  <2>1. d \in Made
    BY <1>1, <1>2, Names DEF Types
  <2>2. owner[d] = s /\ master'[d] = master[d]
    BY <1>1, <1>2, <2>1 DEF Frame
  <2> QED
    BY <1>1, <1>2, <2>2 DEF Clean
<1>3. ASSUME NEW b \in Bridges PROVE dhcp'[b] # s
  BY <1>1 DEF Frame, Clean
<1> QED
  BY <1>2, <1>3

(* What it changes of the script's own variables.                          *)
LEMMA CommandScript ==
  ASSUME NetInv, NEW r \in Setups, Command(r)
  PROVE  /\ pc[r] \in {"begin", "taps"} /\ Quiet'
         /\ pc'[r] = IF Len(todo[r]) # 1 THEN pc[r]
                     ELSE IF pc[r] = "begin" THEN "edit" ELSE "done"
         /\ todo'[r] = Tail(todo[r])
         /\ unwind'[r] = IF pc'[r] = "done" THEN <<>> ELSE <<Undo(First(r))>> \o unwind[r]
         /\ DOMAIN pc' = Runs /\ DOMAIN todo' = Runs /\ DOMAIN unwind' = Setups
         /\ \A s \in Runs \ {r} : pc'[s] = pc[s] /\ todo'[s] = todo[s]
         /\ \A s \in Setups \ {r} : unwind'[s] = unwind[s]
         /\ tap_devs' = tap_devs /\ spared' = spared
<1>1. Types /\ pc[r] \in {"begin", "taps"} /\ r \in Runs
  BY Names DEF NetInv, Command
<1>2. todo[r] \in Seq(SetupOps \X Devs) /\ todo[r] # <<>> /\ Head(todo[r]) = First(r) /\ Quiet
  BY <1>1, FirstFacts
<1>3. Tail(todo[r]) = <<>> <=> Len(todo[r]) = 1
  BY <1>2, TailFacts
<1>4. /\ todo' = [todo EXCEPT ![r] = Tail(@)]
      /\ pc' = [pc EXCEPT ![r] = After(r, Tail(todo[r]))]
      /\ unwind' = [unwind EXCEPT ![r] = IF pc'[r] = "done" THEN <<>>
                                         ELSE <<Undo(First(r))>> \o @]
      /\ tap_devs' = tap_devs /\ spared' = spared
  BY <1>2 DEF Command
<1>5. pc'[r] = After(r, Tail(todo[r]))
  BY <1>1, <1>4 DEF Types
<1>6. pc'[r] = IF Len(todo[r]) # 1 THEN pc[r] ELSE IF pc[r] = "begin" THEN "edit" ELSE "done"
  BY <1>3, <1>5 DEF After
<1>7. todo'[r] = Tail(todo[r]) /\ DOMAIN pc' = Runs /\ DOMAIN todo' = Runs
      /\ \A s \in Runs \ {r} : pc'[s] = pc[s] /\ todo'[s] = todo[s]
  BY <1>1, <1>4 DEF Types
<1>8. unwind'[r] = (IF pc'[r] = "done" THEN <<>> ELSE <<Undo(First(r))>> \o unwind[r])
      /\ DOMAIN unwind' = Setups /\ \A s \in Setups \ {r} : unwind'[s] = unwind[s]
  BY <1>1, <1>4 DEF Types
<1>9. Quiet'
  BY <1>2, <1>7, Names DEF Quiet
<1> QED
  BY <1>1, <1>4, <1>6, <1>7, <1>8, <1>9

(* It keeps the types.                                                     *)
LEMMA CommandTypes ==
  ASSUME NetInv, NEW r \in Setups, Command(r) PROVE Types'
<1> DEFINE c == First(r)
<1>1. Types /\ r \in Runs /\ Effect(r)
  BY CommandEffect, Names DEF NetInv
<1>2. /\ pc[r] \in {"begin", "taps"}
      /\ pc'[r] = IF Len(todo[r]) # 1 THEN pc[r] ELSE IF pc[r] = "begin" THEN "edit" ELSE "done"
      /\ todo'[r] = Tail(todo[r])
      /\ unwind'[r] = IF pc'[r] = "done" THEN <<>> ELSE <<Undo(c)>> \o unwind[r]
      /\ DOMAIN pc' = Runs /\ DOMAIN todo' = Runs /\ DOMAIN unwind' = Setups
      /\ \A s \in Runs \ {r} : pc'[s] = pc[s] /\ todo'[s] = todo[s]
      /\ \A s \in Setups \ {r} : unwind'[s] = unwind[s]
      /\ tap_devs' = tap_devs /\ spared' = spared
  BY CommandScript
<1>3. /\ todo[r] \in Seq(SetupOps \X Devs) /\ todo[r] # <<>>
      /\ c \in SetupOps \X Devs /\ Proper(c, r, pc[r])
      /\ (c[1] \in Adds => c[2] \in Made)
      /\ (c[1] = "dnsmasq" => Len(todo[r]) = 1 /\ pc[r] = "taps")
  BY <1>2, FirstFacts
<1> HIDE DEF c
<1>4. c[1] \in SetupOps /\ c[2] \in Devs
  BY <1>3
<1>5. owner' \in [Devs -> Runs \union {"host", None}] /\ (BR_IF # None => owner'[BR_IF] = "host")
  BY <1>1, <1>3, <1>4, Names DEF Types, Effect, c
<1>6. master' \in [Devs -> Bridges \union {None}]
  BY <1>1, <1>4, Names DEF Types, Effect, c
<1>7. dhcp' \in [Bridges -> Setups \union {None}]
  BY <1>1, Names DEF Types, Effect, c
<1>8. pc' \in [Runs -> {"idle", "begin", "edit", "taps", "unwind", "done", "failed"}]
  <2>1. pc' = [s \in Runs |-> pc'[s]]
    <3>1. pc' = [pc EXCEPT ![r] = After(r, Tail(todo[r]))]
      BY DEF Command
    <3> QED
      BY <1>1, <3>1 DEF Types
  <2>2. \A s \in Runs : pc'[s] \in {"idle", "begin", "edit", "taps", "unwind", "done", "failed"}
    BY <1>1, <1>2 DEF Types
  <2> QED
    BY <2>1, <2>2
<1>9. Tail(todo[r]) \in Seq(SetupOps \X Devs)
  BY <1>3, TailFacts
<1>10. unwind'[r] \in Seq(BackOps \X Devs)
  <2>1. CASE pc'[r] = "done"
    BY <1>2, <2>1
  <2>2. CASE pc'[r] # "done"
    <3>1. c[1] # "dnsmasq"
      BY <1>2, <1>3, <2>2
    <3>2. Undo(c) \in BackOps \X Devs
      BY <1>3, <3>1, UndoFacts
    <3>3. unwind[r] \in Seq(BackOps \X Devs)
      BY <1>1 DEF Types
    <3>4. <<Undo(c)>> \o unwind[r] \in Seq(BackOps \X Devs)
      BY ONLY <3>2, <3>3, ConsFacts
    <3> QED
      BY <1>2, <2>2, <3>4
  <2> QED
    BY <2>1, <2>2
<1>11. \A s \in Setups : todo'[s] \in Seq(SetupOps \X Devs)
                         /\ unwind'[s] \in Seq(BackOps \X Devs)
                         /\ tap_devs'[s] \in Seq(Taps)
  BY <1>1, <1>2, <1>9, <1>10, Names DEF Types
<1>12. \A t \in Teardowns : todo'[t] \in Seq(TeardownOps \X Made)
                            /\ pc'[t] \in {"idle", "taps", "done", "failed"}
                            /\ (pc'[t] = "taps" => todo'[t] # <<>>)
  <2>1. \A t \in Teardowns : t \in Runs \ {r}
    BY Names
  <2> QED
    BY <1>1, <1>2, <2>1 DEF Types
<1> QED
  BY <1>1, <1>2, <1>5, <1>6, <1>7, <1>8, <1>11, <1>12 DEF Types

(* A list with a command before it, by index.                              *)
LEMMA ConsAt ==
  ASSUME NEW S, NEW s \in Seq(S), NEW x \in S, NEW i \in DOMAIN (<<x>> \o s), i # 1
  PROVE  i - 1 \in DOMAIN s /\ (<<x>> \o s)[i] = s[i - 1] /\ i = (i - 1) + 1
<1> DEFINE t == <<x>> \o s
<1>1. /\ Len(s) \in Nat /\ DOMAIN s = 1..Len(s) /\ DOMAIN t = 1..(Len(s) + 1)
      /\ \A k \in 1..Len(s) : t[k + 1] = s[k]
  BY ConsFacts
<1>2. i \in DOMAIN t
  OBVIOUS
<1> HIDE DEF t
<1>3. i \in Nat /\ i - 1 \in 1..Len(s) /\ (i - 1) + 1 = i
  BY <1>1, <1>2
<1>4. t[(i - 1) + 1] = s[i - 1]
  BY <1>1, <1>3
<1> QED
  BY <1>1, <1>3, <1>4 DEF t

(* What the setup owned it still owns, and what it owns it owned or has    *)
(* just added.                                                             *)
LEMMA CommandOwner ==
  ASSUME NetInv, NEW r \in Setups, Command(r), NEW d \in Devs
  PROVE  /\ owner[d] # None => owner'[d] = owner[d]
         /\ owner'[d] = r => owner[d] = r \/ (First(r)[1] \in Adds /\ First(r)[2] = d)
         /\ First(r)[1] \in Adds /\ First(r)[2] = d => owner'[d] = r /\ owner[d] = None
<1>1. Types /\ Effect(r)
  BY CommandEffect DEF NetInv
<1> QED
  BY <1>1 DEF Types, Effect

(* The commands that remain name devices the setup has or will have made.  *)
LEMMA CommandTodo ==
  ASSUME NetInv, NEW r \in Setups, Command(r) PROVE Todo(r)'
<1> DEFINE c == First(r)  s == todo[r]  n == Len(todo[r])
<1>1. Todo(r) /\ Br[r] \in Devs /\ Br[r] \in Made /\ r # None /\ Made \subseteq Devs
  BY Names DEF NetInv, Made
<1>2. /\ pc[r] \in {"begin", "taps"} /\ Quiet'
      /\ pc'[r] = IF n # 1 THEN pc[r] ELSE IF pc[r] = "begin" THEN "edit" ELSE "done"
      /\ todo'[r] = Tail(s)
  BY CommandScript
<1>3. s \in Seq(SetupOps \X Devs) /\ s # <<>> /\ Quiet
  BY <1>2, FirstFacts
<1>4. /\ n \in Nat /\ DOMAIN s = 1..n /\ 1 \in DOMAIN s /\ c = s[1]
      /\ Len(Tail(s)) = n - 1 /\ DOMAIN Tail(s) = 1..(n - 1)
      /\ \A i \in 1..(n - 1) : Tail(s)[i] = s[i + 1]
      /\ (Tail(s) = <<>> <=> n = 1)
  BY <1>3, TailFacts DEF First
<1>5. ASSUME NEW d \in Made, NEW k \in 1..n, NEW j \in 1..k, s[j] = AddOf(d)
      PROVE  owner'[d] = r \/ \E l \in 1..(k - 1) : l \in 1..(n - 1) /\ Tail(s)[l] = AddOf(d)
  <2>1. CASE j = 1
    <3>1. c = AddOf(d)
      BY <1>4, <1>5, <2>1
    <3>2. c[1] \in Adds /\ c[2] = d
      BY ONLY <3>1, AddDelFacts
    <3> QED
      BY <1>1, <3>2, CommandOwner
  <2>2. CASE j # 1
    <3>1. j - 1 \in 1..(k - 1) /\ j - 1 \in 1..(n - 1) /\ (j - 1) + 1 = j
      BY <1>4, <2>2
    <3>2. Tail(s)[j - 1] = s[j]
      BY <1>4, <3>1
    <3> QED
      BY <1>5, <3>1, <3>2
  <2> QED
    BY <2>1, <2>2
<1>6. \A d \in Made : owner[d] = r => owner'[d] = r
  BY <1>1, CommandOwner
<1> HIDE DEF c, s, n
<1>7. ASSUME pc'[r] \in {"begin", "taps"}, NEW i \in 1..(n - 1)
      PROVE  /\ Proper(Tail(s)[i], r, pc'[r])
             /\ Tail(s)[i][1] = "dnsmasq" => i = n - 1 /\ pc'[r] = "taps"
             /\ Tail(s)[i][1] \notin Adds /\ Tail(s)[i][2] \in Made =>
                  \/ owner'[Tail(s)[i][2]] = r
                  \/ \E j \in 1..(i - 1) : Tail(s)[j] = AddOf(Tail(s)[i][2])
  <2> DEFINE e == s[i + 1]
  <2>1. i + 1 \in DOMAIN s /\ Tail(s)[i] = e /\ pc'[r] = pc[r] /\ (i + 1) - 1 = i /\ i \in 1..n
    BY <1>2, <1>4, <1>7
  <2>2. /\ Proper(e, r, pc[r])
        /\ e[1] = "dnsmasq" => i + 1 = n /\ pc[r] = "taps"
        /\ e[1] \notin Adds /\ e[2] \in Made =>
             owner[e[2]] = r \/ \E j \in 1..((i + 1) - 1) : s[j] = AddOf(e[2])
    BY <1>1, <1>2, <2>1 DEF Todo, s, n
  <2> HIDE DEF e
  <2>3. Proper(e, r, pc'[r])
    BY <2>1, <2>2
  <2>4. ASSUME e[1] \notin Adds, e[2] \in Made
        PROVE  owner'[e[2]] = r \/ \E j \in 1..(i - 1) : Tail(s)[j] = AddOf(e[2])
    <3>1. CASE owner[e[2]] = r
      BY <1>6, <2>4, <3>1
    <3>2. CASE \E j \in 1..i : s[j] = AddOf(e[2])
      BY <1>5, <2>1, <2>4, <3>2
    <3> QED
      BY <2>1, <2>2, <2>4, <3>1, <3>2
  <2>5. e[1] = "dnsmasq" => i = n - 1 /\ pc'[r] = "taps"
    BY <1>4, <2>1, <2>2
  <2>6. Tail(s)[i] = e
    BY <2>1
  <2> QED
    BY ONLY Zenon, <2>3, <2>4, <2>5, <2>6
<1>8. ASSUME pc[r] = "begin"
      PROVE  owner'[Br[r]] = r \/ \E j \in 1..(n - 1) : Tail(s)[j] = AddOf(Br[r])
  <2>1. CASE owner[Br[r]] = r
    BY <1>1, <1>6, <2>1
  <2>2. CASE \E j \in DOMAIN s : s[j] = AddOf(Br[r])
    <3>1. PICK j \in 1..n : s[j] = AddOf(Br[r])
      BY <1>4, <2>2
    <3>2. n \in 1..n
      BY <1>4
    <3> QED
      BY <1>1, <1>5, <3>1, <3>2
  <2> QED
    BY <1>1, <1>8, <2>1, <2>2 DEF Todo, s
<1>9. ASSUME pc'[r] \in {"edit", "taps", "done"} PROVE owner'[Br[r]] = r
  <2>1. CASE pc[r] = "begin"
    <3>1. n = 1
      BY <1>2, <1>9, <2>1
    <3>2. 1..(n - 1) = {}
      BY <3>1
    <3> QED
      BY <1>8, <2>1, <3>2
  <2>2. CASE pc[r] = "taps"
    BY <1>1, <1>3, <1>6, <2>2 DEF Todo
  <2> QED
    BY <1>2, <2>1, <2>2
<1>10. pc'[r] \in {"begin", "taps"} => Tail(s) # <<>>
  BY <1>2, <1>4
<1>11. pc'[r] = "begin" => pc[r] = "begin"
  BY <1>2
<1>12. todo'[r] = Tail(s) /\ DOMAIN Tail(s) = 1..(n - 1) /\ Len(Tail(s)) = n - 1
  BY <1>2, <1>4
<1> QED
  BY <1>7, <1>8, <1>9, <1>10, <1>11, <1>12 DEF Todo

(* The command's undo, in front of unwind.                                 *)
LEMMA CommandBack ==
  ASSUME NetInv, NEW r \in Setups, Command(r) PROVE Back(r)'
<1> DEFINE c == First(r)  u == unwind[r]  x == Undo(First(r))
<1>1. Types /\ Back(r) /\ Made \subseteq Devs /\ r # None /\ Br[r] \in Made
  BY Names DEF NetInv, Made
<1>2. /\ pc[r] \in {"begin", "taps"}
      /\ pc'[r] = IF Len(todo[r]) # 1 THEN pc[r] ELSE IF pc[r] = "begin" THEN "edit" ELSE "done"
      /\ unwind'[r] = IF pc'[r] = "done" THEN <<>> ELSE <<x>> \o u
  BY CommandScript
<1>3. /\ c \in SetupOps \X Devs /\ Proper(c, r, pc[r])
      /\ (c[1] \in Adds => c[2] \in Made /\ c = AddOf(c[2]))
      /\ (c[1] \notin Adds /\ c[2] \in Made => owner[c[2]] = r)
      /\ (c[1] = "dnsmasq" => Len(todo[r]) = 1 /\ pc[r] = "taps")
  BY <1>2, FirstFacts
<1>4. \A d \in Made : /\ owner[d] # None => owner'[d] = owner[d]
                      /\ owner'[d] = r => owner[d] = r \/ (c[1] \in Adds /\ c[2] = d)
                      /\ c[1] \in Adds /\ c[2] = d => owner'[d] = r /\ owner[d] = None
  BY <1>1, CommandOwner
<1>5. CASE pc'[r] = "done"
  <2>1. unwind'[r] = <<>> /\ DOMAIN unwind'[r] = {}
    BY <1>2, <1>5
  <2>2. BackOwned(r)' /\ BackLater(r)' /\ BackOnce(r)'
    BY <2>1 DEF BackOwned, BackLater, BackOnce
  <2>3. BackAll(r)'
    BY <1>5 DEF BackAll
  <2> QED
    BY <2>1, <2>2, <2>3 DEF Back
<1>6. CASE pc'[r] # "done"
  <2> DEFINE v == <<x>> \o u
  <2>1. c[1] # "dnsmasq" /\ unwind'[r] = v /\ pc'[r] \notin {"idle", "done", "failed", "unwind"}
    BY <1>2, <1>3, <1>6
  <2>2. /\ x \in BackOps \X Devs /\ x[2] = c[2]
        /\ (x[1] \in Dels <=> c[1] \in Adds)
        /\ (x[1] = "del addr" => c[1] = "add addr")
        /\ (c[2] \in Made /\ c = AddOf(c[2]) => x = DelOf(c[2]))
    BY <1>3, <2>1, UndoFacts
  <2>3. u \in Seq(BackOps \X Devs)
    BY <1>1 DEF Types
  <2> DEFINE S == BackOps \X Devs
  <2>11. x \in S /\ u \in Seq(S)
    BY <2>2, <2>3
  <2> HIDE DEF c, u, x, S
  <2>4. /\ Len(u) \in Nat /\ DOMAIN u = 1..Len(u) /\ Len(v) = Len(u) + 1
        /\ DOMAIN v = 1..(Len(u) + 1) /\ v[1] = x
        /\ \A i \in 1..Len(u) : v[i + 1] = u[i]
    BY ONLY <2>11, ConsFacts
  <2>5. \A i \in DOMAIN v : i # 1 => i - 1 \in DOMAIN u /\ v[i] = u[i - 1] /\ i = (i - 1) + 1
    BY ONLY <2>11, ConsAt
  <2>6. c[1] = "add addr" => c[2] \in Made
    BY <1>1, <1>3 DEF Proper
  <2> HIDE DEF v
  <2>7. BackOwned(r)'
    <3>1. ASSUME NEW i \in DOMAIN v
          PROVE  /\ v[i][1] \in Dels => v[i] = DelOf(v[i][2]) /\ owner'[v[i][2]] = r
                 /\ v[i][1] \in Dels \union {"del addr"} => v[i][2] \in Made
      <4>1. CASE i = 1
        <5>1. v[i] = x
          BY <2>4, <4>1
        <5>2. x[1] \in Dels => x = DelOf(x[2]) /\ owner'[x[2]] = r
          BY <1>3, <1>4, <2>2
        <5>3. x[1] \in Dels \union {"del addr"} => x[2] \in Made
          BY <1>3, <2>2, <2>6
        <5> QED
          BY ONLY <5>1, <5>2, <5>3
      <4>2. CASE i # 1
        <5>1. i - 1 \in DOMAIN u /\ v[i] = u[i - 1]
          BY <2>5, <4>2
        <5>2. /\ u[i - 1][1] \in Dels => u[i - 1] = DelOf(u[i - 1][2]) /\ owner[u[i - 1][2]] = r
              /\ u[i - 1][1] \in Dels \union {"del addr"} => u[i - 1][2] \in Made
          BY <1>1, <5>1 DEF Back, BackOwned, u
        <5> QED
          BY <1>1, <1>4, <5>1, <5>2
      <4> QED
        BY <4>1, <4>2
    <3> QED
      BY <2>1, <3>1 DEF BackOwned
  <2>8. BackLater(r)'
    <3>1. ASSUME NEW i \in DOMAIN v, v[i][2] \in Made
          PROVE  \E j \in i..Len(v) : v[j] = DelOf(v[i][2])
      <4>1. CASE i = 1
        <5>1. v[i] = x /\ x[2] = c[2] /\ c[2] \in Made
          BY <2>2, <2>4, <3>1, <4>1
        <5>2. CASE c[1] \in Adds
          <6>1. v[1] = DelOf(c[2]) /\ 1 \in i..Len(v)
            BY <1>3, <2>2, <2>4, <4>1, <5>1, <5>2
          <6> QED
            BY <5>1, <6>1
        <5>3. CASE c[1] \notin Adds
          <6>1. owner[c[2]] = r
            BY <1>3, <5>1, <5>3
          <6>2. PICK k \in DOMAIN u : u[k] = DelOf(c[2])
            BY <1>1, <1>2, <5>1, <6>1 DEF Back, BackAll, u
          <6>3. v[k + 1] = DelOf(c[2]) /\ k + 1 \in i..Len(v)
            BY <2>4, <4>1, <6>2
          <6> QED
            BY <5>1, <6>3
        <5> QED
          BY <5>2, <5>3
      <4>2. CASE i # 1
        <5>1. i - 1 \in DOMAIN u /\ v[i] = u[i - 1] /\ u[i - 1][2] \in Made
          BY <2>5, <3>1, <4>2
        <5>2. PICK k \in (i - 1)..Len(u) : u[k] = DelOf(u[i - 1][2])
          BY <1>1, <5>1 DEF Back, BackLater, u
        <5>3. k + 1 \in i..Len(v) /\ k \in 1..Len(u)
          BY <2>4, <2>5, <4>2, <5>1, <5>2
        <5>4. v[k + 1] = DelOf(v[i][2])
          BY <2>4, <5>1, <5>2, <5>3
        <5> QED
          BY <5>3, <5>4
      <4> QED
        BY <4>1, <4>2
    <3> QED
      BY <2>1, <3>1 DEF BackLater
  <2>9. BackOnce(r)'
    <3>1. ASSUME NEW k \in DOMAIN u, x[1] \in Dels PROVE u[k] # x
      <4>1. owner[c[2]] = None /\ x[2] = c[2]
        BY <1>3, <1>4, <2>2, <3>1
      <4>2. u[k][1] \in Dels => owner[u[k][2]] = r
        BY <1>1 DEF Back, BackOwned, u
      <4> QED
        BY <1>1, <3>1, <4>1, <4>2
    <3>2. ASSUME NEW i \in DOMAIN v, NEW j \in DOMAIN v, v[i] = v[j], v[i][1] \in Dels
          PROVE  i = j
      <4>1. CASE i = 1 /\ j = 1
        BY <4>1
      <4>2. CASE i = 1 /\ j # 1
        <5>1. j - 1 \in DOMAIN u /\ u[j - 1] = x /\ x[1] \in Dels
          BY <2>4, <2>5, <3>2, <4>2
        <5> QED
          BY <3>1, <5>1
      <4>3. CASE i # 1 /\ j = 1
        <5>1. i - 1 \in DOMAIN u /\ u[i - 1] = x /\ x[1] \in Dels
          BY <2>4, <2>5, <3>2, <4>3
        <5> QED
          BY <3>1, <5>1
      <4>4. CASE i # 1 /\ j # 1
        <5>1. /\ i - 1 \in DOMAIN u /\ j - 1 \in DOMAIN u /\ u[i - 1] = u[j - 1]
              /\ u[i - 1][1] \in Dels /\ i = (i - 1) + 1 /\ j = (j - 1) + 1
          BY <2>5, <3>2, <4>4
        <5>2. i - 1 = j - 1
          BY <1>1, <5>1 DEF Back, BackOnce, u
        <5> QED
          BY ONLY <5>1, <5>2
      <4> QED
        BY <4>1, <4>2, <4>3, <4>4
    <3> QED
      BY <2>1, <3>2 DEF BackOnce
  <2>10. BackAll(r)'
    <3>1. ASSUME NEW d \in Made, owner'[d] = r PROVE \E i \in DOMAIN v : v[i] = DelOf(d)
      <4>1. CASE owner[d] = r
        <5>1. PICK k \in DOMAIN u : u[k] = DelOf(d)
          BY <1>1, <1>2, <4>1 DEF Back, BackAll, u
        <5>2. k + 1 \in DOMAIN v /\ v[k + 1] = DelOf(d)
          BY <2>4, <5>1
        <5> QED
          BY <5>2
      <4>2. CASE c[1] \in Adds /\ c[2] = d
        <5>1. x = DelOf(c[2])
          BY <1>3, <2>2, <4>2
        <5>2. v[1] = x /\ 1 \in DOMAIN v
          BY <2>4
        <5> QED
          BY <4>2, <5>1, <5>2
      <4> QED
        BY <1>4, <3>1, <4>1, <4>2
    <3> QED
      BY <2>1, <3>1 DEF BackAll
  <2> QED
    BY <2>1, <2>7, <2>8, <2>9, <2>10 DEF Back
<1> QED
  BY <1>5, <1>6

(* What it was to establish of Wired is established.                       *)
LEMMA CommandWiring ==
  ASSUME NetInv, NEW r \in Setups, Command(r) PROVE Wiring(r)'
<1> DEFINE c == First(r)  s == todo[r]  n == Len(todo[r])
<1>1. Types /\ Wiring(r) /\ Made \subseteq Devs /\ r # None /\ Br[r] \in Bridges /\ Effect(r)
  BY CommandEffect, Names DEF NetInv
<1>2. /\ pc[r] \in {"begin", "taps"}
      /\ pc'[r] = IF n # 1 THEN pc[r] ELSE IF pc[r] = "begin" THEN "edit" ELSE "done"
      /\ todo'[r] = Tail(s) /\ tap_devs' = tap_devs
  BY CommandScript
<1>3. /\ s \in Seq(SetupOps \X Devs) /\ s # <<>> /\ Quiet /\ c \in SetupOps \X Devs
      /\ (c[1] \notin Adds /\ c[2] \in Made => owner[c[2]] = r)
  BY <1>2, FirstFacts
<1>4. /\ n \in Nat /\ DOMAIN s = 1..n /\ c = s[1] /\ DOMAIN Tail(s) = 1..(n - 1)
      /\ \A i \in 1..(n - 1) : Tail(s)[i] = s[i + 1]
  BY <1>3, TailFacts DEF First
<1>5. \A d \in Made : owner[d] = r => owner'[d] = r
  BY <1>1, CommandOwner
<1> SUFFICES ASSUME pc'[r] \in {"taps", "done"}
             PROVE  /\ Br[r] \in up' \/ Ahead(<<"up", Br[r]>>, r)'
                    /\ DHCP => dhcp'[Br[r]] = r \/ Ahead(<<"dnsmasq", Br[r]>>, r)'
                    /\ \A d \in Range(tap_devs[r]) : WiredTap(d, r)'
  BY <1>2 DEF Wiring, Range
<1>6. pc[r] = "taps" /\ pc'[r] = IF n # 1 THEN "taps" ELSE "done"
  BY <1>2
<1> HIDE DEF c, s, n
<1>7. ASSUME NEW x, Ahead(x, r) PROVE Ahead(x, r)' \/ c = x
  <2>1. PICK i \in 1..n : s[i] = x
    BY <1>4, <1>7 DEF Ahead, s
  <2>2. CASE i = 1
    BY <1>4, <2>1, <2>2
  <2>3. CASE i # 1
    <3>1. i - 1 \in 1..(n - 1) /\ (i - 1) + 1 = i /\ n # 1
      BY <1>4, <2>3
    <3>2. Tail(s)[i - 1] = x /\ i - 1 \in DOMAIN Tail(s)
      BY <1>4, <2>1, <3>1
    <3> QED
      BY <1>2, <1>6, <3>1, <3>2 DEF Ahead
  <2> QED
    BY <2>2, <2>3
<1>8. ASSUME NEW o, NEW d, c = <<o, d>> PROVE c[1] = o /\ c[2] = d
  BY ONLY <1>8, PairFacts
<1>9. Br[r] \in up' \/ Ahead(<<"up", Br[r]>>, r)'
  <2>1. Br[r] \in up => Br[r] \in up'
    BY <1>1 DEF Effect
  <2>2. c = <<"up", Br[r]>> => Br[r] \in up'
    BY <1>1, <1>8 DEF Effect, c
  <2> QED
    BY <1>1, <1>3, <1>6, <1>7, <2>1, <2>2 DEF Wiring
<1>10. DHCP => dhcp'[Br[r]] = r \/ Ahead(<<"dnsmasq", Br[r]>>, r)'
  <2>1. dhcp[Br[r]] = r => dhcp'[Br[r]] = r
    BY <1>1 DEF Effect, Types
  <2>2. ASSUME c = <<"dnsmasq", Br[r]>> PROVE dhcp'[Br[r]] = r
    <3>1. c[1] = "dnsmasq" /\ c[2] = Br[r]
      BY <1>8, <2>2
    <3> QED
      BY <1>1, <3>1 DEF Effect, c, Types
  <2> QED
    BY <1>1, <1>3, <1>6, <1>7, <2>1, <2>2 DEF Wiring
<1>11. ASSUME NEW d \in Range(tap_devs[r]) PROVE WiredTap(d, r)'
  <2>1. d \in Made /\ d \in Devs /\ WiredTap(d, r)
    BY <1>1, <1>3, <1>6 DEF Wiring, Types, Range, Made
  <2>2. owner'[d] = r \/ Ahead(<<"add tap", d>>, r)'
    <3>1. ASSUME c = <<"add tap", d>> PROVE owner'[d] = r
      <4>1. c[1] = "add tap" /\ c[2] = d
        BY <1>8, <3>1
      <4> QED
        BY <2>1, <4>1, CommandOwner DEF c, Adds
    <3> QED
      BY <1>5, <1>7, <2>1, <3>1 DEF WiredTap
  <2>3. (owner'[d] = r /\ master'[d] = Br[r]) \/ Ahead(<<"master", d>>, r)'
    <3>1. ASSUME c = <<"master", d>> PROVE owner'[d] = r /\ master'[d] = Br[r]
      <4>1. c[1] = "master" /\ c[2] = d /\ c[1] \notin Adds
        BY <1>8, <3>1 DEF Adds
      <4>2. owner'[d] = r
        BY <1>3, <1>5, <2>1, <4>1
      <4> QED
        BY <1>1, <2>1, <4>1, <4>2 DEF Effect, c, Types
    <3>2. master[d] = Br[r] => master'[d] = Br[r]
      BY <1>1, <2>1 DEF Effect, Types
    <3> QED
      BY <1>5, <1>7, <2>1, <3>1, <3>2 DEF WiredTap
  <2>4. (owner'[d] = r /\ d \in up') \/ Ahead(<<"up", d>>, r)'
    <3>1. ASSUME c = <<"up", d>> PROVE owner'[d] = r /\ d \in up'
      <4>1. c[1] = "up" /\ c[2] = d /\ c[1] \notin Adds
        BY <1>8, <3>1 DEF Adds
      <4> QED
        BY <1>1, <1>3, <1>5, <2>1, <4>1 DEF Effect, c
    <3>2. d \in up => d \in up'
      BY <1>1 DEF Effect
    <3> QED
      BY <1>5, <1>7, <2>1, <3>1, <3>2 DEF WiredTap
  <2> QED
    BY <2>2, <2>3, <2>4 DEF WiredTap
<1> QED
  BY <1>9, <1>10, <1>11

(* A tap is connected to the bridge of the setup that made it.             *)
LEMMA CommandMasters ==
  ASSUME NetInv, NEW r \in Setups, Command(r) PROVE Masters'
<1> DEFINE c == First(r)
<1>1. /\ Types /\ Masters /\ Todo(r) /\ Made \subseteq Devs /\ None \notin Setups
      /\ Taps \intersect Bridges = {} /\ Bridges \subseteq Made
      /\ \A s \in Setups : Br[s] \in Bridges
  BY Names DEF NetInv, Made
<1>2. Effect(r) /\ pc[r] \in {"begin", "taps"}
  BY CommandEffect DEF Command
<1>3. Quiet /\ Proper(c, r, pc[r]) /\ (c[1] \notin Adds /\ c[2] \in Made => owner[c[2]] = r)
  BY <1>2, FirstFacts
<1>4. \A d \in Made : owner[d] # None => owner'[d] = owner[d]
  BY <1>1, CommandOwner
<1> HIDE DEF c
<1> SUFFICES ASSUME NEW d \in Made, master'[d] # None
             PROVE  /\ owner'[d] \in Setups /\ master'[d] = Br[owner'[d]]
                    /\ owner'[Br[owner'[d]]] = owner'[d]
  BY DEF Masters
<1>5. CASE c[1] = "master" /\ c[2] = d
  <2>1. d \in Taps
    BY <1>3, <1>5 DEF Proper, Made
  <2>2. pc[r] = "taps" /\ owner[d] = r
    BY <1>3, <1>5, <2>1 DEF Proper, Adds
  <2>3. owner[Br[r]] = r
    BY <1>1, <1>3, <2>2 DEF Todo
  <2>4. owner'[d] = r /\ owner'[Br[r]] = r
    BY <1>1, <1>4, <2>2, <2>3
  <2>5. master'[d] = Br[r]
    BY <1>1, <1>2, <1>5 DEF Effect, c, Types
  <2> QED
    BY <2>4, <2>5
<1>6. CASE ~(c[1] = "master" /\ c[2] = d)
  <2>1. master'[d] = master[d]
    BY <1>1, <1>2, <1>6 DEF Effect, c, Types
  <2>2. owner[d] \in Setups /\ master[d] = Br[owner[d]] /\ owner[Br[owner[d]]] = owner[d]
    BY <1>1, <1>3, <2>1 DEF Masters
  <2>3. owner'[d] = owner[d]
    BY <1>1, <1>4, <2>2
  <2>4. owner'[Br[owner[d]]] = owner[d]
    BY <1>1, <1>4, <2>2
  <2> QED
    BY <2>1, <2>2, <2>3, <2>4
<1> QED
  BY <1>5, <1>6

(* What remains to be shown for a step of setup r.                         *)
LEMMA SetupStep ==
  ASSUME NetInv, NEW r \in Setups, pc[r] \notin {"done", "failed"}, Frame(r),
         \A s \in Setups \ {r} : Aside(s), \A t \in Teardowns : pc'[t] = pc[t],
         Types', Masters', Served', Todo(r)', Back(r)', Wiring(r)', Clean(r)'
  PROVE  NetInv'
<1>1. Quiet /\ Quiet'
  BY DEF NetInv, Settled, Quiet
<1>2. ASSUME NEW s \in Setups, s # r PROVE Todo(s)' /\ Back(s)' /\ Wiring(s)'
  BY <1>2, OthersStep DEF NetInv
<1>3. ASSUME NEW s \in Setups, s # r PROVE Clean(s)'
  <2>1. Clean(s)
    BY DEF NetInv, Unwound, Clean
  <2> QED
    BY <1>3, <2>1, OthersClean DEF NetInv
<1>4. Unwound'
  BY <1>3 DEF Unwound, Clean
<1>5. Settled'
  BY <1>1 DEF Settled
<1> QED
  BY <1>2, <1>4, <1>5 DEF NetInv

(* A setup runs a command.                                                 *)
LEMMA CommandInv ==
  ASSUME NetInv, NEW r \in Setups, Command(r) PROVE NetInv'
<1>1. /\ pc[r] \in {"begin", "taps"}
      /\ pc'[r] = IF Len(todo[r]) # 1 THEN pc[r] ELSE IF pc[r] = "begin" THEN "edit" ELSE "done"
      /\ \A s \in Runs \ {r} : pc'[s] = pc[s] /\ todo'[s] = todo[s]
      /\ \A s \in Setups \ {r} : unwind'[s] = unwind[s]
      /\ tap_devs' = tap_devs /\ spared' = spared
  BY CommandScript
<1>2. Types' /\ Masters' /\ Todo(r)' /\ Back(r)' /\ Wiring(r)' /\ Frame(r)
  BY CommandTypes, CommandMasters, CommandTodo, CommandBack, CommandWiring, CommandFrame
<1>3. (\A s \in Setups \ {r} : Aside(s)) /\ (\A t \in Teardowns : pc'[t] = pc[t])
  BY <1>1, Names DEF Aside
<1>4. Clean(r)'
  BY <1>1 DEF Clean
<1>5. Served'
  <2> SUFFICES ASSUME NEW b \in Bridges, dhcp'[b] # None PROVE pc'[dhcp'[b]] = "done"
    BY DEF Served
  <2>1. CASE dhcp'[b] = dhcp[b]
    <3>1. pc[dhcp[b]] = "done" /\ dhcp[b] \in Setups
      BY <2>1 DEF NetInv, Served, Types
    <3> QED
      BY <1>1, <2>1, <3>1, Names
  <2>2. CASE dhcp'[b] # dhcp[b]
    <3>1. First(r)[1] = "dnsmasq" /\ dhcp'[b] = r
      <4>1. dhcp'[b] = r
        BY <1>2, <2>2 DEF Frame
      <4>2. Effect(r)
        BY CommandEffect
      <4> QED
        BY <2>2, <4>1, <4>2 DEF Effect
    <3>2. Len(todo[r]) = 1 /\ pc[r] = "taps"
      BY <1>1, <3>1, FirstFacts
    <3> QED
      BY <1>1, <3>1, <3>2
  <2> QED
    BY <2>1, <2>2
<1> QED
  BY <1>1, <1>2, <1>3, <1>4, <1>5, SetupStep

-----------------------------------------------------------------------------
(* The manifest.                                                           *)

(* A manifest lists taps of the configuration.                             *)
LEMMA ManifestTaps ==
  ASSUME NEW r, NEW devs \in _tap_manifest_gen(r) PROVE devs \in Seq(Taps)
<1>1. CASE Conf = None
  <2>1. devs = <<>>
    BY <1>1 DEF _tap_manifest_gen
  <2> QED
    BY ONLY <2>1
<1>2. CASE Conf # None
  <2> DEFINE I == {i \in DOMAIN Conf : Exists(Conf[i]) <=> r \in Teardowns}
  <2>1. Conf \in Seq(Taps)
    BY <1>2, NetAssumption DEF Taps
  <2>2. \A i \in I : Conf[i] \in Taps
    BY <2>1
  <2>3. devs \in ConfAt(I)
    BY <1>2 DEF _tap_manifest_gen
  <2> HIDE DEF I
  <2>4. PICK f \in Ascending(I) : devs = [n \in DOMAIN f |-> Conf[f[n]]]
    BY <2>3 DEF ConfAt
  <2>5. PICK n \in 0..Len(Conf) : f \in [1..n -> I]
    BY DEF Ascending
  <2>6. n \in Nat /\ devs \in [1..n -> Taps]
    BY <2>1, <2>2, <2>4, <2>5
  <2> QED
    BY <2>6
<1> QED
  BY <1>1, <1>2

-----------------------------------------------------------------------------
(* The lists of commands.                                                  *)

(* What is in a concatenation.                                             *)
LEMMA ConcatAt ==
  ASSUME NEW S, NEW a \in Seq(S), NEW b \in Seq(S)
  PROVE  /\ Len(a) \in Nat /\ Len(b) \in Nat /\ a \o b \in Seq(S)
         /\ DOMAIN a = 1..Len(a) /\ DOMAIN b = 1..Len(b)
         /\ Len(a \o b) = Len(a) + Len(b) /\ DOMAIN (a \o b) = 1..(Len(a) + Len(b))
         /\ \A i \in 1..Len(a) : (a \o b)[i] = a[i]
         /\ \A i \in 1..Len(b) : (a \o b)[Len(a) + i] = b[i]
OBVIOUS

(* Lists of commands, and what the loops put in them.                      *)
Cmds(O, D) == Seq(O \X D)
Loop(s, op, devs) ==
  Len(s) = Len(devs) /\ \A k \in 1..Len(devs) : s[k] = <<op, devs[k]>>
LoopTwo(s, op1, op2, devs) ==
  /\ Len(s) = 2 * Len(devs)
  /\ \A k \in 1..Len(devs) : s[2 * k - 1] = <<op1, devs[k]>> /\ s[2 * k] = <<op2, devs[k]>>

(* A loop with one command for each device ...                             *)
LEMMA EachFacts ==
  ASSUME NEW O, NEW op \in O, NEW D, NEW devs \in Seq(D)
  PROVE  Each(op, devs) \in Cmds(O, D) /\ Loop(Each(op, devs), op, devs)
<1>1. Len(devs) \in Nat /\ DOMAIN devs = 1..Len(devs) /\ \A k \in 1..Len(devs) : devs[k] \in D
  OBVIOUS
<1>2. Each(op, devs) = [k \in 1..Len(devs) |-> <<op, devs[k]>>]
  BY <1>1 DEF Each
<1>3. Each(op, devs) \in [1..Len(devs) -> O \X D]
  BY <1>1, <1>2
<1> QED
  BY <1>1, <1>2, <1>3 DEF Cmds, Loop

(* ... and one with two.                                                   *)
LEMMA EachTwoFacts ==
  ASSUME NEW O, NEW op1 \in O, NEW op2 \in O, NEW D, NEW devs \in Seq(D)
  PROVE  /\ EachTwo(op1, op2, devs) \in Cmds(O, D)
         /\ LoopTwo(EachTwo(op1, op2, devs), op1, op2, devs)
<1> DEFINE m == Len(devs)  s == EachTwo(op1, op2, devs)
<1>1. m \in Nat /\ \A k \in 1..m : devs[k] \in D
  OBVIOUS
<1>2. s = [i \in 1..2 * m |-> <<IF i % 2 = 1 THEN op1 ELSE op2, devs[(i + 1) \div 2]>>]
  BY DEF EachTwo
<1> HIDE DEF m, s
<1>3. \A i \in 1..2 * m : (i + 1) \div 2 \in 1..m
  BY <1>1
<1>4. s \in [1..2 * m -> O \X D]
  BY <1>1, <1>2, <1>3
<1>5. s \in Seq(O \X D) /\ Len(s) = 2 * m
  <2>1. 2 * m \in Nat
    BY <1>1
  <2> QED
    BY <1>4, <2>1
<1>6. ASSUME NEW k \in 1..m PROVE s[2 * k - 1] = <<op1, devs[k]>> /\ s[2 * k] = <<op2, devs[k]>>
  <2>1. /\ 2 * k - 1 \in 1..2 * m /\ 2 * k \in 1..2 * m
        /\ (2 * k - 1) % 2 = 1 /\ (2 * k) % 2 # 1
        /\ ((2 * k - 1) + 1) \div 2 = k /\ (2 * k + 1) \div 2 = k
    BY <1>1
  <2> QED
    BY <1>2, <2>1
<1> QED
  BY <1>5, <1>6 DEF m, s, Cmds, LoopTwo

(* The taps of a manifest, in the order of the loop.                       *)
LEMMA OddEven ==
  ASSUME NEW m \in Nat, NEW i \in 1..2 * m
  PROVE  \E k \in 1..m : i = 2 * k - 1 \/ i = 2 * k
<1> DEFINE k == (i + 1) \div 2
<1>1. k \in 1..m /\ (i = 2 * k - 1 \/ i = 2 * k)
  OBVIOUS
<1> QED
  BY <1>1

(* Concatenation is associative.                                           *)
LEMMA Associative ==
  ASSUME NEW S, NEW a \in Seq(S), NEW b \in Seq(S), NEW c \in Seq(S)
  PROVE  (a \o b) \o c = a \o (b \o c)
OBVIOUS

(* A sequence over a set is one over a larger set.                         *)
LEMMA SeqWider ==
  ASSUME NEW S, NEW T, S \subseteq T, NEW s \in Seq(S) PROVE s \in Seq(T)
OBVIOUS

(* A list of one command.                                                  *)
LEMMA Single ==
  ASSUME NEW S, NEW x \in S PROVE <<x>> \in Seq(S) /\ Len(<<x>>) = 1 /\ <<x>>[1] = x
OBVIOUS

Extra == IF DHCP THEN 1 ELSE 0

(* What br_tap_setup.sh runs for the manifest, by place.                   *)
LEMMA TapFacts ==
  ASSUME NEW r \in Setups, NEW devs \in Seq(Taps)
  PROVE  LET s == TapCmds(r, devs)  m == Len(devs)
         IN  /\ s \in Seq(SetupOps \X Devs) /\ m \in Nat
             /\ Len(s) = 3 * m + 1 + Extra /\ DOMAIN s = 1..(3 * m + 1 + Extra)
             /\ \A k \in 1..m : /\ s[2 * k - 1] = <<"add tap", devs[k]>>
                                /\ s[2 * k] = <<"master", devs[k]>>
                                /\ s[2 * m + 1 + k] = <<"up", devs[k]>>
             /\ s[2 * m + 1] = <<"up", Br[r]>>
             /\ DHCP => s[3 * m + 2] = <<"dnsmasq", Br[r]>>
<1> DEFINE S == SetupOps \X Devs  m == Len(devs)
           D == <<Br[r]>> \o devs
           A == EachTwo("add tap", "master", devs)
           B == Each("up", D)
           C == If(DHCP, <<<<"dnsmasq", Br[r]>>>>)
<1>1. m \in Nat /\ Taps \subseteq Devs /\ Br[r] \in Devs /\ DHCP \in BOOLEAN
  BY Names, NetAssumption DEF Made
<1>2. devs \in Seq(Devs) /\ {"add tap", "master", "up"} \subseteq SetupOps
  BY <1>1, SeqWider DEF SetupOps, Adds
<1>3. /\ A \in Seq(S) /\ Len(A) = 2 * m
      /\ \A k \in 1..m : A[2 * k - 1] = <<"add tap", devs[k]>> /\ A[2 * k] = <<"master", devs[k]>>
  <2>1. "add tap" \in SetupOps /\ "master" \in SetupOps
    BY <1>2
  <2>2. A \in Cmds(SetupOps, Devs) /\ LoopTwo(A, "add tap", "master", devs)
    BY ONLY Zenon, <1>2, <2>1, EachTwoFacts
  <2> QED
    BY ONLY Zenon, <2>2 DEF Cmds, LoopTwo
<1>4. D \in Seq(Devs) /\ Len(D) = m + 1 /\ D[1] = Br[r] /\ \A k \in 1..m : D[k + 1] = devs[k]
  <2>1. devs \in Seq(Devs) /\ Br[r] \in Devs
    BY <1>1, <1>2
  <2> DEFINE b == Br[r]
  <2> HIDE DEF b
  <2>2. /\ <<b>> \o devs \in Seq(Devs) /\ Len(<<b>> \o devs) = Len(devs) + 1
        /\ (<<b>> \o devs)[1] = b /\ \A k \in 1..Len(devs) : (<<b>> \o devs)[k + 1] = devs[k]
    BY <2>1, ConsFacts DEF b
  <2> QED
    BY ONLY <2>2 DEF b
<1> HIDE DEF D
<1>5. B \in Seq(S) /\ Len(B) = m + 1 /\ \A k \in 1..(m + 1) : B[k] = <<"up", D[k]>>
  <2>1. D \in Seq(Devs) /\ Len(D) = m + 1 /\ "up" \in SetupOps
    BY <1>2, <1>4
  <2>2. B \in Cmds(SetupOps, Devs) /\ Loop(B, "up", D)
    BY ONLY <2>1, EachFacts
  <2> QED
    BY ONLY <2>1, <2>2 DEF Cmds, Loop
<1>6. C \in Seq(S) /\ Len(C) = Extra /\ (DHCP => C[1] = <<"dnsmasq", Br[r]>>)
  <2>1. CASE DHCP
    <3>1. C = <<<<"dnsmasq", Br[r]>>>>
      BY <2>1 DEF If
    <3>2. <<"dnsmasq", Br[r]>> \in S
      BY <1>1 DEF SetupOps
    <3> QED
      BY <2>1, <3>1, <3>2, Single DEF Extra
  <2>2. CASE ~DHCP
    BY <2>2 DEF If, Extra
  <2> QED
    BY <2>1, <2>2
<1>8. TapCmds(r, devs) = (A \o B) \o C
  BY DEF TapCmds, D
<1> HIDE DEF S, A, B, C, m
<1> DEFINE E == A \o B
<1>9. /\ E \in Seq(S) /\ Len(E) = Len(A) + Len(B)
      /\ \A i \in 1..Len(A) : E[i] = A[i]
      /\ \A i \in 1..Len(B) : E[Len(A) + i] = B[i]
  <2>1. A \in Seq(S) /\ B \in Seq(S)
    BY <1>3, <1>5
  <2> QED
    BY ONLY <2>1, ConcatAt
<1> HIDE DEF E
<1> DEFINE F == E \o C
<1>10. /\ F \in Seq(S) /\ Len(F) = Len(E) + Len(C) /\ DOMAIN F = 1..(Len(E) + Len(C))
       /\ \A i \in 1..Len(E) : F[i] = E[i]
       /\ \A i \in 1..Len(C) : F[Len(E) + i] = C[i]
  <2>1. E \in Seq(S) /\ C \in Seq(S)
    BY <1>6, <1>9
  <2> QED
    BY ONLY <2>1, ConcatAt
<1>11. TapCmds(r, devs) = F
  BY <1>8 DEF E
<1> HIDE DEF F
<1>12. Extra \in Nat /\ (DHCP => Extra = 1)
  BY DEF Extra
<1>13. Len(A) = 2 * m /\ Len(E) = 3 * m + 1 /\ Len(C) = Extra
  <2>1. Len(A) = 2 * m /\ Len(B) = m + 1 /\ Len(E) = Len(A) + Len(B) /\ Len(C) = Extra
    BY <1>3, <1>5, <1>6, <1>9
  <2> QED
    BY ONLY <1>1, <2>1
<1>14. \A i \in 1..2 * m : F[i] = A[i]
  BY <1>1, <1>9, <1>10, <1>13
<1>15. \A k \in 1..(m + 1) : F[2 * m + k] = <<"up", D[k]>>
  <2> TAKE k \in 1..(m + 1)
  <2>1. k \in 1..Len(B) /\ 2 * m + k \in 1..Len(E)
    BY <1>1, <1>5, <1>13
  <2>2. F[2 * m + k] = E[2 * m + k]
    BY <1>10, <2>1
  <2>3. E[2 * m + k] = B[k]
    BY <1>9, <1>13, <2>1
  <2> QED
    BY <1>5, <2>2, <2>3
<1>16. ASSUME NEW k \in 1..m
       PROVE  /\ F[2 * k - 1] = <<"add tap", devs[k]>> /\ F[2 * k] = <<"master", devs[k]>>
              /\ F[2 * m + 1 + k] = <<"up", devs[k]>>
  <2>1. 2 * k - 1 \in 1..2 * m /\ 2 * k \in 1..2 * m
    BY <1>1
  <2>2. k + 1 \in 1..(m + 1) /\ 2 * m + (k + 1) = 2 * m + 1 + k
    BY <1>1
  <2>3. F[2 * m + (k + 1)] = <<"up", D[k + 1]>>
    BY <1>15, <2>2
  <2>4. D[k + 1] = devs[k]
    BY <1>4
  <2> QED
    BY <1>3, <1>14, <2>1, <2>2, <2>3, <2>4
<1>17. F[2 * m + 1] = <<"up", Br[r]>>
  <2>1. 1 \in 1..(m + 1)
    BY <1>1
  <2> QED
    BY <1>4, <1>15, <2>1
<1>18. DHCP => F[3 * m + 2] = <<"dnsmasq", Br[r]>>
  <2> SUFFICES ASSUME DHCP PROVE F[3 * m + 2] = <<"dnsmasq", Br[r]>>
    OBVIOUS
  <2>1. 1 \in 1..Len(C) /\ Len(E) + 1 = 3 * m + 2
    BY <1>1, <1>12, <1>13
  <2> QED
    BY <1>6, <1>10, <2>1
<1>19. Len(F) = 3 * m + 1 + Extra /\ DOMAIN F = 1..(3 * m + 1 + Extra)
  BY <1>10, <1>13
<1> QED
  BY <1>1, <1>10, <1>11, <1>16, <1>17, <1>18, <1>19 DEF m, S

(* What br_tap_teardown.sh runs.                                           *)
LEMMA TeardownFacts ==
  ASSUME NEW t \in Teardowns, NEW devs \in Seq(Taps)
  PROVE  TeardownCmds(t, devs) \in Seq(TeardownOps \X Made) /\ TeardownCmds(t, devs) # <<>>
<1> DEFINE S == TeardownOps \X Made
           A == Each("down", devs)
           B == EachTwo("nomaster", "delete tap", devs)
           C == <<<<"delete bridge", Br[t]>>>>
<1>1. Taps \subseteq Made /\ Br[t] \in Made
  BY Names DEF Made
<1>2. devs \in Seq(Made)
  BY <1>1, SeqWider
<1>3. "down" \in TeardownOps /\ "nomaster" \in TeardownOps /\ "delete tap" \in TeardownOps
  BY DEF TeardownOps, Dels
<1>4. A \in Seq(S) /\ B \in Seq(S)
  <2>1. A \in Cmds(TeardownOps, Made)
    BY ONLY <1>2, <1>3, EachFacts
  <2>2. B \in Cmds(TeardownOps, Made)
    BY ONLY Zenon, <1>2, <1>3, EachTwoFacts
  <2> QED
    BY ONLY <2>1, <2>2 DEF Cmds
<1>5. C \in Seq(S) /\ Len(C) = 1
  <2>1. <<"delete bridge", Br[t]>> \in S
    BY <1>1 DEF TeardownOps, Dels
  <2> QED
    BY ONLY <2>1, Single
<1>6. TeardownCmds(t, devs) = (A \o B) \o C
  BY DEF TeardownCmds
<1> HIDE DEF S, A, B, C
<1>7. A \o B \in Seq(S)
  BY <1>4, ConcatAt
<1>8. (A \o B) \o C \in Seq(S) /\ Len((A \o B) \o C) = Len(A \o B) + Len(C)
      /\ Len(A \o B) \in Nat
  BY <1>5, <1>7, ConcatAt
<1>9. (A \o B) \o C # <<>>
  BY <1>5, <1>8
<1> QED
  BY <1>6, <1>8, <1>9 DEF S

(* What br_tap_setup.sh runs first.                                        *)
LEMMA BridgeFacts ==
  ASSUME NEW r \in Setups
  PROVE  LET s == BridgeCmds(r)
         IN  /\ s \in Seq(SetupOps \X Devs) /\ 1 \in DOMAIN s /\ s[1] = <<"add bridge", Br[r]>>
             /\ \A i \in DOMAIN s : i # 1 =>
                  /\ i \in Nat /\ 1 \in 1..(i - 1)
                  /\ s[i] = <<"add addr", Br[r]>> \/ (s[i] = <<"master", BR_IF>> /\ BR_IF # None)
<1> DEFINE a == <<"add bridge", Br[r]>>  b == <<"add addr", Br[r]>>  c == <<"master", BR_IF>>
           S == SetupOps \X Devs
           T == {x \in {b, c} : x = b \/ BR_IF # None}
           X == If(BR_ADDR, <<b>>)  Y == If(BR_IF # None, <<c>>)
<1>1. a \in S /\ T \subseteq S
  <2>1. Br[r] \in Devs /\ (BR_IF # None => BR_IF \in Devs)
    BY Names DEF Devs, Made
  <2>2. a \in S /\ b \in S /\ (BR_IF # None => c \in S)
    BY <2>1 DEF SetupOps, Adds
  <2> HIDE DEF a, b, c, S
  <2> QED
    BY <2>2
<1>2. BridgeCmds(r) = (<<a>> \o X) \o Y
  BY DEF BridgeCmds
<1> HIDE DEF a, b, c, S
<1>3. X \in Seq(T)
  <2>1. <<b>> \in Seq(T) /\ <<>> \in Seq(T)
    BY Single
  <2> QED
    BY <2>1 DEF If
<1>4. Y \in Seq(T)
  <2>1. CASE BR_IF # None
    <3>1. <<c>> \in Seq(T)
      BY <2>1, Single
    <3> QED
      BY <2>1, <3>1 DEF If
  <2>2. CASE BR_IF = None
    BY <2>2 DEF If
  <2> QED
    BY <2>1, <2>2
<1> HIDE DEF X, Y, T
<1> DEFINE Z == X \o Y  s == <<a>> \o Z
<1>5. Z \in Seq(T)
  BY <1>3, <1>4, ConcatAt
<1>6. Z \in Seq(S) /\ X \in Seq(S) /\ Y \in Seq(S) /\ <<a>> \in Seq(S)
  <2>1. X \in Seq(S)
    BY ONLY <1>1, <1>3, SeqWider
  <2>2. Y \in Seq(S)
    BY ONLY <1>1, <1>4, SeqWider
  <2>3. Z \in Seq(S)
    BY ONLY <1>1, <1>5, SeqWider
  <2> QED
    BY <1>1, <2>1, <2>2, <2>3, Single
<1>7. BridgeCmds(r) = s
  BY <1>2, <1>6, Associative
<1> HIDE DEF Z
<1>8. s \in Seq(S) /\ DOMAIN s = 1..(Len(Z) + 1) /\ s[1] = a /\ Len(Z) \in Nat
  BY ONLY <1>1, <1>6, ConsFacts
<1>9. ASSUME NEW i \in DOMAIN s, i # 1
      PROVE  /\ i \in Nat /\ 1 \in 1..(i - 1)
             /\ s[i] = b \/ (s[i] = c /\ BR_IF # None)
  <2>1. i - 1 \in DOMAIN Z /\ s[i] = Z[i - 1]
    BY <1>1, <1>6, <1>9, ConsAt
  <2>2. Z[i - 1] \in T
    BY <1>5, <2>1
  <2>3. i \in Nat /\ 1 \in 1..(i - 1)
    BY <1>8, <1>9
  <2> QED
    BY <2>1, <2>2, <2>3 DEF T
<1>10. 1 \in DOMAIN s
  BY <1>8
<1> HIDE DEF s
<1> QED
  BY <1>7, <1>8, <1>9, <1>10 DEF a, b, c, S



-----------------------------------------------------------------------------
(* Steps of a setup that leave the devices alone, and unwinding.           *)

(* A step that runs no command.                                            *)
LEMMA NetKept ==
  ASSUME NetInv, NEW r \in Setups, pc[r] \notin {"done", "failed"}, UNCHANGED net,
         \A s \in Runs \ {r} : pc'[s] = pc[s]
  PROVE  Frame(r) /\ Masters' /\ Served'
<1>1. owner' = owner /\ master' = master /\ up' = up /\ dhcp' = dhcp
  BY DEF net
<1>2. Frame(r)
  BY <1>1 DEF Frame
<1>3. Quiet
  BY DEF NetInv, Settled
<1>4. Masters'
  BY <1>1, <1>3 DEF NetInv, Masters
<1>5. Served'
  <2> SUFFICES ASSUME NEW b \in Bridges, dhcp[b] # None PROVE pc'[dhcp[b]] = "done"
    BY <1>1 DEF Served
  <2>1. pc[dhcp[b]] = "done" /\ dhcp[b] \in Setups
    BY DEF NetInv, Served, Types
  <2> QED
    BY <2>1, Names
<1> QED
  BY <1>2, <1>4, <1>5

(* A command of a setup fails.                                             *)
LEMMA FailInv ==
  ASSUME NetInv, NEW r \in Setups, CommandFails(r) PROVE NetInv'
<1>1. /\ Types /\ Back(r) /\ r \in Runs /\ pc[r] \in {"begin", "taps"}
      /\ pc' = [pc EXCEPT ![r] = "unwind"] /\ UNCHANGED net
      /\ owner' = owner /\ master' = master /\ up' = up /\ dhcp' = dhcp
      /\ todo' = todo /\ unwind' = unwind /\ tap_devs' = tap_devs /\ spared' = spared
  BY Names DEF NetInv, CommandFails, net
<1>2. pc'[r] = "unwind" /\ \A s \in Runs \ {r} : pc'[s] = pc[s]
  BY <1>1 DEF Types
<1>3. /\ \A t \in Teardowns : pc'[t] = pc[t]
      /\ \A s \in Setups \ {r} : Aside(s)
  BY <1>1, <1>2, Names DEF Aside
<1>4. Types'
  <2>1. pc' \in [Runs -> {"idle", "begin", "edit", "taps", "unwind", "done", "failed"}]
    BY <1>1 DEF Types
  <2> QED
    BY <1>1, <1>3, <2>1 DEF Types
<1>5. Frame(r) /\ Masters' /\ Served'
  BY <1>1, <1>2, NetKept
<1>6. Todo(r)' /\ Wiring(r)' /\ Clean(r)'
  BY <1>2 DEF Todo, Wiring, Clean
<1>7. Back(r)'
  <2>1. BackOwned(r)' /\ BackLater(r)' /\ BackOnce(r)'
    BY <1>1 DEF Back, BackOwned, BackLater, BackOnce, DelOf
  <2>2. BackAll(r)'
    BY <1>1 DEF Back, BackAll, DelOf
  <2> QED
    BY <1>2, <2>1, <2>2 DEF Back
<1> QED
  BY <1>1, <1>3, <1>4, <1>5, <1>6, <1>7, SetupStep

(* unwind is done.                                                         *)
LEMMA UnwoundInv ==
  ASSUME NetInv, NEW r \in Setups, Unwind(r), unwind[r] = <<>> PROVE NetInv'
<1>1. /\ Types /\ Back(r) /\ r \in Runs /\ pc[r] = "unwind"
      /\ pc' = [pc EXCEPT ![r] = "failed"] /\ UNCHANGED net
      /\ owner' = owner /\ master' = master /\ up' = up /\ dhcp' = dhcp
      /\ todo' = todo /\ unwind' = unwind /\ tap_devs' = tap_devs /\ spared' = spared
  BY Names DEF NetInv, Unwind, net
<1>2. pc'[r] = "failed" /\ \A s \in Runs \ {r} : pc'[s] = pc[s]
  BY <1>1 DEF Types
<1>3. /\ \A t \in Teardowns : pc'[t] = pc[t]
      /\ \A s \in Setups \ {r} : Aside(s)
  BY <1>1, <1>2, Names DEF Aside
<1>4. Types'
  <2>1. pc' \in [Runs -> {"idle", "begin", "edit", "taps", "unwind", "done", "failed"}]
    BY <1>1 DEF Types
  <2> QED
    BY <1>1, <1>3, <2>1 DEF Types
<1>5. Frame(r) /\ Masters' /\ Served'
  BY <1>1, <1>2, NetKept
<1>6. Todo(r)' /\ Wiring(r)'
  BY <1>2 DEF Todo, Wiring
<1>7. Back(r)'
  <2>1. BackOwned(r)' /\ BackLater(r)' /\ BackOnce(r)'
    BY <1>1 DEF Back, BackOwned, BackLater, BackOnce, DelOf
  <2>2. BackAll(r)'
    BY <1>1, <1>2 DEF Back, BackAll, DelOf
  <2> QED
    BY <1>1, <2>1, <2>2 DEF Back
<1>8. \A d \in Made : owner[d] = r => d \in spared[r] /\ d \in Taps
  <2>1. unwind[r] = <<>> /\ BackAll(r)
    BY <1>1 DEF Unwind, Back
  <2>2. DOMAIN unwind[r] = {}
    BY <2>1
  <2> QED
    BY <1>1, <2>1, <2>2 DEF BackAll, Types
<1>9. ASSUME NEW d \in Devs, owner[d] = r PROVE d \in spared[r] /\ master[d] # Br[r]
  <2>1. d \in Made
    BY <1>1, <1>9, Names DEF Types
  <2>2. ASSUME master[d] = Br[r] PROVE FALSE
    <3>1. Br[r] \in Bridges /\ Br[r] # None /\ Br[r] \notin Taps /\ Br[r] \in Made
      BY Names DEF Made
    <3>2. Quiet
      BY <1>1 DEF NetInv, Settled
    <3>3. owner[Br[r]] = r
      BY <1>9, <2>1, <2>2, <3>1, <3>2 DEF NetInv, Masters
    <3> QED
      BY <1>8, <3>1, <3>3
  <2> QED
    BY <1>8, <1>9, <2>1, <2>2
<1>10. ASSUME NEW b \in Bridges PROVE dhcp[b] # r
  BY <1>1, Names DEF NetInv, Served
<1>11. Clean(r)'
  BY <1>1, <1>9, <1>10 DEF Clean
<1> QED
  BY <1>1, <1>3, <1>4, <1>5, <1>6, <1>7, <1>11, SetupStep

(* The first command of unwind: it is about a device of the setup or about *)
(* BR_IF, and of the deletions only that of a held tap can fail.           *)
Last(r) == unwind[r][1]
Reverted(r) ==
  LET c == Last(r)
  IN  \/ /\ c[1] \in Dels
         /\ owner' = [owner EXCEPT ![c[2]] = None]
         /\ master' = [x \in Devs |-> IF x = c[2] \/ master[x] = c[2] THEN None ELSE master[x]]
         /\ up' = up \ {c[2]}
      \/ /\ c[1] \notin Dels /\ owner' = owner
         /\ \A x \in Devs : x # c[2] => master'[x] = master[x] /\ (x \in up => x \in up')
         /\ master' \in [Devs -> Bridges \union {None}]
         /\ master'[c[2]] \in {master[c[2]], None}
      \/ /\ owner' = owner /\ master' = master /\ up' = up
         /\ c[1] \in Dels => c[2] \in spared'[r]

(* It names a device the setup has to delete.                              *)
LEMMA LastFacts ==
  ASSUME NetInv, NEW r \in Setups, pc[r] = "unwind", unwind[r] # <<>>
  PROVE  /\ unwind[r] \in Seq(BackOps \X Devs) /\ Head(unwind[r]) = Last(r)
         /\ Last(r) \in BackOps \X Devs
         /\ Last(r)[2] \in Made => owner[Last(r)[2]] = r
         /\ Last(r)[1] \in Dels => Last(r)[2] \in Made /\ Last(r) = DelOf(Last(r)[2])
         /\ Last(r)[1] = "del addr" => Last(r)[2] \in Made
<1> DEFINE u == unwind[r]
<1>1. u \in Seq(BackOps \X Devs) /\ BackOwned(r) /\ BackLater(r)
  BY DEF NetInv, Types, Back
<1>2. 1 \in DOMAIN u /\ DOMAIN u = 1..Len(u) /\ Len(u) \in Nat /\ Head(u) = u[1]
      /\ u[1] \in BackOps \X Devs
  BY <1>1, TailFacts
<1>3. /\ u[1][1] \in Dels => u[1] = DelOf(u[1][2])
      /\ u[1][1] \in Dels \union {"del addr"} => u[1][2] \in Made
  BY <1>1, <1>2 DEF BackOwned
<1>4. ASSUME u[1][2] \in Made PROVE owner[u[1][2]] = r
  <2>1. PICK j \in 1..Len(u) : u[j] = DelOf(u[1][2])
    BY <1>1, <1>2, <1>4 DEF BackLater
  <2>4. DelOf(u[1][2])[1] \in Dels /\ DelOf(u[1][2])[2] = u[1][2]
    BY AddDelFacts
  <2>2. u[j][1] \in Dels /\ u[j][2] = u[1][2]
    BY ONLY <2>1, <2>4
  <2>3. j \in DOMAIN u
    BY <1>2
  <2> QED
    BY <1>1, <2>2, <2>3 DEF BackOwned
<1> QED
  BY <1>1, <1>2, <1>3, <1>4 DEF Last

(* It is run, or it fails.                                                 *)
LEMMA UnwindEffect ==
  ASSUME NetInv, NEW r \in Setups, Unwind(r), unwind[r] # <<>>
  PROVE  /\ Reverted(r) /\ dhcp' = dhcp /\ pc[r] = "unwind" /\ pc' = pc /\ todo' = todo
         /\ tap_devs' = tap_devs /\ unwind' = [unwind EXCEPT ![r] = Tail(@)]
         /\ DOMAIN spared' = Setups /\ spared[r] \subseteq spared'[r]
         /\ (\A s \in Setups : spared'[s] \subseteq Taps)
         /\ \A s \in Setups \ {r} : spared'[s] = spared[s]
<1> DEFINE c == Last(r)
<1>1. pc[r] = "unwind" /\ pc' = pc /\ todo' = todo /\ tap_devs' = tap_devs
      /\ unwind' = [unwind EXCEPT ![r] = Tail(@)]
      /\ spared' = [spared EXCEPT ![r] = @ \union Busy(Head(unwind[r]))]
  BY DEF Unwind
<1>2. Head(unwind[r]) = c /\ c \in BackOps \X Devs /\ (c[2] \in Made => owner[c[2]] = r)
      /\ (c[1] \in Dels \union {"del addr"} => c[2] \in Made)
      /\ (c[1] \in Dels => c = DelOf(c[2]))
  BY <1>1, LastFacts
<1>3. Types /\ r \in Runs /\ r # None /\ (IF Can(c, r) THEN Do(c, r) ELSE UNCHANGED net)
  BY <1>2, Names DEF NetInv, Unwind
<1> HIDE DEF c
<1>4. c[1] \in BackOps /\ c[2] \in Devs
  BY <1>2
<1>8. ASSUME NEW d \in Busy(c) PROVE d \in Taps /\ d \in held /\ c = <<"delete tap", d>>
  <2>1. c = <<"delete tap", d>> /\ d \in held
    BY <1>8 DEF Busy
  <2>2. c[1] = "delete tap" /\ c[2] = d
    BY ONLY <2>1, PairIs
  <2>3. c[1] = DelOf(c[2])[1]
    BY <1>2, <2>2 DEF Dels
  <2> QED
    BY ONLY Zenon, <2>1, <2>2, <2>3, AddDelFacts
<1>9. /\ DOMAIN spared' = Setups /\ spared'[r] = spared[r] \union Busy(c)
      /\ \A s \in Setups \ {r} : spared'[s] = spared[s]
  BY <1>1, <1>2, <1>3 DEF Types
<1>10. /\ spared[r] \subseteq spared'[r]
       /\ \A s \in Setups : spared'[s] \subseteq Taps
  BY <1>3, <1>8, <1>9 DEF Types
<1>5. CASE Can(c, r) /\ c[1] \in Dels
  BY <1>3, <1>4, <1>5, DoDel, <1>1, <1>9, <1>10 DEF Reverted, c
<1>6. CASE Can(c, r) /\ c[1] \notin Dels
  <2>1. c[1] \in {"del addr", "nomaster", "down"}
    BY <1>4, <1>6 DEF BackOps
  <2>2. owner[c[2]] # None
    BY <1>2, <1>3, <1>6, <2>1 DEF Can, Exists
  <2>3. /\ owner' = owner
        /\ master' = [master EXCEPT ![c[2]] = IF c[1] = "master" THEN Br[r]
                                              ELSE IF c[1] = "nomaster" THEN None ELSE @]
        /\ up' = IF c[1] = "up" THEN up \union {c[2]}
                 ELSE IF c[1] = "down" THEN up \ {c[2]} ELSE up
        /\ dhcp' = IF c[1] = "dnsmasq" THEN [dhcp EXCEPT ![c[2]] = r] ELSE dhcp
    BY <1>3, <1>4, <1>6, <2>1, <2>2, DoOther
  <2>4. dhcp' = dhcp /\ \A x \in Devs : x # c[2] => (x \in up => x \in up')
    BY <2>1, <2>3
  <2>5. /\ \A x \in Devs : x # c[2] => master'[x] = master[x]
        /\ master' \in [Devs -> Bridges \union {None}]
        /\ master'[c[2]] \in {master[c[2]], None}
    BY <1>3, <1>4, <2>1, <2>3 DEF Types
  <2> QED
    BY <1>1, <1>6, <1>9, <1>10, <2>3, <2>4, <2>5 DEF Reverted, c
<1>7. CASE ~Can(c, r)
  <2>1. owner' = owner /\ master' = master /\ up' = up /\ dhcp' = dhcp
    BY <1>3, <1>7 DEF net
  <2>2. ASSUME c[1] \in Dels PROVE c[2] \in spared'[r]
    <3>1. owner[c[2]] # None
      BY <1>2, <1>3, <2>2
    <3>2. c[1] # "delete bridge"
      BY <1>7, <3>1 DEF Can, Exists
    <3>3. c[1] = "delete tap" /\ c[2] \in held
      BY <1>7, <2>2, <3>1, <3>2 DEF Can, Exists, Dels
    <3>4. c = <<"delete tap", c[2]>>
      <4>1. c = DelOf(c[2]) /\ DelOf(c[2])[1] = "delete tap"
        BY <1>2, <2>2, <3>3
      <4>2. c[2] \in Taps
        BY ONLY Zenon, <4>1, AddDelFacts
      <4> QED
        BY ONLY Zenon, <4>1, <4>2 DEF DelOf
    <3>5. c[2] \in Busy(c)
      BY <3>3, <3>4 DEF Busy
    <3> QED
      BY <1>9, <3>5
  <2> QED
    BY <1>1, <1>9, <1>10, <2>1, <2>2 DEF Reverted, c
<1> QED
  BY <1>5, <1>6, <1>7

(* A command of unwind touches nothing of another setup.                   *)
LEMMA UnwindFrame ==
  ASSUME NetInv, NEW r \in Setups, Unwind(r) PROVE Frame(r)
<1>1. CASE unwind[r] = <<>>
  BY <1>1 DEF Unwind, net, Frame
<1>2. CASE unwind[r] # <<>>
  <2> DEFINE c == Last(r)
  <2>1. Reverted(r) /\ dhcp' = dhcp /\ pc[r] = "unwind" /\ Types /\ r # None
    BY <1>2, UnwindEffect, Names DEF NetInv
  <2>2. c[2] \in Devs /\ (c[2] \in Made => owner[c[2]] = r) /\ (c[1] \in Dels => c[2] \in Made)
    BY <1>2, <2>1, LastFacts
  <2>3. Quiet /\ Masters /\ Made \subseteq Devs /\ None \notin Made
    BY <2>1, Names DEF NetInv, Settled, Made
  <2> HIDE DEF c
  <2>4. ASSUME NEW d \in Made, owner[d] \notin {r, None}
        PROVE  owner'[d] = owner[d] /\ master'[d] = master[d] /\ (d \in up => d \in up')
    <3>1. d # c[2] /\ d \in Devs
      BY <2>2, <2>3, <2>4
    <3>2. c[1] \in Dels => master[d] # c[2]
      BY <2>2, <2>3, <2>4 DEF Masters
    <3> QED
      BY <2>1, <3>1, <3>2 DEF Reverted, c, Types
  <2>5. \A d \in Made : owner'[d] # owner[d] => owner'[d] \in {r, None}
    BY <2>1, <2>2, <2>3 DEF Reverted, c, Types
  <2> QED
    BY <2>1, <2>4, <2>5 DEF Frame
<1> QED
  BY <1>1, <1>2

(* Connected devices still have their bridge.                              *)
LEMMA UnwindMasters ==
  ASSUME NetInv, NEW r \in Setups, Unwind(r), unwind[r] # <<>> PROVE Masters'
<1> DEFINE c == Last(r)
<1>1. Reverted(r) /\ pc[r] = "unwind" /\ Types
  BY UnwindEffect DEF NetInv
<1>2. c[2] \in Devs
  BY <1>1, LastFacts
<1>3. Quiet /\ Masters /\ Made \subseteq Devs /\ \A s \in Setups : Br[s] \in Devs
  BY <1>1, Names DEF NetInv, Settled, Made
<1> HIDE DEF c
<1> SUFFICES ASSUME NEW d \in Made, master'[d] # None
             PROVE  /\ owner'[d] \in Setups /\ master'[d] = Br[owner'[d]]
                    /\ owner'[Br[owner'[d]]] = owner'[d]
  BY DEF Masters
<1>4. master'[d] = master[d] /\ (owner' # owner => d # c[2] /\ master[d] # c[2])
  BY <1>1, <1>2, <1>3 DEF Reverted, c
<1>5. owner[d] \in Setups /\ master[d] = Br[owner[d]] /\ owner[Br[owner[d]]] = owner[d]
  BY <1>3, <1>4 DEF Masters
<1>6. owner'[d] = owner[d] /\ owner'[Br[owner[d]]] = owner[Br[owner[d]]]
  BY <1>1, <1>3, <1>4, <1>5 DEF Reverted, c, Types
<1> QED
  BY <1>4, <1>5, <1>6

(* What remains of unwind is still what the setup has to take back.        *)
LEMMA UnwindBack ==
  ASSUME NetInv, NEW r \in Setups, Unwind(r), unwind[r] # <<>> PROVE Back(r)'
<1> DEFINE c == Last(r)  u == unwind[r]  v == Tail(unwind[r])
<1>1. Types /\ Back(r) /\ Made \subseteq Devs /\ r # None /\ Reverted(r)
      /\ pc[r] = "unwind" /\ pc' = pc /\ unwind' = [unwind EXCEPT ![r] = Tail(@)]
      /\ spared[r] \subseteq spared'[r]
  BY UnwindEffect, Names DEF NetInv
<1>2. unwind'[r] = v /\ u \in Seq(BackOps \X Devs) /\ u # <<>>
  BY <1>1 DEF Types
<1>3. /\ c[2] \in Devs /\ (c[1] \in Dels => c[2] \in Made /\ c = DelOf(c[2]))
  BY <1>1, LastFacts
<1>4. /\ Len(u) \in Nat /\ DOMAIN u = 1..Len(u) /\ 1 \in DOMAIN u /\ c = u[1]
      /\ Len(v) = Len(u) - 1 /\ DOMAIN v = 1..(Len(u) - 1)
      /\ \A i \in 1..(Len(u) - 1) : v[i] = u[i + 1]
  BY <1>2, TailFacts DEF Last
<1> HIDE DEF c, u, v
<1>5. \A i \in DOMAIN v : i \in Nat /\ i + 1 \in DOMAIN u /\ i + 1 # 1 /\ v[i] = u[i + 1]
  BY <1>4
<1>6. \A k \in DOMAIN u : k # 1 => k - 1 \in DOMAIN v /\ v[k - 1] = u[k] /\ k \in Nat
  <2> SUFFICES ASSUME NEW k \in DOMAIN u, k # 1
               PROVE  k - 1 \in DOMAIN v /\ v[k - 1] = u[k] /\ k \in Nat
    OBVIOUS
  <2>1. k \in Nat /\ k - 1 \in 1..(Len(u) - 1) /\ (k - 1) + 1 = k
    BY <1>4
  <2> QED
    BY <1>4, <2>1
<1>7. BackOwned(r)'
  <2>1. ASSUME NEW i \in DOMAIN v
        PROVE  /\ v[i][1] \in Dels => v[i] = DelOf(v[i][2]) /\ owner'[v[i][2]] = r
               /\ v[i][1] \in Dels \union {"del addr"} => v[i][2] \in Made
    <3> DEFINE e == u[i + 1]
    <3>1. v[i] = e /\ i + 1 \in DOMAIN u /\ i + 1 # 1
      BY <1>5
    <3>2. /\ e[1] \in Dels => e = DelOf(e[2]) /\ owner[e[2]] = r
          /\ e[1] \in Dels \union {"del addr"} => e[2] \in Made
      BY <1>1, <3>1 DEF Back, BackOwned, u
    <3>3. ASSUME e[1] \in Dels PROVE owner'[e[2]] = r
      <4>1. c[1] \in Dels => e[2] # c[2]
        <5> SUFFICES ASSUME c[1] \in Dels, e[2] = c[2] PROVE FALSE
          OBVIOUS
        <5>1. e = c
          BY <1>3, <3>2, <3>3
        <5> QED
          BY <1>1, <1>4, <3>1, <3>3, <5>1 DEF Back, BackOnce, u
      <4>2. e[2] \in Devs /\ owner[e[2]] = r
        BY <1>1, <3>2, <3>3
      <4> QED
        BY <1>1, <4>1, <4>2 DEF Reverted, c, Types
    <3> QED
      BY <3>1, <3>2, <3>3
  <2> QED
    BY <1>2, <2>1 DEF BackOwned
<1>8. BackLater(r)'
  <2>1. ASSUME NEW i \in DOMAIN v, v[i][2] \in Made
        PROVE  \E j \in i..Len(v) : v[j] = DelOf(v[i][2])
    <3>1. v[i] = u[i + 1] /\ i + 1 \in DOMAIN u
      BY <1>5
    <3>2. PICK k \in (i + 1)..Len(u) : u[k] = DelOf(u[i + 1][2])
      BY <1>1, <2>1, <3>1 DEF Back, BackLater, u
    <3>3. k \in DOMAIN u /\ k # 1 /\ k - 1 \in i..Len(v)
      BY <1>4, <1>5, <3>1
    <3> QED
      BY <1>6, <3>1, <3>2, <3>3
  <2> QED
    BY <1>2, <2>1 DEF BackLater
<1>9. BackOnce(r)'
  <2>1. ASSUME NEW i \in DOMAIN v, NEW j \in DOMAIN v, v[i] = v[j], v[i][1] \in Dels
        PROVE  i = j
    <3>1. /\ v[i] = u[i + 1] /\ i + 1 \in DOMAIN u /\ v[j] = u[j + 1] /\ j + 1 \in DOMAIN u
          /\ i \in Nat /\ j \in Nat
      BY <1>5
    <3>2. i + 1 = j + 1
      BY <1>1, <2>1, <3>1 DEF Back, BackOnce, u
    <3> QED
      BY ONLY <3>1, <3>2
  <2> QED
    BY <1>2, <2>1 DEF BackOnce
<1>10. BackAll(r)'
  <2>1. ASSUME NEW d \in Made, owner'[d] = r, d \notin spared'[r]
        PROVE  \E i \in DOMAIN v : v[i] = DelOf(d)
    <3>1. d \in Devs /\ owner[d] = r
      BY <1>1, <1>3, <2>1 DEF Reverted, c, Types
    <3>2. PICK k \in DOMAIN u : u[k] = DelOf(d)
      BY <1>1, <2>1, <3>1 DEF Back, BackAll, u
    <3>3. ASSUME k = 1 PROVE FALSE
      <4>1. c = DelOf(d)
        BY <1>4, <3>2, <3>3
      <4>2. c[1] \in Dels /\ c[2] = d
        BY ONLY <4>1, AddDelFacts
      <4> QED
        BY <1>1, <2>1, <3>1, <4>2 DEF Reverted, c, Types
    <3> QED
      BY <1>6, <3>2, <3>3
  <2> QED
    BY <1>1, <1>2, <2>1 DEF BackAll
<1> QED
  BY <1>1, <1>7, <1>8, <1>9, <1>10 DEF Back

(* The types are kept.                                                     *)
LEMMA UnwindTypes ==
  ASSUME NetInv, NEW r \in Setups, Unwind(r), unwind[r] # <<>> PROVE Types'
<1> DEFINE c == Last(r)
<1>1. Types /\ Reverted(r) /\ dhcp' = dhcp /\ pc[r] = "unwind" /\ pc' = pc /\ todo' = todo
      /\ tap_devs' = tap_devs /\ unwind' = [unwind EXCEPT ![r] = Tail(@)]
      /\ DOMAIN spared' = Setups /\ \A s \in Setups : spared'[s] \subseteq Taps
  BY UnwindEffect DEF NetInv
<1>2. c[2] \in Devs /\ (c[1] \in Dels => c[2] \in Made) /\ BR_IF \notin Made
  BY <1>1, LastFacts, Names
<1> HIDE DEF c
<1>3. owner' \in [Devs -> Runs \union {"host", None}] /\ (BR_IF # None => owner'[BR_IF] = "host")
  <2>1. owner' = owner \/ (c[2] \in Made /\ owner' = [owner EXCEPT ![c[2]] = None])
    BY <1>1, <1>2 DEF Reverted, c
  <2>2. owner \in [Devs -> Runs \union {"host", None}] /\ (BR_IF # None => owner[BR_IF] = "host")
        /\ (BR_IF # None => BR_IF \in Devs)
    BY <1>1 DEF Types, Devs
  <2> QED
    BY <1>2, <2>1, <2>2
<1>4. master' \in [Devs -> Bridges \union {None}]
  BY <1>1, <1>2 DEF Types, Reverted, c
<1>5. Tail(unwind[r]) \in Seq(BackOps \X Devs)
  <2>1. unwind[r] \in Seq(BackOps \X Devs)
    BY <1>1 DEF Types
  <2> QED
    BY <2>1, TailFacts
<1>6. DOMAIN unwind' = Setups /\ \A s \in Setups : unwind'[s] \in Seq(BackOps \X Devs)
  BY <1>1, <1>5 DEF Types
<1> QED
  BY <1>1, <1>3, <1>4, <1>6 DEF Types

(* A command of unwind, or the end of it.                                  *)
LEMMA UnwindInv ==
  ASSUME NetInv, NEW r \in Setups, Unwind(r) PROVE NetInv'
<1>1. CASE unwind[r] = <<>>
  BY <1>1, UnwoundInv
<1>2. CASE unwind[r] # <<>>
  <2>1. Types /\ dhcp' = dhcp /\ pc[r] = "unwind" /\ pc' = pc /\ todo' = todo
        /\ tap_devs' = tap_devs /\ unwind' = [unwind EXCEPT ![r] = Tail(@)]
        /\ \A s \in Setups \ {r} : spared'[s] = spared[s]
    BY <1>2, UnwindEffect DEF NetInv
  <2>2. Frame(r) /\ Types' /\ Masters' /\ Back(r)'
    BY <1>2, UnwindFrame, UnwindTypes, UnwindMasters, UnwindBack
  <2>3. Todo(r)' /\ Wiring(r)' /\ Clean(r)' /\ Served'
    BY <2>1 DEF NetInv, Todo, Wiring, Clean, Served
  <2>4. \A s \in Setups \ {r} : Aside(s)
    BY <2>1 DEF Aside, Types
  <2> QED
    BY <2>1, <2>2, <2>3, <2>4, SetupStep
<1> QED
  BY <1>1, <1>2

-----------------------------------------------------------------------------
(* A setup starts, and goes on when the manifest has been edited.          *)
LEMMA BeginInv ==
  ASSUME NetInv, NEW r \in Setups, SetupBegin(r) PROVE NetInv'
<1> DEFINE s == BridgeCmds(r)
<1>10. PICK devs \in _tap_manifest_gen(r) : tap_devs' = [tap_devs EXCEPT ![r] = devs]
  BY DEF SetupBegin
<1>1. /\ Types /\ Back(r) /\ r \in Runs /\ pc[r] = "idle" /\ Br[r] \in Bridges /\ Br[r] \notin Taps
      /\ Bridges \subseteq Made /\ BR_IF \notin Made /\ Taps \subseteq Made
      /\ pc' = [pc EXCEPT ![r] = "begin"] /\ UNCHANGED net
      /\ tap_devs' = [tap_devs EXCEPT ![r] = devs]
      /\ todo' = [todo EXCEPT ![r] = s]
      /\ owner' = owner /\ master' = master /\ up' = up /\ dhcp' = dhcp /\ unwind' = unwind
      /\ spared' = spared
  BY <1>10, Names DEF NetInv, SetupBegin, net, Made
<1>2. /\ pc'[r] = "begin" /\ todo'[r] = s
      /\ \A q \in Runs \ {r} : pc'[q] = pc[q] /\ todo'[q] = todo[q] /\ tap_devs'[q] = tap_devs[q]
  BY <1>1 DEF Types
<1>3. /\ \A t \in Teardowns : pc'[t] = pc[t] /\ todo'[t] = todo[t]
      /\ \A q \in Setups \ {r} : Aside(q)
  BY <1>1, <1>2, Names DEF Aside
<1>4. /\ s \in Seq(SetupOps \X Devs) /\ 1 \in DOMAIN s /\ s[1] = <<"add bridge", Br[r]>>
      /\ \A i \in DOMAIN s : i # 1 =>
           /\ i \in Nat /\ 1 \in 1..(i - 1)
           /\ s[i] = <<"add addr", Br[r]>> \/ (s[i] = <<"master", BR_IF>> /\ BR_IF # None)
  BY BridgeFacts
<1> HIDE DEF s
<1>5. Types'
  <2>1. pc' \in [Runs -> {"idle", "begin", "edit", "taps", "unwind", "done", "failed"}]
    BY <1>1 DEF Types
  <2>2. DOMAIN todo' = Runs /\ DOMAIN tap_devs' = Runs
    BY <1>1 DEF Types
  <2>3. tap_devs'[r] \in Seq(Taps)
    BY <1>1, ManifestTaps DEF Types
  <2>4. \A q \in Setups : todo'[q] \in Seq(SetupOps \X Devs)
                          /\ unwind'[q] \in Seq(BackOps \X Devs)
                          /\ tap_devs'[q] \in Seq(Taps)
    BY <1>1, <1>2, <1>4, <2>3, Names DEF Types
  <2> QED
    BY <1>1, <1>3, <2>1, <2>2, <2>4 DEF Types
<1>6. Frame(r) /\ Masters' /\ Served'
  BY <1>1, <1>2, NetKept
<1>7. Wiring(r)' /\ Clean(r)'
  BY <1>2 DEF Wiring, Clean
<1>8. Back(r)'
  <2>1. BackOwned(r)' /\ BackLater(r)' /\ BackOnce(r)'
    BY <1>1 DEF Back, BackOwned, BackLater, BackOnce, DelOf
  <2>2. BackAll(r)'
    BY <1>1, <1>2 DEF Back, BackAll, DelOf
  <2> QED
    BY <1>2, <2>1, <2>2 DEF Back
<1>9. Todo(r)'
  <2>1. s[1] = AddOf(Br[r])
    BY <1>1, <1>4 DEF AddOf
  <2>2. ASSUME NEW i \in DOMAIN s
        PROVE  /\ Proper(s[i], r, "begin") /\ s[i][1] # "dnsmasq"
               /\ s[i][1] \notin Adds /\ s[i][2] \in Made =>
                    \E j \in 1..(i - 1) : s[j] = AddOf(s[i][2])
    <3>1. CASE i = 1
      <4>2. s[i] = <<"add bridge", Br[r]>>
        BY <1>4, <3>1
      <4>1. s[i][1] = "add bridge" /\ s[i][2] = Br[r]
        BY ONLY Zenon, <4>2, PairIs
      <4> QED
        BY <1>1, <4>1 DEF Proper, Adds
    <3>2. CASE i # 1 /\ s[i] = <<"add addr", Br[r]>>
      <4>1. s[i][1] = "add addr" /\ s[i][2] = Br[r]
        <5>1. s[i] = <<"add addr", Br[r]>>
          BY <3>2
        <5> QED
          BY ONLY Zenon, <5>1, PairIs
      <4>2. 1 \in 1..(i - 1)
        BY <1>4, <3>2
      <4> QED
        BY <1>1, <2>1, <4>1, <4>2 DEF Proper, Adds
    <3>3. CASE i # 1 /\ s[i] = <<"master", BR_IF>>
      <4>1. s[i][1] = "master" /\ s[i][2] = BR_IF
        BY <3>3
      <4> QED
        BY <1>1, <4>1 DEF Proper
    <3> QED
      BY <1>4, <3>1, <3>2, <3>3
  <2>3. s # <<>>
    <3>1. DOMAIN s # {}
      BY <1>4
    <3> QED
      BY ONLY <3>1
  <2>4. pc'[r] = "begin" /\ todo'[r] = s
    BY <1>2
  <2>5. \A i \in DOMAIN s :
          /\ Proper(s[i], r, pc'[r])
          /\ s[i][1] = "dnsmasq" => i = Len(s) /\ pc'[r] = "taps"
          /\ s[i][1] \notin Adds /\ s[i][2] \in Made =>
               owner'[s[i][2]] = r \/ \E j \in 1..(i - 1) : s[j] = AddOf(s[i][2])
    BY <2>2, <2>4
  <2>6. \E j \in DOMAIN s : s[j] = AddOf(Br[r])
    BY <1>4, <2>1
  <2> QED
    BY ONLY <2>3, <2>4, <2>5, <2>6 DEF Todo
<1> QED
  BY <1>1, <1>3, <1>5, <1>6, <1>7, <1>8, <1>9, SetupStep

(* Where a command is in the list.                                         *)
LEMMA TapPlaces ==
  ASSUME NEW m \in Nat, NEW i \in 1..(3 * m + 1 + Extra)
  PROVE  \/ \E k \in 1..m : i = 2 * k - 1
         \/ \E k \in 1..m : i = 2 * k
         \/ i = 2 * m + 1
         \/ \E k \in 1..m : i = 2 * m + 1 + k
         \/ DHCP /\ i = 3 * m + 2
<1>1. CASE i <= 2 * m
  <2>1. i \in 1..2 * m
    BY <1>1 DEF Extra
  <2>2. PICK k \in 1..m : i = 2 * k - 1 \/ i = 2 * k
    BY <2>1, OddEven
  <2> QED
    BY <2>2
<1>2. CASE i = 2 * m + 1
  BY <1>2
<1>3. CASE i > 2 * m + 1 /\ i <= 3 * m + 1
  <2> DEFINE k == i - (2 * m + 1)
  <2>1. k \in 1..m /\ i = 2 * m + 1 + k
    BY <1>3
  <2> QED
    BY <2>1
<1>4. CASE i > 3 * m + 1
  BY <1>4 DEF Extra
<1>5. i \in Nat
  BY DEF Extra
<1> QED
  BY <1>1, <1>2, <1>3, <1>4, <1>5

(* Every command names a device the setup has made by then.                *)
LEMMA EditTodo ==
  ASSUME NEW r \in Setups, NEW devs \in Seq(Taps), NEW i \in DOMAIN TapCmds(r, devs)
  PROVE  LET s == TapCmds(r, devs)
         IN  /\ Proper(s[i], r, "taps") /\ (s[i][1] = "dnsmasq" => i = Len(s))
             /\ s[i][1] \notin Adds /\ s[i][2] \in Made =>
                  s[i][2] = Br[r] \/ \E j \in 1..(i - 1) : s[j] = AddOf(s[i][2])
<1> DEFINE s == TapCmds(r, devs)  m == Len(devs)
<1>1. /\ m \in Nat /\ Len(s) = 3 * m + 1 + Extra /\ DOMAIN s = 1..(3 * m + 1 + Extra)
      /\ \A k \in 1..m : /\ s[2 * k - 1] = <<"add tap", devs[k]>>
                         /\ s[2 * k] = <<"master", devs[k]>>
                         /\ s[2 * m + 1 + k] = <<"up", devs[k]>>
      /\ s[2 * m + 1] = <<"up", Br[r]>>
      /\ DHCP => s[3 * m + 2] = <<"dnsmasq", Br[r]>>
  BY TapFacts
<1>2. \A k \in 1..m : devs[k] \in Taps /\ devs[k] \notin Bridges
  BY Names
<1>3. Br[r] \in Bridges /\ Br[r] \notin Taps
  BY Names
<1>4. i \in 1..(3 * m + 1 + Extra)
  BY <1>1
<1> HIDE DEF s, m
<1>5. ASSUME NEW k \in 1..m PROVE s[2 * k - 1] = AddOf(devs[k])
  BY <1>1, <1>2 DEF AddOf
<1> SUFFICES /\ Proper(s[i], r, "taps") /\ (s[i][1] = "dnsmasq" => i = Len(s))
             /\ s[i][1] \notin Adds /\ s[i][2] \in Made =>
                  s[i][2] = Br[r] \/ \E j \in 1..(i - 1) : s[j] = AddOf(s[i][2])
  BY DEF s
<1>6. CASE \E k \in 1..m : i = 2 * k - 1
  <2>1. PICK k \in 1..m : i = 2 * k - 1
    BY <1>6
  <2>4. s[i] = <<"add tap", devs[k]>>
    BY <1>1, <2>1
  <2>2. s[i][1] = "add tap" /\ s[i][2] = devs[k]
    BY ONLY Zenon, <2>4, PairIs
  <2> QED
    BY <1>2, <2>2 DEF Proper, Adds
<1>7. CASE \E k \in 1..m : i = 2 * k
  <2>1. PICK k \in 1..m : i = 2 * k
    BY <1>7
  <2>4. s[i] = <<"master", devs[k]>>
    BY <1>1, <2>1
  <2>2. s[i][1] = "master" /\ s[i][2] = devs[k]
    BY ONLY <2>4, PairIs
  <2>3. 2 * k - 1 \in 1..(i - 1) /\ s[2 * k - 1] = AddOf(devs[k])
    <3>1. m \in Nat
      BY <1>1
    <3>2. 2 * k - 1 \in 1..(i - 1)
      BY ONLY <2>1, <3>1, k \in 1..m
    <3> QED
      BY <1>5, <3>2
  <2> QED
    BY <1>2, <2>2, <2>3 DEF Proper, Adds
<1>8. CASE i = 2 * m + 1
  <2>4. s[i] = <<"up", Br[r]>>
    BY <1>1, <1>8
  <2>1. s[i][1] = "up" /\ s[i][2] = Br[r]
    BY ONLY <2>4, PairIs
  <2> QED
    BY <1>3, <2>1 DEF Proper, Adds
<1>9. CASE \E k \in 1..m : i = 2 * m + 1 + k
  <2>1. PICK k \in 1..m : i = 2 * m + 1 + k
    BY <1>9
  <2>4. s[i] = <<"up", devs[k]>>
    BY <1>1, <2>1
  <2>2. s[i][1] = "up" /\ s[i][2] = devs[k]
    BY ONLY <2>4, PairIs
  <2>3. 2 * k - 1 \in 1..(i - 1) /\ s[2 * k - 1] = AddOf(devs[k])
    <3>1. m \in Nat
      BY <1>1
    <3>2. 2 * k - 1 \in 1..(i - 1)
      BY ONLY <2>1, <3>1, k \in 1..m
    <3> QED
      BY <1>5, <3>2
  <2> QED
    BY <1>2, <2>2, <2>3 DEF Proper, Adds
<1>10. CASE DHCP /\ i = 3 * m + 2
  <2>4. s[i] = <<"dnsmasq", Br[r]>>
    BY <1>1, <1>10
  <2>1. s[i][1] = "dnsmasq" /\ s[i][2] = Br[r]
    BY ONLY <2>4, PairIs
  <2>2. i = Len(s)
    <3>1. m \in Nat /\ Len(s) = 3 * m + 1 + Extra
      BY <1>1
    <3> QED
      BY ONLY <1>10, <3>1 DEF Extra
  <2> QED
    BY <1>3, <2>1, <2>2 DEF Proper, Adds
<1> QED
  BY <1>1, <1>4, <1>6, <1>7, <1>8, <1>9, <1>10, TapPlaces

(* The manifest is edited and the commands for it follow.                  *)
LEMMA EditInv ==
  ASSUME NetInv, NEW r \in Setups, Edit(r) PROVE NetInv'
<1>1. PICK devs \in {tap_devs[r]} \union UNION {[1..n -> Taps] : n \in 0..MaxLines} :
        /\ tap_devs' = [tap_devs EXCEPT ![r] = devs]
        /\ todo' = [todo EXCEPT ![r] = TapCmds(r, devs)]
  BY DEF Edit
<1>2. devs \in Seq(Taps)
  <2>1. CASE devs = tap_devs[r]
    BY <2>1 DEF NetInv, Types
  <2>2. CASE \E n \in 0..MaxLines : devs \in [1..n -> Taps]
    <3>1. PICK n \in 0..MaxLines : devs \in [1..n -> Taps]
      BY <2>2
    <3>2. n \in Nat
      BY NetAssumption
    <3> QED
      BY <3>1, <3>2
  <2> QED
    BY <1>1, <2>1, <2>2
<1> DEFINE s == TapCmds(r, devs)  m == Len(devs)
<1>3. /\ Types /\ Todo(r) /\ Back(r) /\ r \in Runs /\ pc[r] = "edit" /\ Br[r] \in Bridges
      /\ pc' = [pc EXCEPT ![r] = "taps"] /\ UNCHANGED net
      /\ owner' = owner /\ master' = master /\ up' = up /\ dhcp' = dhcp /\ unwind' = unwind
      /\ spared' = spared
  BY Names DEF NetInv, Edit, net
<1>4. /\ pc'[r] = "taps" /\ todo'[r] = s /\ tap_devs'[r] = devs
      /\ \A q \in Runs \ {r} : pc'[q] = pc[q] /\ todo'[q] = todo[q] /\ tap_devs'[q] = tap_devs[q]
      /\ DOMAIN todo' = Runs /\ DOMAIN tap_devs' = Runs
  BY <1>1, <1>3 DEF Types
<1>5. /\ \A t \in Teardowns : pc'[t] = pc[t] /\ todo'[t] = todo[t]
      /\ \A q \in Setups \ {r} : Aside(q)
  BY <1>3, <1>4, Names DEF Aside
<1>6. /\ s \in Seq(SetupOps \X Devs) /\ m \in Nat
      /\ DOMAIN s = 1..(3 * m + 1 + Extra)
      /\ \A k \in 1..m : /\ s[2 * k - 1] = <<"add tap", devs[k]>>
                         /\ s[2 * k] = <<"master", devs[k]>>
                         /\ s[2 * m + 1 + k] = <<"up", devs[k]>>
      /\ s[2 * m + 1] = <<"up", Br[r]>>
      /\ DHCP => s[3 * m + 2] = <<"dnsmasq", Br[r]>>
  BY <1>2, TapFacts
<1>7. \A i \in DOMAIN s :
        /\ Proper(s[i], r, "taps") /\ (s[i][1] = "dnsmasq" => i = Len(s))
        /\ s[i][1] \notin Adds /\ s[i][2] \in Made =>
             s[i][2] = Br[r] \/ \E j \in 1..(i - 1) : s[j] = AddOf(s[i][2])
  BY <1>2, EditTodo
<1> HIDE DEF s, m
<1>8. Quiet /\ owner[Br[r]] = r
  BY <1>3 DEF NetInv, Settled, Todo
<1>9. Types'
  <2>1. pc' \in [Runs -> {"idle", "begin", "edit", "taps", "unwind", "done", "failed"}]
    BY <1>3 DEF Types
  <2>2. \A q \in Setups : todo'[q] \in Seq(SetupOps \X Devs)
                          /\ unwind'[q] \in Seq(BackOps \X Devs)
                          /\ tap_devs'[q] \in Seq(Taps)
    BY <1>2, <1>3, <1>4, <1>6, Names DEF Types
  <2> QED
    BY <1>3, <1>4, <1>5, <2>1, <2>2 DEF Types
<1>10. Frame(r) /\ Masters' /\ Served'
  BY <1>3, <1>4, NetKept
<1>11. Clean(r)'
  BY <1>4 DEF Clean
<1>12. Back(r)'
  <2>1. BackOwned(r)' /\ BackLater(r)' /\ BackOnce(r)'
    BY <1>3 DEF Back, BackOwned, BackLater, BackOnce, DelOf
  <2>2. BackAll(r)'
    BY <1>3, <1>4 DEF Back, BackAll, DelOf
  <2> QED
    BY <1>4, <2>1, <2>2 DEF Back
<1>13. Extra \in Nat /\ (DHCP => Extra = 1)
  BY DEF Extra
<1>18. m \in Nat /\ DOMAIN s = 1..(3 * m + 1 + Extra)
  BY <1>6
<1>14. 2 * m + 1 \in DOMAIN s
  BY ONLY <1>13, <1>18
<1>15. Todo(r)'
  <2>1. s # <<>>
    <3>1. DOMAIN s # {}
      BY <1>14
    <3> QED
      BY ONLY <3>1
  <2>2. \A i \in DOMAIN s :
          /\ Proper(s[i], r, pc'[r])
          /\ s[i][1] = "dnsmasq" => i = Len(s) /\ pc'[r] = "taps"
          /\ s[i][1] \notin Adds /\ s[i][2] \in Made =>
               owner'[s[i][2]] = r \/ \E j \in 1..(i - 1) : s[j] = AddOf(s[i][2])
    BY <1>3, <1>4, <1>7, <1>8
  <2>3. pc'[r] = "taps" /\ todo'[r] = s /\ owner'[Br[r]] = r
    BY <1>3, <1>4, <1>8
  <2> QED
    BY ONLY <2>1, <2>2, <2>3 DEF Todo
<1>16. ASSUME NEW x, NEW i \in DOMAIN s, s[i] = x PROVE Ahead(x, r)'
  BY <1>4, <1>16 DEF Ahead
<1>17. Wiring(r)'
  <2>1. Ahead(<<"up", Br[r]>>, r)'
    BY <1>6, <1>14, <1>16
  <2>2. DHCP => Ahead(<<"dnsmasq", Br[r]>>, r)'
    <3> SUFFICES ASSUME DHCP PROVE Ahead(<<"dnsmasq", Br[r]>>, r)'
      OBVIOUS
    <3>1. 3 * m + 2 \in DOMAIN s
      <4>1. Extra = 1
        BY <1>13
      <4> QED
        BY ONLY <1>18, <4>1
    <3> QED
      BY <1>6, <1>16, <3>1
  <2>3. ASSUME NEW d \in Range(devs) PROVE WiredTap(d, r)'
    <3>1. PICK k \in 1..m : d = devs[k]
      BY <1>2 DEF Range, m
    <3>2. 2 * k - 1 \in DOMAIN s /\ 2 * k \in DOMAIN s /\ 2 * m + 1 + k \in DOMAIN s
      BY ONLY <1>13, <1>18, k \in 1..m
    <3>3. Ahead(<<"add tap", d>>, r)'
      BY <1>6, <1>16, <3>1, <3>2
    <3>4. Ahead(<<"master", d>>, r)'
      BY <1>6, <1>16, <3>1, <3>2
    <3>5. Ahead(<<"up", d>>, r)'
      BY <1>6, <1>16, <3>1, <3>2
    <3> QED
      BY <3>3, <3>4, <3>5 DEF WiredTap
  <2>4. Range(tap_devs[r])' = Range(devs)
    BY <1>4 DEF Range
  <2> QED
    BY <2>1, <2>2, <2>3, <2>4 DEF Wiring
<1> QED
  BY <1>3, <1>5, <1>9, <1>10, <1>11, <1>12, <1>15, <1>17, SetupStep

-----------------------------------------------------------------------------
(* Teardowns: every setup has come to its end, and devices only go away.   *)
Shrinks ==
  /\ \A d \in Devs : owner'[d] \in {owner[d], None} /\ master'[d] \in {master[d], None}
  /\ \A b \in Bridges : dhcp'[b] \in {dhcp[b], None}

(* Nothing else matters to the invariant then.                             *)
LEMMA TeardownStep ==
  ASSUME NetInv, Types', Shrinks, ~Quiet', \A s \in Setups : pc[s] \in {"done", "failed"},
         \A s \in Setups : pc'[s] = pc[s], unwind' = unwind, spared' = spared
  PROVE  NetInv'
<1>1. Settled' /\ Masters'
  BY DEF Settled, Masters
<1>2. Served'
  <2> SUFFICES ASSUME NEW b \in Bridges, dhcp'[b] # None PROVE pc'[dhcp'[b]] = "done"
    BY DEF Served
  <2>1. dhcp'[b] = dhcp[b]
    BY DEF Shrinks
  <2>2. pc[dhcp[b]] = "done" /\ dhcp[b] \in Setups
    BY <2>1 DEF NetInv, Served, Types
  <2> QED
    BY <2>1, <2>2
<1>3. None \notin Setups /\ None \notin Bridges /\ \A s \in Setups : Br[s] # None
  BY Names
<1>4. Unwound'
  <2> SUFFICES ASSUME NEW s \in Setups, pc'[s] = "failed"
               PROVE  /\ \A d \in Devs : owner'[d] = s => d \in spared'[s] /\ master'[d] # Br[s]
                      /\ \A b \in Bridges : dhcp'[b] # s
    BY DEF Unwound
  <2>1. /\ \A d \in Devs : owner[d] = s => d \in spared[s] /\ master[d] # Br[s]
        /\ \A b \in Bridges : dhcp[b] # s
    BY DEF NetInv, Unwound
  <2>2. s # None /\ Br[s] # None
    BY <1>3
  <2>3. \A d \in Devs : owner'[d] = s => d \in spared'[s] /\ master'[d] # Br[s]
    BY <2>1, <2>2 DEF Shrinks
  <2>4. \A b \in Bridges : dhcp'[b] # s
    BY <2>1, <2>2 DEF Shrinks
  <2> QED
    BY <2>3, <2>4
<1>5. ASSUME NEW s \in Setups PROVE Todo(s)' /\ Wiring(s)' /\ Back(s)'
  <2>1. pc'[s] = pc[s] /\ pc[s] \in {"done", "failed"} /\ Back(s)
    BY DEF NetInv
  <2>2. Todo(s)' /\ Wiring(s)'
    BY <2>1 DEF Todo, Wiring
  <2>3. unwind'[s] = <<>> /\ unwind[s] = <<>> /\ DOMAIN unwind'[s] = {} /\ DOMAIN unwind[s] = {}
    <3>1. unwind[s] = <<>> /\ unwind'[s] = unwind[s]
      BY <2>1 DEF Back
    <3> QED
      BY ONLY <3>1
  <2>4. BackOwned(s)' /\ BackLater(s)' /\ BackOnce(s)'
    BY <2>3 DEF BackOwned, BackLater, BackOnce
  <2>5. BackAll(s)'
    <3> SUFFICES ASSUME pc[s] = "failed", NEW d \in Made, owner'[d] = s,
                        d \notin spared[s]
                 PROVE  FALSE
      BY <2>1 DEF BackAll
    <3>1. owner[d] = s
      BY <1>3, Names DEF Shrinks
    <3> QED
      BY <2>1, <2>3, <3>1 DEF Back, BackAll
  <2> QED
    BY <2>2, <2>3, <2>4, <2>5 DEF Back
<1> QED
  BY <1>1, <1>2, <1>4, <1>5 DEF NetInv

(* A teardown starts.                                                      *)
LEMMA TeardownBeginInv ==
  ASSUME NetInv, NEW t \in Teardowns, TeardownBegin(t) PROVE NetInv'
<1>8. PICK devs \in _tap_manifest_gen(t) :
        /\ tap_devs' = [tap_devs EXCEPT ![t] = devs]
        /\ todo' = [todo EXCEPT ![t] = TeardownCmds(t, devs)]
  BY DEF TeardownBegin
<1> DEFINE s == TeardownCmds(t, devs)
<1>1. /\ Types /\ t \in Runs /\ Br[t] \in Bridges /\ t \notin Setups
      /\ \A q \in Setups : pc[q] \in {"done", "failed"}
      /\ dhcp' = IF DHCP THEN [dhcp EXCEPT ![Br[t]] = None] ELSE dhcp
      /\ pc' = [pc EXCEPT ![t] = "taps"]
      /\ tap_devs' = [tap_devs EXCEPT ![t] = devs]
      /\ todo' = [todo EXCEPT ![t] = s]
      /\ owner' = owner /\ master' = master /\ unwind' = unwind /\ spared' = spared
  BY <1>8, Names DEF NetInv, TeardownBegin
<1>2. devs \in Seq(Taps)
  BY ManifestTaps
<1>3. s \in Seq(TeardownOps \X Made) /\ s # <<>>
  BY <1>2, TeardownFacts
<1> HIDE DEF s
<1>4. /\ pc'[t] = "taps" /\ todo'[t] = s
      /\ \A q \in Runs \ {t} : pc'[q] = pc[q] /\ todo'[q] = todo[q] /\ tap_devs'[q] = tap_devs[q]
      /\ DOMAIN todo' = Runs /\ DOMAIN tap_devs' = Runs
  BY <1>1 DEF Types
<1>5. Shrinks /\ dhcp' \in [Bridges -> Setups \union {None}]
  BY <1>1 DEF Shrinks, Types
<1>6. Types'
  <2>1. pc' \in [Runs -> {"idle", "begin", "edit", "taps", "unwind", "done", "failed"}]
    BY <1>1 DEF Types
  <2>2. \A q \in Setups : todo'[q] \in Seq(SetupOps \X Devs)
                          /\ unwind'[q] \in Seq(BackOps \X Devs)
                          /\ tap_devs'[q] \in Seq(Taps)
    <3>1. Setups \subseteq Runs \ {t}
      BY <1>1, Names
    <3>2. \A q \in Setups : todo'[q] = todo[q] /\ tap_devs'[q] = tap_devs[q] /\ unwind'[q] = unwind[q]
      BY <1>1, <1>4, <3>1
    <3> QED
      BY <1>1, <3>2 DEF Types
  <2>3. \A q \in Teardowns : todo'[q] \in Seq(TeardownOps \X Made)
                             /\ pc'[q] \in {"idle", "taps", "done", "failed"}
                             /\ (pc'[q] = "taps" => todo'[q] # <<>>)
    BY <1>1, <1>3, <1>4, Names DEF Types
  <2> QED
    BY <1>1, <1>4, <1>5, <2>1, <2>2, <2>3 DEF Types
<1>7. ~Quiet' /\ \A q \in Setups : pc'[q] = pc[q]
  BY <1>1, <1>4, Names DEF Quiet
<1> QED
  BY <1>1, <1>5, <1>6, <1>7, TeardownStep

(* A command of a teardown succeeds.                                       *)
LEMMA TeardownCommandInv ==
  ASSUME NetInv, NEW t \in Teardowns, Command(t) PROVE NetInv'
<1> DEFINE c == Head(todo[t])
<1>1. /\ Types /\ Settled /\ t \in Runs /\ t \notin Setups /\ pc[t] = "taps"
      /\ Can(c, t) /\ Do(c, t)
      /\ todo' = [todo EXCEPT ![t] = Tail(@)] /\ pc' = [pc EXCEPT ![t] = After(t, Tail(todo[t]))]
      /\ unwind' = unwind /\ tap_devs' = tap_devs /\ spared' = spared
  <2>1. Types /\ pc[t] \in {"begin", "taps"} /\ t \in Runs /\ t \notin Setups
    BY Names DEF NetInv, Command
  <2>2. pc[t] = "taps"
    BY <2>1 DEF Types
  <2> QED
    BY <2>1, <2>2 DEF NetInv, Command
<1>2. todo[t] \in Seq(TeardownOps \X Made) /\ todo[t] # <<>>
  BY <1>1 DEF Types
<1>3. /\ c \in TeardownOps \X Made /\ Tail(todo[t]) \in Seq(TeardownOps \X Made)
  BY <1>2, TailFacts
<1> HIDE DEF c
<1>4. c[1] \in TeardownOps /\ c[2] \in Made /\ Made \subseteq Devs /\ BR_IF \notin Made
  BY <1>3, Names
<1>5. /\ pc'[t] = After(t, Tail(todo[t])) /\ todo'[t] = Tail(todo[t])
      /\ \A q \in Runs \ {t} : pc'[q] = pc[q] /\ todo'[q] = todo[q]
      /\ DOMAIN todo' = Runs
  BY <1>1 DEF Types
<1>6. pc'[t] \in {"taps", "done"} /\ (pc'[t] = "taps" => todo'[t] # <<>>)
  BY <1>1, <1>5 DEF After
<1>7. /\ dhcp' = dhcp
      /\ owner' = owner \/ owner' = [owner EXCEPT ![c[2]] = None]
      /\ master' \in [Devs -> Bridges \union {None}]
      /\ \A x \in Devs : master'[x] \in {master[x], None}
  <2>1. CASE c[1] \in Dels
    BY <1>1, <1>4, <2>1, DoDel DEF Types
  <2>2. CASE c[1] \in {"nomaster", "down"}
    <3>1. owner[c[2]] # None
      BY <1>1, <2>2 DEF Can, Exists
    <3>2. /\ owner' = owner
          /\ master' = [master EXCEPT ![c[2]] = IF c[1] = "master" THEN Br[t]
                                                ELSE IF c[1] = "nomaster" THEN None ELSE @]
          /\ up' = IF c[1] = "up" THEN up \union {c[2]}
                   ELSE IF c[1] = "down" THEN up \ {c[2]} ELSE up
          /\ dhcp' = IF c[1] = "dnsmasq" THEN [dhcp EXCEPT ![c[2]] = t] ELSE dhcp
      <4>1. c[2] \in Devs /\ c[1] \in {"add addr", "del addr", "master", "nomaster", "up",
                                       "down", "dnsmasq"}
        BY <1>4, <2>2
      <4> QED
        BY <1>1, <3>1, <4>1, DoOther
    <3> QED
      BY <1>1, <1>4, <2>2, <3>2 DEF Types
  <2> QED
    BY <1>4, <2>1, <2>2 DEF TeardownOps
<1>8. Shrinks
  BY <1>1, <1>4, <1>7 DEF Shrinks, Types
<1>9. Types'
  <2>1. pc' \in [Runs -> {"idle", "begin", "edit", "taps", "unwind", "done", "failed"}]
    BY <1>1, <1>5, <1>6 DEF Types
  <2>2. owner' \in [Devs -> Runs \union {"host", None}] /\ (BR_IF # None => owner'[BR_IF] = "host")
    <3>1. owner \in [Devs -> Runs \union {"host", None}] /\ (BR_IF # None => owner[BR_IF] = "host")
          /\ (BR_IF # None => BR_IF \in Devs)
      BY <1>1 DEF Types, Devs
    <3> QED
      BY <1>4, <1>7, <3>1
  <2>3. \A q \in Setups : todo'[q] \in Seq(SetupOps \X Devs)
                          /\ unwind'[q] \in Seq(BackOps \X Devs)
                          /\ tap_devs'[q] \in Seq(Taps)
    BY <1>1, <1>5, Names DEF Types
  <2>4. \A q \in Teardowns : todo'[q] \in Seq(TeardownOps \X Made)
                             /\ pc'[q] \in {"idle", "taps", "done", "failed"}
                             /\ (pc'[q] = "taps" => todo'[q] # <<>>)
    BY <1>1, <1>3, <1>5, <1>6, Names DEF Types
  <2> QED
    BY <1>1, <1>5, <1>7, <2>1, <2>2, <2>3, <2>4 DEF Types
<1>10. ~Quiet' /\ \A q \in Setups : pc'[q] = pc[q] /\ pc[q] \in {"done", "failed"}
  BY <1>1, <1>5, <1>6, Names DEF Quiet, Settled
<1> QED
  BY <1>1, <1>8, <1>9, <1>10, TeardownStep

(* A command of a teardown fails.                                          *)
LEMMA TeardownFailInv ==
  ASSUME NetInv, NEW t \in Teardowns, CommandFails(t) PROVE NetInv'
<1>1. /\ Types /\ Settled /\ t \in Runs /\ t \notin Setups /\ pc[t] \in {"begin", "taps"}
      /\ pc' = [pc EXCEPT ![t] = "failed"]
      /\ owner' = owner /\ master' = master /\ up' = up /\ dhcp' = dhcp
      /\ todo' = todo /\ unwind' = unwind /\ tap_devs' = tap_devs /\ spared' = spared
  BY Names DEF NetInv, CommandFails, net
<1>2. pc'[t] = "failed" /\ \A q \in Runs \ {t} : pc'[q] = pc[q]
  BY <1>1 DEF Types
<1>3. Shrinks
  BY <1>1 DEF Shrinks
<1>4. Types'
  <2>1. pc' \in [Runs -> {"idle", "begin", "edit", "taps", "unwind", "done", "failed"}]
    BY <1>1 DEF Types
  <2>2. \A q \in Teardowns : todo'[q] \in Seq(TeardownOps \X Made)
                             /\ pc'[q] \in {"idle", "taps", "done", "failed"}
                             /\ (pc'[q] = "taps" => todo'[q] # <<>>)
    BY <1>1, <1>2, Names DEF Types
  <2> QED
    BY <1>1, <2>1, <2>2 DEF Types
<1>5. ~Quiet' /\ \A q \in Setups : pc'[q] = pc[q] /\ pc[q] \in {"done", "failed"}
  BY <1>1, <1>2, Names DEF Quiet, Settled
<1> QED
  BY <1>1, <1>3, <1>4, <1>5, TeardownStep

-----------------------------------------------------------------------------
(* The rest, and the results.                                              *)
LEMMA StutterInv ==
  ASSUME NetInv, UNCHANGED <<owner, master, up, dhcp, pc, todo, unwind, tap_devs, spared>>
  PROVE  NetInv'
<1>1. Types' /\ Settled' /\ Masters' /\ Served' /\ Unwound'
  BY DEF NetInv, Types, Settled, Quiet, Masters, Served, Unwound
<1>2. ASSUME NEW r \in Setups PROVE Todo(r)' /\ Back(r)' /\ Wiring(r)'
  <2>1. Frame(None) /\ Aside(r) /\ r # None
    BY Names DEF Frame, Aside
  <2> QED
    BY <2>1, OthersStep DEF NetInv
<1> QED
  BY <1>1, <1>2 DEF NetInv

(* The invariant holds at first ...                                        *)
LEMMA InitInv == Init => NetInv
<1> SUFFICES ASSUME Init PROVE NetInv
  OBVIOUS
<1>1. PICK there \in SUBSET Taps :
        owner = [d \in Devs |-> IF d \in there \union {BR_IF} THEN "host" ELSE None]
  BY DEF Init
<1>2. /\ master = [d \in Devs |-> None] /\ dhcp = [b \in Bridges |-> None]
      /\ pc = [r \in Runs |-> "idle"] /\ todo = [r \in Runs |-> <<>>]
      /\ unwind = [r \in Setups |-> <<>>] /\ tap_devs = [r \in Runs |-> <<>>]
      /\ spared = [r \in Setups |-> {}]
  BY DEF Init
<1>3. Setups \subseteq Runs /\ Teardowns \subseteq Runs /\ "host" \notin Runs /\ None \notin Runs
  BY Names
<1>4. Types
  <2>1. owner \in [Devs -> Runs \union {"host", None}] /\ (BR_IF # None => owner[BR_IF] = "host")
    BY <1>1 DEF Devs
  <2>2. \A S : <<>> \in Seq(S)
    OBVIOUS
  <2> QED
    BY <1>2, <1>3, <2>1, <2>2 DEF Types
<1>5. Settled /\ Masters /\ Served /\ Unwound
  BY <1>2, <1>3, Names DEF Settled, Quiet, Masters, Served, Unwound
<1>6. ASSUME NEW r \in Setups PROVE Todo(r) /\ Back(r) /\ Wiring(r)
  <2>1. pc[r] = "idle" /\ unwind[r] = <<>> /\ DOMAIN unwind[r] = {}
    BY <1>2, <1>3
  <2>2. Todo(r) /\ Wiring(r)
    BY <2>1 DEF Todo, Wiring
  <2>3. BackOwned(r) /\ BackLater(r) /\ BackOnce(r)
    BY <2>1 DEF BackOwned, BackLater, BackOnce
  <2>4. BackAll(r)
    BY <1>1, <1>3, Names DEF BackAll
  <2> QED
    BY <2>1, <2>2, <2>3, <2>4 DEF Back
<1> QED
  BY <1>4, <1>5, <1>6 DEF NetInv

(* ... and every step keeps it.                                            *)
LEMMA NextInv == NetInv /\ [Next]_vars => NetInv'
<1> SUFFICES ASSUME NetInv, [Next]_vars PROVE NetInv'
  OBVIOUS
<1>1. ASSUME NEW r \in Setups, Script(r) \/ TeardownBegin(r) PROVE NetInv'
  <2>1. ~TeardownBegin(r)
    BY Names DEF TeardownBegin
  <2> QED
    BY <1>1, <2>1, BeginInv, EditInv, CommandInv, FailInv, UnwindInv DEF Script
<1>2. ASSUME NEW t \in Teardowns, Script(t) \/ TeardownBegin(t) PROVE NetInv'
  <2>1. ~SetupBegin(t) /\ ~Edit(t) /\ ~Unwind(t)
    BY Names DEF NetInv, Types, SetupBegin, Edit, Unwind
  <2> QED
    BY <1>2, <2>1, TeardownBeginInv, TeardownCommandInv, TeardownFailInv DEF Script
<1>3. ASSUME NEW d \in Taps, Hold(d) \/ Release(d) PROVE NetInv'
  <2>1. UNCHANGED <<owner, master, up, dhcp, pc, todo, unwind, tap_devs, spared>>
    BY <1>3 DEF Hold, Release, net
  <2> QED
    BY <2>1, StutterInv
<1>4. CASE UNCHANGED vars
  <2>1. UNCHANGED <<owner, master, up, dhcp, pc, todo, unwind, tap_devs, spared>>
    BY <1>4 DEF vars
  <2> QED
    BY <2>1, StutterInv
<1> QED
  BY <1>1, <1>2, <1>3, <1>4 DEF Next, Runs

(* The invariant holds in every state, for every set of setups and         *)
(* teardowns, configuration and number of faults.                          *)
THEOREM Invariant == Spec => []NetInv
BY InitInv, NextInv, PTL DEF Spec

(* A setup that fails, wherever it fails, leaves nothing of its own but    *)
(* the taps that a VM had open when unwind came to delete them.            *)
THEOREM FailureUnwinds == Spec => []Unwound
<1>1. NetInv => Unwound
  BY DEF NetInv
<1> QED
  BY <1>1, Invariant, PTL

(* A setup that succeeds has its bridge and the taps of its manifest,      *)
(* connected and up, until a teardown is run.                              *)
THEOREM SuccessWires == Spec => []Wired
<1>1. NetInv => Wired
  <2> SUFFICES ASSUME NetInv, NEW r \in Setups, pc[r] = "done", Quiet
               PROVE  /\ owner[Br[r]] = r /\ Br[r] \in up /\ (DHCP => dhcp[Br[r]] = r)
                      /\ \A d \in Range(tap_devs[r]) :
                           owner[d] = r /\ master[d] = Br[r] /\ d \in up
    BY DEF Wired, Quiet
  <2>1. Todo(r) /\ Wiring(r)
    BY DEF NetInv
  <2>2. owner[Br[r]] = r
    BY <2>1 DEF Todo
  <2>3. \A c : ~Ahead(c, r)
    BY DEF Ahead
  <2> QED
    BY <2>1, <2>2, <2>3 DEF Wiring, WiredTap
<1> QED
  BY <1>1, Invariant, PTL

(* No step of a setup deletes, cuts off or takes down a device of another. *)
THEOREM OthersUntouched == Spec => OthersKept
<1> DEFINE Keeps ==
      \A r \in Setups : Command(r) \/ Unwind(r) =>
        \A d \in Taps \union Bridges : owner[d] \notin {r, None} =>
          owner'[d] = owner[d] /\ master'[d] = master[d] /\ (d \in up => d \in up')
<1>1. NetInv => Keeps
  BY CommandFrame, UnwindFrame DEF Frame, Made
<1>2. NetInv /\ [Next]_vars => [Keeps]_vars
  BY <1>1
<1> QED
  BY <1>2, Invariant, PTL DEF Spec, OthersKept
=============================================================================
