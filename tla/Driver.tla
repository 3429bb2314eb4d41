-------------------------------- MODULE Driver --------------------------------
(***************************************************************************)
(* The rapido script and the one image all its invocations share.          *)
(*                                                                         *)
(* "rapido cut" runs a test's cut script, which runs rapido-cut: that      *)
(* truncates the image and writes it entry by entry, or fails on the way,  *)
(* and unless -B is given the script then boots.  "rapido boot" boots what *)
(* is there.  rapido-vm first walks the image for the resources it asks    *)
(* for, then starts QEMU, which reads the image once more.                 *)
(*                                                                         *)
(* The image is a sequence of entries of equal size; writers keep their    *)
(* own offsets, so that writing past a truncation leaves a hole.  What an  *)
(* entry holds is Cut's subject, where the walker finds it Cpio's.         *)
(***************************************************************************)
EXTENDS Naturals, Sequences

CONSTANTS
  Drivers,     \* invocations of rapido that may run at the same time
  Tests,       \* tests with a cut script
  Archive,     \* test -> the entries its manifest leads to
  MaxJobs,     \* how many commands are begun
  None

(* An entry sets cpus or mem, asks for network, has a number in its name   *)
(* that is none ("bad"), is another rapido-rsc/ entry or no such entry     *)
(* ("rsc", "other"); the last is the trailer.                              *)
Rscs == {"cpu", "mem", "net"}
IsRsc(e) == e.sets \in Rscs \union {"bad", "rsc"}
Entries(t) ==
  [test : {t}, sets : Rscs \union {"bad", "rsc", "other", "trailer"}, val : Nat]

(* Manifests name the rapido-rsc/ entries one after the other: "rsc        *)
(* entries must be placed together in the archive".                        *)
ASSUME DriverAssumption ==
  /\ MaxJobs \in Nat /\ None \notin Tests
  /\ \A t \in Tests :
       /\ Archive[t] \in Seq(Entries(t)) /\ Archive[t] # None
       /\ \A i, j, k \in DOMAIN Archive[t] :
            i < j /\ j < k /\ IsRsc(Archive[t][i]) /\ IsRsc(Archive[t][k])
              => IsRsc(Archive[t][j])
       /\ \A i \in DOMAIN Archive[t] :
            Archive[t][i].sets = "trailer" => i = Len(Archive[t])

Hole == [test |-> None, sets |-> "hole", val |-> 0]

VARIABLES
  file,        \* the image, or None when there is none
  pc,          \* driver -> where it is
  cmd,         \* driver -> its command: [op, boot, test]
  jobs,        \* commands begun so far
  pos,         \* driver -> entries rapido-cut has written
  at, rscs,    \* driver -> entries rapido-vm has walked, what they asked for
  in_rapido_rsc_path,
  vm,          \* driver -> the image its QEMU has loaded
  alone,       \* history: driver -> nobody else wrote since its command began
  before       \* history: driver -> the image when its command began

vars == <<file, pc, cmd, jobs, pos, at, rscs, in_rapido_rsc_path, vm, alone, before>>
bootVars == <<at, rscs, in_rapido_rsc_path>>

Defaults == [k \in Rscs |-> IF k = "cpu" THEN 2 ELSE IF k = "mem" THEN 512 ELSE 0]
Commands == [op : {"cut"}, boot : BOOLEAN, test : Tests \union {None}]
            \union {[op |-> "boot", boot |-> TRUE, test |-> None]}

(* There may be an image from earlier.                                     *)
Init ==
  /\ file \in {None} \union {Archive[t] : t \in Tests}
  /\ pc = [d \in Drivers |-> "idle"] /\ jobs = 0
  /\ cmd = [d \in Drivers |-> [op |-> "boot", boot |-> TRUE, test |-> None]]
  /\ pos = [d \in Drivers |-> 0] /\ at = [d \in Drivers |-> 0]
  /\ rscs = [d \in Drivers |-> Defaults]
  /\ in_rapido_rsc_path = [d \in Drivers |-> FALSE]
  /\ vm = [d \in Drivers |-> None] /\ before = [d \in Drivers |-> None]
  /\ alone = [d \in Drivers |-> TRUE]

-----------------------------------------------------------------------------
Goto(d, l) == pc' = [pc EXCEPT ![d] = l]

(* Only d has written: the others' commands are no longer alone.           *)
Wrote(d) == alone' = [e \in Drivers |-> e = d /\ alone[e]]

(* A write at offset i of a file that may have been truncated meanwhile.   *)
WriteAt(f, i, x) ==
  [k \in 1..(IF i > Len(f) THEN i ELSE Len(f)) |->
     IF k = i THEN x ELSE IF k <= Len(f) THEN f[k] ELSE Hole]

(* The user's command.  A test without a script ends it, with status 0.    *)
Begin(d, c) ==
  /\ pc[d] = "idle" /\ jobs < MaxJobs
  /\ jobs' = jobs + 1
  /\ cmd' = [cmd EXCEPT ![d] = c]
  /\ Goto(d, IF c.op = "boot" THEN "boot" ELSE IF c.test = None THEN "idle" ELSE "cut")
  /\ alone' = [alone EXCEPT ![d] = TRUE] /\ before' = [before EXCEPT ![d] = file]
  /\ UNCHANGED <<file, pos, bootVars, vm>>

(* The script, or rapido-cut reading rapido.conf, fails before the image   *)
(* is opened.                                                              *)
CutRefused(d) ==
  /\ pc[d] = "cut"
  /\ Goto(d, "failed")
  /\ UNCHANGED <<file, cmd, jobs, pos, bootVars, vm, alone, before>>

(* cpio_out_open(): create or truncate.                                    *)
CutOpen(d) ==
  /\ pc[d] = "cut"
  /\ file' = <<>> /\ pos' = [pos EXCEPT ![d] = 0]
  /\ Goto(d, "write") /\ Wrote(d)
  /\ UNCHANGED <<cmd, jobs, bootVars, vm, before>>

CutWrite(d) ==
  /\ pc[d] = "write" /\ pos[d] < Len(Archive[cmd[d].test])
  /\ file' = WriteAt(file, pos[d] + 1, Archive[cmd[d].test][pos[d] + 1])
  /\ pos' = [pos EXCEPT ![d] = @ + 1]
  /\ Wrote(d)
  /\ UNCHANGED <<pc, cmd, jobs, bootVars, vm, before>>

(* Any error of main() after the open; what was written stays.             *)
CutFail(d) ==
  /\ pc[d] = "write" /\ pos[d] < Len(Archive[cmd[d].test])
  /\ Goto(d, "failed")
  /\ UNCHANGED <<file, cmd, jobs, pos, bootVars, vm, alone, before>>

CutDone(d) ==
  /\ pc[d] = "write" /\ pos[d] = Len(Archive[cmd[d].test])
  /\ Goto(d, "done")
  /\ UNCHANGED <<file, cmd, jobs, pos, bootVars, vm, alone, before>>

(* Mutant: the status of the cut script is not looked at.                  *)
CutReturnsAny(d) ==
  /\ pc[d] \in {"done", "failed"}
  /\ Goto(d, IF cmd[d].boot THEN "boot" ELSE "idle")
  /\ UNCHANGED <<file, cmd, jobs, pos, bootVars, vm, alone, before>>

(* rapido_cut() goes on to rapido_boot() only after a status of 0.         *)
CutReturns(d) ==
  /\ pc[d] \in {"done", "failed"}
  /\ Goto(d, IF pc[d] = "done" /\ cmd[d].boot THEN "boot" ELSE "idle")
  /\ UNCHANGED <<file, cmd, jobs, pos, bootVars, vm, alone, before>>

-----------------------------------------------------------------------------
(* vm_resources_get(): defaults, and NotFound without an image.            *)
BootOpen(d) ==
  /\ pc[d] = "boot"
  /\ Goto(d, IF file = None THEN "idle" ELSE "walk")
  /\ at' = [at EXCEPT ![d] = 0] /\ rscs' = [rscs EXCEPT ![d] = Defaults]
  /\ in_rapido_rsc_path' = [in_rapido_rsc_path EXCEPT ![d] = FALSE]
  /\ UNCHANGED <<file, cmd, jobs, pos, vm, alone, before>>

vm_resource_line_process(e, r) ==
  IF e.sets \in Rscs THEN [r EXCEPT ![e.sets] = e.val] ELSE r

(* The end of the file and the trailer end the walk.                       *)
(* Mutant: the end of the file is waited past, for the trailer.            *)
WalkEndTrailer(d) == at[d] < Len(file) /\ file[at[d] + 1].sets = "trailer"
WalkEnd(d) == at[d] < Len(file) => file[at[d] + 1].sets = "trailer"

(* Mutant: the walk ends at the first entry outside rapido-rsc/.           *)
LeavesRscFirst(d, e) == ~IsRsc(e)
LeavesRsc(d, e) == ~IsRsc(e) /\ in_rapido_rsc_path[d]

(* One entry of the loop; a header or a number that is none is an error.   *)
Walk(d) ==
  /\ pc[d] = "walk"
  /\ \/ WalkEnd(d) /\ Goto(d, "spawn") /\ UNCHANGED bootVars
     \/ /\ ~WalkEnd(d) /\ at[d] < Len(file)
        /\ LET e == file[at[d] + 1]
           IN  /\ Goto(d, IF e.sets \in {"hole", "bad"} THEN "idle"
                          ELSE IF LeavesRsc(d, e) THEN "spawn" ELSE "walk")
               /\ rscs' = [rscs EXCEPT ![d] = vm_resource_line_process(e, @)]
               /\ in_rapido_rsc_path' = [in_rapido_rsc_path EXCEPT ![d] = @ \/ IsRsc(e)]
               /\ at' = [at EXCEPT ![d] = @ + 1]
  /\ UNCHANGED <<file, cmd, jobs, pos, vm, alone, before>>

(* QEMU loads the image; what the guest's kernel makes of it is its own.   *)
Spawn(d) ==
  /\ pc[d] = "spawn"
  /\ vm' = [vm EXCEPT ![d] = file]
  /\ Goto(d, "vm")
  /\ UNCHANGED <<file, cmd, jobs, pos, bootVars, alone, before>>

(* vm_start() waits for QEMU.                                              *)
VmExit(d) ==
  /\ pc[d] = "vm"
  /\ Goto(d, "idle") /\ vm' = [vm EXCEPT ![d] = None]
  /\ UNCHANGED <<file, cmd, jobs, pos, bootVars, alone, before>>

-----------------------------------------------------------------------------
Step(d) ==
  \/ CutRefused(d) \/ CutOpen(d) \/ CutWrite(d) \/ CutFail(d) \/ CutDone(d)
  \/ CutReturns(d) \/ BootOpen(d) \/ Walk(d) \/ Spawn(d)

Next == \E d \in Drivers : Step(d) \/ VmExit(d) \/ \E c \in Commands : Begin(d, c)

(* Programs run on; users start commands and end VMs when they like.       *)
Spec == Init /\ [][Next]_vars /\ \A d \in Drivers : WF_vars(Step(d))

-----------------------------------------------------------------------------
(* What an image asks for, wherever its rapido-rsc/ entries are.           *)
Last(img, k) ==
  LET S == {i \in DOMAIN img : img[i].sets = k}
  IN  IF S = {} THEN Defaults[k] ELSE img[CHOOSE i \in S : \A j \in S : j <= i].val
Wanted(img) == [k \in Rscs |-> Last(img, k)]

IsPartOf(img, t) ==
  Len(img) <= Len(Archive[t]) /\ \A i \in 1..Len(img) : img[i] = Archive[t][i]

(* A VM that "rapido cut" started, while nobody else wrote the image, has  *)
(* loaded all of its test's archive and nothing else; one that "rapido     *)
(* boot" started has loaded the image that was there before.               *)
OwnImage ==
  \A d \in Drivers :
    pc[d] = "vm" /\ alone[d] =>
      vm[d] = IF cmd[d].op = "cut" THEN Archive[cmd[d].test] ELSE before[d]

(* Its QEMU has the cpus, memory and network that the image asks for, also *)
(* when the cut failed and the image is the first part of an archive,      *)
(* although the walk ends at the first entry after the rapido-rsc/ ones.   *)
ResourcesMatch ==
  \A d \in Drivers :
    pc[d] = "vm" /\ alone[d] /\ (\E t \in Tests : IsPartOf(vm[d], t)) =>
      rscs[d] = Wanted(vm[d])

(* Whatever others do to the image meanwhile, a command gets to its VM or  *)
(* ends.                                                                   *)
CommandEnds == \A d \in Drivers : pc[d] # "idle" ~> pc[d] \in {"vm", "idle"}
=============================================================================
