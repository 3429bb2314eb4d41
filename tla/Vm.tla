---------------------------------- MODULE Vm ----------------------------------
(***************************************************************************)
(* rapido-vm: invocations that run at the same time, each looking for a VM *)
(* number in the pid files of QEMU_PID_DIR and booting QEMU with it.  QEMU *)
(* and the process table are external: QEMU creates, truncates and locks   *)
(* the file given with -pidfile, writes its pid to it, and removes it when *)
(* it exits, but not when it is killed.                                    *)
(***************************************************************************)
EXTENDS Naturals

CONSTANTS
  Procs,         \* rapido-vm invocations
  MaxVm,         \* last VM number main() tries
  Pids,          \* process ids; one is reused once its process is gone
  NoPid,         \* not a process id
  NoProc         \* not an invocation

ASSUME VmAssumption ==
  MaxVm \in Nat \ {0} /\ NoPid \notin Pids /\ NoProc \notin Procs

VmNums == 1..MaxVm

VARIABLES
  pc,            \* where an invocation is
  num,           \* vm_num
  read,          \* the pid vm_is_running() took from the pid file
  arg,           \* the number of the pid file given to QEMU
  qemu,          \* what an invocation's QEMU is doing
  qpid,          \* its process id
  pidfile,       \* content of rapido_vm<n>.pid
  lock,          \* the invocation whose QEMU locks that file
  others         \* process ids of unrelated processes

vars == <<pc, num, read, arg, qemu, qpid, pidfile, lock, others>>

Contents == Pids \union {"none", "empty"}

Init ==
  /\ pc = [p \in Procs |-> "idle"] /\ num = [p \in Procs |-> 1]
  /\ read = [p \in Procs |-> NoPid] /\ arg = [p \in Procs |-> 1]
  /\ qemu = [p \in Procs |-> "none"] /\ qpid = [p \in Procs |-> NoPid]
  /\ pidfile = [n \in VmNums |-> "none"]
  /\ lock = [n \in VmNums |-> NoProc]
  /\ others = {}

(* Process ids with an entry in /proc; a QEMU that exited keeps its entry  *)
(* until rapido-vm waits for it.                                           *)
Alive == others \union {qpid[p] : p \in {q \in Procs : qpid[q] # NoPid}}

Goto(p, l) == pc' = [pc EXCEPT ![p] = l]

-----------------------------------------------------------------------------
(* main() up to the loop: configuration read, vm_num = 1.                  *)
Begin(p) ==
  /\ pc[p] = "idle"
  /\ Goto(p, "open")
  /\ UNCHANGED <<num, read, arg, qemu, qpid, pidfile, lock, others>>

(* vm_is_running(): open and read the pid file.  A file without a pid is   *)
(* an error, and main() returns it.                                        *)
ReadPid(p) ==
  /\ pc[p] = "open"
  /\ LET c == pidfile[num[p]]
     IN  IF c \in Pids THEN Goto(p, "probe") /\ read' = [read EXCEPT ![p] = c]
         ELSE Goto(p, IF c = "none" THEN "start" ELSE "refused") /\ UNCHANGED read
  /\ UNCHANGED <<num, arg, qemu, qpid, pidfile, lock, others>>

(* vm_is_running(): look for the pid in /proc; main() goes on to the next  *)
(* number or, past the last one, returns Ok.                               *)
ProbeSame(p) ==
  /\ pc[p] = "probe"
  /\ IF read[p] \in Alive
     THEN Goto(p, IF num[p] = MaxVm THEN "full" ELSE "open")
     ELSE Goto(p, "start")
  /\ UNCHANGED <<num, read, arg, qemu, qpid, pidfile, lock, others>>
ProbeUnbounded(p) ==
  /\ pc[p] = "probe"
  /\ IF read[p] \in Alive
     THEN Goto(p, "open") /\ num' = [num EXCEPT ![p] = @ + 1]
     ELSE Goto(p, "start") /\ UNCHANGED num
  /\ UNCHANGED <<read, arg, qemu, qpid, pidfile, lock, others>>
Probe(p) ==
  /\ pc[p] = "probe"
  /\ IF read[p] \in Alive
     THEN IF num[p] = MaxVm THEN Goto(p, "full") /\ UNCHANGED num
          ELSE Goto(p, "open") /\ num' = [num EXCEPT ![p] = @ + 1]
     ELSE Goto(p, "start") /\ UNCHANGED num
  /\ UNCHANGED <<read, arg, qemu, qpid, pidfile, lock, others>>

(* vm_start(): no image or kernel, an unreadable one, no QEMU.             *)
StartError(p) ==
  /\ pc[p] = "start"
  /\ Goto(p, "failed")
  /\ UNCHANGED <<num, read, arg, qemu, qpid, pidfile, lock, others>>

(* vm_start(): QEMU is spawned with the pid file of this number.           *)
PidFileFirst(p) == 1
PidFileArg(p) == num[p]
SpawnNoPidFile(p) ==
  /\ pc[p] = "start"
  /\ \E pid \in Pids \ Alive : qpid' = [qpid EXCEPT ![p] = pid]
  /\ qemu' = [qemu EXCEPT ![p] = "running"]
  /\ Goto(p, "wait")
  /\ UNCHANGED <<num, read, arg, pidfile, lock, others>>
Spawn(p) ==
  /\ pc[p] = "start"
  /\ \E pid \in Pids \ Alive : qpid' = [qpid EXCEPT ![p] = pid]
  /\ arg' = [arg EXCEPT ![p] = PidFileArg(p)]
  /\ qemu' = [qemu EXCEPT ![p] = "init"]
  /\ Goto(p, "wait")
  /\ UNCHANGED <<num, read, pidfile, lock, others>>

(* spawned_vm.wait() returns; the status is printed and main() returns Ok. *)
Reap(p) ==
  /\ pc[p] = "wait" /\ qemu[p] = "exited"
  /\ Goto(p, "done")
  /\ qpid' = [qpid EXCEPT ![p] = NoPid]
  /\ UNCHANGED <<num, read, arg, qemu, pidfile, lock, others>>

-----------------------------------------------------------------------------
(* QEMU takes the pid file, or exits when another QEMU has it.             *)
QemuLock(p) ==
  /\ qemu[p] = "init"
  /\ IF lock[arg[p]] = NoProc
     THEN /\ lock' = [lock EXCEPT ![arg[p]] = p]
          /\ pidfile' = [pidfile EXCEPT ![arg[p]] = "empty"]
          /\ qemu' = [qemu EXCEPT ![p] = "locked"]
     ELSE /\ qemu' = [qemu EXCEPT ![p] = "exited"]
          /\ UNCHANGED <<lock, pidfile>>
  /\ UNCHANGED <<pc, num, read, arg, qpid, others>>

QemuWrite(p) ==
  /\ qemu[p] = "locked"
  /\ pidfile' = [pidfile EXCEPT ![arg[p]] = qpid[p]]
  /\ qemu' = [qemu EXCEPT ![p] = "running"]
  /\ UNCHANGED <<pc, num, read, arg, qpid, lock, others>>

Unlock(p) == lock' = [n \in VmNums |-> IF lock[n] = p THEN NoProc ELSE lock[n]]

(* The guest powers off: the pid file is removed.                          *)
QemuExit(p) ==
  /\ qemu[p] = "running"
  /\ pidfile' = [pidfile EXCEPT ![arg[p]] = "none"]
  /\ Unlock(p)
  /\ qemu' = [qemu EXCEPT ![p] = "exited"]
  /\ UNCHANGED <<pc, num, read, arg, qpid, others>>

(* QEMU is killed, or gives up before it takes the pid file.               *)
QemuKilled(p) ==
  /\ qemu[p] \in {"init", "locked", "running"}
  /\ Unlock(p)
  /\ qemu' = [qemu EXCEPT ![p] = "exited"]
  /\ UNCHANGED <<pc, num, read, arg, qpid, pidfile, others>>

(* Unrelated processes come and go.                                        *)
OtherStarts ==
  /\ \E pid \in Pids \ Alive : others' = others \union {pid}
  /\ UNCHANGED <<pc, num, read, arg, qemu, qpid, pidfile, lock>>
OtherExits ==
  /\ \E pid \in others : others' = others \ {pid}
  /\ UNCHANGED <<pc, num, read, arg, qemu, qpid, pidfile, lock>>

-----------------------------------------------------------------------------
(* What the code of one invocation does next.                              *)
Step(p) == ReadPid(p) \/ Probe(p) \/ StartError(p) \/ Spawn(p) \/ Reap(p)

Qemu(p) == QemuLock(p) \/ QemuWrite(p) \/ QemuExit(p) \/ QemuKilled(p)

Next ==
  \/ \E p \in Procs : Begin(p) \/ Step(p) \/ Qemu(p)
  \/ OtherStarts \/ OtherExits

Spec == Init /\ [][Next]_vars

(* An invocation that was started is scheduled.                            *)
FairSpec == Spec /\ \A p \in Procs : WF_vars(Step(p))

-----------------------------------------------------------------------------
(* Every number tried is one of the loop's, and every pid file holds what  *)
(* a QEMU put there.                                                       *)
TypeOK ==
  /\ pc \in [Procs -> {"idle", "open", "probe", "start", "wait", "done",
                       "refused", "failed", "full"}]
  /\ num \in [Procs -> VmNums] /\ read \in [Procs -> Pids \union {NoPid}]
  /\ arg \in [Procs -> VmNums]
  /\ qemu \in [Procs -> {"none", "init", "locked", "running", "exited"}]
  /\ qpid \in [Procs -> Pids \union {NoPid}]
  /\ pidfile \in [VmNums -> Contents] /\ lock \in [VmNums -> Procs \union {NoProc}]
  /\ others \subseteq Pids

(* A running VM is visible to every later boot: the pid file of its number *)
(* names its live QEMU, although two boots may have settled on the number  *)
(* at the same time and the loser's QEMU was given the same file.          *)
RunningRecorded ==
  \A p \in Procs : qemu[p] = "running" =>
    pidfile[num[p]] = qpid[p] /\ qpid[p] \in Alive

(* Two VMs that run at once differ in vm_num, from which main() derives    *)
(* network configuration, MAC addresses and machine id.                    *)
UniqueNum ==
  \A p, q \in Procs :
    p # q /\ qemu[p] = "running" /\ qemu[q] = "running" => num[p] # num[q]

(* Pid files, their locks and /proc together keep the promise of           *)
(* VmNumbers: a number is taken when QEMU has written its pid, and is free *)
(* again when QEMU is gone.                                                *)
Nums == INSTANCE VmNumbers WITH Numbers <- VmNums, NoNumber <- 0,
          vm <- [p \in Procs |-> IF qemu[p] = "running" THEN num[p] ELSE 0],
          over <- {p \in Procs : qemu[p] = "exited"}
Allocates == Nums!Spec

(* The scan ends, whatever VMs, kills and reused pids it meets.            *)
ScanEnds ==
  \A p \in Procs : pc[p] = "open" ~> pc[p] \notin {"open", "probe", "start"}

(* "The first vm_num identifier found to not be active is assigned to the  *)
(* booting VM": no boot is turned away by a pid file.                      *)
NeverRefused == \A p \in Procs : pc[p] # "refused"
=============================================================================
