------------------------------- MODULE VmProofs -------------------------------
(***************************************************************************)
(* rapido-vm never runs two VMs with one number, and a running VM's pid    *)
(* file names it: for any number of concurrent invocations, VM numbers and *)
(* process ids.  The argument is that the lock on the pid file belongs to  *)
(* the QEMU that was given the file, from the moment it truncates the file *)
(* until it is gone.                                                       *)
(***************************************************************************)
EXTENDS Vm, TLAPS

Holding == {"locked", "running"}

(* The lock of a pid file and the QEMU that holds it know of each other;   *)
(* QEMU's file is that of its number; a running QEMU has written its pid.  *)
LockInv ==
  /\ \A n \in VmNums : lock[n] # NoProc =>
       qemu[lock[n]] \in Holding /\ arg[lock[n]] = n
  /\ \A p \in Procs : qemu[p] \in Holding => lock[arg[p]] = p
  /\ \A p \in Procs : qemu[p] # "none" =>
       arg[p] = num[p] /\ pc[p] \in {"wait", "done"}
  /\ \A p \in Procs : qemu[p] \in {"init", "locked", "running"} =>
       pc[p] = "wait" /\ qpid[p] \in Pids
  /\ \A p \in Procs : qemu[p] = "running" => pidfile[arg[p]] = qpid[p]

IInv == TypeOK /\ LockInv

(* With no invocation started the invariant holds.                         *)
LEMMA InitIInv == Init => IInv
<1> SUFFICES ASSUME Init PROVE IInv
  OBVIOUS
<1> USE VmAssumption
<1>1. TypeOK
  BY DEF Init, TypeOK, VmNums, Contents
<1>2. LockInv
  BY DEF Init, LockInv, VmNums, Holding
<1> QED
  BY <1>1, <1>2 DEF IInv

(* The steps of rapido-vm itself leave locks and pid files alone.          *)
LEMMA StepIInv == ASSUME IInv, NEW p \in Procs, Begin(p) \/ Step(p) PROVE IInv'
<1> USE VmAssumption
<1>1. CASE Begin(p)
  <2>1. TypeOK'
    BY <1>1 DEF IInv, TypeOK, Begin, Goto
  <2>2. LockInv'
    BY <1>1 DEF IInv, TypeOK, LockInv, Begin, Goto, Holding
  <2> QED BY <2>1, <2>2 DEF IInv
<1>2. CASE ReadPid(p)
  <2>1. TypeOK'
    BY <1>2 DEF IInv, TypeOK, ReadPid, Goto
  <2>2. LockInv'
    BY <1>2 DEF IInv, TypeOK, LockInv, ReadPid, Goto, Holding
  <2> QED BY <2>1, <2>2 DEF IInv
<1>3. CASE Probe(p)
  <2>1. num' \in [Procs -> VmNums]
    BY <1>3 DEF IInv, TypeOK, Probe, VmNums
  <2>2. pc' \in [Procs -> {"idle", "open", "probe", "start", "wait", "done",
                           "refused", "failed", "full"}]
    BY <1>3 DEF IInv, TypeOK, Probe, Goto
  <2>3. TypeOK'
    BY <1>3, <2>1, <2>2 DEF IInv, TypeOK, Probe
  <2>4. \A q \in Procs : q # p => num'[q] = num[q] /\ pc'[q] = pc[q]
    BY <1>3 DEF IInv, TypeOK, Probe, Goto
  <2>5. qemu[p] = "none"
    BY <1>3 DEF IInv, LockInv, Probe
  <2>6. LockInv'
    BY <1>3, <2>4, <2>5 DEF IInv, TypeOK, LockInv, Probe, Holding
  <2> QED BY <2>3, <2>6 DEF IInv
<1>4. CASE StartError(p)
  <2>1. TypeOK'
    BY <1>4 DEF IInv, TypeOK, StartError, Goto
  <2>2. LockInv'
    BY <1>4 DEF IInv, TypeOK, LockInv, StartError, Goto, Holding
  <2> QED BY <2>1, <2>2 DEF IInv
<1>5. CASE Spawn(p)
  <2>1. TypeOK'
    BY <1>5 DEF IInv, TypeOK, Spawn, PidFileArg, Goto
  <2>2. qemu[p] = "none"
    BY <1>5 DEF IInv, LockInv, Spawn
  <2>3. LockInv'
    BY <1>5, <2>2 DEF IInv, TypeOK, LockInv, Spawn, PidFileArg, Goto, Holding
  <2> QED BY <2>1, <2>3 DEF IInv
<1>6. CASE Reap(p)
  <2>1. TypeOK'
    BY <1>6 DEF IInv, TypeOK, Reap, Goto
  <2>2. LockInv'
    BY <1>6 DEF IInv, TypeOK, LockInv, Reap, Goto, Holding
  <2> QED BY <2>1, <2>2 DEF IInv
<1> QED
  BY <1>1, <1>2, <1>3, <1>4, <1>5, <1>6 DEF Step

(* A step of QEMU keeps the invariant.                                     *)
LEMMA QemuIInv == ASSUME IInv, NEW p \in Procs, Qemu(p) PROVE IInv'
<1> USE VmAssumption
<1>1. CASE QemuLock(p)
  <2>1. TypeOK'
    BY <1>1 DEF IInv, TypeOK, QemuLock, Contents
  <2>2. LockInv'
    BY <1>1 DEF IInv, TypeOK, LockInv, QemuLock, Holding
  <2> QED BY <2>1, <2>2 DEF IInv
<1>2. CASE QemuWrite(p)
  <2>1. TypeOK'
    BY <1>2 DEF IInv, TypeOK, LockInv, QemuWrite, Contents
  <2>2. LockInv'
    BY <1>2 DEF IInv, TypeOK, LockInv, QemuWrite, Holding
  <2> QED BY <2>1, <2>2 DEF IInv
<1>3. CASE QemuExit(p)
  <2>1. TypeOK'
    BY <1>3 DEF IInv, TypeOK, QemuExit, Unlock, Contents
  <2>2. LockInv'
    BY <1>3 DEF IInv, TypeOK, LockInv, QemuExit, Unlock, Holding
  <2> QED BY <2>1, <2>2 DEF IInv
<1>4. CASE QemuKilled(p)
  <2>1. TypeOK'
    BY <1>4 DEF IInv, TypeOK, QemuKilled, Unlock
  <2>2. LockInv'
    BY <1>4 DEF IInv, TypeOK, LockInv, QemuKilled, Unlock, Holding
  <2> QED BY <2>1, <2>2 DEF IInv
<1> QED
  BY <1>1, <1>2, <1>3, <1>4 DEF Qemu

(* Every step keeps the invariant.                                         *)
LEMMA NextIInv == IInv /\ [Next]_vars => IInv'
<1> SUFFICES ASSUME IInv, [Next]_vars PROVE IInv'
  OBVIOUS
<1>1. CASE OtherStarts
  BY <1>1 DEF OtherStarts, IInv, TypeOK, LockInv
<1>2. CASE OtherExits
  BY <1>2 DEF OtherExits, IInv, TypeOK, LockInv
<1>3. CASE UNCHANGED vars
  BY <1>3 DEF vars, IInv, TypeOK, LockInv
<1> QED
  BY <1>1, <1>2, <1>3, StepIInv, QemuIInv DEF Next

(* The strengthened invariant holds of every behaviour of rapido-vm.       *)
THEOREM Inductive == Spec => []IInv
  BY InitIInv, NextIInv, PTL DEF Spec

(* A running VM is visible to every later boot: its pid file names it.     *)
THEOREM Recorded == Spec => []RunningRecorded
<1>1. IInv => RunningRecorded
  <2> SUFFICES ASSUME IInv, NEW p \in Procs, qemu[p] = "running"
               PROVE  pidfile[num[p]] = qpid[p] /\ qpid[p] \in Alive
    BY DEF RunningRecorded
  <2>1. pidfile[num[p]] = qpid[p] /\ qpid[p] \in Pids
    BY DEF IInv, LockInv
  <2>2. qpid[p] \in Alive
    BY <2>1, VmAssumption DEF Alive
  <2> QED BY <2>1, <2>2
<1> QED
  BY <1>1, Inductive, PTL

(* No two VMs that run at once have the same vm_num.                       *)
THEOREM Unique == Spec => []UniqueNum
<1>1. IInv => UniqueNum
  BY DEF IInv, LockInv, UniqueNum, Holding
<1> QED
  BY <1>1, Inductive, PTL

(* Every number tried is one of the loop's, and every pid file holds what  *)
(* a QEMU put there.                                                       *)
THEOREM TypeCorrect == Spec => []TypeOK
<1>1. IInv => TypeOK
  BY DEF IInv
<1> QED
  BY <1>1, Inductive, PTL

-----------------------------------------------------------------------------
(* The abstract state that a state of Vm stands for.                       *)
AbsVm == [p \in Procs |-> IF qemu[p] = "running" THEN num[p] ELSE 0]
AbsOver == {p \in Procs : qemu[p] = "exited"}

(* A QEMU that writes its pid takes a number no running VM has: it holds   *)
(* the lock on that number's pid file, and a running VM holds its own.     *)
LEMMA WriteBoots == ASSUME IInv, NEW p \in Procs, QemuWrite(p) PROVE Nums!Boot(p)
<1>1. /\ qemu[p] = "locked" /\ lock[arg[p]] = p /\ arg[p] = num[p] /\ num[p] \in VmNums
      /\ num[p] # 0
  BY VmAssumption DEF IInv, TypeOK, LockInv, QemuWrite, Holding, VmNums
<1>2. /\ qemu \in [Procs -> {"none", "init", "locked", "running", "exited"}]
      /\ qemu' = [qemu EXCEPT ![p] = "running"] /\ num' = num
  BY DEF IInv, TypeOK, QemuWrite
<1>3. \A q \in Procs : AbsVm[q] # num[p]
  <2> TAKE q \in Procs
  <2>1. CASE qemu[q] = "running"
    <3>1. lock[num[q]] = q
      BY <2>1 DEF IInv, LockInv, Holding
    <3>2. AbsVm[q] = num[q]
      BY <2>1 DEF AbsVm
    <3> QED BY <1>1, <2>1, <3>1, <3>2
  <2>2. CASE qemu[q] # "running"
    BY <1>1, <2>2 DEF AbsVm
  <2> QED BY <2>1, <2>2
<1>4. AbsVm[p] = 0 /\ p \notin AbsOver
  BY <1>1 DEF AbsVm, AbsOver
<1>5. AbsVm' = [AbsVm EXCEPT ![p] = num[p]]
  BY <1>2 DEF AbsVm
<1>6. AbsOver' = AbsOver
  BY <1>1, <1>2 DEF AbsOver
<1> QED
  BY <1>1, <1>3, <1>4, <1>5, <1>6 DEF Nums!Boot, AbsVm, AbsOver

(* A QEMU that exits ends its VM, or the prospect of one.                  *)
LEMMA ExitEnds ==
  ASSUME IInv, NEW p \in Procs, qemu[p] # "exited",
         qemu' = [qemu EXCEPT ![p] = "exited"], UNCHANGED num
  PROVE  Nums!End(p)
<1>1. qemu \in [Procs -> {"none", "init", "locked", "running", "exited"}]
  BY DEF IInv, TypeOK
<1>2. p \notin AbsOver /\ AbsOver' = AbsOver \union {p}
  BY <1>1 DEF AbsOver
<1>3. AbsVm' = [AbsVm EXCEPT ![p] = 0]
  BY <1>1 DEF AbsVm
<1> QED
  BY <1>2, <1>3 DEF Nums!End, AbsVm, AbsOver

(* A step that moves an invocation whose QEMU does not run is none of      *)
(* VmNumbers.                                                              *)
LEMMA Stutters ==
  ASSUME IInv,
         \A q \in Procs : /\ (qemu'[q] = "running") <=> (qemu[q] = "running")
                          /\ (qemu'[q] = "exited") <=> (qemu[q] = "exited")
                          /\ qemu[q] = "running" => num'[q] = num[q]
  PROVE  UNCHANGED Nums!vars
<1>1. AbsVm' = AbsVm
  BY DEF AbsVm
<1>2. AbsOver' = AbsOver
  BY DEF AbsOver
<1> QED
  BY <1>1, <1>2 DEF Nums!vars, AbsVm, AbsOver

(* Every step hands out a number, gives one back, or changes neither.      *)
LEMMA NextRefines == IInv /\ [Next]_vars => [Nums!Next]_(Nums!vars)
<1> SUFFICES ASSUME IInv, [Next]_vars PROVE Nums!Next \/ UNCHANGED Nums!vars
  OBVIOUS
<1>1. qemu \in [Procs -> {"none", "init", "locked", "running", "exited"}]
  BY DEF IInv, TypeOK
<1>2. CASE OtherStarts \/ OtherExits \/ UNCHANGED vars
  <2>1. UNCHANGED <<qemu, num>>
    BY <1>2 DEF OtherStarts, OtherExits, vars
  <2> QED BY <2>1, Stutters
<1>3. ASSUME NEW p \in Procs, Begin(p) \/ ReadPid(p) \/ StartError(p) \/ Reap(p)
      PROVE  UNCHANGED Nums!vars
  <2>1. UNCHANGED <<qemu, num>>
    BY <1>3 DEF Begin, ReadPid, StartError, Reap
  <2> QED BY <2>1, Stutters
<1>4. ASSUME NEW p \in Procs, Probe(p) PROVE UNCHANGED Nums!vars
  <2>1. qemu[p] = "none" /\ qemu' = qemu
    BY <1>4 DEF IInv, LockInv, Probe
  <2>2. \A q \in Procs : q # p => num'[q] = num[q]
    BY <1>4 DEF IInv, TypeOK, Probe
  <2> QED BY <2>1, <2>2, Stutters
<1>5. ASSUME NEW p \in Procs, Spawn(p) PROVE UNCHANGED Nums!vars
  <2>1. qemu[p] = "none" /\ qemu' = [qemu EXCEPT ![p] = "init"] /\ num' = num
    BY <1>5 DEF IInv, LockInv, Spawn
  <2> QED BY <1>1, <2>1, Stutters
<1>6. ASSUME NEW p \in Procs, QemuLock(p) PROVE Nums!Next \/ UNCHANGED Nums!vars
  <2>1. CASE lock[arg[p]] = NoProc
    <3>1. qemu[p] = "init" /\ qemu' = [qemu EXCEPT ![p] = "locked"] /\ num' = num
      BY <1>6, <2>1 DEF QemuLock
    <3> QED BY <1>1, <3>1, Stutters
  <2>2. CASE lock[arg[p]] # NoProc
    <3>1. qemu[p] = "init" /\ qemu' = [qemu EXCEPT ![p] = "exited"] /\ num' = num
      BY <1>6, <2>2 DEF QemuLock
    <3> QED BY <3>1, ExitEnds DEF Nums!Next
  <2> QED BY <2>1, <2>2
<1>7. ASSUME NEW p \in Procs, QemuExit(p) \/ QemuKilled(p) PROVE Nums!Next
  <2>1. qemu[p] # "exited" /\ qemu' = [qemu EXCEPT ![p] = "exited"] /\ num' = num
    BY <1>7 DEF QemuExit, QemuKilled
  <2> QED BY <2>1, ExitEnds DEF Nums!Next
<1>8. ASSUME NEW p \in Procs, QemuWrite(p) PROVE Nums!Next
  BY <1>8, WriteBoots DEF Nums!Next
<1> QED
  BY <1>2, <1>3, <1>4, <1>5, <1>6, <1>7, <1>8 DEF Next, Step, Qemu

(* No invocation runs a VM at first.                                       *)
LEMMA InitRefines == Init => Nums!Init
  BY DEF Init, Nums!Init

(* rapido-vm with its pid files, locks and process table implements        *)
(* VmNumbers: whatever boots race, VMs are killed and pids reused, numbers *)
(* are handed out as by an allocator that looks and takes in one step.     *)
THEOREM Refines == Spec => Allocates
  BY Inductive, InitRefines, NextRefines, PTL DEF Spec, Allocates, Nums!Spec
=============================================================================
