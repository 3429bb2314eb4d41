----------------------------- MODULE DriverProofs -----------------------------
(***************************************************************************)
(* A driver that nobody interferes with boots the image it cut, or found,  *)
(* and gives the VM the resources that image asks for: for any drivers,    *)
(* tests and archives, and whatever the other drivers did before.          *)
(***************************************************************************)
EXTENDS Driver, TLAPS

(* A leaf that names no prover is tried with Zenon, then with SMT.         *)
USE Zenon, SMTT(20)

Slots == [test : Tests \union {None}, val : Nat,
          sets : Rscs \union {"bad", "rsc", "other", "trailer", "hole"}]
Images == Seq(Slots)
Cutting == {"cut", "write", "done", "failed"}
Booting == {"boot", "walk", "spawn"}

DriverTypeOK ==
  /\ file \in Images \union {None}
  /\ pc \in [Drivers -> Cutting \union Booting \union {"idle", "vm"}]
  /\ cmd \in [Drivers -> Commands]
  /\ pos \in [Drivers -> Nat] /\ at \in [Drivers -> Nat]
  /\ rscs \in [Drivers -> [Rscs -> Nat]]
  /\ in_rapido_rsc_path \in [Drivers -> BOOLEAN]
  /\ vm \in [Drivers -> Images \union {None}]
  /\ before \in [Drivers -> Images \union {None}]
  /\ alone \in [Drivers -> BOOLEAN]
  /\ \A d \in Drivers :
       /\ pc[d] \in {"write", "done", "walk", "spawn"} => file \in Images
       /\ pc[d] = "vm" => vm[d] \in Images
       /\ pc[d] \in Cutting => cmd[d].op = "cut" /\ cmd[d].test \in Tests
       /\ pc[d] \in Booting \union {"vm"} /\ cmd[d].op = "cut" => cmd[d].test \in Tests

(* While d is alone the image is what it has written so far, then all of   *)
(* its archive; or still what it was before "rapido boot".                 *)
ImageInv(d) ==
  LET a == Archive[cmd[d].test] IN
  alone[d] =>
    /\ pc[d] = "write" => pos[d] <= Len(a) /\ file = [k \in 1..pos[d] |-> a[k]]
    /\ pc[d] = "done" => file = a
    /\ pc[d] \in Booting => file = IF cmd[d].op = "cut" THEN a ELSE before[d]
    /\ pc[d] = "vm" => vm[d] = IF cmd[d].op = "cut" THEN a ELSE before[d]

IInv == DriverTypeOK /\ \A d \in Drivers : ImageInv(d)

-----------------------------------------------------------------------------
(* A test's archive is an image.                                           *)
LEMMA ArchiveImage == \A t \in Tests : Archive[t] \in Images
<1> TAKE t \in Tests
<1>1. Archive[t] \in Seq(Entries(t))
  BY DriverAssumption
<1>2. Entries(t) \subseteq Slots
  BY DEF Entries, Slots
<1> QED
  BY <1>1, <1>2 DEF Images

(* A write by rapido-cut leaves an image, past the end of the file too.    *)
LEMMA WriteAtImage ==
  ASSUME NEW f \in Images, NEW i \in Nat \ {0}, NEW x \in Slots
  PROVE  WriteAt(f, i, x) \in Images
<1>1. Hole \in Slots
  BY DEF Hole, Slots
<1> DEFINE n == IF i > Len(f) THEN i ELSE Len(f)
<1>2. n \in Nat /\ Len(f) \in Nat
  BY DEF Images
<1>3. \A k \in 1..Len(f) : f[k] \in Slots
  BY DEF Images
<1>4. WriteAt(f, i, x) \in [1..n -> Slots]
  BY <1>1, <1>2, <1>3 DEF WriteAt
<1> QED
  BY <1>2, <1>4 DEF Images

(* Writing the next entry after a first part makes a longer first part.    *)
LEMMA WriteNext ==
  ASSUME NEW a, NEW n \in Nat
  PROVE  WriteAt([k \in 1..n |-> a[k]], n + 1, a[n + 1]) = [k \in 1..(n + 1) |-> a[k]]
<1> DEFINE f == [k \in 1..n |-> a[k]]
<1>1. Len(f) = n
  OBVIOUS
<1>2. WriteAt(f, n + 1, a[n + 1])
      = [k \in 1..(n + 1) |-> IF k = n + 1 THEN a[n + 1] ELSE IF k <= n THEN f[k] ELSE Hole]
  BY <1>1 DEF WriteAt
<1>3. \A k \in 1..(n + 1) :
        (IF k = n + 1 THEN a[n + 1] ELSE IF k <= n THEN f[k] ELSE Hole) = a[k]
  OBVIOUS
<1> QED
  BY <1>2, <1>3

(* With no command begun the invariant holds.                              *)
LEMMA InitIInv == Init => IInv
<1> SUFFICES ASSUME Init PROVE IInv
  OBVIOUS
<1>1. file \in Images \union {None}
  BY ArchiveImage DEF Init
<1>2. Defaults \in [Rscs -> Nat]
  BY DEF Defaults, Rscs
<1>3. DriverTypeOK
  BY <1>1, <1>2 DEF Init, DriverTypeOK, Commands, Cutting, Booting
<1>4. \A d \in Drivers : ImageInv(d)
  BY DEF Init, ImageInv, Booting
<1> QED BY <1>3, <1>4 DEF IInv

-----------------------------------------------------------------------------
(* Every step of every driver keeps the types.                             *)
LEMMA TypeStep == ASSUME DriverTypeOK, [Next]_vars PROVE DriverTypeOK'
<1> USE DEF DriverTypeOK
<1>1. CASE UNCHANGED vars
  BY <1>1 DEF vars
<1>2. ASSUME NEW d \in Drivers, NEW c \in Commands, Begin(d, c) PROVE DriverTypeOK'
  BY <1>2 DEF Begin, Goto, Commands, Cutting, Booting, bootVars
<1>3. ASSUME NEW d \in Drivers, CutRefused(d) PROVE DriverTypeOK'
  BY <1>3 DEF CutRefused, Goto, Cutting, Booting, bootVars
<1>4. ASSUME NEW d \in Drivers, CutOpen(d) PROVE DriverTypeOK'
  <2>1. <<>> \in Images
    BY DEF Images
  <2> QED BY <1>4, <2>1 DEF CutOpen, Goto, Wrote, Cutting, Booting, bootVars
<1>5. ASSUME NEW d \in Drivers, CutWrite(d) PROVE DriverTypeOK'
  <2>1. cmd[d].test \in Tests /\ file \in Images
    BY <1>5 DEF CutWrite, Cutting
  <2> DEFINE a == Archive[cmd[d].test]
  <2>2. a \in Seq(Slots)
    BY <2>1, ArchiveImage DEF Images
  <2>3. a[pos[d] + 1] \in Slots
    BY <1>5, <2>2 DEF CutWrite
  <2>4. file' \in Images
    BY <1>5, <2>1, <2>3, WriteAtImage DEF CutWrite
  <2> QED BY <1>5, <2>4 DEF CutWrite, Wrote, bootVars
<1>6. ASSUME NEW d \in Drivers, CutFail(d) PROVE DriverTypeOK'
  BY <1>6 DEF CutFail, Goto, Cutting, Booting, bootVars
<1>7. ASSUME NEW d \in Drivers, CutDone(d) PROVE DriverTypeOK'
  BY <1>7 DEF CutDone, Goto, Cutting, Booting, bootVars
<1>8. ASSUME NEW d \in Drivers, CutReturns(d) PROVE DriverTypeOK'
  BY <1>8 DEF CutReturns, Goto, Cutting, Booting, bootVars
<1>9. ASSUME NEW d \in Drivers, BootOpen(d) PROVE DriverTypeOK'
  <2>1. Defaults \in [Rscs -> Nat]
    BY DEF Defaults, Rscs
  <2> QED BY <1>9, <2>1 DEF BootOpen, Goto, Cutting, Booting
<1>10. ASSUME NEW d \in Drivers, Walk(d) PROVE DriverTypeOK'
  <2>1. CASE WalkEnd(d) /\ Goto(d, "spawn") /\ UNCHANGED bootVars
    BY <1>10, <2>1 DEF Walk, Goto, Cutting, Booting, bootVars
  <2>2. CASE ~WalkEnd(d) /\ at[d] < Len(file)
    <3> DEFINE e == file[at[d] + 1]
    <3>1. file \in Images
      BY <1>10 DEF Walk
    <3>2. e \in Slots
      BY <2>2, <3>1 DEF Images
    <3>3. e.val \in Nat
      BY <3>2 DEF Slots
    <3>4. vm_resource_line_process(e, rscs[d]) \in [Rscs -> Nat]
      BY <3>3 DEF vm_resource_line_process
    <3>5. rscs' = [rscs EXCEPT ![d] = vm_resource_line_process(e, rscs[d])]
      BY <1>10, <2>2 DEF Walk
    <3>6. rscs' \in [Drivers -> [Rscs -> Nat]]
      BY <3>4, <3>5
    <3>7. pc' \in [Drivers -> Cutting \union Booting \union {"idle", "vm"}]
          /\ pc' = [pc EXCEPT ![d] = pc'[d]] /\ pc'[d] \in {"idle", "spawn", "walk"}
      BY <1>10, <2>2 DEF Walk, Goto, Booting
    <3>8. at' \in [Drivers -> Nat] /\ in_rapido_rsc_path' \in [Drivers -> BOOLEAN]
      <4>1. at' = [at EXCEPT ![d] = at[d] + 1]
        BY <1>10, <2>2 DEF Walk
      <4>2. in_rapido_rsc_path'
            = [in_rapido_rsc_path EXCEPT ![d] = in_rapido_rsc_path[d] \/ IsRsc(e)]
        BY <1>10, <2>2, Zenon DEF Walk
      <4>3. (in_rapido_rsc_path[d] \/ IsRsc(e)) \in BOOLEAN
        OBVIOUS
      <4> HIDE DEF e
      <4> QED BY <4>1, <4>2, <4>3
    <3>9. pc[d] = "walk" /\ UNCHANGED <<file, cmd, pos, vm, alone, before>>
      BY <1>10 DEF Walk
    <3> HIDE DEF e
    <3> QED BY <3>1, <3>6, <3>7, <3>8, <3>9 DEF Cutting, Booting
  <2>3. \/ WalkEnd(d) /\ Goto(d, "spawn") /\ UNCHANGED bootVars
        \/ ~WalkEnd(d) /\ at[d] < Len(file)
    BY <1>10 DEF Walk
  <2> QED BY <2>1, <2>2, <2>3
<1>11. ASSUME NEW d \in Drivers, Spawn(d) PROVE DriverTypeOK'
  BY <1>11 DEF Spawn, Goto, Cutting, Booting, bootVars
<1>12. ASSUME NEW d \in Drivers, VmExit(d) PROVE DriverTypeOK'
  BY <1>12 DEF VmExit, Goto, Cutting, Booting, bootVars
<1> QED
  BY <1>1, <1>2, <1>3, <1>4, <1>5, <1>6, <1>7, <1>8, <1>9, <1>10, <1>11, <1>12
  DEF Next, Step

-----------------------------------------------------------------------------
(* A step of another driver leaves alone the image of one that stays alone *)
(* and everything else ImageInv speaks of.                                 *)
LEMMA OtherImage ==
  ASSUME IInv, NEW d \in Drivers, NEW e \in Drivers, d # e, ImageInv(d),
         alone'[d] => alone[d] /\ file' = file,
         pc'[d] = pc[d], cmd'[d] = cmd[d], pos'[d] = pos[d],
         before'[d] = before[d], vm'[d] = vm[d]
  PROVE  ImageInv(d)'
  BY DEF ImageInv

(* A step of any driver keeps what d knows of the image while d is alone.  *)
LEMMA ImageStep ==
  ASSUME IInv, [Next]_vars, NEW d \in Drivers PROVE ImageInv(d)'
<1> DEFINE a == Archive[cmd[d].test]
<1>0. DriverTypeOK /\ ImageInv(d)
  BY DEF IInv
<1>1. CASE UNCHANGED vars
  BY <1>0, <1>1 DEF vars, ImageInv
<1>2. ASSUME NEW e \in Drivers, e # d,
             Step(e) \/ VmExit(e) \/ \E c \in Commands : Begin(e, c)
      PROVE  ImageInv(d)'
  <2>1. /\ pc'[d] = pc[d] /\ cmd'[d] = cmd[d] /\ pos'[d] = pos[d]
        /\ before'[d] = before[d] /\ vm'[d] = vm[d]
    BY <1>0, <1>2 DEF DriverTypeOK, Step, VmExit, Begin, Goto, CutRefused, CutOpen,
       CutWrite, CutFail, CutDone, CutReturns, BootOpen, Walk, Spawn
  <2>2. alone'[d] => alone[d] /\ file' = file
    BY <1>0, <1>2 DEF DriverTypeOK, Step, VmExit, Begin, Wrote, CutRefused, CutOpen,
       CutWrite, CutFail, CutDone, CutReturns, BootOpen, Walk, Spawn
  <2> QED BY <1>0, <1>2, <2>1, <2>2, OtherImage
<1>3. ASSUME NEW c \in Commands, Begin(d, c) PROVE ImageInv(d)'
  BY <1>0, <1>3 DEF DriverTypeOK, ImageInv, Begin, Goto, Booting, Commands
<1>4. CASE CutRefused(d)
  BY <1>0, <1>4 DEF DriverTypeOK, ImageInv, CutRefused, Goto, Booting
<1>5. CASE CutOpen(d)
  <2>1. cmd[d].test \in Tests
    BY <1>0, <1>5 DEF DriverTypeOK, CutOpen, Cutting
  <2>2. a \in Images
    BY <2>1, ArchiveImage
  <2>3. Len(a) \in Nat
    BY <2>2 DEF Images
  <2>4. pc'[d] = "write" /\ pos'[d] = 0 /\ file' = <<>> /\ cmd' = cmd
    BY <1>0, <1>5 DEF DriverTypeOK, CutOpen, Goto
  <2>5. file' = [k \in 1..0 |-> a[k]]
    BY <2>4
  <2> QED BY <2>3, <2>4, <2>5 DEF ImageInv, Booting
<1>6. CASE CutWrite(d)
  <2>1. cmd[d].test \in Tests /\ pos[d] \in Nat
    BY <1>0, <1>6 DEF DriverTypeOK, CutWrite, Cutting
  <2>2. Len(a) \in Nat
    BY <2>1, ArchiveImage DEF Images
  <2>3. pos[d] < Len(a) /\ pc[d] = "write" /\ pc' = pc /\ cmd' = cmd
    BY <1>6 DEF CutWrite
  <2>4. pos'[d] = pos[d] + 1
    BY <1>0, <1>6 DEF DriverTypeOK, CutWrite
  <2>5. ASSUME alone'[d] PROVE file' = [k \in 1..(pos[d] + 1) |-> a[k]]
    <3>1. alone[d]
      BY <1>0, <1>6, <2>5 DEF CutWrite, Wrote
    <3>2. file = [k \in 1..pos[d] |-> a[k]]
      BY <1>0, <2>3, <3>1 DEF ImageInv
    <3>3. file' = WriteAt(file, pos[d] + 1, a[pos[d] + 1])
      BY <1>6 DEF CutWrite
    <3> QED BY <2>1, <3>2, <3>3, WriteNext
  <2> QED BY <2>1, <2>2, <2>3, <2>4, <2>5 DEF ImageInv, Booting
<1>7. CASE CutFail(d)
  BY <1>0, <1>7 DEF DriverTypeOK, ImageInv, CutFail, Goto, Booting
<1>8. CASE CutDone(d)
  <2>1. cmd[d].test \in Tests
    BY <1>0, <1>8 DEF DriverTypeOK, CutDone, Cutting
  <2>2. a \in Images
    BY <2>1, ArchiveImage
  <2>3. a = [k \in 1..Len(a) |-> a[k]]
    BY <2>2 DEF Images
  <2>4. pc[d] = "write" /\ pos[d] = Len(a) /\ pc'[d] = "done"
        /\ UNCHANGED <<file, cmd, alone>>
    BY <1>0, <1>8 DEF DriverTypeOK, CutDone, Goto
  <2> QED BY <1>0, <2>3, <2>4 DEF ImageInv, Booting
<1>9. CASE CutReturns(d)
  <2>1. cmd[d].op = "cut"
    BY <1>0, <1>9 DEF DriverTypeOK, CutReturns, Cutting
  <2> QED BY <1>0, <1>9, <2>1 DEF DriverTypeOK, ImageInv, CutReturns, Goto, Booting
<1>10. CASE BootOpen(d)
  BY <1>0, <1>10 DEF DriverTypeOK, ImageInv, BootOpen, Goto, Booting
<1>11. CASE Walk(d)
  <2>1. /\ pc[d] = "walk" /\ pc'[d] \in {"walk", "spawn", "idle"}
        /\ UNCHANGED <<file, cmd, alone, before>>
    BY <1>0, <1>11 DEF DriverTypeOK, Walk, Goto
  <2> QED BY <1>0, <2>1 DEF ImageInv, Booting
<1>12. CASE Spawn(d)
  BY <1>0, <1>12 DEF DriverTypeOK, ImageInv, Spawn, Goto, Booting
<1>13. CASE VmExit(d)
  BY <1>0, <1>13 DEF DriverTypeOK, ImageInv, VmExit, Goto, Booting
<1> QED
  BY <1>1, <1>2, <1>3, <1>4, <1>5, <1>6, <1>7, <1>8, <1>9, <1>10, <1>11, <1>12, <1>13
  DEF Next, Step

(* Every step keeps the invariant.                                         *)
LEMMA StepIInv == IInv /\ [Next]_vars => IInv'
  BY TypeStep, ImageStep DEF IInv

(* "rapido cut" boots the whole of its test's archive, "rapido boot" the   *)
(* image it found, if nobody else wrote it since the command began:        *)
(* cpio_out_open() truncates, each write appends, and rapido_cut() boots   *)
(* after a status of 0 only.                                               *)
THEOREM OwnImageBooted == Spec => []OwnImage
<1>1. IInv => OwnImage
  BY DEF IInv, ImageInv, OwnImage
<1> QED
  BY <1>1, InitIInv, StepIInv, PTL DEF Spec

-----------------------------------------------------------------------------
(* The first n entries of img ask for the value v of k.                    *)
Asked(img, n, k, v) ==
  \/ v = Defaults[k] /\ \A i \in 1..n : img[i].sets # k
  \/ \E i \in 1..n : /\ img[i].sets = k /\ img[i].val = v
                     /\ \A j \in 1..n : i < j => img[j].sets # k
AllAsked(img, n, r) == \A k \in Rscs : Asked(img, n, k, r[k])
IsPart(img) == \E t \in Tests : IsPartOf(img, t)

(* What the walk has seen so far, and that it has seen enough at its end.  *)
RscInv(d) ==
  alone[d] =>
    /\ pc[d] = "walk" /\ IsPart(file) =>
         /\ at[d] <= Len(file) /\ AllAsked(file, at[d], rscs[d])
         /\ in_rapido_rsc_path[d] => \E i \in 1..at[d] : IsRsc(file[i])
    /\ pc[d] = "spawn" /\ IsPart(file) => AllAsked(file, Len(file), rscs[d])
    /\ pc[d] = "vm" /\ IsPart(vm[d]) => AllAsked(vm[d], Len(vm[d]), rscs[d])

(* Once all of an image is walked, the value kept is that of its last      *)
(* entry.                                                                  *)
LEMMA AskedLast ==
  ASSUME NEW img \in Images, NEW k \in Rscs, NEW v, Asked(img, Len(img), k, v)
  PROVE  Last(img, k) = v
<1> DEFINE S == {i \in DOMAIN img : img[i].sets = k}
<1>1. DOMAIN img = 1..Len(img) /\ Len(img) \in Nat
  BY DEF Images
<1>2. CASE v = Defaults[k] /\ \A i \in 1..Len(img) : img[i].sets # k
  <2>1. S = {}
    BY <1>1, <1>2
  <2> QED BY <1>2, <2>1 DEF Last
<1>3. ASSUME NEW i \in 1..Len(img), img[i].sets = k, img[i].val = v,
             \A j \in 1..Len(img) : i < j => img[j].sets # k
      PROVE  Last(img, k) = v
  <2>1. i \in S /\ \A j \in S : j <= i
    BY <1>1, <1>3
  <2>2. \A m \in S : (\A j \in S : j <= m) => m = i
    BY <1>1, <2>1
  <2>3. (CHOOSE m \in S : \A j \in S : j <= m) = i
    BY <2>1, <2>2
  <2> QED BY <1>3, <2>1, <2>3 DEF Last
<1> QED BY <1>2, <1>3 DEF Asked

(* Defaults, before the first entry.                                       *)
LEMMA AskedNone == ASSUME NEW img PROVE AllAsked(img, 0, Defaults)
  BY DEF AllAsked, Asked

(* One more entry.                                                         *)
LEMMA AskedNext ==
  ASSUME NEW img, NEW n \in Nat, NEW r \in [Rscs -> Nat], AllAsked(img, n, r)
  PROVE  AllAsked(img, n + 1, vm_resource_line_process(img[n + 1], r))
<1> DEFINE e == img[n + 1]
           q == vm_resource_line_process(e, r)
<1> SUFFICES ASSUME NEW k \in Rscs PROVE Asked(img, n + 1, k, q[k])
  BY DEF AllAsked
<1>0. Asked(img, n, k, r[k])
  BY DEF AllAsked
<1>1. CASE e.sets = k
  <2>1. q[k] = e.val
    BY <1>1 DEF vm_resource_line_process
  <2>2. n + 1 \in 1..(n + 1) /\ \A j \in 1..(n + 1) : ~(n + 1 < j)
    OBVIOUS
  <2> HIDE DEF q
  <2> QED BY <1>1, <2>1, <2>2 DEF Asked
<1>2. CASE e.sets # k
  <2>1. q[k] = r[k]
    BY <1>2 DEF vm_resource_line_process
  <2>2. \A j \in 1..(n + 1) : j \in 1..n \/ j = n + 1
    OBVIOUS
  <2>3. 1..n \subseteq 1..(n + 1)
    OBVIOUS
  <2> HIDE DEF q
  <2> QED BY <1>0, <1>2, <2>1, <2>2, <2>3 DEF Asked
<1> QED BY <1>1, <1>2

(* Entries past n that set nothing do not matter.                          *)
LEMMA AskedEnd ==
  ASSUME NEW img, NEW n \in Nat, NEW m \in Nat, n <= m, NEW r, AllAsked(img, n, r),
         \A j \in 1..m : n < j => img[j].sets \notin Rscs
  PROVE  AllAsked(img, m, r)
<1> SUFFICES ASSUME NEW k \in Rscs PROVE Asked(img, m, k, r[k])
  BY DEF AllAsked
<1>1. Asked(img, n, k, r[k])
  BY DEF AllAsked
<1>2. \A j \in 1..m : j \in 1..n \/ img[j].sets # k
  OBVIOUS
<1>3. 1..n \subseteq 1..m
  OBVIOUS
<1> QED BY <1>1, <1>2, <1>3 DEF Asked

(* In a part of an archive nothing follows the trailer, and no rapido-rsc/ *)
(* entry follows an entry that is none and comes after one that is.        *)
LEMMA PartEnd ==
  ASSUME NEW img \in Images, IsPart(img), NEW n \in 1..Len(img),
         \/ img[n].sets = "trailer"
         \/ ~IsRsc(img[n]) /\ \E i \in 1..(n - 1) : IsRsc(img[i])
  PROVE  \A j \in 1..Len(img) : n <= j => img[j].sets \notin Rscs
<1>1. PICK t \in Tests : IsPartOf(img, t)
  BY DEF IsPart
<1> DEFINE a == Archive[t]
<1>2. Len(img) \in Nat
  BY DEF Images
<1>3. a \in Images
  BY ArchiveImage
<1>4. DOMAIN a = 1..Len(a) /\ Len(a) \in Nat
  BY <1>3 DEF Images
<1>5. Len(img) <= Len(a) /\ \A i \in 1..Len(img) : img[i] = a[i]
  BY <1>1 DEF IsPartOf
<1>6. /\ \A i, j, k \in DOMAIN a : i < j /\ j < k /\ IsRsc(a[i]) /\ IsRsc(a[k]) => IsRsc(a[j])
      /\ \A i \in DOMAIN a : a[i].sets = "trailer" => i = Len(a)
  BY DriverAssumption
<1> HIDE DEF a
<1> SUFFICES ASSUME NEW j \in 1..Len(img), n <= j, img[j].sets \in Rscs PROVE FALSE
  OBVIOUS
<1>7. IsRsc(img[j])
  BY DEF IsRsc
<1>8. CASE img[n].sets = "trailer"
  <2>0. n \in DOMAIN a /\ a[n] = img[n]
    BY <1>2, <1>4, <1>5
  <2>1. n = Len(a)
    BY <1>6, <1>8, <2>0
  <2>2. j \in Nat /\ n \in Nat /\ j <= Len(img) /\ Len(img) <= n
    BY <1>2, <1>5, <2>1
  <2>3. j = n
    BY <1>2, <2>2
  <2> QED BY <1>8, <2>3 DEF Rscs
<1>9. ASSUME ~IsRsc(img[n]), NEW i \in 1..(n - 1), IsRsc(img[i]) PROVE FALSE
  <2>1. j # n
    BY <1>7, <1>9
  <2>2. i \in DOMAIN a /\ n \in DOMAIN a /\ j \in DOMAIN a /\ i < n /\ n < j
    BY <1>2, <1>4, <1>5, <2>1
  <2>3. IsRsc(a[i]) /\ IsRsc(a[j]) /\ ~IsRsc(a[n])
    BY <1>2, <1>5, <1>7, <1>9
  <2> QED BY <1>6, <2>2, <2>3
<1> QED BY <1>8, <1>9

-----------------------------------------------------------------------------
(* What RscInv says of the next state, in terms of the next values.        *)
LEMMA RscPrimed ==
  ASSUME NEW d \in Drivers
  PROVE  /\ IsPart(file)' <=> IsPart(file')
         /\ IsPart(vm[d])' <=> IsPart(vm'[d])
         /\ AllAsked(file, at[d], rscs[d])' <=> AllAsked(file', at'[d], rscs'[d])
         /\ AllAsked(file, Len(file), rscs[d])' <=> AllAsked(file', Len(file'), rscs'[d])
         /\ AllAsked(vm[d], Len(vm[d]), rscs[d])'
              <=> AllAsked(vm'[d], Len(vm'[d]), rscs'[d])
<1>1. IsPart(file)' <=> IsPart(file')
  BY DEF IsPart, IsPartOf
<1>2. IsPart(vm[d])' <=> IsPart(vm'[d])
  BY DEF IsPart, IsPartOf
<1>3. AllAsked(file, at[d], rscs[d])' <=> AllAsked(file', at'[d], rscs'[d])
  BY DEF AllAsked, Asked
<1>4. AllAsked(file, Len(file), rscs[d])' <=> AllAsked(file', Len(file'), rscs'[d])
  BY DEF AllAsked, Asked
<1>5. AllAsked(vm[d], Len(vm[d]), rscs[d])'
        <=> AllAsked(vm'[d], Len(vm'[d]), rscs'[d])
  BY DEF AllAsked, Asked
<1> QED BY <1>1, <1>2, <1>3, <1>4, <1>5

(* One entry of the loop of vm_resources_get().                            *)
LEMMA RscWalk ==
  ASSUME IInv, NEW d \in Drivers, RscInv(d), Walk(d) PROVE RscInv(d)'
<1> DEFINE e == file[at[d] + 1]
           n == at[d]
<1>0. /\ pc[d] = "walk" /\ file \in Images /\ n \in Nat /\ rscs[d] \in [Rscs -> Nat]
      /\ UNCHANGED <<file, alone, vm>>
  BY DEF IInv, DriverTypeOK, Walk
<1>1. Len(file) \in Nat
  BY <1>0 DEF Images
<1> SUFFICES ASSUME alone[d], pc'[d] \in {"walk", "spawn"}, IsPart(file)
             PROVE  /\ pc'[d] = "walk" =>
                         /\ at'[d] <= Len(file) /\ AllAsked(file, at'[d], rscs'[d])
                         /\ in_rapido_rsc_path'[d] =>
                              \E i \in 1..at'[d] : IsRsc(file[i])
                    /\ pc'[d] = "spawn" => AllAsked(file, Len(file), rscs'[d])
  <2>1. pc'[d] \in {"walk", "spawn", "idle"}
    BY DEF IInv, DriverTypeOK, Walk, Goto
  <2> QED BY <1>0, <2>1, RscPrimed DEF RscInv
<1>2. /\ n <= Len(file) /\ AllAsked(file, n, rscs[d])
      /\ in_rapido_rsc_path[d] => \E i \in 1..n : IsRsc(file[i])
  BY <1>0 DEF RscInv
<1>3. CASE WalkEnd(d) /\ Goto(d, "spawn") /\ UNCHANGED bootVars
  <2>1. rscs' = rscs /\ pc'[d] = "spawn"
    BY <1>3 DEF bootVars, IInv, DriverTypeOK, Goto
  <2>2. CASE n < Len(file)
    <3>1. n + 1 \in 1..Len(file) /\ file[n + 1].sets = "trailer"
      BY <1>0, <1>1, <1>3, <2>2 DEF WalkEnd
    <3>2. \A j \in 1..Len(file) : n + 1 <= j => file[j].sets \notin Rscs
      BY <1>0, <3>1, PartEnd
    <3>3. \A j \in 1..Len(file) : n < j => file[j].sets \notin Rscs
      BY <1>0, <1>1, <3>2
    <3>4. AllAsked(file, Len(file), rscs[d])
      BY <1>0, <1>1, <1>2, <3>3, AskedEnd
    <3> QED BY <2>1, <3>4
  <2>3. CASE n = Len(file)
    BY <1>2, <2>1, <2>3
  <2> QED BY <1>0, <1>1, <1>2, <2>2, <2>3
<1>4. CASE ~WalkEnd(d) /\ n < Len(file)
  <2>1. /\ at'[d] = n + 1
        /\ rscs'[d] = vm_resource_line_process(e, rscs[d])
        /\ pc'[d] = IF e.sets \in {"hole", "bad"} THEN "idle"
                    ELSE IF LeavesRsc(d, e) THEN "spawn" ELSE "walk"
    BY <1>4 DEF IInv, DriverTypeOK, Walk, Goto
  <2>2. in_rapido_rsc_path'[d] => in_rapido_rsc_path[d] \/ IsRsc(e)
    BY <1>4 DEF IInv, DriverTypeOK, Walk
  <2>3. n + 1 \in 1..Len(file) /\ n + 1 <= Len(file) /\ n + 1 \in Nat
    BY <1>0, <1>1, <1>4
  <2>4. AllAsked(file, n + 1, rscs'[d])
    BY <1>0, <1>2, <2>1, AskedNext
  <2>5. in_rapido_rsc_path'[d] => \E i \in 1..(n + 1) : IsRsc(file[i])
    <3>1. 1..n \subseteq 1..(n + 1) /\ n + 1 \in 1..(n + 1)
      BY <1>0
    <3>2. e = file[n + 1]
      OBVIOUS
    <3> HIDE DEF n, e
    <3> QED BY <1>2, <2>2, <3>1, <3>2
  <2>6. ASSUME LeavesRsc(d, e) PROVE AllAsked(file, Len(file), rscs'[d])
    <3>1. ~IsRsc(file[n + 1]) /\ \E i \in 1..((n + 1) - 1) : IsRsc(file[i])
      <4>1. (n + 1) - 1 = n
        BY <1>0
      <4>2. ~IsRsc(e) /\ in_rapido_rsc_path[d]
        BY <2>6 DEF LeavesRsc
      <4> QED BY <1>2, <4>1, <4>2
    <3>2. \A j \in 1..Len(file) : n + 1 <= j => file[j].sets \notin Rscs
      BY <1>0, <2>3, <3>1, PartEnd
    <3>3. \A j \in 1..Len(file) : n + 1 < j => file[j].sets \notin Rscs
      BY <1>0, <1>1, <3>2
    <3> QED BY <1>1, <2>3, <2>4, <3>3, AskedEnd
  <2> HIDE DEF e, n
  <2> QED BY <2>1, <2>3, <2>4, <2>5, <2>6
<1> QED
  BY <1>3, <1>4 DEF Walk

(* A step of any driver keeps what d knows of its resources while it is    *)
(* alone.                                                                  *)
LEMMA RscStep ==
  ASSUME IInv, [Next]_vars, NEW d \in Drivers, RscInv(d) PROVE RscInv(d)'
<1>0. DriverTypeOK
  BY DEF IInv
<1>1. ASSUME /\ alone'[d] => alone[d] /\ file' = file
             /\ pc'[d] = pc[d] /\ vm'[d] = vm[d]
             /\ at'[d] = at[d] /\ rscs'[d] = rscs[d]
             /\ in_rapido_rsc_path'[d] = in_rapido_rsc_path[d]
      PROVE  RscInv(d)'
  BY <1>1, RscPrimed DEF RscInv
<1>2. CASE UNCHANGED vars
  BY <1>1, <1>2 DEF vars
<1>3. ASSUME NEW e \in Drivers, e # d,
             Step(e) \/ VmExit(e) \/ \E c \in Commands : Begin(e, c)
      PROVE  RscInv(d)'
  <2>1. pc'[d] = pc[d] /\ vm'[d] = vm[d]
    BY <1>0, <1>3 DEF DriverTypeOK, Step, VmExit, Begin, Goto, CutRefused, CutOpen,
       CutWrite, CutFail, CutDone, CutReturns, BootOpen, Walk, Spawn
  <2>2. alone'[d] => alone[d] /\ file' = file
    BY <1>0, <1>3 DEF DriverTypeOK, Step, VmExit, Begin, Wrote, CutRefused, CutOpen,
       CutWrite, CutFail, CutDone, CutReturns, BootOpen, Walk, Spawn
  <2>3. at'[d] = at[d] /\ rscs'[d] = rscs[d]
        /\ in_rapido_rsc_path'[d] = in_rapido_rsc_path[d]
    BY <1>0, <1>3 DEF DriverTypeOK, Step, VmExit, Begin, CutRefused, CutOpen, CutWrite,
       CutFail, CutDone, CutReturns, BootOpen, Walk, Spawn, bootVars
  <2> QED BY <1>1, <2>1, <2>2, <2>3
<1>4. CASE \/ CutRefused(d) \/ CutOpen(d) \/ CutWrite(d) \/ CutFail(d) \/ CutDone(d)
           \/ CutReturns(d) \/ VmExit(d) \/ \E c \in Commands : Begin(d, c)
  <2>1. pc'[d] \notin {"walk", "spawn", "vm"}
    BY <1>0, <1>4 DEF DriverTypeOK, CutRefused, CutOpen, CutWrite, CutFail, CutDone,
       CutReturns, VmExit, Begin, Goto
  <2> QED BY <2>1 DEF RscInv
<1>5. CASE BootOpen(d)
  <2>1. /\ pc'[d] \in {"walk", "idle"} /\ at'[d] = 0 /\ rscs'[d] = Defaults
        /\ in_rapido_rsc_path'[d] = FALSE /\ file' = file
        /\ pc'[d] = "walk" => file \in Images
    BY <1>0, <1>5 DEF DriverTypeOK, BootOpen, Goto
  <2>2. file \in Images => 0 <= Len(file)
    BY DEF Images
  <2>3. AllAsked(file', at'[d], rscs'[d])
    BY <2>1, AskedNone
  <2> QED BY <2>1, <2>2, <2>3 DEF RscInv
<1>6. CASE Walk(d)
  BY <1>6, RscWalk
<1>7. CASE Spawn(d)
  <2>1. pc[d] = "spawn" /\ pc'[d] = "vm" /\ vm'[d] = file
        /\ UNCHANGED <<rscs, alone>>
    BY <1>0, <1>7 DEF DriverTypeOK, Spawn, Goto, bootVars
  <2> QED BY <2>1, RscPrimed DEF RscInv
<1> QED
  BY <1>2, <1>3, <1>4, <1>5, <1>6, <1>7 DEF Next, Step

(* The VM of a driver that nobody interferes with has the resources its    *)
(* image asks for, although vm_resources_get() stops early: rapido-rsc/    *)
(* entries are placed together.                                            *)
THEOREM ResourcesFound == Spec => []ResourcesMatch
<1> DEFINE RInv == \A d \in Drivers : RscInv(d)
<1>1. Init => RInv
  BY DEF Init, RscInv
<1>2. IInv /\ RInv /\ [Next]_vars => RInv'
  BY RscStep
<1>3. IInv /\ RInv => ResourcesMatch
  <2> SUFFICES ASSUME IInv, RInv, NEW d \in Drivers, pc[d] = "vm", alone[d],
                      IsPart(vm[d])
               PROVE  rscs[d] = Wanted(vm[d])
    BY DEF ResourcesMatch, IsPart
  <2>1. vm[d] \in Images /\ rscs[d] \in [Rscs -> Nat]
    BY DEF IInv, DriverTypeOK
  <2>2. \A k \in Rscs : Asked(vm[d], Len(vm[d]), k, rscs[d][k])
    BY DEF RscInv, AllAsked
  <2>3. \A k \in Rscs : Last(vm[d], k) = rscs[d][k]
    BY <2>1, <2>2, AskedLast
  <2> QED BY <2>1, <2>3 DEF Wanted
<1> HIDE DEF RInv
<1> QED
  BY <1>1, <1>2, <1>3, InitIInv, StepIInv, PTL DEF Spec
=============================================================================
