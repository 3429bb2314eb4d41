------------------------------ MODULE BootProofs ------------------------------
(***************************************************************************)
(* Boot's invariants for every configuration, kernel and net-conf.         *)
(*                                                                         *)
(* They follow from one inductive invariant: what rapido-cut put in the    *)
(* image (ImageMade), what rapido-vm wrote on the kernel command line      *)
(* (CmdlineSays), and what rapido-init has established at each stage.      *)
(***************************************************************************)
EXTENDS Boot, FiniteSetTheorems, SequenceTheorems, WellFoundedInduction, TLAPS

(* A leaf that names no prover is tried with Zenon, then with SMT.         *)
USE Zenon, SMTT(20)

(* An image and what rapido-cut saw when it made it: the modules are of    *)
(* the release in the image, and with the ones built in they are all that  *)
(* rapido-init will ask for; the programs it cannot do without are there.  *)
NetBins == {"udevadm", "systemd-udevd", "wait-online"}
NetKmods == {"virtio_net", "af_packet"}
Asked(c, hasnet) == conf_kmod_deps(c) \union (IF hasnet THEN NetKmods ELSE {})
ImageMade(im, s) ==
  /\ s[1] \in Confs /\ s[2] \in Trees /\ s[3] \in Hosts
  /\ im.conf = s[1]
  /\ im.krel = conf_src_or_host_kernel_vers(s[1], s[2], s[3])
  /\ im.krel \in DOMAIN Kernels
  /\ im.kmods \subseteq Kernels[im.krel].files
  /\ Asked(im.conf, im.hasnet) \subseteq Kernels[im.krel].builtin \union im.kmods
  /\ {"mount", "setsid", "modprobe"} \subseteq im.bins
  /\ im.hasnet => NetBins \subseteq im.bins

(* The kernel QEMU was given: its modules, and its release if nothing      *)
(* changed since the cut.                                                  *)
KernelGiven ==
  /\ kernel.rel \in DOMAIN Kernels
  /\ kernel.builtin = Kernels[kernel.rel].builtin
  /\ ~vm.stale => kernel.rel = img.krel

(* What kcli_parse() will find on the command line.                        *)
CmdlineSays ==
  /\ LastWord(cmdline, "vm_num", None) = Given("vm_num", None, vm.num)
  /\ LastWord(cmdline, "hostname", None) = Given("hostname", None, vm.host)
  /\ IsKparams(vm.kparams)
  /\ \A t \in DOMAIN vm.nics :
       /\ \E i \in DOMAIN cmdline : cmdline[i].k = "mac" /\ cmdline[i].t = t
       /\ LastWord(cmdline, "mac", t) = Given("mac", t, vm.nics[t])

(* The stages of init_main(), by what has been done when they begin.       *)
Mounted ==
  {"modprobe", "virtfs", "cmdline", "hostname", "netconf", "systemd", "machine_id",
   "udevd", "udevadm", "networkd", "wait", "setsid", "shell"}
Parsed == Mounted \ {"modprobe", "virtfs", "cmdline"}
Named == Parsed \ {"hostname"}
Matched == Named \ {"netconf"}
OnlyNet == {"netconf", "machine_id", "udevd", "udevadm", "networkd", "wait"}

Stages ==
  /\ gpc \in Mounted => mounts = Len(MountTable)
  /\ gpc \in Parsed => args = kcli_parse(cmdline)
  /\ gpc \in Matched /\ img.hasnet => macs = MatchMacs
  /\ gpc \in OnlyNet => img.hasnet
  /\ gpc = "systemd" => img.systemd
  /\ gpc \in {"setsid", "shell"} /\ img.hasnet => online
  /\ gpc \in {"off", "conf", "mount", "modprobe", "virtfs", "cmdline"} => hostname = None
  /\ hostname # None => args = kcli_parse(cmdline)
                        /\ hostname = IF args.hostname = None
                                      THEN <<"rapido", args.vm_num>> ELSE args.hostname

(* The inductive invariant.                                                *)
BootInv ==
  /\ TypeOK
  /\ conf \in Confs /\ tree \in Trees /\ host \in Hosts
  /\ gpc = "off" => hostname = None
  /\ hpc = "cut" => gpc = "off" /\ ImageMade(image, seen)
  /\ hpc = "idle" => gpc = "off"
  /\ gpc # "off" => /\ ImageMade(img, seen) /\ KernelGiven /\ CmdlineSays
                    /\ Stages /\ NoPanic

-----------------------------------------------------------------------------
(* The last word of a key.                                                 *)

(* A set of natural numbers has a least element ...                        *)
LEMMA LeastNat ==
  ASSUME NEW T, T \subseteq Nat, T # {}
  PROVE  \E x \in T : \A y \in T : x <= y
<1> DEFINE R == OpToRel(<, Nat)
<1>1. IsWellFoundedOn(R, Nat)
  BY NatLessThanWellFounded
<1>2. \A x, y \in Nat : y < x => <<y, x>> \in R
  BY DEF OpToRel
<1> HIDE DEF R
<1>3. PICK x \in T : \A y \in T : ~(<<y, x>> \in R)
  BY <1>1, WFMin
<1>4. \A y \in T : ~(y < x)
  BY <1>2, <1>3
<1>5. \A y \in T : x <= y
  BY <1>3, <1>4
<1> QED
  BY <1>5

(* ... and a bounded one has a greatest: the word that LastWord() picks    *)
(* exists.                                                                 *)
LEMMA GreatestIndex ==
  ASSUME NEW n \in Nat, NEW S, S \subseteq 1..n, S # {}
  PROVE  \E x \in S : \A y \in S : y <= x
<1> DEFINE T == {i \in 0..n : n - i \in S}
<1>1. T \subseteq Nat /\ T # {}
  <2>1. PICK x \in S : TRUE
    OBVIOUS
  <2>2. x \in 1..n /\ n - x \in 0..n /\ n - (n - x) = x
    BY <2>1
  <2>3. n - x \in T
    BY <2>1, <2>2
  <2>4. T \subseteq Nat
    OBVIOUS
  <2> QED
    BY <2>3, <2>4
<1>2. PICK i \in T : \A j \in T : i <= j
  BY <1>1, LeastNat
<1>3. n - i \in S
  BY <1>2
<1>4. \A y \in S : y <= n - i
  <2> TAKE y \in S
  <2>1. y \in 1..n /\ n - y \in 0..n /\ n - (n - y) = y
    OBVIOUS
  <2>2. i <= n - y
    BY <1>2, <2>1
  <2> QED
    BY <1>2, <2>1, <2>2
<1> QED
  BY <1>3, <1>4

(* The words of key k and tap t.                                           *)
WordsOf(ws, k, t) == {i \in DOMAIN ws : ws[i].k = k /\ ws[i].t = t}

(* LastWord() is the value of the word after which there is no other of    *)
(* its key.                                                                *)
LEMMA LastWordIs ==
  ASSUME NEW S, NEW ws \in Seq(S), NEW k, NEW t, NEW m \in WordsOf(ws, k, t),
         \A j \in WordsOf(ws, k, t) : j <= m
  PROVE  LastWord(ws, k, t) = ws[m].v
<1> DEFINE at == {i \in DOMAIN ws : ws[i].k = k /\ ws[i].t = t}
<1> DEFINE c == CHOOSE i \in at : \A j \in at : i >= j
<1>1. at = WordsOf(ws, k, t)
  BY DEF WordsOf
<1>2. m \in at /\ at \subseteq Int /\ \A j \in at : m >= j
  BY <1>1
<1> HIDE DEF at
<1>3. c \in at /\ \A j \in at : c >= j
  BY <1>2
<1> HIDE DEF c
<1>4. c = m
  BY <1>2, <1>3
<1>5. at # {}
  BY <1>2
<1> QED
  BY <1>4, <1>5 DEF LastWord, at, c

(* It is there when some word is.                                          *)
LEMMA LastWordExists ==
  ASSUME NEW S, NEW ws \in Seq(S), NEW k, NEW t, WordsOf(ws, k, t) # {}
  PROVE  \E m \in WordsOf(ws, k, t) :
           /\ \A j \in WordsOf(ws, k, t) : j <= m
           /\ LastWord(ws, k, t) = ws[m].v
<1>1. Len(ws) \in Nat /\ WordsOf(ws, k, t) \subseteq 1..Len(ws)
  BY DEF WordsOf
<1>2. PICK m \in WordsOf(ws, k, t) : \A j \in WordsOf(ws, k, t) : j <= m
  BY <1>1, GreatestIndex
<1>3. LastWord(ws, k, t) = ws[m].v
  BY <1>2, LastWordIs
<1> QED
  BY <1>2, <1>3

(* When all words of a key say the same, so does the last.                 *)
LEMMA LastWordOfSame ==
  ASSUME NEW S, NEW ws \in Seq(S), NEW k, NEW t, NEW v,
         WordsOf(ws, k, t) # {}, \A j \in WordsOf(ws, k, t) : ws[j].v = v
  PROVE  LastWord(ws, k, t) = v
BY LastWordExists

(* Words that are appended go before the ones that are there.              *)
LEMMA LastWordOfConcat ==
  ASSUME NEW S, NEW a \in Seq(S), NEW b \in Seq(S), NEW k, NEW t
  PROVE  LastWord(a \o b, k, t) =
           IF WordsOf(b, k, t) # {} THEN LastWord(b, k, t) ELSE LastWord(a, k, t)
<1> DEFINE c == a \o b
<1>1. /\ c \in Seq(S) /\ Len(c) = Len(a) + Len(b)
      /\ DOMAIN c = 1..(Len(a) + Len(b)) /\ DOMAIN a = 1..Len(a) /\ DOMAIN b = 1..Len(b)
      /\ Len(a) \in Nat /\ Len(b) \in Nat
      /\ \A i \in 1..Len(a) : c[i] = a[i]
      /\ \A i \in 1..Len(b) : c[Len(a) + i] = b[i]
  OBVIOUS
<1> HIDE DEF c
<1>2. CASE WordsOf(b, k, t) # {}
  <2>1. PICK m \in WordsOf(b, k, t) :
          /\ \A j \in WordsOf(b, k, t) : j <= m
          /\ LastWord(b, k, t) = b[m].v
    BY <1>2, LastWordExists
  <2>2. m \in 1..Len(b) /\ b[m].k = k /\ b[m].t = t
    BY <1>1, <2>1 DEF WordsOf
  <2>3. Len(a) + m \in WordsOf(c, k, t) /\ c[Len(a) + m] = b[m]
    BY <1>1, <2>2 DEF WordsOf
  <2>4. \A j \in WordsOf(c, k, t) : j <= Len(a) + m
    <3> SUFFICES ASSUME NEW j \in WordsOf(c, k, t), j > Len(a)
                 PROVE  j <= Len(a) + m
      BY <1>1, <2>2 DEF WordsOf
    <3>1. j \in 1..(Len(a) + Len(b)) /\ c[j].k = k /\ c[j].t = t
      BY <1>1 DEF WordsOf
    <3>2. j - Len(a) \in 1..Len(b) /\ Len(a) + (j - Len(a)) = j
      BY <1>1, <3>1
    <3>3. c[j] = b[j - Len(a)]
      BY <1>1, <3>2
    <3>4. j - Len(a) \in WordsOf(b, k, t)
      BY <1>1, <3>1, <3>2, <3>3 DEF WordsOf
    <3>5. j - Len(a) <= m
      BY <2>1, <3>4
    <3> QED
      BY <1>1, <2>2, <3>1, <3>5
  <2>5. LastWord(c, k, t) = c[Len(a) + m].v
    BY <1>1, <2>3, <2>4, LastWordIs
  <2> QED
    BY <1>2, <2>1, <2>3, <2>5 DEF c
<1>3. CASE WordsOf(b, k, t) = {}
  <2>1. \A j \in DOMAIN c : j \in 1..Len(a) \/ (j - Len(a) \in 1..Len(b) /\ c[j] = b[j - Len(a)])
    <3> SUFFICES ASSUME NEW j \in 1..(Len(a) + Len(b)), j > Len(a)
                 PROVE  j - Len(a) \in 1..Len(b) /\ c[j] = b[j - Len(a)]
      BY <1>1
    <3>1. j - Len(a) \in 1..Len(b) /\ Len(a) + (j - Len(a)) = j
      BY <1>1
    <3> QED
      BY <1>1, <3>1
  <2>2. WordsOf(c, k, t) = WordsOf(a, k, t)
    BY <1>1, <1>3, <2>1 DEF WordsOf
  <2>3. CASE WordsOf(a, k, t) = {}
    BY <1>3, <2>2, <2>3 DEF LastWord, WordsOf, c
  <2>4. CASE WordsOf(a, k, t) # {}
    <3>1. PICK m \in WordsOf(a, k, t) :
            /\ \A j \in WordsOf(a, k, t) : j <= m
            /\ LastWord(a, k, t) = a[m].v
      BY <2>4, LastWordExists
    <3>2. LastWord(c, k, t) = c[m].v
      BY <1>1, <2>2, <3>1, LastWordIs
    <3>3. c[m] = a[m]
      BY <1>1, <3>1 DEF WordsOf
    <3> QED
      BY <1>3, <3>1, <3>2, <3>3 DEF c
  <2> QED
    BY <2>3, <2>4
<1> QED
  BY <1>2, <1>3

(* The words of rapido-vm for number n, host name h and devices nics, read *)
(* in some order, and those of the user after them.                        *)
Written(n, h, nics, order, ps) ==
  <<Word("vm_num", None, n), Word("machine_id", None, n)>>
  \o (IF h = None THEN <<>> ELSE <<Word("hostname", None, h)>>)
  \o [i \in DOMAIN order |-> Word("mac", order[i], nics[order[i]])]
  \o ps
IsOrder(order, c, S) ==
  /\ order \in [1..c -> S]
  /\ \A t \in S : \E i \in DOMAIN order : order[i] = t

(* Words ws say what the words ps of the user say, and where there is none *)
(* what rapido-vm does.                                                    *)
Says(ws, n, h, nics, ps) ==
  /\ LastWord(ws, "vm_num", None) =
       IF WordsOf(ps, "vm_num", None) # {} THEN LastWord(ps, "vm_num", None) ELSE n
  /\ LastWord(ws, "hostname", None) =
       IF WordsOf(ps, "hostname", None) # {} THEN LastWord(ps, "hostname", None) ELSE h
  /\ \A t \in DOMAIN nics :
       /\ WordsOf(ws, "mac", t) # {}
       /\ LastWord(ws, "mac", t) =
            IF WordsOf(ps, "mac", t) # {} THEN LastWord(ps, "mac", t) ELSE nics[t]

(* That is what kcli_parse() finds on the command line.                    *)
LEMMA CmdlineWords ==
  ASSUME NEW n, NEW h, NEW nics, NEW c \in Nat, NEW order,
         IsOrder(order, c, DOMAIN nics), NEW P, NEW ps \in Seq(P)
  PROVE  Says(Written(n, h, nics, order, ps), n, h, nics, ps)
<1> DEFINE a == <<Word("vm_num", None, n), Word("machine_id", None, n)>>
                \o (IF h = None THEN <<>> ELSE <<Word("hostname", None, h)>>)
           m == [i \in DOMAIN order |-> Word("mac", order[i], nics[order[i]])]
           S == {a[i] : i \in DOMAIN a} \union {m[i] : i \in DOMAIN m} \union P
           ws == Written(n, h, nics, order, ps)
<1>0. order \in [1..c -> DOMAIN nics]
      /\ \A t \in DOMAIN nics : \E i \in DOMAIN order : order[i] = t
  BY DEF IsOrder
<1>1. a \in Seq(S) /\ m \in Seq(S) /\ ps \in Seq(S)
  <2>1. ps \in Seq(S)
    BY SeqMonotonic
  <2>2. m \in Seq(S)
    <3>1. c \in Nat /\ DOMAIN m = 1..c /\ \A i \in 1..c : m[i] \in S
      BY <1>0
    <3> HIDE DEF S
    <3> QED
      BY <3>1, IsASeq
  <2>3. a \in Seq(S)
    <3> DEFINE T == {Word("vm_num", None, n), Word("machine_id", None, n),
                     Word("hostname", None, h)}
    <3>1. <<Word("vm_num", None, n), Word("machine_id", None, n)>> \in Seq(T)
      OBVIOUS
    <3>2. (IF h = None THEN <<>> ELSE <<Word("hostname", None, h)>>) \in Seq(T)
      <4>1. CASE h = None
        BY <4>1
      <4>2. CASE h # None
        BY <4>2
      <4> QED
        BY <4>1, <4>2
    <3>3. a \in Seq(T)
      BY <3>1, <3>2, ConcatProperties
    <3>4. a \in Seq({a[i] : i \in DOMAIN a})
      <4> HIDE DEF a, T
      <4> QED
        BY <3>3
    <3>5. {a[i] : i \in DOMAIN a} \subseteq S
      OBVIOUS
    <3> HIDE DEF a, S
    <3> QED
      BY <3>4, <3>5, SeqMonotonic
  <2> QED
    BY <2>1, <2>2, <2>3
<1>2. /\ DOMAIN a = IF h = None THEN 1..2 ELSE 1..3
      /\ a[1] = Word("vm_num", None, n) /\ a[2] = Word("machine_id", None, n)
      /\ h # None => a[3] = Word("hostname", None, h)
  <2>1. CASE h = None
    BY <2>1
  <2>2. CASE h # None
    BY <2>2
  <2> QED
    BY <2>1, <2>2
<1>3. DOMAIN m = 1..c /\ \A i \in 1..c : m[i] = Word("mac", order[i], nics[order[i]])
  BY <1>0
<1> DEFINE p == a \o m
<1>4. ws = p \o ps
  BY DEF Written
<1> HIDE DEF a, m, S, ws
<1>5. /\ p \in Seq(S) /\ Len(p) = Len(a) + c /\ Len(a) \in Nat /\ Len(ps) \in Nat
      /\ \A i \in 1..c : p[Len(a) + i] = m[i]
  <2>1. Len(m) = c
    BY <1>1, <1>3
  <2>2. /\ p \in Seq(S) /\ Len(p) = Len(a) + Len(m)
        /\ \A i \in 1..(Len(a) + Len(m)) :
             p[i] = IF i <= Len(a) THEN a[i] ELSE m[i - Len(a)]
    BY ONLY SMTT(20), <1>1, ConcatProperties
  <2>3. Len(a) \in Nat /\ Len(ps) \in Nat
    BY ONLY SMTT(20), <1>1, LenProperties
  <2> HIDE DEF p
  <2>4. ASSUME NEW i \in 1..c PROVE p[Len(a) + i] = m[i]
    <3>1. /\ Len(a) + i \in 1..(Len(a) + c) /\ ~(Len(a) + i <= Len(a))
          /\ (Len(a) + i) - Len(a) = i
      BY ONLY SMTT(20), <2>3, c \in Nat, i \in 1..c
    <3> QED
      BY <2>1, <2>2, <3>1
  <2> QED
    BY <2>1, <2>2, <2>3, <2>4
<1>6. LastWord(a, "vm_num", None) = n
  <2>1. 1 \in WordsOf(a, "vm_num", None)
    BY <1>2 DEF WordsOf, Word
  <2>2. \A j \in WordsOf(a, "vm_num", None) : a[j].v = n
    BY <1>2 DEF WordsOf, Word
  <2>3. a \in Seq(S) /\ WordsOf(a, "vm_num", None) # {}
    BY <1>1, <2>1
  <2> QED
    BY <2>2, <2>3, LastWordOfSame
<1>7. LastWord(a, "hostname", None) = h
  <2>1. CASE h = None
    <3>1. {i \in DOMAIN a : a[i].k = "hostname" /\ a[i].t = None} = {}
      BY <1>2, <2>1 DEF Word
    <3> QED
      BY <2>1, <3>1 DEF LastWord
  <2>2. CASE h # None
    <3>1. 3 \in WordsOf(a, "hostname", None)
      BY <1>2, <2>2 DEF WordsOf, Word
    <3>2. \A j \in WordsOf(a, "hostname", None) : a[j].v = h
      BY <1>2, <2>2 DEF WordsOf, Word
    <3>3. a \in Seq(S) /\ WordsOf(a, "hostname", None) # {}
      BY <1>1, <3>1
    <3> QED
      BY <3>2, <3>3, LastWordOfSame
  <2> QED
    BY <2>1, <2>2
<1>8. \A k, t : k # "mac" => LastWord(p, k, t) = LastWord(a, k, t)
  <2> TAKE k, t
  <2> HAVE k # "mac"
  <2>1. WordsOf(m, k, t) = {}
    BY <1>3 DEF WordsOf, Word
  <2> QED
    BY <1>1, <2>1, LastWordOfConcat
<1>9. \A k, t : LastWord(ws, k, t) =
        IF WordsOf(ps, k, t) # {} THEN LastWord(ps, k, t) ELSE LastWord(p, k, t)
  <2> HIDE DEF p
  <2> TAKE k, t
  <2>1. ps \in Seq(S)
    BY <1>1
  <2>2. LastWord(p \o ps, k, t) =
          IF WordsOf(ps, k, t) # {} THEN LastWord(ps, k, t) ELSE LastWord(p, k, t)
    BY ONLY <1>5, <2>1, LastWordOfConcat
  <2> QED
    BY ONLY <1>4, <2>2
<1>10. ASSUME NEW t \in DOMAIN nics
       PROVE  /\ WordsOf(ws, "mac", t) # {}
              /\ LastWord(p, "mac", t) = nics[t]
  <2>1. PICK i \in 1..c : order[i] = t
    BY <1>0
  <2>2. i \in WordsOf(m, "mac", t)
    BY <1>3, <2>1 DEF WordsOf, Word
  <2>3. \A j \in WordsOf(m, "mac", t) : m[j].v = nics[t]
    BY <1>3 DEF WordsOf, Word
  <2>4. LastWord(m, "mac", t) = nics[t]
    <3>1. m \in Seq(S) /\ WordsOf(m, "mac", t) # {}
      BY <1>1, <2>2
    <3> QED
      BY <2>3, <3>1, LastWordOfSame
  <2>5. LastWord(p, "mac", t) = nics[t]
    BY <1>1, <2>2, <2>4, LastWordOfConcat
  <2>6. Len(a) + i \in WordsOf(ws, "mac", t)
    <3> HIDE DEF p
    <3>1. ps \in Seq(S)
      BY <1>1
    <3>2. Len(a) + i \in 1..Len(p) /\ p[Len(a) + i] = m[i]
      BY ONLY <1>5, i \in 1..c, c \in Nat
    <3>3. (p \o ps)[Len(a) + i] = p[Len(a) + i] /\ Len(a) + i \in DOMAIN (p \o ps)
      BY ONLY <1>5, <3>1, <3>2
    <3>4. ws[Len(a) + i] = m[i] /\ Len(a) + i \in DOMAIN ws
      BY ONLY <1>4, <3>2, <3>3
    <3> QED
      BY <2>2, <3>4 DEF WordsOf
  <2> QED
    BY <2>5, <2>6
<1>11. \A k, t : k # "mac" => LastWord(ws, k, t) =
         IF WordsOf(ps, k, t) # {} THEN LastWord(ps, k, t) ELSE LastWord(a, k, t)
  BY <1>8, <1>9
<1>12. \A t \in DOMAIN nics : LastWord(ws, "mac", t) =
         IF WordsOf(ps, "mac", t) # {} THEN LastWord(ps, "mac", t) ELSE nics[t]
  BY <1>9, <1>10
<1> QED
  BY <1>6, <1>7, <1>10, <1>11, <1>12 DEF Says, ws

-----------------------------------------------------------------------------
(* The invariant.                                                          *)

LEMMA InitInv == Init => BootInv
<1> SUFFICES ASSUME Init PROVE BootInv
  OBVIOUS
<1>1. Len(MountTable) = 5
  BY DEF MountTable
<1>2. TypeOK
  <2>1. hpc = "idle" /\ edits \in 0..MaxEdits
    BY BootAssumption DEF Init
  <2>2. gpc = "off" /\ mounts \in 0..Len(MountTable) /\ loaded = {}
    BY <1>1 DEF Init, GuestInit
  <2>3. online \in BOOLEAN
    BY DEF Init, GuestInit
  <2> QED
    BY <2>1, <2>2, <2>3 DEF TypeOK
<1> QED
  BY <1>2 DEF Init, GuestInit, BootInv

(* The user's edits leave the image as it is.                              *)
LEMMA EditInv == BootInv /\ Edit => BootInv'
<1> SUFFICES ASSUME BootInv, Edit PROVE BootInv'
  OBVIOUS
<1> USE DEF BootInv
<1>1. conf' \in Confs /\ tree' \in Trees /\ host' \in Hosts
  BY DEF Edit
<1>2. gpc = "off" /\ gpc' = gpc /\ hostname' = hostname
  BY DEF Edit, guestVars
<1>3. TypeOK'
  BY BootAssumption DEF Edit, guestVars, TypeOK
<1>4. hpc' = "cut" => ImageMade(image, seen)'
  BY DEF Edit, ImageMade
<1> QED
  BY <1>1, <1>2, <1>3, <1>4

(* The modules of the configuration are among those of its defaults, and   *)
(* the defaults do not change the kernel.                                  *)
LEMMA Defaults ==
  ASSUME NEW c \in Confs, NEW t, NEW h
  PROVE  /\ conf_kmod_deps(c) \subseteq conf_kmod_deps(conf_defaults(c))
         /\ conf_src_or_host_kernel_vers(conf_defaults(c), t, h) =
              conf_src_or_host_kernel_vers(c, t, h)
<1> DEFINE ps == {d.kparams : d \in Confs}
<1>1. c \in ConfRecords(ps)
  BY BootAssumption
<1> HIDE DEF ps
<1>2. conf_defaults(c).virtfs = c.virtfs /\ conf_defaults(c).ksrc = c.ksrc
      /\ conf_defaults(c).krel = c.krel
      /\ (c.extra = "rng" => conf_defaults(c).extra = "rng")
  BY <1>1 DEF ConfRecords, conf_defaults, Unset
<1> QED
  BY <1>2 DEF conf_kmod_deps, conf_src_or_host_kernel_vers

(* A cut: the image has what it should.                                    *)
LEMMA CutInv == BootInv /\ (\E t \in Tests : Cut(t)) => BootInv'
<1> SUFFICES ASSUME BootInv, NEW t \in Tests, Cut(t) PROVE BootInv'
  OBVIOUS
<1> USE DEF BootInv
<1>1. gpc = "off" /\ hpc' \in {"cut", "failed"} /\ UNCHANGED <<conf, tree, host, edits>>
      /\ UNCHANGED guestVars
  BY DEF Cut
<1>2. UNCHANGED <<gpc, mounts, online, loaded, hostname>>
  BY <1>1 DEF guestVars
<1>3. TypeOK'
  BY <1>1, <1>2 DEF TypeOK
<1>4. ASSUME hpc' = "cut" PROVE ImageMade(image, seen)'
  <2> DEFINE k == Kernels[CutRelease]
  <2>1. /\ CutFinds(t) /\ seen' = <<conf, tree, host>>
        /\ image' = [conf |-> conf, krel |-> CutRelease, kmods |-> CutKmods(t) \ k.builtin,
                     bins |-> CutBins(t), hasnet |-> t.net, systemd |-> t.systemd,
                     net |-> IF t.net THEN netconf ELSE <<>>]
    BY <1>4 DEF Cut
  <2>2. CutRelease \in DOMAIN Kernels /\ CutKmods(t) \subseteq k.builtin \union k.files
    BY <2>1 DEF CutFinds
  <2>3. CutRelease = conf_src_or_host_kernel_vers(conf, tree, host)
    BY Defaults DEF CutRelease
  <2>4. Asked(conf, t.net) \subseteq CutKmods(t)
    BY Defaults DEF Asked, CutKmods, NetFestKmods, NetKmods
  <2>5. {"mount", "setsid", "modprobe"} \subseteq CutBins(t)
        /\ (t.net => NetBins \subseteq CutBins(t))
    BY DEF CutBins, NetFestBins, NetBins
  <2> HIDE DEF k
  <2>6. /\ image'.conf = conf /\ image'.krel = CutRelease
        /\ image'.kmods = CutKmods(t) \ k.builtin
        /\ image'.bins = CutBins(t) /\ image'.hasnet = t.net
    BY <2>1
  <2>7. seen'[1] = conf /\ seen'[2] = tree /\ seen'[3] = host
    BY <2>1
  <2>8. Asked(image'.conf, image'.hasnet) \subseteq k.builtin \union image'.kmods
    BY <2>4, <2>6
  <2>9. image'.kmods \subseteq k.files
    BY <2>2, <2>6
  <2> QED
    BY <2>2, <2>3, <2>5, <2>6, <2>7, <2>8, <2>9 DEF ImageMade, k
<1> QED
  BY <1>1, <1>2, <1>3, <1>4

(* A VM is started.                                                        *)
LEMMA StartInv == BootInv /\ (\E n \in Nums, h \in Hostnames : VmStart(n, h)) => BootInv'
<1> SUFFICES ASSUME BootInv, NEW n \in Nums, NEW h \in Hostnames, VmStart(n, h)
             PROVE  BootInv'
  OBVIOUS
<1> USE DEF BootInv
<1>1. hpc = "cut" /\ gpc = "off" /\ UNCHANGED <<conf, netconf, tree, host, image, seen, edits>>
  BY DEF VmStart
<1>2. CASE hpc' = "failed" /\ UNCHANGED <<vm, guestVars>>
  <2>1. UNCHANGED <<gpc, mounts, online, loaded, hostname>>
    BY <1>2 DEF guestVars
  <2>2. TypeOK'
    BY <1>1, <1>2, <2>1 DEF TypeOK
  <2> QED
    BY <1>1, <1>2, <2>1, <2>2
<1>3. CASE hpc' = "booted"
  <2>1. /\ VmRelease \in DOMAIN Kernels
        /\ vm' = [num |-> n, rng |-> conf_defaults(conf).extra = "rng",
                  nics |-> Nics(n), host |-> h, kparams |-> conf.kparams,
                  stale |-> seen # <<conf, tree, host>>]
        /\ \E order \in OrdersOf(DOMAIN Nics(n)) :
             PowerOn(image, VmKernel, KernelCmdline(n, h, order))
    BY <1>3 DEF VmStart
  <2>2. PICK order \in OrdersOf(DOMAIN Nics(n)) :
          PowerOn(image, VmKernel, KernelCmdline(n, h, order))
    BY <2>1
  <2>3. /\ gpc' = "conf" /\ img' = image /\ kernel' = VmKernel
        /\ cmdline' = KernelCmdline(n, h, order)
        /\ UNCHANGED <<mounts, loaded, args, hostname, macs, online>>
    BY <2>2 DEF PowerOn, Goto
  <2>4. /\ vm'.num = n /\ vm'.nics = Nics(n) /\ vm'.host = h /\ vm'.kparams = conf.kparams
        /\ vm'.stale = (seen # <<conf, tree, host>>)
    BY <2>1
  <2>5. TypeOK'
    BY <1>1, <1>3, <2>3 DEF TypeOK
  <2>6. ImageMade(img, seen)'
    BY <1>1, <2>3 DEF ImageMade
  <2>7. KernelGiven'
    <3>1. kernel'.rel = VmRelease /\ kernel'.builtin = Kernels[VmRelease].builtin
      BY <2>3 DEF VmKernel
    <3>2. ASSUME ~vm'.stale PROVE VmRelease = image.krel
      <4>1. seen = <<conf, tree, host>>
        BY <2>4, <3>2
      <4>2. image.krel = conf_src_or_host_kernel_vers(conf, tree, host)
        BY <1>1, <4>1 DEF ImageMade
      <4> QED
        BY <4>2 DEF VmRelease, conf_src_or_host_kernel_vers
    <3> QED
      BY <2>1, <2>3, <3>1, <3>2 DEF KernelGiven
  <2>8. CmdlineSays'
    <3> DEFINE nics == Nics(n)
               ps == conf.kparams
               P == {ps[i] : i \in DOMAIN ps}
               size == Cardinality(DOMAIN nics)
               ws == cmdline'
    <3>0. IsKparams(ps)
      BY BootAssumption
    <3>1. ps \in Seq(P)
      BY <3>0 DEF IsKparams
    <3>2. IsFiniteSet(DOMAIN nics)
      <4>1. DOMAIN nics \subseteq HostTaps
        BY DEF Nics
      <4> QED
        BY <4>1, BootAssumption, FS_Subset
    <3>3. size \in Nat
      BY <3>2, FS_CardinalityType
    <3>4. IsOrder(order, size, DOMAIN nics)
      BY <2>2 DEF OrdersOf, IsOrder
    <3>5. ws = Written(n, h, nics, order, ps)
      BY <2>3, <2>4 DEF KernelCmdline, MacWords, Written
    <3> HIDE DEF nics, ps, P, size, ws
    <3>6. Says(ws, n, h, nics, ps)
      BY <3>1, <3>3, <3>4, <3>5, CmdlineWords
    <3>7. ps = vm'.kparams /\ nics = vm'.nics /\ ws = cmdline'
      BY <2>4 DEF ps, nics, ws
    <3>8. \A k, t, other : Given(k, t, other)' = IF WordsOf(ps, k, t) # {}
                                                THEN LastWord(ps, k, t) ELSE other
      <4> TAKE k, t, other
      <4> DEFINE at == {i \in DOMAIN ps : ps[i].k = k /\ ps[i].t = t}
      <4>1. (CHOOSE i \in at : \A j \in at : j <= i) =
              (CHOOSE i \in at : \A j \in at : i >= j)
        OBVIOUS
      <4> QED
        BY <3>7, <4>1 DEF Given, WordsOf, LastWord
    <3>9. IsKparams(vm.kparams)'
      BY <3>0, <3>7 DEF IsKparams
    <3> QED
      BY <2>4, <3>6, <3>7, <3>8, <3>9 DEF CmdlineSays, WordsOf, Says
  <2>9. Stages' /\ NoPanic'
    BY <1>1, <2>3 DEF Stages, NoPanic, Mounted, Parsed, Named, Matched, OnlyNet
  <2> QED
    BY <1>1, <1>3, <2>3, <2>5, <2>6, <2>7, <2>8, <2>9
<1> QED
  BY <1>2, <1>3 DEF VmStart

(* rapido-init changes neither image nor kernel nor command line.          *)
LEMMA GuestKeeps ==
  ASSUME BootInv, gpc # "off", gpc' # "off", UNCHANGED hostVars,
         UNCHANGED <<img, kernel, cmdline>>, TypeOK', Stages', NoPanic'
  PROVE  BootInv'
<1> USE DEF BootInv
<1>1. UNCHANGED <<hpc, conf, netconf, tree, host, image, seen, vm, edits>>
  BY DEF hostVars
<1>2. ImageMade(img, seen)'
  BY <1>1 DEF ImageMade
<1>3. KernelGiven'
  BY <1>1 DEF KernelGiven
<1>4. CmdlineSays'
  <2>1. CmdlineSays /\ vm' = vm /\ cmdline' = cmdline
    BY <1>1
  <2>2. \A k, t : LastWord(cmdline, k, t)' = LastWord(cmdline, k, t)
    BY ONLY <2>1 DEF LastWord
  <2>3. \A k, t, o : Given(k, t, o)' = Given(k, t, o)
    BY ONLY <2>1 DEF Given
  <2>4. \A t \in DOMAIN vm.nics :
          LastWord(cmdline, "mac", t)' = Given("mac", t, vm.nics[t])'
    BY ONLY <2>1, <2>2, <2>3 DEF CmdlineSays
  <2>5. LastWord(cmdline, "vm_num", None)' = Given("vm_num", None, vm.num)'
        /\ LastWord(cmdline, "hostname", None)' = Given("hostname", None, vm.host)'
    BY ONLY <2>1, <2>2, <2>3 DEF CmdlineSays
  <2>6. IsKparams(vm.kparams)'
    BY ONLY <2>1 DEF CmdlineSays, IsKparams
  <2> QED
    BY ONLY <2>1, <2>4, <2>5, <2>6 DEF CmdlineSays
<1> QED
  BY <1>1, <1>2, <1>3, <1>4

LEMMA ParsePrimed ==
  ASSUME UNCHANGED cmdline PROVE kcli_parse(cmdline)' = kcli_parse(cmdline)
BY DEF kcli_parse, LastWord

LEMMA MatchPrimed ==
  ASSUME UNCHANGED <<img, args>> PROVE MatchMacs' = MatchMacs
BY DEF MatchMacs

(* A step of rapido-init that only goes on to another stage, and how much  *)
(* of Stages it has to establish.                                          *)
LEMMA StageStep ==
  ASSUME BootInv, gpc # "off", UNCHANGED hostVars,
         UNCHANGED <<img, kernel, cmdline, mounts, loaded, args, hostname, macs>>,
         online' \in BOOLEAN,
         gpc' \in {"mount", "modprobe", "virtfs", "cmdline", "hostname", "netconf",
                   "systemd", "machine_id", "udevd", "udevadm", "networkd", "wait",
                   "setsid", "shell", "shutdown", "running", "poweroff", "panic"},
         gpc' \in Mounted => mounts = Len(MountTable),
         gpc' \in Parsed => gpc \in Parsed,
         gpc' \in Matched => gpc \in Matched,
         gpc' \in OnlyNet => img.hasnet,
         gpc' = "systemd" => img.systemd,
         gpc' \in {"setsid", "shell"} /\ img.hasnet => online',
         gpc' \in {"mount", "modprobe", "virtfs", "cmdline"} => hostname = None,
         gpc' = "panic" => mounts = 0 \/ img.systemd \/ ~kernel.sysrq
  PROVE  BootInv'
<1> USE DEF BootInv
<1>1. UNCHANGED <<hpc, edits>>
  BY DEF hostVars
<1>2. TypeOK'
  BY <1>1 DEF TypeOK
<1>3. Stages'
  BY ParsePrimed, MatchPrimed DEF Stages
<1>4. NoPanic'
  BY DEF NoPanic
<1> QED
  BY <1>2, <1>3, <1>4, GuestKeeps

(* rapido-init's steps.                                                    *)
LEMMA GuestInv == BootInv /\ GuestNext /\ UNCHANGED hostVars => BootInv'
<1> SUFFICES ASSUME BootInv, GuestNext, UNCHANGED hostVars PROVE BootInv'
  OBVIOUS
<1> USE DEF Goto, Return
<1>1. gpc # "off"
  BY DEF GuestNext, InitStep, ReadConf, Mount, MountExtra, kmods_load, MountVirtfs,
         ReadCmdline, init_hostname, init_net_conf, Systemd, MachineId, NetService,
         WaitOnline, StartShell, init_shutdown, ShellExits
<1>2. ImageMade(img, seen) /\ KernelGiven /\ CmdlineSays /\ Stages /\ NoPanic /\ TypeOK
  BY <1>1 DEF BootInv
<1>3. {"mount", "setsid", "modprobe"} \subseteq img.bins
      /\ (img.hasnet => NetBins \subseteq img.bins)
  BY <1>2 DEF ImageMade
<1>4. Len(MountTable) = 5 /\ mounts \in 0..5 /\ online \in BOOLEAN
  BY <1>2 DEF MountTable, TypeOK
<1>5. UNCHANGED <<hpc, edits, vm>>
  BY DEF hostVars
<1> DEFINE Same == UNCHANGED <<img, kernel, cmdline, mounts, loaded, args, hostname, macs,
                               online>>
<1>6. CASE ReadConf
  BY <1>1, <1>2, <1>4, <1>6, StageStep
     DEF ReadConf, Stages, Mounted, Parsed, Named, Matched, OnlyNet
<1>7. CASE Mount
  <2>1. gpc = "mount" /\ gpc' \in {"mount", "shutdown"} /\ mounts < 5
        /\ UNCHANGED <<img, kernel, cmdline, loaded, args, hostname, macs, online>>
        /\ mounts' \in {mounts, mounts + 1}
    BY <1>3, <1>4, <1>7 DEF Mount, Command
  <2>2. TypeOK'
    BY <1>2, <1>4, <1>5, <2>1 DEF TypeOK
  <2>3. Stages'
    BY <1>2, <2>1, ParsePrimed DEF Stages, Mounted, Parsed, Named, Matched, OnlyNet
  <2>4. NoPanic'
    BY <2>1 DEF NoPanic
  <2> QED
    BY <1>1, <2>1, <2>2, <2>3, <2>4, GuestKeeps
<1>8. CASE MountExtra
  BY <1>1, <1>2, <1>4, <1>8, StageStep
     DEF MountExtra, Stages, Mounted, Parsed, Named, Matched, OnlyNet
<1>9. CASE kmods_load
  <2>1. gpc = "modprobe" /\ gpc' \in {"virtfs", "shutdown"}
        /\ UNCHANGED <<img, kernel, cmdline, mounts, args, hostname, macs, online>>
        /\ (loaded' = loaded \/ loaded' \subseteq Loadable)
    BY <1>9 DEF kmods_load
  <2>2. TypeOK'
    <3> DEFINE Files == UNION {Kernels[r].builtin \union Kernels[r].files : r \in DOMAIN Kernels}
    <3>1. Loadable \subseteq Files
      <4>1. kernel.builtin \subseteq Files
        BY <1>2 DEF KernelGiven
      <4>2. img.kmods \subseteq Files
        BY <1>2 DEF ImageMade
      <4> QED
        BY <4>1, <4>2 DEF Loadable
    <3>2. loaded' \subseteq Files
      BY <1>2, <2>1, <3>1 DEF TypeOK
    <3> QED
      BY <1>2, <1>5, <2>1, <3>2 DEF TypeOK
  <2>3. Stages'
    BY <1>2, <2>1, ParsePrimed DEF Stages, Mounted, Parsed, Named, Matched, OnlyNet
  <2>4. NoPanic'
    BY <2>1 DEF NoPanic
  <2> QED
    BY <1>1, <2>1, <2>2, <2>3, <2>4, GuestKeeps
<1>10. CASE MountVirtfs
  BY <1>1, <1>2, <1>4, <1>10, StageStep
     DEF MountVirtfs, Stages, Mounted, Parsed, Named, Matched, OnlyNet
<1>11. CASE ReadCmdline
  <2>1. gpc = "cmdline" /\ gpc' \in {"hostname", "shutdown"} /\ args' = kcli_parse(cmdline)
        /\ UNCHANGED <<img, kernel, cmdline, mounts, loaded, hostname, macs, online>>
    BY <1>11 DEF ReadCmdline
  <2>2. TypeOK'
    BY <1>2, <1>5, <2>1 DEF TypeOK
  <2>3. Stages'
    BY <1>2, <2>1, ParsePrimed DEF Stages, Mounted, Parsed, Named, Matched, OnlyNet
  <2>4. NoPanic'
    BY <2>1 DEF NoPanic
  <2> QED
    BY <1>1, <2>1, <2>2, <2>3, <2>4, GuestKeeps
<1>12. CASE init_hostname
  <2>1. gpc = "hostname" /\ gpc' \in {"netconf", "systemd", "machine_id", "setsid", "shutdown"}
        /\ UNCHANGED <<img, kernel, cmdline, mounts, loaded, args, macs, online>>
        /\ (hostname' = hostname \/ hostname' = IF args.hostname = None
                                                THEN <<"rapido", args.vm_num>>
                                                ELSE args.hostname)
        /\ (gpc' \in {"netconf", "machine_id"} => img.hasnet)
        /\ (gpc' \in {"systemd", "machine_id", "setsid"} => ~img.hasnet)
        /\ (gpc' = "systemd" => img.systemd)
    BY <1>12 DEF init_hostname, Services
  <2>2. TypeOK'
    BY <1>2, <1>5, <2>1 DEF TypeOK
  <2>3. Stages'
    BY <1>2, <2>1, ParsePrimed DEF Stages, Mounted, Parsed, Named, Matched, OnlyNet
  <2>4. NoPanic'
    BY <2>1 DEF NoPanic
  <2> QED
    BY <1>1, <2>1, <2>2, <2>3, <2>4, GuestKeeps
<1>13. CASE init_net_conf
  <2>1. gpc = "netconf" /\ gpc' \in {"systemd", "machine_id", "setsid", "shutdown"}
        /\ UNCHANGED <<img, kernel, cmdline, mounts, loaded, args, hostname, online>>
        /\ (gpc' # "shutdown" => macs' = MatchMacs)
        /\ (gpc' = "systemd" => img.systemd)
        /\ (gpc' = "setsid" => ~img.hasnet)
        /\ (gpc' = "machine_id" => img.hasnet)
    BY <1>13 DEF init_net_conf, Services
  <2>2. TypeOK'
    BY <1>2, <1>5, <2>1 DEF TypeOK
  <2>3. Stages'
    BY <1>2, <2>1, ParsePrimed, MatchPrimed
       DEF Stages, Mounted, Parsed, Named, Matched, OnlyNet
  <2>4. NoPanic'
    BY <2>1 DEF NoPanic
  <2> QED
    BY <1>1, <2>1, <2>2, <2>3, <2>4, GuestKeeps
<1>14. CASE Systemd
  BY <1>1, <1>2, <1>4, <1>14, StageStep
     DEF Systemd, Stages, Mounted, Parsed, Named, Matched, OnlyNet
<1>15. CASE MachineId
  BY <1>1, <1>2, <1>4, <1>15, StageStep
     DEF MachineId, Stages, Mounted, Parsed, Named, Matched, OnlyNet
<1>16. CASE NetService
  <2>1. gpc \in {"udevd", "udevadm", "networkd"} /\ Same
        /\ gpc' \in {"udevadm", "networkd", "wait", "shutdown"}
    BY <1>2, <1>3, <1>16 DEF NetService, Command, Stages, OnlyNet, NetBins
  <2> QED
    BY <1>1, <1>2, <1>4, <2>1, StageStep
       DEF Stages, Mounted, Parsed, Named, Matched, OnlyNet
<1>17. CASE WaitOnline
  <2>1. gpc = "wait" /\ gpc' \in {"setsid", "shutdown"} /\ online' = (gpc' = "setsid")
        /\ UNCHANGED <<img, kernel, cmdline, mounts, loaded, args, hostname, macs>>
    BY <1>2, <1>3, <1>17 DEF WaitOnline, Command, Stages, OnlyNet, NetBins
  <2>2. online' \in BOOLEAN
    BY <2>1
  <2> QED
    BY <1>1, <1>2, <1>4, <2>1, <2>2, StageStep
       DEF Stages, Mounted, Parsed, Named, Matched, OnlyNet
<1>18. CASE StartShell
  <2>1. gpc = "setsid" /\ gpc' = "shell" /\ Same
    BY <1>3, <1>18 DEF StartShell
  <2> QED
    BY <1>1, <1>2, <1>4, <2>1, StageStep
       DEF Stages, Mounted, Parsed, Named, Matched, OnlyNet
<1>19. CASE init_shutdown
  BY <1>1, <1>2, <1>4, <1>19, StageStep
     DEF init_shutdown, Stages, Mounted, Parsed, Named, Matched, OnlyNet
<1>20. CASE ShellExits
  BY <1>1, <1>2, <1>4, <1>20, StageStep
     DEF ShellExits, Stages, Mounted, Parsed, Named, Matched, OnlyNet
<1> QED
  BY <1>6, <1>7, <1>8, <1>9, <1>10, <1>11, <1>12, <1>13, <1>14, <1>15, <1>16, <1>17,
     <1>18, <1>19, <1>20 DEF GuestNext, InitStep

LEMMA StutterInv == BootInv /\ UNCHANGED vars => BootInv'
<1> SUFFICES ASSUME BootInv, UNCHANGED vars PROVE BootInv'
  OBVIOUS
<1>1. UNCHANGED hostVars /\ UNCHANGED <<img, kernel, cmdline>>
      /\ UNCHANGED <<gpc, mounts, loaded, args, hostname, macs, online>>
  BY DEF vars, guestVars
<1>2. UNCHANGED <<hpc, conf, netconf, tree, host, image, seen, vm, edits>>
  BY <1>1 DEF hostVars
<1>3. TypeOK'
  BY <1>1, <1>2 DEF BootInv, TypeOK
<1>4. CASE gpc = "off"
  <2>1. hpc' = "cut" => ImageMade(image, seen)'
    BY <1>2 DEF BootInv, ImageMade
  <2> QED
    BY <1>1, <1>2, <1>3, <1>4, <2>1 DEF BootInv
<1>5. CASE gpc # "off"
  <2>1. Stages'
    BY <1>1, <1>5, ParsePrimed, MatchPrimed DEF BootInv, Stages
  <2>2. NoPanic'
    BY <1>1, <1>5 DEF BootInv, NoPanic
  <2> QED
    BY <1>1, <1>3, <1>5, <2>1, <2>2, GuestKeeps
<1> QED
  BY <1>4, <1>5

(* From rapido.conf to the shell, the invariant holds throughout.          *)
THEOREM Invariant == Spec => []BootInv
<1>1. BootInv /\ [Next]_vars => BootInv'
  BY EditInv, CutInv, StartInv, GuestInv, StutterInv DEF Next
<1> QED
  BY InitInv, <1>1, PTL DEF Spec

-----------------------------------------------------------------------------
(* What follows from it.                                                   *)

(* Program counters stay among the stages of init_main(), mounting never   *)
(* runs past init_mount()'s table, and what modprobe loads is a module of  *)
(* some kernel.                                                            *)
THEOREM Types == Spec => []TypeOK
<1>1. BootInv => TypeOK
  BY DEF BootInv
<1> QED
  BY Invariant, <1>1, PTL

(* rapido-cut and rapido-vm agree on the kernel when nothing changed       *)
(* between the two.                                                        *)
THEOREM SameKernel == Spec => []KernelMatches
<1>1. BootInv => KernelMatches
  BY DEF BootInv, KernelMatches, KernelGiven
<1> QED
  BY Invariant, <1>1, PTL

(* kmods_load() asks for no module that rapido-cut left out.               *)
THEOREM ModulesInImage == Spec => []ModulesThere
<1>1. BootInv => ModulesThere
  <2> SUFFICES ASSUME BootInv, gpc = "modprobe", ~vm.stale PROVE Kmods \subseteq Loadable
    BY DEF ModulesThere
  <2>1. ImageMade(img, seen) /\ KernelGiven
    BY DEF BootInv
  <2>2. Kmods = Asked(img.conf, img.hasnet)
    BY DEF Kmods, Asked, NetKmods
  <2>3. kernel.rel = img.krel /\ kernel.builtin = Kernels[img.krel].builtin
    BY <2>1 DEF KernelGiven
  <2>4. Asked(img.conf, img.hasnet) \subseteq Kernels[img.krel].builtin \union img.kmods
    BY <2>1 DEF ImageMade
  <2> QED
    BY <2>2, <2>3, <2>4 DEF Loadable
<1> QED
  BY Invariant, <1>1, PTL

(* Once /proc is mounted process 1 dies of nothing rapido-cut could have   *)
(* prevented.                                                              *)
THEOREM InitSurvives == Spec => []NoPanic
<1>1. BootInv => NoPanic
  BY DEF BootInv, NoPanic
<1> QED
  BY Invariant, <1>1, PTL

(* init_net_conf() gave every device of QEMU's the address QEMU gave it,   *)
(* and the network was up when the shell started.                          *)
THEOREM NetworkUp == Spec => []NetReady
<1>1. BootInv => NetReady
  <2> SUFFICES ASSUME BootInv, gpc = "shell", img.hasnet
               PROVE  /\ online
                      /\ \A t \in DOMAIN macs \intersect DOMAIN vm.nics :
                           macs[t] = Given("mac", t, vm.nics[t])
    BY DEF NetReady
  <2>1. CmdlineSays /\ Stages
    BY DEF BootInv
  <2>2. online /\ args = kcli_parse(cmdline) /\ macs = MatchMacs
    BY <2>1 DEF Stages, Mounted, Parsed, Named, Matched
  <2>3. ASSUME NEW t \in DOMAIN macs, t \in DOMAIN vm.nics
        PROVE  macs[t] = Given("mac", t, vm.nics[t])
    <3>1. t \in DOMAIN args.mac /\ args.mac[t] = LastWord(cmdline, "mac", t)
      BY <2>1, <2>2, <2>3 DEF CmdlineSays, kcli_parse
    <3>2. macs[t] = args.mac[t]
      BY <2>2, <2>3, <3>1 DEF MatchMacs
    <3> QED
      BY <2>1, <2>3, <3>1, <3>2 DEF CmdlineSays
  <2> QED
    BY <2>2, <2>3
<1> QED
  BY Invariant, <1>1, PTL

(* The VM's number and host name are the user's, else net-conf's, else     *)
(* those rapido-vm made up.                                                *)
THEOREM NumberAndName == Spec => []Identity
<1>1. BootInv => Identity
  <2> SUFFICES ASSUME BootInv, hostname # None PROVE Identity
    BY DEF Identity
  <2>1. CmdlineSays /\ Stages
    BY DEF BootInv
  <2>2. /\ args = kcli_parse(cmdline)
        /\ hostname = IF args.hostname = None THEN <<"rapido", args.vm_num>>
                      ELSE args.hostname
    BY <2>1 DEF Stages
  <2>3. /\ args.vm_num = LastWord(cmdline, "vm_num", None)
        /\ args.hostname = LastWord(cmdline, "hostname", None)
    BY <2>2 DEF kcli_parse
  <2> DEFINE ps == vm.kparams
             n == Given("vm_num", None, vm.num)
             other == IF vm.host # None THEN vm.host ELSE <<"rapido", n>>
             at == {i \in DOMAIN ps : ps[i].k = "hostname" /\ ps[i].t = None}
  <2>4. args.vm_num = n /\ args.hostname = Given("hostname", None, vm.host)
    BY <2>1, <2>3 DEF CmdlineSays
  <2>5. hostname = Given("hostname", None, other)
    <3>1. CASE at = {}
      <4>1. Given("hostname", None, vm.host) = vm.host
            /\ Given("hostname", None, other) = other
        BY <3>1 DEF Given
      <4> QED
        BY <2>2, <2>4, <4>1
    <3>2. CASE at # {}
      <4> DEFINE P == {ps[i] : i \in DOMAIN ps}
                 last == CHOOSE i \in at : \A j \in at : j <= i
      <4>1. ps \in Seq(P) /\ \A i \in DOMAIN ps : ps[i].k = "hostname" => ps[i].v # None
        BY <2>1 DEF CmdlineSays, IsKparams
      <4>2. Len(ps) \in Nat /\ at \subseteq 1..Len(ps)
        <5> HIDE DEF ps
        <5> QED
          BY <4>1
      <4>3. \E i \in at : \A j \in at : j <= i
        <5> HIDE DEF at
        <5> QED
          BY <3>2, <4>2, GreatestIndex
      <4>4. last \in at
        <5> HIDE DEF at
        <5> QED
          BY <4>3
      <4>5. ps[last].v # None
        <5> HIDE DEF last
        <5> QED
          BY <4>1, <4>4
      <4>6. Given("hostname", None, vm.host) = ps[last].v
            /\ Given("hostname", None, other) = ps[last].v
        BY <3>2 DEF Given
      <4> HIDE DEF last, other
      <4> QED
        BY <2>2, <2>4, <4>5, <4>6
    <3> QED
      BY <3>1, <3>2
  <2> QED
    BY <2>4, <2>5 DEF Identity
<1> QED
  BY Invariant, <1>1, PTL
=============================================================================
