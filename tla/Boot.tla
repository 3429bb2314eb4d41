--------------------------------- MODULE Boot ---------------------------------
(***************************************************************************)
(* From rapido.conf to a shell in the VM: rapido-cut makes the image from  *)
(* the configuration and the kernel it finds, rapido-vm starts QEMU with   *)
(* the configuration and the kernel it finds then, and rapido-init (Guest) *)
(* runs from what the image holds.  Between cut and boot the user may edit *)
(* rapido.conf or net-conf, rebuild the kernel or boot another one.        *)
(*                                                                         *)
(* How the archive is written and how a VM number is chosen are the        *)
(* subject of Cut and Vm; here a cut is one step, and any number is free.  *)
(***************************************************************************)
EXTENDS Guest, FiniteSets

CONSTANTS
  Confs,       \* configurations the user writes
  Tests,       \* test cases: [net: includes net.fest, systemd: systemd.fest]
  NetConfs,    \* VM_NET_CONF: vm number -> taps with a .network file
  Hostnames,   \* contents of vm<num>/hostname, or None
  Nums,        \* VM numbers
  Trees,       \* releases the kernel tree may be built as
  Hosts,       \* releases the host may run
  Kernels,     \* kernels installed or built: release -> [builtin, files, sysrq]
  HostTaps,    \* devices of the host that are taps
  MaxEdits     \* how often anything is changed

(* The words of QEMU_EXTRA_KERNEL_PARAMS are a sequence; rapido.hostname   *)
(* is a word of its own only with a "=", and so has a value.               *)
IsKparams(ws) ==
  /\ ws \in Seq({ws[i] : i \in DOMAIN ws})
  /\ \A i \in DOMAIN ws : ws[i].k = "hostname" => ws[i].v # None

ASSUME BootAssumption ==
  /\ EmptyConf \in Confs /\ MaxEdits \in Nat
  /\ Confs \subseteq ConfRecords({c.kparams : c \in Confs})
  /\ \A c \in Confs : IsKparams(c.kparams)
  /\ Trees \union Hosts \subseteq DOMAIN Kernels /\ IsFiniteSet(HostTaps)

VARIABLES
  hpc,         \* what has been done on the host
  conf,        \* rapido.conf
  netconf,     \* the directory VM_NET_CONF
  tree, host,  \* release of the kernel tree's build and of the host's kernel
  image,       \* the initramfs at DRACUT_OUT
  seen,        \* history: what rapido-cut saw of conf and kernels
  vm,          \* QEMU's devices: [num, rng, nics: tap -> MAC address]
  edits        \* changes so far

hostVars == <<hpc, conf, netconf, tree, host, image, seen, vm, edits>>
vars == <<hostVars, guestVars>>

Init ==
  /\ GuestInit
  /\ hpc = "idle" /\ conf \in Confs /\ netconf \in NetConfs
  /\ tree \in Trees /\ host \in Hosts
  /\ image = None /\ seen = None /\ vm = None /\ edits = 0

-----------------------------------------------------------------------------
(* The user's changes.                                                     *)
Edit ==
  /\ hpc \in {"idle", "cut"} /\ edits < MaxEdits
  /\ edits' = edits + 1
  /\ \/ conf' \in Confs \ {conf} /\ UNCHANGED <<netconf, tree, host>>
     \/ netconf' \in NetConfs \ {netconf} /\ UNCHANGED <<conf, tree, host>>
     \/ tree' \in Trees \ {tree} /\ UNCHANGED <<conf, netconf, host>>
     \/ host' \in Hosts \ {host} /\ UNCHANGED <<conf, netconf, tree>>
  /\ UNCHANGED <<hpc, image, seen, vm, guestVars>>

-----------------------------------------------------------------------------
(* rapido-cut: programs and modules of the image.  net.fest, which a test  *)
(* with network includes, names some of each; the other programs are those *)
(* of main()'s core_elfs, the other modules those of conf_kmod_deps(), for *)
(* the defaults and the file.                                              *)
(* Mutant: net.fest lacks a program that rapido-init waits for.            *)
NetFestBinsNoWait == {"udevadm", "systemd-udevd", "systemd-networkd"}
NetFestBins == {"udevadm", "systemd-udevd", "systemd-networkd", "wait-online"}

(* Mutant: net.fest lacks the modules rapido-init loads for the network.   *)
NetFestKmodsNone == {}
NetFestKmods == {"virtio_net", "af_packet"}

CutBins(t) ==
  {"mount", "setsid", "bash", "stty", "modprobe"}
  \union (IF t.net THEN NetFestBins ELSE {})
CutKmods(t) ==
  conf_kmod_deps(conf_defaults(conf)) \union (IF t.net THEN NetFestKmods ELSE {})

CutRelease == conf_src_or_host_kernel_vers(conf_defaults(conf), tree, host)
CutFinds(t) ==
  /\ Parses(conf, TRUE) /\ CutRelease \in DOMAIN Kernels
  /\ LET k == Kernels[CutRelease] IN CutKmods(t) \subseteq k.builtin \union k.files

Cut(t) ==
  /\ hpc = "idle"
  /\ IF CutFinds(t)
     THEN /\ hpc' = "cut"
          /\ image' = [conf |-> conf, krel |-> CutRelease,
                       kmods |-> CutKmods(t) \ Kernels[CutRelease].builtin,
                       bins |-> CutBins(t), hasnet |-> t.net, systemd |-> t.systemd,
                       net |-> IF t.net THEN netconf ELSE <<>>]
          /\ seen' = <<conf, tree, host>>
     ELSE hpc' = "failed" /\ UNCHANGED <<image, seen>>
  /\ UNCHANGED <<conf, netconf, tree, host, vm, edits, guestVars>>

-----------------------------------------------------------------------------
(* rapido-vm: vm_qemu_args_get() finds the kernel by itself.               *)
VmRelease ==
  IF conf.ksrc \notin {Unset, ""} THEN tree
  ELSE IF conf.krel = Unset THEN host ELSE conf.krel

(* ks_kernel_img(): the kernel must have been built or installed.          *)
VmKernel == [rel |-> VmRelease, builtin |-> Kernels[VmRelease].builtin,
             sysrq |-> Kernels[VmRelease].sysrq]

(* vm_mac_gen(): a hash of number and tap.                                 *)
vm_mac_gen(n, t) == <<n, t>>

Word(k, t, v) == [k |-> k, t |-> t, v |-> v]

(* Devices for the taps of vm<num> that the host has, and their addresses  *)
(* for the guest.  OrdersOf orders them as read_dir() happens to.          *)
Nics(n) ==
  IF image.hasnet
  THEN [t \in netconf[n] \intersect HostTaps |-> vm_mac_gen(n, t)] ELSE <<>>
MacWords(s) == [i \in DOMAIN s |-> Word("mac", s[i], Nics(vm'.num)[s[i]])]
OrdersOf(S) ==
  {s \in [1..Cardinality(S) -> S] : \A x \in S : \E i \in DOMAIN s : s[i] = x}

(* QEMU_EXTRA_KERNEL_PARAMS come last.                                     *)
KernelCmdline(n, h, order) ==
  <<Word("vm_num", None, n), Word("machine_id", None, n)>>
  \o (IF h = None THEN <<>> ELSE <<Word("hostname", None, h)>>)
  \o MacWords(order)
  \o conf.kparams

VmStart(n, h) ==
  /\ hpc = "cut" /\ (h # None => n \in DOMAIN netconf)
  /\ IF /\ Parses(conf, TRUE) /\ VmRelease \in DOMAIN Kernels
        /\ image.hasnet => n \in DOMAIN netconf
     THEN /\ hpc' = "booted"
          /\ vm' = [num |-> n, rng |-> conf_defaults(conf).extra = "rng",
                    nics |-> Nics(n), host |-> h, kparams |-> conf.kparams,
                    stale |-> seen # <<conf, tree, host>>]
          /\ \E order \in OrdersOf(DOMAIN Nics(n)) :
               PowerOn(image, VmKernel, KernelCmdline(n, h, order))
     ELSE hpc' = "failed" /\ UNCHANGED <<vm, guestVars>>
  /\ UNCHANGED <<conf, netconf, tree, host, image, seen, edits>>

-----------------------------------------------------------------------------
Next ==
  \/ Edit
  \/ \E t \in Tests : Cut(t)
  \/ \E n \in Nums, h \in Hostnames : VmStart(n, h)
  \/ GuestNext /\ UNCHANGED hostVars

(* rapido-init waits for nobody but its children, all of which end or give *)
(* up, the shell excepted.                                                 *)
Spec == Init /\ [][Next]_vars /\ WF_vars(InitStep /\ UNCHANGED hostVars)

-----------------------------------------------------------------------------
(* The program counters and the state rapido-init goes through; mounting   *)
(* never runs past the table.                                              *)
TypeOK ==
  /\ hpc \in {"idle", "cut", "booted", "failed"} /\ edits \in 0..MaxEdits
  /\ gpc \in {"off", "conf", "mount", "modprobe", "virtfs", "cmdline", "hostname",
              "netconf", "systemd", "machine_id", "udevd", "udevadm", "networkd",
              "wait", "setsid", "shell", "shutdown", "running", "poweroff", "panic"}
  /\ mounts \in 0..Len(MountTable) /\ online \in BOOLEAN
  /\ loaded \subseteq UNION {Kernels[r].builtin \union Kernels[r].files :
                              r \in DOMAIN Kernels}

(* rapido-cut and rapido-vm work out the kernel separately.  A VM runs the *)
(* kernel whose modules its image holds, if neither rapido.conf nor a      *)
(* kernel changed between the two.                                         *)
KernelMatches == gpc # "off" /\ ~vm.stale => kernel.rel = img.krel

(* The modules rapido-init asks modprobe for, in the VM and without the    *)
(* configuration's defaults, are modules rapido-cut put in the image or    *)
(* ones the kernel has built in.                                           *)
ModulesThere == gpc = "modprobe" /\ ~vm.stale => Kmods \subseteq Loadable

(* Once /proc is mounted process 1 does not die: every program rapido-init *)
(* runs with expect() is in the image that rapido-cut made, every unwrap() *)
(* is guarded, and the shutdown reaches sysrq.  (Outside this: systemd     *)
(* that cannot be executed, a kernel without MAGIC_SYSRQ.)                 *)
NoPanic == gpc = "panic" => mounts = 0 \/ img.systemd \/ ~kernel.sysrq

(* What the user's own parameters ("extra kernel boot parameters, passed   *)
(* via QEMU -append") set key k of tap t to, the last of them; else other. *)
Given(k, t, other) ==
  LET at == {i \in DOMAIN vm.kparams : vm.kparams[i].k = k /\ vm.kparams[i].t = t}
  IN  IF at = {} THEN other
      ELSE vm.kparams[CHOOSE i \in at : \A j \in at : j <= i].v

(* When the shell starts in a VM with network, the network was reported up *)
(* and the .network file of every device QEMU was given matches that       *)
(* device's MAC address (or the one the user gave), whatever else net-conf *)
(* held at cut or boot.                                                    *)
NetReady ==
  gpc = "shell" /\ img.hasnet =>
    /\ online
    /\ \A t \in DOMAIN macs \intersect DOMAIN vm.nics :
         macs[t] = Given("mac", t, vm.nics[t])

(* The VM is what its command line says, the user's own parameters last:   *)
(* number, and a host name from these, net-conf or the number.             *)
Identity ==
  hostname # None =>
    LET n == Given("vm_num", None, vm.num)
    IN  /\ args.vm_num = n
        /\ hostname = Given("hostname", None,
                            IF vm.host # None THEN vm.host ELSE <<"rapido", n>>)

(* However its programs fail, a VM that starts gets to the shell or to     *)
(* systemd, powers off or dies; it never hangs in rapido-init.             *)
BootSettles ==
  gpc = "conf" ~> gpc \in {"shell", "running", "poweroff", "panic"}

(* "Provide VMs with an RNG device": a VM that has one, and runs the       *)
(* kernel of its image, has the driver.                                    *)
RngDriven ==
  gpc = "shell" /\ ~vm.stale /\ vm.rng =>
    "virtio_rng" \in loaded \union kernel.builtin
=============================================================================
