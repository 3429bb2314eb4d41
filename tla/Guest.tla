-------------------------------- MODULE Guest --------------------------------
(***************************************************************************)
(* rapido-init, the first process of a VM: mounts, kernel modules, kernel  *)
(* command line, host name, network, then systemd or a shell, and the      *)
(* shutdown that follows whatever init_main() returned.  A panic, or a     *)
(* return from main(), ends process 1 and with it the kernel.              *)
(*                                                                         *)
(* img is the unpacked initramfs: conf (/rapido.conf), krel and kmods (the *)
(* kernel its modules are for, and the modules), bins (programs), net (vm  *)
(* number -> the taps that have a .network file, of /rapido-rsc/net),      *)
(* hasnet and systemd (what init_main() stats).  kernel is what QEMU runs. *)
(***************************************************************************)
EXTENDS Naturals, Conf

CONSTANT None      \* no value

VARIABLES
  gpc,        \* where init_main() is; "off" before the VM is started
  img,        \* the initramfs
  kernel,     \* [rel, builtin: modules it has built in, sysrq: MAGIC_SYSRQ]
  cmdline,    \* words of /proc/cmdline, [k: key, t: tap, v: value]
  mounts,     \* how many entries of init_mount()'s table are mounted
  loaded,     \* modules modprobe was given and loaded
  args,       \* kcli_args
  hostname,   \* /proc/sys/kernel/hostname
  macs,       \* tap -> the MACAddress appended to its .network file
  online      \* systemd-networkd-wait-online succeeded

guestVars == <<gpc, img, kernel, cmdline, mounts, loaded, args, hostname, macs,
               online>>

MountTable == <<"/proc", "/sys", "/dev", "/dev/pts", "/tmp">>

NoArgs == [hostname |-> None, vm_num |-> None, machine_id |-> None,
           mac |-> <<>>]

GuestInit ==
  /\ gpc = "off" /\ img = None /\ kernel = None /\ cmdline = <<>>
  /\ mounts = 0 /\ loaded = {} /\ args = NoArgs /\ hostname = None
  /\ macs = <<>> /\ online = FALSE

-----------------------------------------------------------------------------
(* kcli_parse(): a later word overrides an earlier one of the same key;    *)
(* rapido.mac. without "=" and a bad rapido.stty are errors.               *)
Malformed(w) == w.k \in {"mac", "stty"} /\ w.v = None

(* Mutant: the first word of a key is kept.                                *)
FirstWord(ws, k, t) ==
  LET at == {i \in DOMAIN ws : ws[i].k = k /\ ws[i].t = t}
  IN  IF at = {} THEN None ELSE ws[CHOOSE i \in at : \A j \in at : i <= j].v
LastWord(ws, k, t) ==
  LET at == {i \in DOMAIN ws : ws[i].k = k /\ ws[i].t = t}
  IN  IF at = {} THEN None ELSE ws[CHOOSE i \in at : \A j \in at : i >= j].v

kcli_parse(ws) ==
  [hostname |-> LastWord(ws, "hostname", None),
   vm_num |-> LastWord(ws, "vm_num", None),
   machine_id |-> LastWord(ws, "machine_id", None),
   mac |-> [t \in {ws[i].t : i \in {j \in DOMAIN ws : ws[j].k = "mac"}} |->
              LastWord(ws, "mac", t)]]

-----------------------------------------------------------------------------
Goto(l) == gpc' = l
Return == Goto("shutdown")

(* Command::status().expect(..): a program that is not there panics; one   *)
(* that fails is an error return.                                          *)
Command(bin, next) ==
  IF bin \in img.bins THEN Goto(next) \/ Return ELSE Goto("panic")

PowerOn(i, k, ws) ==
  /\ gpc = "off"
  /\ Goto("conf") /\ img' = i /\ kernel' = k /\ cmdline' = ws
  /\ UNCHANGED <<mounts, loaded, args, hostname, macs, online>>

(* init_main(): /rapido.conf is parsed without conf_defaults().            *)
ReadConf ==
  /\ gpc = "conf"
  /\ IF Parses(img.conf, FALSE) THEN Goto("mount") ELSE Return
  /\ UNCHANGED <<img, kernel, cmdline, mounts, loaded, args, hostname, macs, online>>

(* Mutant: one entry past the end of the table.                            *)
MountPast ==
  /\ gpc = "mount" /\ mounts <= Len(MountTable)
  /\ Command("mount", "mount")
  /\ mounts' = IF gpc' = "mount" THEN mounts + 1 ELSE mounts
  /\ UNCHANGED <<img, kernel, cmdline, loaded, args, hostname, macs, online>>

(* init_mount(): one entry of the table.                                   *)
Mount ==
  /\ gpc = "mount" /\ mounts < Len(MountTable)
  /\ Command("mount", "mount")
  /\ mounts' = IF gpc' = "mount" THEN mounts + 1 ELSE mounts
  /\ UNCHANGED <<img, kernel, cmdline, loaded, args, hostname, macs, online>>

(* debugfs and the /dev/fd link: failures are ignored.                     *)
MountExtra ==
  /\ gpc = "mount" /\ mounts = Len(MountTable)
  /\ Goto("modprobe")
  /\ UNCHANGED <<img, kernel, cmdline, mounts, loaded, args, hostname, macs, online>>

(* kmods_load(): modprobe -a, run without expect().  It loads a module the *)
(* image has for the running kernel and accepts one that is built in.      *)
Kmods ==
  conf_kmod_deps(img.conf)
  \union (IF img.hasnet THEN {"virtio_net", "af_packet"} ELSE {})
Loadable ==
  kernel.builtin \union (IF img.krel = kernel.rel THEN img.kmods ELSE {})
kmods_load ==
  /\ gpc = "modprobe"
  /\ \/ Kmods = {} /\ Goto("virtfs") /\ UNCHANGED loaded
     \/ /\ Kmods # {} /\ "modprobe" \in img.bins /\ Kmods \subseteq Loadable
        /\ loaded' = Kmods
        /\ Goto("virtfs")
     \/ Kmods # {} /\ Return /\ UNCHANGED loaded
  /\ UNCHANGED <<img, kernel, cmdline, mounts, args, hostname, macs, online>>

(* The 9p mount is optional, its mount point is not.                       *)
MountVirtfs ==
  /\ gpc = "virtfs"
  /\ Goto("cmdline") \/ (img.conf.virtfs /\ Return)
  /\ UNCHANGED <<img, kernel, cmdline, mounts, loaded, args, hostname, macs, online>>

ReadCmdline ==
  /\ gpc = "cmdline"
  /\ args' = kcli_parse(cmdline)
  /\ IF (\E i \in DOMAIN cmdline : Malformed(cmdline[i])) \/ args'.vm_num = None
     THEN Return ELSE Goto("hostname")
  /\ UNCHANGED <<img, kernel, cmdline, mounts, loaded, hostname, macs, online>>

(* init_hostname(); the rest of rapido.hostname is the domain name.        *)
Services == IF img.systemd THEN "systemd"
            ELSE IF img.hasnet THEN "machine_id" ELSE "setsid"
init_hostname ==
  /\ gpc = "hostname"
  /\ \/ /\ hostname' = IF args.hostname = None THEN <<"rapido", args.vm_num>>
                       ELSE args.hostname
        /\ Goto(IF img.hasnet THEN "netconf" ELSE Services)
     \/ Return /\ UNCHANGED hostname
  /\ UNCHANGED <<img, kernel, cmdline, mounts, loaded, args, macs, online>>

(* init_net_conf(): /etc/systemd/network becomes /rapido-rsc/net/vm<num>,  *)
(* which must be there for lo.network; a tap without a file is skipped.    *)
(* Mutant: the first tap without a .network file ends the loop.            *)
MatchMacsStop ==
  [t \in img.net[args.vm_num] |->
     IF t \in DOMAIN args.mac /\ DOMAIN args.mac \subseteq img.net[args.vm_num]
     THEN args.mac[t] ELSE None]
MatchMacs ==
  [t \in img.net[args.vm_num] |->
     IF t \in DOMAIN args.mac THEN args.mac[t] ELSE None]
init_net_conf ==
  /\ gpc = "netconf"
  /\ \/ /\ args.vm_num \in DOMAIN img.net
        /\ macs' = MatchMacs
        /\ Goto(Services)
     \/ Return /\ UNCHANGED macs
  /\ UNCHANGED <<img, kernel, cmdline, mounts, loaded, args, hostname, online>>

(* init_exec_systemd() never returns.                                      *)
Systemd ==
  /\ gpc = "systemd"
  /\ Goto("running") \/ Goto("panic")
  /\ UNCHANGED <<img, kernel, cmdline, mounts, loaded, args, hostname, macs, online>>

(* init_net_service(): the machine id, then one program after the other.   *)
MachineId ==
  /\ gpc = "machine_id"
  /\ (args.machine_id # None /\ Goto("udevd")) \/ Return
  /\ UNCHANGED <<img, kernel, cmdline, mounts, loaded, args, hostname, macs, online>>

NetService ==
  /\ \/ gpc = "udevd" /\ Command("systemd-udevd", "udevadm")
     \/ gpc = "udevadm" /\ Command("udevadm", "networkd")
     \/ gpc = "networkd" /\ Command("setsid", "wait")
  /\ UNCHANGED <<img, kernel, cmdline, mounts, loaded, args, hostname, macs, online>>

(* It fails when the network is not up after twenty seconds.               *)
WaitOnline ==
  /\ gpc = "wait"
  /\ Command("wait-online", "setsid")
  /\ online' = (gpc' = "setsid")
  /\ UNCHANGED <<img, kernel, cmdline, mounts, loaded, args, hostname, macs>>

(* init_shell(): the shell's status is only printed.                       *)
StartShell ==
  /\ gpc = "setsid"
  /\ Goto(IF "setsid" \in img.bins THEN "shell" ELSE "panic")
  /\ UNCHANGED <<img, kernel, cmdline, mounts, loaded, args, hostname, macs, online>>
ShellExits ==
  /\ gpc = "shell"
  /\ Return
  /\ UNCHANGED <<img, kernel, cmdline, mounts, loaded, args, hostname, macs, online>>

(* Mutant: a shutdown that fails is tried again.                           *)
init_shutdown_again ==
  /\ gpc = "shutdown"
  /\ Goto(IF mounts > 0 /\ kernel.sysrq THEN "poweroff" ELSE "shutdown")
  /\ UNCHANGED <<img, kernel, cmdline, mounts, loaded, args, hostname, macs, online>>

(* init_shutdown() writes to files of /proc; if it cannot, main() returns. *)
init_shutdown ==
  /\ gpc = "shutdown"
  /\ Goto(IF mounts > 0 /\ kernel.sysrq THEN "poweroff" ELSE "panic")
  /\ UNCHANGED <<img, kernel, cmdline, mounts, loaded, args, hostname, macs, online>>

(* What rapido-init does by itself; the shell ends when its user says so.  *)
InitStep ==
  \/ ReadConf \/ Mount \/ MountExtra \/ kmods_load \/ MountVirtfs \/ ReadCmdline
  \/ init_hostname \/ init_net_conf \/ Systemd \/ MachineId \/ NetService
  \/ WaitOnline \/ StartShell \/ init_shutdown

GuestNext == InitStep \/ ShellExits
=============================================================================
