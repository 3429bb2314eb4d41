--------------------------------- MODULE Conf ---------------------------------
(***************************************************************************)
(* What rapido.conf and the rapido library (lib.rs) decide for the other   *)
(* programs: defaults, kernel release and the kernel modules that QEMU's   *)
(* parameters ask for.                                                     *)
(*                                                                         *)
(* A configuration holds, for each key that matters, "unset" or what its   *)
(* value amounts to:                                                       *)
(*   extra   QEMU_EXTRA_ARGS: with virtio-rng-pci ("rng") or without       *)
(*   virtfs  VIRTFS_SHARE_PATH is set                                      *)
(*   ksrc    KERNEL_SRC: "" or a kernel tree                               *)
(*   krel    KERNEL_RELEASE: "" or a release                               *)
(*   kparams QEMU_EXTRA_KERNEL_PARAMS: words for the kernel command line   *)
(*   uses    some value refers to ${QEMU_EXTRA_ARGS} before the file sets  *)
(*           that key                                                      *)
(***************************************************************************)
EXTENDS Sequences

Unset == "unset"

EmptyConf == [extra |-> Unset, virtfs |-> FALSE, ksrc |-> Unset, krel |-> Unset,
              kparams |-> <<>>, uses |-> FALSE]

ConfRecords(params) ==
  [extra : STRING, virtfs : BOOLEAN, ksrc : STRING, krel : STRING,
   kparams : params, uses : BOOLEAN]

(* conf_defaults(), overridden by the keys of the file.                    *)
conf_defaults(c) == [c EXCEPT !.extra = IF @ = Unset THEN "rng" ELSE @]

(* kv_var_sub() finds the key it substitutes among the keys seen, defaults *)
(* included when the caller starts from them.                              *)
Parses(c, defaults) == ~c.uses \/ defaults

(* Modules for the devices that QEMU is asked for.                         *)
conf_kmod_deps(c) ==
  (IF c.extra = "rng" THEN {"virtio_rng"} ELSE {})
  \union (IF c.virtfs THEN {"9pnet", "9pnet_virtio", "9p"} ELSE {})

(* Mutant: KERNEL_RELEASE is not looked at.                                *)
kernel_vers_host(c, src, host) ==
  IF c.ksrc \notin {Unset, ""} THEN src ELSE host

(* The release of the tree's kernel, KERNEL_RELEASE or the host's release. *)
conf_src_or_host_kernel_vers(c, src, host) ==
  IF c.ksrc \notin {Unset, ""} THEN src
  ELSE IF c.krel # Unset THEN c.krel ELSE host
=============================================================================
