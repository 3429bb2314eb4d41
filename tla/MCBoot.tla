-------------------------------- MODULE MCBoot --------------------------------
(***************************************************************************)
(* Configurations, kernels and network directories on which TLC runs Boot. *)
(***************************************************************************)
EXTENDS Boot, TLC

(* r1 has virtio_rng built in, r3 has no MAGIC_SYSRQ and no 9p.            *)
Net9p == {"9pnet", "9pnet_virtio", "9p"}
K(builtin, files, sysrq) == [builtin |-> builtin, files |-> files, sysrq |-> sysrq]
MCKernels ==
     "r1" :> K({"virtio_rng"}, {"virtio_net", "af_packet"} \union Net9p, TRUE)
  @@ "r2" :> K({}, {"virtio_rng", "virtio_net", "af_packet"} \union Net9p, TRUE)
  @@ "r3" :> K({"af_packet"}, {"virtio_rng", "virtio_net"}, FALSE)

C(extra, virtfs, ksrc, krel, kparams) ==
  [extra |-> extra, virtfs |-> virtfs, ksrc |-> ksrc, krel |-> krel,
   kparams |-> kparams, uses |-> FALSE]
SomeConfs ==
  { EmptyConf,
    C("rng", FALSE, Unset, "r2", <<>>),
    C("plain", FALSE, "", Unset,
      <<Word("hostname", None, "u"), Word("hostname", None, "w")>>),
    C("rng", TRUE, "linux", Unset, <<Word("mac", "t1", "m")>>),
    C("plain", TRUE, Unset, "r3", <<>>),
    C(Unset, TRUE, "linux", "r2", <<Word("vm_num", None, 2)>>),
    C("plain", FALSE, Unset, Unset, <<Word("stty", None, None)>>),
    C("rng", FALSE, Unset, "r9", <<>>),
    [EmptyConf EXCEPT !.uses = TRUE], [EmptyConf EXCEPT !.krel = ""] }
PlainConfs == {EmptyConf}

MCTests == [net : BOOLEAN, systemd : BOOLEAN]
MCNetConfs == {(1 :> {"t1"} @@ 2 :> {"t2", "t3", "bond"}), (1 :> {"t1", "t4"})}
=============================================================================
