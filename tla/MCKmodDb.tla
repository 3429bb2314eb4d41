------------------------------- MODULE MCKmodDb -------------------------------
(***************************************************************************)
(* Directories for KmodDb: files of up to two lines, or none.  Of a name   *)
(* with a dash there are files with a dash and with an underscore.         *)
(***************************************************************************)
EXTENDS KmodDb

MCNorm == [n \in {"a-b", "a_b", "c", "d", "x", "x-y", "x_y"} |->
             CASE n = "a-b" -> "a_b" [] n = "x-y" -> "x_y" [] OTHER -> n]
UpTo(S, n) == UNION {[1..m -> S] : m \in 0..n} \union {None}

Ko(n) == [name |-> n, exts |-> <<"ko">>]
Xz(n) == [name |-> n, exts |-> <<"ko", "xz">>]
Dep(f, deps) == [file |-> f, deps |-> deps]

MCDep == UpTo({Dep(Xz("a-b"), <<Ko("c")>>), Dep(Ko("a_b"), <<>>), Dep(Ko("c"), <<>>)}, 2)
MCBuiltin == UpTo({Ko("a-b"), Ko("d")}, 2)
MCSoftdep ==
  UpTo({<<"softdep", "a_b", "pre:", "c", "post:", "d">>,
        <<"softdep", "d", "c", "post:", "a_b", "pre:", "x">>,
        <<"softdep", "a-b", "pre:", "d">>, <<"softdep", "c">>}, 1)
MCWeakdep == UpTo({<<"weakdep", "a_b", "c">>, <<"weakdep", "a_b", "d">>,
                   <<"weakdep", "c", "d", "x">>}, 1)
MCAlias == UpTo({<<"alias", "x", "c">>, <<"alias", "x", "a_b">>, <<"alias", "x_y", "d">>,
                 <<"alias", "c", "d">>}, 2)
=============================================================================
