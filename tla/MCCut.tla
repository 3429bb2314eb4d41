-------------------------------- MODULE MCCut --------------------------------
(***************************************************************************)
(* Hosts, kernel modules and manifests on which TLC runs Cut.              *)
(***************************************************************************)
EXTENDS Cut, FiniteSets, TLC

N(type, exec, empty, tgt, kids, needed, run, broken) ==
  [type |-> type, exec |-> exec, empty |-> empty, tgt |-> tgt, kids |-> kids,
   needed |-> needed, run |-> run, broken |-> broken]
Bin(needed, run) == N("reg", TRUE, FALSE, <<>>, <<>>, needed, run, FALSE)
Lib(needed) == N("reg", FALSE, FALSE, <<>>, <<>>, needed, <<>>, FALSE)
Empty == N("reg", FALSE, TRUE, <<>>, <<>>, <<>>, <<>>, FALSE)
Sym(tgt) == N("lnk", TRUE, FALSE, tgt, <<>>, <<>>, <<>>, FALSE)
Dir(kids) == N("dir", TRUE, FALSE, <<>>, kids, <<>>, <<>>, FALSE)
Fifo == N("other", FALSE, TRUE, <<>>, <<>>, <<>>, <<>>, FALSE)

U(d, n) == <<"usr", d, n>>
O(n) == <<"opt", n>>
MCBinPaths == <<<<"usr", "bin">>, <<"usr", "sbin">>>>
MCLibPaths == <<<<"usr", "lib">>, <<"lib64">>>>

(* rapido-init, a shell, modprobe in the second binary directory, a        *)
(* versioned C library behind a symlink, the loader in the second library  *)
(* directory; libm only where ed's RUNPATH says.  /opt: every node type,   *)
(* a link back to /opt and a dangling one.  libx is in two places, and     *)
(* vi's RUNPATH leads to the second; the first needs liby, which nothing   *)
(* else does.  bad names libx, then a string outside its string table.     *)
BaseHost ==
     <<"init">> :> Bin(<<"libc">>, <<>>)
  @@ U("bin", "sh") :> Bin(<<"libc">>, <<>>)
  @@ U("bin", "ed") :> Bin(<<"libm", "libc">>, <<<<"opt">>>>)
  @@ U("sbin", "modprobe") :> Sym(U("bin", "ed"))
  @@ U("lib", "libc") :> Sym(U("lib", "libc6"))
  @@ U("lib", "libc6") :> Lib(<<"ld">>)
  @@ <<"lib64", "ld">> :> Lib(<<>>)
  @@ O("libm") :> Lib(<<"libc">>)
  @@ <<"opt">> :> Dir(<<"d", "dead", "fifo", "libm", "none", "up">>)
  @@ O("d") :> Dir(<<"libm">>)
  @@ <<"opt", "d", "libm">> :> Sym(O("libm"))
  @@ O("dead") :> Sym(NoTarget)
  @@ O("fifo") :> Fifo
  @@ O("none") :> Empty
  @@ O("up") :> Sym(<<"opt">>)
  @@ O("s1") :> Lib(<<>>)
  @@ O("s2") :> Sym(O("s1"))
  @@ U("bin", "ex") :> Bin(<<"libx">>, <<>>)
  @@ U("bin", "vi") :> Bin(<<"libx">>, <<<<"opt", "e">>>>)
  @@ U("lib", "libx") :> Lib(<<"liby">>)
  @@ U("lib", "liby") :> Lib(<<>>)
  @@ <<"opt", "e", "libx">> :> Lib(<<>>)
  @@ U("bin", "bad") :> [Bin(<<"libx">>, <<>>) EXCEPT !.broken = TRUE]
ScriptName(i, n) == ToString(i) \o "-" \o n
MCName ==
  {ScriptName(i, n) : i \in 0..11, n \in {"s1", "s2"}}
  \union UNION {{p[i] : i \in DOMAIN p} : p \in DOMAIN BaseHost}
  \union {"..", "etc", "a", "t", "x", "rdinit", "rapido.conf", "rapido.rc", "sbin",
          "rapido_autorun", "lib", "bin", "modules", "m",
          "ka", "kb", "kc", "ke", "kf", "kg", "kh", "dep", "gone",
          "ks", "nope", "e", "TRAILER!!!"}

MCCoreElfs == <<Ent("NameDst", <<"init">>, TRUE, <<>>),
                Ent("Name", <<"sh">>, FALSE, <<>>),
                Ent("Name", <<"modprobe">>, FALSE, <<>>)>>
MCAutorunName ==
  [i \in 0..11 |-> [n \in MCName |->
     IF n \in {"s1", "s2"} THEN ScriptName(i, n) ELSE n]]

(* ka needs kb and kc, has soft dependencies and is one of ks; kd is       *)
(* builtin; ke's hard dependency and kf's soft one have no file.           *)
M(rel, builtin, hard, soft) ==
  [rel |-> rel, builtin |-> builtin, hard |-> hard, soft |-> soft]
MCKmodRoot == <<"m">>
MCKmodDb == <<<<"dep">>, <<"gone">>>>
BaseKmod ==
     "ka" :> M(<<"d", "ka">>, FALSE, <<<<"d", "kb">>, <<"kc">>>>, <<"kd", "kx", "kc">>)
  @@ "kb" :> M(<<"d", "kb">>, FALSE, <<<<"kc">>>>, <<>>)
  @@ "kc" :> M(<<"kc">>, FALSE, <<>>, <<>>)
  @@ "kd" :> M(<<>>, TRUE, <<>>, <<>>)
  @@ "ke" :> M(<<"ke">>, FALSE, <<<<"kg">>>>, <<>>)
  @@ "kf" :> M(<<"kf">>, FALSE, <<>>, <<"kh">>)
  @@ "kg" :> M(<<"kg">>, FALSE, <<>>, <<>>)
  @@ "kh" :> M(<<"kh">>, FALSE, <<>>, <<>>)
  @@ "ks" :> M(<<"ks">>, FALSE, <<>>, <<"ka">>)
BaseKmodFile ==
  {<<"dep">>, <<"d", "ka">>, <<"d", "kb">>, <<"kc">>, <<"ke">>, <<"kf">>, <<"ks">>}
MCConfKmods == <<"kb">>

-----------------------------------------------------------------------------
(* Manifest lines.                                                         *)
LBin(src, sep) == Line("bin", <<>>, src, "", sep, <<>>)
LTry(src) == Line("try-bin", <<>>, src, "", FALSE, <<>>)
LKmod(n) == Line("kmod", <<>>, <<>>, n, FALSE, <<>>)
LTryKmod(n) == Line("try-kmod", <<>>, <<>>, n, FALSE, <<>>)
LTree(dst, src) == Line("tree", dst, src, "", FALSE, <<>>)
LFilter(dst) == Line("filter", dst, <<>>, "", FALSE, <<>>)
LDir(dst) == Line("dir", dst, <<>>, "", FALSE, <<>>)
LSlink(dst) == Line("slink", dst, <<>>, "", FALSE, <<>>)
LFile(dst, src) == Line("file", dst, src, "", FALSE, <<>>)
LAuto(srcs) == Line("autorun", <<>>, <<>>, "", FALSE, srcs)
LInc(n) == Line("include", <<>>, <<>>, n, FALSE, <<>>)

OneFile(lines) == [main |-> <<lines>>, incs |-> <<>>]
UpTo(S, n) == UNION {[1..m -> S] : m \in 0..n}

(* Every manifest of up to three lines out of these.                       *)
PathLines ==
  { LBin(<<"ed">>, FALSE), LBin(<<"opt">>, TRUE), LTree(<<"t", "x">>, <<"opt">>),
    LTree(<<"opt">>, <<"opt">>), LFilter(O("d")), LFilter(<<"usr">>),
    LDir(<<"usr", "lib">>), LFile(<<"etc", "..", "t", "a">>, O("s2")),
    LSlink(<<"sbin">>), LDir(<<"..", "a", "x">>), LTry(<<"nope">>),
    LFile(<<"lib", "a">>, <<>>) }
PathInputs == {OneFile(s) : s \in UpTo(PathLines, 3)}

(* Programs that share a library's name, in any order; the library may be  *)
(* filtered, or come in by a line that does not scan it.                   *)
LFileX == LFile(U("lib", "libx"), U("lib", "libx"))
ElfLines ==
  { LBin(<<"ex">>, FALSE), LBin(<<"vi">>, FALSE), LBin(<<"bad">>, FALSE),
    LFilter(U("lib", "libx")), LFileX, LBin(U("lib", "libx"), TRUE) }
ElfInputs == {OneFile(s) : s \in UpTo(ElfLines, 3)}

(* Modules asked for in any order, some filtered or already archived by    *)
(* other lines; no module is both optional and required.                   *)
KmodLines ==
  { LKmod("ka"), LKmod("kc"), LKmod("kd"), LKmod("ks"), LKmod("ke"), LKmod("kf"),
    LKmod("kx"), LTryKmod("ke"), LTryKmod("kx"), LTryKmod("kb"),
    LFilter(<<"m", "kc">>), LFilter(<<"m", "d", "ka">>), LFile(<<"m", "kc">>, <<>>) }
Optional(s) == {s[i].name : i \in {j \in DOMAIN s : s[j].k = "try-kmod"}}
Required(s) == {s[i].name : i \in {j \in DOMAIN s : s[j].k = "kmod"}}
KmodInputs ==
  {OneFile(s) : s \in {t \in UpTo(KmodLines, 3) :
                         Optional(t) \intersect Required(t) \subseteq {"kx"}}}

-----------------------------------------------------------------------------
(* Manifests that include one another, and the order of autorun scripts    *)
(* against a reference expansion.                                          *)

(* What the lines left in a reader at depth d stand for: the manifest with *)
(* every include replaced by the included lines.                           *)
RECURSIVE Expand(_, _)
Expand(lines, d) ==
  IF lines = <<>> THEN <<>>
  ELSE LET l == Head(lines)
       IN  (CASE l.k = "autorun" -> l.srcs
              [] l.k = "include" /\ l.name \in DOMAIN incs /\ d < MaxOpen ->
                   Expand(incs[l.name], d + 1)
              [] OTHER -> <<>>) \o Expand(Tail(lines), d)

RECURSIVE ExpandAll(_)
ExpandAll(d) == IF d = 0 THEN <<>> ELSE Expand(fests[d], d) \o ExpandAll(d - 1)

(* The scripts archived so far, then those to come, numbered onwards.      *)
AutorunPlan ==
  LET IsScript(e) == e.via = "autorun"
      done == SelectSeq(out, IsScript)
      left == ExpandAll(Len(fests))
  IN  [i \in DOMAIN done |-> done[i].path] \o
      [i \in DOMAIN left |->
         Append(AutorunDir, AutorunName[idx + i - 1][Base(left[i])])]

(* "Entries are processed in order": the scripts the VM will run, and the  *)
(* numbers their names begin with, are at every step those of the manifest *)
(* with its includes expanded in place, however the readers are stacked.   *)
AutorunOrder == [][phase' = "failed" \/ AutorunPlan' = AutorunPlan]_vars

ManifestLines ==
  { LAuto(<<O("s1")>>), LAuto(<<O("s2"), O("s1")>>), LAuto(<<<<"etc", "s1">>>>),
    LInc("i1"), LInc("self"), LInc("gone"), LFilter(AutorunDir), LBin(<<"opt">>, TRUE) }
ManifestIncs ==
     "i1" :> <<LAuto(<<O("s2")>>), LInc("i2"), LAuto(<<O("s1")>>)>>
  @@ "i2" :> <<LAuto(<<O("s1")>>)>>
  @@ "self" :> <<LAuto(<<O("s2")>>), LInc("self"), LAuto(<<O("s1")>>)>>
ManifestInputs ==
  {[main |-> <<s>>, incs |-> ManifestIncs] : s \in UpTo(ManifestLines, 3)}
  \union
  {[main |-> <<<<a>>, <<b>>>>, incs |-> ManifestIncs] :
     a \in ManifestLines, b \in ManifestLines}

(* A module without a file, optional and then required.                    *)
TryInputs == {OneFile(<<LTryKmod("ke"), LKmod("ke")>>)}

(* A library that a file line brings in before the program that needs it.  *)
FileInputs == {OneFile(<<LFileX, LBin(<<"ex">>, FALSE)>>)}

MCInputs == PathInputs \union ElfInputs \union KmodInputs \union ManifestInputs
=============================================================================
