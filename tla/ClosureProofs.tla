---------------------------- MODULE ClosureProofs ----------------------------
(***************************************************************************)
(* What rapido-cut follows: traversals stop where nothing was archived,    *)
(* and programs come with the libraries they need, for every host and      *)
(* manifest.                                                               *)
(*                                                                         *)
(* Neither is inductive.  StackInv and ChildInv say of what waits on a     *)
(* stack, or is in progress, that a traversal found it in a directory it   *)
(* archived.  ClosureInv says of every name in libs_seen, and of every     *)
(* link that was archived, that somebody saw to it: it is archived, is on  *)
(* the stack, or is the entry in progress.  That a library which a file    *)
(* waits for ends up in the archive as a library takes two more facts.     *)
(* LibInv: libraries are taken from the stack before anything else is, so  *)
(* that until then nothing but libraries is archived.  TurnInv: no other   *)
(* routine archives in between.  What paths_seen holds is in the archive   *)
(* or was kept out of it: that is SeenInv of CutProofs.                    *)
(***************************************************************************)
EXTENDS CutProofs, WellFoundedInduction

(* A leaf that names no prover is tried with Zenon, then with SMT.         *)
USE Zenon, SMTT(20)

Traversals == ElfOps \union {"tree", "child"}
Opened(o, p) ==
  \E j \in DOMAIN o : o[j].path = p /\ o[j].type = "dir" /\ o[j].via \in Traversals
CoreDst(p) ==
  \E c \in DOMAIN CoreElfs : CoreElfs[c].k = "NameDst" /\ path_stat(CoreElfs[c], p)

StackInv ==
  /\ elfs \in Seq(EntType)
  /\ \A i \in DOMAIN elfs : elfs[i].k = "NameDst" =>
       \E c \in DOMAIN CoreElfs : elfs[i] = CoreElfs[c]
  /\ cur.op \in {"elf", "elfchild", "elflib"} => cur.dst = cur.src
  /\ cur.op = "elfdst" => CoreDst(cur.src)
  /\ \A k \in DOMAIN out : out[k].via \in ElfOps => HostPaths(out[k]) \subseteq DOMAIN Host

ChildInv ==
  /\ TraversalStops
  /\ \A i \in DOMAIN elfs : elfs[i].k = "Path" =>
       elfs[i].sep /\ elfs[i].name # <<>> /\ Opened(out, Parent(elfs[i].name))
  /\ \A i \in DOMAIN items : items[i].child =>
       items[i].dst # <<>> /\ Opened(out, Parent(items[i].dst))
  /\ cur.op \in {"child", "elfchild"} => Opened(out, Parent(cur.dst))

(* Whoever gathers has the stacks of the others empty.                     *)
TurnInv ==
  elfs # <<>> \/ cur.op \in ElfOps =>
    items = <<>> /\ tasks = <<>> /\ cur.op \in ElfOps \union {"none"}

(* Libraries come off the stack before what lies under them; each of them  *)
(* is a file or a link to one.                                             *)
LibFile(p) ==
  /\ Host[p].type # "dir"
  /\ Host[p].type = "lnk" =>
       /\ Host[p].tgt # NoTarget
       /\ Host[p].tgt \in DOMAIN Host => Host[Host[p].tgt].type # "dir"
FileEnt(e) == \A p \in DOMAIN Host : path_stat(e, p) => LibFile(p)
LibInv ==
  /\ \A i, l \in DOMAIN elfs : i < l /\ elfs[i].k = "Lib" => elfs[l].k = "Lib"
  /\ cur.op \in ElfOps \ {"elflib"} => \A i \in DOMAIN elfs : elfs[i].k # "Lib"
  /\ \A i \in DOMAIN elfs : elfs[i].k = "Lib" => FileEnt(elfs[i])
  /\ cur.op = "elflib" => LibFile(cur.src)

(* One of the paths S is provided for the entry at j; or a library on the  *)
(* stack, or in progress, will be one of them, and since that entry the    *)
(* archive has only got libraries and their directories.                   *)
Pure(j) == \A l \in DOMAIN out : l > j => AsLib(out[l])
Leading(e, S) == e.k = "Lib" /\ \A p \in DOMAIN Host : path_stat(e, p) => p \in S
Pend(S) ==
  \/ \E i \in DOMAIN elfs : Leading(elfs[i], S)
  \/ cur.op = "elflib" /\ cur.src \in S
Owed(j, S) ==
  \/ Pure(j) /\ Pend(S)
  \/ \E p \in S : Provided(j, p)

(* The target of a link that is no library is archived, or will be.        *)
Target(t) ==
  \/ t \in Covered
  \/ \E i \in DOMAIN elfs : elfs[i].k = "Name" /\ elfs[i].sep /\ elfs[i].name = t
  \/ cur.op = "elf" /\ cur.src = t

(* Host file m, archived at j, needs lib and has seen to it.               *)
Leads(m, lib) == {p \in DOMAIN Host : LeadsTo(m, lib, p)}
Settled(j, m, lib) ==
  /\ \E i \in DOMAIN m.needed : m.needed[i] = lib
  /\ m.broken \/ Owed(j, Leads(m, lib))
Accounted(k, lib) ==
  \E j \in DOMAIN out : j <= k /\ out[j].via \in ElfOps /\
    \E q \in HostPaths(out[j]) : Settled(j, Host[q], lib)
EntryClosed(k, n) ==
  /\ n.type = "lnk" =>
       /\ n.tgt # NoTarget
       /\ IF out[k].via = "elflib" THEN Owed(k, {n.tgt}) ELSE Target(n.tgt)
  /\ Scanned(k, n) => n.broken \/ \A i \in DOMAIN n.needed : Accounted(k, n.needed[i])
ClosureInv ==
  Running =>
    /\ \A k \in DOMAIN out : out[k].via \in ElfOps =>
         \A q \in HostPaths(out[k]) : EntryClosed(k, Host[q])
    /\ \A lib \in libs : \E k \in DOMAIN out : Accounted(k, lib)

(* The init that main() renames is no directory.                           *)
InitIsFile == \A p \in DOMAIN Host : CoreDst(p) => Host[p].type # "dir"
(* Where a needed library is found there is a file, or a link to one.      *)
LibsAreFiles ==
  \A p, q \in DOMAIN Host : \A i \in DOMAIN Host[q].needed :
    LeadsTo(Host[q], Host[q].needed[i], p) => LibFile(p)

-----------------------------------------------------------------------------
(* path_stat().                                                            *)

(* The paths tried for an entry are paths.                                 *)
LEMMA CandidatesType ==
  ASSUME NEW e \in EntType
  PROVE  Candidates(e) \in Seq(Path)
<1>1. e.name \in Path /\ e.run \in Seq(Path)
  BY DEF EntType
<1>2. CASE e.sep
  BY <1>1, <1>2, Singleton DEF Candidates
<1>3. CASE ~e.sep
  <2> DEFINE dirs == IF e.k = "Lib" THEN e.run \o LibPaths ELSE BinPaths
             all == [i \in DOMAIN dirs |-> dirs[i] \o e.name]
  <2>1. dirs \in Seq(Path)
    BY <1>1, ElfAssumption, ConcatProperties
  <2> HIDE DEF dirs
  <2>2. \A i \in DOMAIN dirs : dirs[i] \in Path
    BY <2>1, ElementOfSeq, LenProperties
  <2>3. all \in [DOMAIN dirs -> Path]
    BY <1>1, <2>2, ConcatProperties DEF Path
  <2> HIDE DEF all
  <2>4. all \in Seq(Path)
    BY <2>1, <2>3, MapType
  <2> QED
    BY <1>3, <2>4 DEF Candidates, dirs, all
<1> QED
  BY <1>2, <1>3

(* It has at most one result.                                              *)
LEMMA StatUnique ==
  ASSUME NEW e \in EntType, NEW p, NEW q, path_stat(e, p), path_stat(e, q)
  PROVE  p = q
<1> DEFINE c == Candidates(e)
<1>1. c \in Seq(Path)
  BY CandidatesType
<1> HIDE DEF c
<1>2. DOMAIN c = 1..Len(c) /\ Len(c) \in Nat
  BY <1>1, LenProperties
<1>3. PICK i \in DOMAIN c : p = c[i] /\ \A j \in 1..(i - 1) : c[j] \notin DOMAIN Host
  BY DEF path_stat, c
<1>4. PICK l \in DOMAIN c : q = c[l] /\ \A j \in 1..(l - 1) : c[j] \notin DOMAIN Host
  BY DEF path_stat, c
<1>5. c[i] \in DOMAIN Host /\ c[l] \in DOMAIN Host
  BY <1>3, <1>4 DEF path_stat
<1>6. ~(i < l) /\ ~(l < i)
  BY <1>2, <1>3, <1>4, <1>5
<1> QED
  BY <1>2, <1>3, <1>4, <1>6

(* A name with a separator is taken as it is.                              *)
LEMMA StatSep ==
  ASSUME NEW e \in EntType, e.sep, NEW p, path_stat(e, p)
  PROVE  p = e.name
BY DEF path_stat, Candidates

(* main() renames one file.                                                *)
LEMMA CoreUnique ==
  ASSUME NEW p, NEW q, CoreDst(p), CoreDst(q)
  PROVE  p = q
<1>1. PICK i \in DOMAIN CoreElfs : CoreElfs[i].k = "NameDst" /\ path_stat(CoreElfs[i], p)
  BY DEF CoreDst
<1>2. PICK j \in DOMAIN CoreElfs : CoreElfs[j].k = "NameDst" /\ path_stat(CoreElfs[j], q)
  BY DEF CoreDst
<1>3. i = j /\ CoreElfs[i] \in EntType
  BY <1>1, <1>2, CoreAssumption, ElementOfSeq, LenProperties
<1> QED
  BY <1>1, <1>2, <1>3, StatUnique

-----------------------------------------------------------------------------
(* Steps of the other routines.                                            *)

(* A step that is none of gather_archive_elfs(): it leaves the stack, the  *)
(* library names and an entry of that routine alone.                       *)
Calm ==
  /\ GrownBut(ElfOps) /\ seen \subseteq seen' /\ UNCHANGED elfVars
  /\ cur' = cur \/ (cur.op \notin ElfOps /\ cur'.op \notin ElfOps)
  /\ Running' => Running

(* A step that finds nothing in a directory.                               *)
Quiet ==
  /\ GrownBut({"child", "elfchild"})
  /\ \A i \in DOMAIN elfs' : elfs'[i].k = "Path" => \E l \in DOMAIN elfs : elfs[l] = elfs'[i]
  /\ \A i \in DOMAIN items' : items'[i].child => \E l \in DOMAIN items : items[l] = items'[i]
  /\ cur'.op \in {"child", "elfchild"} => cur' = cur

(* A step that leaves the stacks alone.                                    *)
LEMMA CalmQuiet ==
  ASSUME GrownBut(ElfOps), GrownBut({"child", "elfchild"}), seen \subseteq seen',
         UNCHANGED <<elfVars, items>>, Running,
         cur' = cur \/ (cur.op \notin ElfOps /\ cur'.op \notin ElfOps \union {"child"})
  PROVE  Calm /\ Quiet
<1>1. UNCHANGED <<elfs, items>>
  BY DEF elfVars
<1>2. Calm
  BY DEF Calm
<1>3. Quiet
  BY <1>1 DEF Quiet, ElfOps
<1> QED
  BY <1>2, <1>3

(* gather_archive_dirs().                                                  *)
LEMMA DirsCalm ==
  ASSUME ArchiveTypeOK, gather_archive_dirs, UNCHANGED <<elfVars, items>>
  PROVE  Calm /\ Quiet
<1>1. Running /\ cur' = cur /\ seen \subseteq seen'
  BY DEF gather_archive_dirs, DirUp, DirInvalid, DirSeen, DirArchive, Walking
<1>2. GrownBut(ElfOps) /\ GrownBut({"child", "elfchild"})
  <2>1. CASE UNCHANGED out
    BY <2>1, GrownNone
  <2>2. CASE DirArchive
    <3> DEFINE e == [path |-> here', type |-> "dir", via |-> "walk"]
    <3>1. out \in Seq(OutType) /\ here' \in Path /\ out' = Append(out, e)
      BY <2>2, DirsType DEF DirArchive, Write, ArchiveTypeOK, OutType
    <3>2. e \in OutType /\ e.via \notin ElfOps /\ e.via \notin {"child", "elfchild"}
      BY <3>1 DEF OutType, Types, ElfOps
    <3> HIDE DEF e
    <3> QED
      BY <3>1, <3>2, GrownOne
  <2> QED
    BY <2>1, <2>2 DEF gather_archive_dirs, DirUp, DirInvalid, DirSeen
<1> QED
  BY <1>1, <1>2, CalmQuiet

(* gather_archive_kmod_and_deps().                                         *)
LEMMA KmodsCalm ==
  ASSUME ArchiveTypeOK, gather_archive_kmod_and_deps, UNCHANGED <<elfVars, items>>
  PROVE  Calm /\ Quiet
<1>1. CASE KmodArchive
  <2>1. Running /\ cur.op = "kmod" /\ Finish("reg", "kmod")
    BY <1>1 DEF KmodArchive, Walked
  <2>2. GrownBut(ElfOps) /\ GrownBut({"child", "elfchild"}) /\ seen \subseteq seen' /\ cur' = NoEntry
    BY <2>1, FinishGrown DEF Types, Ops, ElfOps
  <2>3. cur.op \notin ElfOps /\ cur'.op \notin ElfOps \union {"child"}
    BY <2>1, <2>2 DEF NoEntry, Entry, ElfOps
  <2> QED
    BY <2>1, <2>2, <2>3, CalmQuiet
<1>2. CASE KmodSkip \/ KmodUnknown \/ KmodMissing \/ KmodBegin
  <2>1. Running /\ UNCHANGED out /\ seen \subseteq seen' /\ cur = NoEntry
    BY <1>2 DEF KmodSkip, KmodUnknown, KmodMissing, KmodBegin, KmodReady, archiveVars
  <2>2. cur' = cur \/ cur'.op = "kmod"
    <3>1. CASE KmodBegin
      <4>1. cur' = Entry("kmod", KmodDst, Rel)
        BY <3>1 DEF KmodBegin, Begin
      <4> QED
        BY <4>1 DEF Entry
    <3> QED
      BY <1>2, <3>1 DEF KmodSkip, KmodUnknown, KmodMissing, archiveVars
  <2>3. cur' = cur \/ (cur.op \notin ElfOps /\ cur'.op \notin ElfOps \union {"child"})
    BY <2>1, <2>2 DEF NoEntry, Entry, ElfOps
  <2> QED
    BY <2>1, <2>3, GrownNone, CalmQuiet
<1> QED
  BY <1>1, <1>2 DEF gather_archive_kmod_and_deps

(* gather_archive_data().                                                  *)
LEMMA DataCalm ==
  ASSUME ArchiveTypeOK, gather_archive_data, UNCHANGED elfVars
  PROVE  Calm
<1>1. CASE DataDir \/ DataLeaf
  <2>1. Running /\ cur.op \in {"tree", "child"} /\ \E t \in Types : Finish(t, cur.op)
    <3>1. Running /\ cur.op \in {"tree", "child"}
      BY <1>1 DEF DataDir, DataLeaf, DataWalked, Walked
    <3>2. cur.src \in DOMAIN Host
      BY <3>1 DEF ArchiveTypeOK, HostOps
    <3>3. Host[cur.src].type \in Types /\ "dir" \in Types
      BY <3>2, HostAssumption DEF Types
    <3> QED
      BY <1>1, <3>1, <3>3 DEF DataDir, DataLeaf
  <2>2. GrownBut(ElfOps) /\ seen \subseteq seen' /\ cur' = NoEntry
    <3>1. PICK t \in Types : Finish(t, cur.op)
      BY <2>1
    <3>2. cur.op \in Ops \union {"line"} /\ cur.op \notin ElfOps
      BY <2>1 DEF Ops, ElfOps
    <3> QED
      BY <3>1, <3>2, FinishGrown
  <2>3. cur.op \notin ElfOps /\ cur'.op \notin ElfOps
    BY <2>1, <2>2 DEF NoEntry, Entry, ElfOps
  <2> QED
    BY <2>1, <2>2, <2>3 DEF Calm
<1>2. CASE DataMissing \/ DataSeen \/ DataBegin
  <2>1. Running /\ UNCHANGED out /\ seen \subseteq seen' /\ cur = NoEntry
    BY <1>2 DEF DataMissing, DataSeen, DataBegin, DataReady, archiveVars
  <2>2. cur' = cur \/ cur'.op \in {"tree", "child"}
    BY <1>2 DEF DataMissing, DataSeen, DataBegin, Begin, Entry, archiveVars
  <2>3. cur' = cur \/ (cur.op \notin ElfOps /\ cur'.op \notin ElfOps)
    BY <2>1, <2>2 DEF NoEntry, Entry, ElfOps
  <2> QED
    BY <2>1, <2>3, GrownNone DEF Calm
<1> QED
  BY <1>1, <1>2 DEF gather_archive_data

(* A manifest line, other than bin and try-bin.                            *)
LEMMA LinesCalm ==
  ASSUME TypeOK, LineStep, ~LineBin
  PROVE  Calm /\ Quiet
<1>1. ArchiveTypeOK
  BY DEF TypeOK
<1>2. ASSUME Reading PROVE Running /\ cur = NoEntry /\ cur.op = "none"
  BY <1>2 DEF Reading, Running, Idle, NoEntry, Entry
<1>3. CASE LineArchive
  <2>1. Running /\ cur.op \in {"dir", "slink", "file"} /\ \E t \in Types : Finish(t, "line")
    BY <1>3 DEF LineArchive, Walked, Types
  <2>2. UNCHANGED <<elfVars, items>>
    BY <1>3 DEF LineArchive
  <2>3. GrownBut(ElfOps) /\ GrownBut({"child", "elfchild"}) /\ seen \subseteq seen' /\ cur' = NoEntry
    BY <1>1, <2>1, FinishGrown DEF ElfOps
  <2>4. cur.op \notin ElfOps /\ cur'.op \notin ElfOps \union {"child"}
    BY <2>1, <2>3 DEF NoEntry, Entry, ElfOps
  <2> QED
    BY <2>1, <2>2, <2>3, <2>4, CalmQuiet
<1>4. CASE LineInclude \/ LineFilter \/ LineKmod
  <2>1. Reading /\ UNCHANGED <<out, cur, elfVars, items>> /\ seen \subseteq seen'
    BY <1>4 DEF LineInclude, LineFilter, LineKmod, archiveVars
  <2> QED
    BY <1>2, <2>1, GrownNone, CalmQuiet
<1>5. CASE LineEntry
  <2>1. Reading /\ UNCHANGED <<out, seen, elfVars, items>> /\ L.k \in {"dir", "slink", "file"}
    BY <1>5 DEF LineEntry
  <2>2. cur' = cur \/ cur' = Entry(L.k, L.dst, L.src)
    BY <1>5 DEF LineEntry, Begin
  <2>3. cur' = cur \/ (cur.op \notin ElfOps /\ cur'.op \notin ElfOps \union {"child"})
    BY <1>2, <2>1, <2>2 DEF Entry, ElfOps
  <2> QED
    BY <1>2, <2>1, <2>3, GrownNone, CalmQuiet
<1>6. CASE LineAutorun
  <2>1. Reading /\ UNCHANGED <<cur, elfVars, items>> /\ seen \subseteq seen'
    BY <1>6 DEF LineAutorun
  <2>2. GrownBut(ElfOps) /\ GrownBut({"child", "elfchild"})
    BY <1>6, AutorunGrown DEF ElfOps
  <2> QED
    BY <1>2, <2>1, <2>2, CalmQuiet
<1>7. CASE LineTree
  <2>1. Reading /\ UNCHANGED <<out, seen, cur, elfs, elfVars>>
    BY <1>7 DEF LineTree, archiveVars, elfVars
  <2>2. \A i \in DOMAIN items' : ~items'[i].child
    BY <1>7 DEF LineTree, Item
  <2>3. Calm
    BY <1>2, <2>1, GrownNone DEF Calm
  <2>4. Quiet
    BY <2>1, <2>2, GrownNone DEF Quiet
  <2> QED
    BY <2>3, <2>4
<1> QED
  BY <1>3, <1>4, <1>5, <1>6, <1>7 DEF LineStep

(* main(), up to the stack that it hands to gather_archive_elfs().         *)
LEMMA MainCalm ==
  ASSUME TypeOK, MainStep, ~MainRc
  PROVE  Calm /\ Quiet
<1>1. ArchiveTypeOK /\ "reg" \in Types /\ "lnk" \in Types /\ "trailer" \in Types
      /\ "main" \notin ElfOps /\ "main" \notin {"child", "elfchild"}
  BY DEF TypeOK, Types, ElfOps
<1>2. ASSUME NEW p \in Path, NEW t \in Types, Write(p, t, "main") \/ UNCHANGED out,
             Running, UNCHANGED <<seen, cur, elfVars, items>>
      PROVE  Calm /\ Quiet
  BY <1>1, <1>2, MainGrown, CalmQuiet
<1>3. ASSUME NEW from \in {"lib64", "bin", "sbin"}, NEW to, NEW p \in Path, Link(from, to, p)
      PROVE  Calm /\ Quiet
  <2>1. /\ Running /\ UNCHANGED <<seen, cur, elfVars, items>>
        /\ Write(p, "lnk", "main") \/ UNCHANGED out
    BY <1>3 DEF Link, Running
  <2> QED
    BY <1>1, <1>2, <2>1
<1>4. CASE MainConf
  BY <1>1, <1>2, <1>4, LiteralPaths DEF MainConf, Running
<1>5. CASE MainKmods
  <2>1. Running /\ UNCHANGED <<seen, out, cur, elfVars, items>>
    BY <1>5 DEF MainKmods, Running
  <2> QED
    BY <1>1, <1>2, <2>1, LiteralPaths
<1>6. CASE MainSbin
  <2>1. CASE Running /\ UNCHANGED <<seen, out, cur, elfVars, items>>
    BY <1>1, <1>2, <2>1, LiteralPaths
  <2> QED
    BY <1>3, <1>6, <2>1, LiteralPaths DEF MainSbin, Running
<1>7. CASE MainKmodsLink
  <2>1. KmodsLink \in Path
    BY LiteralPaths DEF KmodsLink
  <2> QED
    BY <1>1, <1>2, <1>7, <2>1 DEF MainKmodsLink, Running
<1>8. CASE MainTrailer
  BY <1>1, <1>2, <1>8, LiteralPaths DEF MainTrailer, Running
<1> QED
  BY <1>3, <1>4, <1>5, <1>6, <1>7, <1>8, LiteralPaths DEF MainStep

-----------------------------------------------------------------------------
(* StackInv.                                                               *)

LEMMA StackCalm ==
  ASSUME StackInv, Calm
  PROVE  StackInv'
<1>1. elfs' = elfs
  BY DEF Calm, elfVars
<1>2. /\ cur'.op \in {"elf", "elfchild", "elflib"} => cur'.dst = cur'.src
      /\ cur'.op = "elfdst" => CoreDst(cur'.src)
  BY DEF StackInv, Calm, ElfOps
<1>3. \A k \in DOMAIN out' : out'[k].via \in ElfOps => HostPaths(out'[k]) \subseteq DOMAIN Host
  BY DEF StackInv, Calm, GrownBut, Grown
<1> QED
  BY <1>1, <1>2, <1>3 DEF StackInv, CoreDst, HostPaths

(* Handing over a list: a bin line, main()'s own.                          *)
LEMMA StackGiven ==
  ASSUME StackInv, TypeOK, LineBin \/ MainRc
  PROVE  /\ StackInv' /\ GrownBut(ElfOps) /\ GrownBut({"child", "elfchild"}) /\ Running
         /\ elfs = <<>> /\ cur = NoEntry /\ UNCHANGED <<seen, cur, libs, items>>
         /\ \A i \in DOMAIN elfs' : elfs'[i].k # "Path"
<1>1. /\ elfs = <<>> /\ cur = NoEntry /\ UNCHANGED <<seen, cur, libs, items>> /\ Running
  BY DEF LineBin, MainRc, Reading, Idle, archiveVars, Running
<1>2. /\ elfs' \in Seq(EntType) /\ \A i \in DOMAIN elfs' : elfs'[i].k # "Path"
      /\ \A i \in DOMAIN elfs' : elfs'[i].k = "NameDst" => \E c \in DOMAIN CoreElfs : elfs'[i] = CoreElfs[c]
  <2>1. CASE MainRc
    BY <2>1, CoreAssumption DEF MainRc
  <2>2. CASE LineBin
    <3> DEFINE e == Ent(IF L.k = "bin" THEN "Name" ELSE "NameTry", L.src, L.sep, <<>>)
    <3>1. Reading /\ L \in LineType /\ elfs' = <<e>>
      BY <2>2, ReadingType DEF LineBin, TypeOK
    <3>2. <<>> \in Seq(Path)
      BY EmptySeq
    <3>3. e \in EntType /\ e.k \notin {"Path", "NameDst"}
      BY <3>1, <3>2 DEF EntType, Ent, LineType
    <3> HIDE DEF e
    <3>4. DOMAIN <<e>> = {1} /\ <<e>>[1] = e /\ <<e>> \in Seq(EntType)
      BY <3>3, Singleton
    <3> QED
      BY <3>1, <3>3, <3>4
  <2> QED
    BY <2>1, <2>2
<1>3. GrownBut(ElfOps) /\ GrownBut({"child", "elfchild"})
  <2>1. \/ UNCHANGED out
        \/ Write(<<"rapido.rc">>, "reg", "main")
    BY DEF LineBin, MainRc, archiveVars
  <2>2. ArchiveTypeOK /\ "reg" \in Types /\ "main" \notin ElfOps /\ "main" \notin {"child", "elfchild"}
    BY DEF TypeOK, Types, ElfOps
  <2> QED
    BY <2>1, <2>2, LiteralPaths, MainGrown
<1>4. \A k \in DOMAIN out' : out'[k].via \in ElfOps => HostPaths(out'[k]) \subseteq DOMAIN Host
  BY <1>3 DEF StackInv, GrownBut, Grown
<1>5. cur'.op = "none"
  BY <1>1 DEF NoEntry, Entry
<1>6. StackInv'
  BY <1>2, <1>4, <1>5 DEF StackInv, HostPaths
<1> QED
  BY <1>1, <1>2, <1>3, <1>6

(* The entry that gather_archive_elfs() completes.                         *)
LEMMA ElfFinish ==
  ASSUME StackInv, ArchiveTypeOK, ElfWalked, NEW t \in Types, Finish(t, cur.op)
  PROVE  LET e == [path |-> cur.dst, type |-> t, via |-> cur.op]
             n == Len(out) + 1
         IN  /\ Running /\ cur.op \in ElfOps /\ cur.src \in DOMAIN Host
             /\ e \in OutType /\ out' \in Seq(OutType) /\ n \in Nat
             /\ DOMAIN out = 1..Len(out) /\ DOMAIN out' = DOMAIN out \union {n}
             /\ out'[n] = e /\ \A k \in DOMAIN out : out'[k] = out[k]
             /\ HostPaths(e) = {cur.src}
             /\ cur.op # "elfdst" => cur.dst = cur.src
             /\ seen' = seen \union {cur.dst} /\ cur' = NoEntry
<1> DEFINE e == [path |-> cur.dst, type |-> t, via |-> cur.op]
<1>1. Running /\ cur.op \in ElfOps
  BY DEF ElfWalked, Walked
<1>2. cur.src \in DOMAIN Host /\ cur.op \in Ops /\ out \in Seq(OutType)
  BY <1>1 DEF ArchiveTypeOK, HostOps, ElfOps, OutType
<1>3. e \in OutType /\ out' = Append(out, e) /\ e.via = cur.op /\ e.path = cur.dst
  BY <1>2 DEF Finish, Write, OutType, ArchiveTypeOK
<1>4. HostPaths(e) = {cur.src}
  <2>1. CASE cur.op = "elfdst"
    <3>1. CoreDst(cur.src)
      BY <2>1 DEF StackInv
    <3>2. HostPaths(e) = {p \in DOMAIN Host : CoreDst(p)}
      BY <2>1, <1>3 DEF HostPaths, CoreDst
    <3> QED
      BY <1>2, <3>1, <3>2, CoreUnique
  <2>2. CASE cur.op # "elfdst"
    <3>1. cur.dst = cur.src
      BY <1>1, <2>2 DEF StackInv, ElfOps
    <3> QED
      BY <1>3, <2>2, <3>1 DEF HostPaths
  <2> QED
    BY <2>1, <2>2
<1> HIDE DEF e
<1>5. /\ out' \in Seq(OutType) /\ DOMAIN out' = DOMAIN out \union {Len(out) + 1}
      /\ out'[Len(out) + 1] = e /\ \A k \in DOMAIN out : out'[k] = out[k]
  BY <1>2, <1>3, AppendEntry
<1>6. DOMAIN out = 1..Len(out) /\ Len(out) + 1 \in Nat
  BY <1>2, LenProperties
<1>7. /\ seen' = seen \union {cur.dst} /\ cur' = NoEntry
      /\ cur.op # "elfdst" => cur.dst = cur.src
  BY <1>1 DEF Finish, StackInv, ElfOps
<1> QED
  BY <1>1, <1>2, <1>3, <1>4, <1>5, <1>6, <1>7 DEF e

(* Popping.                                                                *)
LEMMA PopStack ==
  ASSUME StackInv, ElfReady, elfs' = Popped
  PROVE  /\ elfs' \in Seq(EntType) /\ Top \in EntType /\ Len(elfs) \in DOMAIN elfs
         /\ \A i \in DOMAIN elfs' : i \in DOMAIN elfs /\ elfs'[i] = elfs[i]
         /\ \A i \in DOMAIN elfs : elfs[i] = Top \/ (i \in DOMAIN elfs' /\ elfs'[i] = elfs[i])
<1>1. elfs \in Seq(EntType) /\ elfs # <<>>
  BY DEF StackInv, ElfReady
<1> QED
  BY <1>1, PopFacts DEF Popped, Top

(* Archiving a link, a file, a directory or what else there is.            *)
ElfDone == ElfLink \/ ElfFile \/ ElfDir \/ ElfOther
LEMMA PushStack ==
  ASSUME StackInv, ArchiveTypeOK, ElfDone
  PROVE  \E new \in Seq(EntType), t \in Types :
           /\ elfs' = elfs \o new /\ ElfWalked /\ Finish(t, cur.op)
           /\ \A i \in DOMAIN new : new[i].k # "NameDst"
           /\ \A i \in DOMAIN new : new[i].k = "Path" =>
                /\ Node.type = "dir" /\ t = "dir" /\ new[i].sep
                /\ new[i].name # <<>> /\ Parent(new[i].name) = cur.src
<1>1. ElfWalked /\ cur.op \in ElfOps
  BY DEF ElfDone, ElfLink, ElfFile, ElfDir, ElfOther, ElfWalked, Walked
<1>2. elfs \in Seq(EntType) /\ cur.src \in DOMAIN Host
  BY <1>1 DEF StackInv, ArchiveTypeOK, ElfOps, HostOps
<1>3. {"lnk", "reg", "dir", "other"} \subseteq Types
  BY DEF Types
<1>4. <<>> \in Seq(EntType) /\ DOMAIN <<>> = {} /\ elfs \o <<>> = elfs
  BY <1>2, EmptySeq, ConcatEmptySeq
<1>5. CASE ElfLink
  <2> DEFINE e == Ent(IF cur.op = "elflib" THEN "Lib" ELSE "Name", Node.tgt, TRUE, <<>>)
  <2>1. Node.type = "lnk" /\ Node.tgt # NoTarget /\ elfs' = Append(elfs, e) /\ Finish("lnk", cur.op)
    BY <1>5 DEF ElfLink
  <2>2. Node.tgt \in Path /\ <<>> \in Seq(Path)
    BY <1>2, <2>1, ElfAssumption, EmptySeq DEF Node
  <2>3. e \in EntType /\ e.k \notin {"NameDst", "Path"}
    BY <2>2 DEF Ent, EntType
  <2> HIDE DEF e
  <2>4. <<e>> \in Seq(EntType) /\ DOMAIN <<e>> = {1} /\ <<e>>[1] = e /\ elfs' = elfs \o <<e>>
    BY <1>2, <2>1, <2>3, Singleton, AppendIsConcat
  <2>5. \A i \in DOMAIN <<e>> : <<e>>[i].k \notin {"NameDst", "Path"}
    BY <2>3, <2>4
  <2> QED
    BY <1>1, <1>3, <2>1, <2>4, <2>5
<1>6. CASE ElfFile
  <2>1. Finish("reg", cur.op)
    BY <1>6 DEF ElfFile
  <2>2. CASE UNCHANGED elfVars
    BY <1>1, <1>3, <1>4, <2>1, <2>2 DEF elfVars
  <2>3. CASE \E deps \in elf_deps(Node) : elfs' = elfs \o deps
    <3>1. PICK deps \in elf_deps(Node) : elfs' = elfs \o deps
      BY <2>3
    <3>2. deps \in Seq(EntType) /\ \A i \in DOMAIN deps : deps[i].k = "Lib"
      BY <1>2, DepsEnts
    <3>3. \A i \in DOMAIN deps : deps[i].k \notin {"NameDst", "Path"}
      BY <3>2
    <3> QED
      BY <1>1, <1>3, <2>1, <3>1, <3>2, <3>3
  <2> QED
    BY <1>6, <2>2, <2>3 DEF ElfFile
<1>7. CASE ElfDir
  <2>1. Node.type = "dir" /\ elfs' = elfs \o ElfKids /\ Finish("dir", cur.op)
    BY <1>7 DEF ElfDir, ElfKids
  <2>2. /\ ElfKids \in Seq(EntType)
        /\ \A i \in DOMAIN ElfKids :
              /\ ElfKids[i].k = "Path" /\ ElfKids[i].sep /\ ElfKids[i].name # <<>>
              /\ Parent(ElfKids[i].name) = cur.src
    BY <1>2, ElfKidsType
  <2>3. \A i \in DOMAIN ElfKids : ElfKids[i].k # "NameDst"
    BY <2>2
  <2> QED
    BY <1>1, <1>3, <2>1, <2>2, <2>3
<1>8. CASE ElfOther
  <2>1. Node.type \in Types /\ Finish(Node.type, cur.op) /\ elfs' = elfs
    BY <1>3, <1>8 DEF ElfOther, elfVars
  <2> QED
    BY <1>1, <1>4, <2>1
<1> QED
  BY <1>5, <1>6, <1>7, <1>8 DEF ElfDone

LEMMA StackElfs ==
  ASSUME StackInv, ArchiveTypeOK, gather_archive_elfs
  PROVE  StackInv'
<1>1. CASE ElfMissing \/ ElfLinkInvalid
  <2>1. UNCHANGED <<elfs, cur, out>>
    BY <1>1 DEF ElfMissing, ElfLinkInvalid, elfVars
  <2> QED
    BY <2>1 DEF StackInv, CoreDst, HostPaths
<1>2. CASE ElfLinkDangling
  <2>1. UNCHANGED <<elfs, out>> /\ cur'.op = "none"
    BY <1>2 DEF ElfLinkDangling, elfVars, NoEntry, Entry
  <2> QED
    BY <2>1 DEF StackInv, HostPaths
<1>3. ASSUME ElfReady, elfs' = Popped
      PROVE  /\ elfs' \in Seq(EntType)
             /\ \A i \in DOMAIN elfs' : elfs'[i].k = "NameDst" =>
                  \E c \in DOMAIN CoreElfs : elfs'[i] = CoreElfs[c]
             /\ Top.k = "NameDst" => \E c \in DOMAIN CoreElfs : Top = CoreElfs[c]
  BY <1>3, PopStack DEF StackInv, Top
<1>4. CASE ElfTryMissing \/ ElfSeen
  <2>1. ElfReady /\ elfs' = Popped /\ UNCHANGED <<cur, out>>
    BY <1>4 DEF ElfTryMissing, ElfSeen, archiveVars
  <2> QED
    BY <1>3, <2>1 DEF StackInv, CoreDst, HostPaths
<1>5. CASE ElfBegin
  <2>1. PICK p \in DOMAIN Host :
          /\ path_stat(Top, p)
          /\ cur' = Entry(CASE Top.k = "NameDst" -> "elfdst"
                            [] Top.k = "Lib" -> "elflib"
                            [] Top.k = "Path" -> "elfchild"
                            [] OTHER -> "elf", ElfDst(p), p)
    BY <1>5 DEF ElfBegin, Begin
  <2>2. ElfReady /\ elfs' = Popped /\ out' = out
    BY <1>5 DEF ElfBegin
  <2>3. cur'.op = "elfdst" => CoreDst(cur'.src)
    BY <1>3, <2>1, <2>2 DEF Entry, CoreDst
  <2>4. cur'.op \in {"elf", "elfchild", "elflib"} => cur'.dst = cur'.src
    BY <2>1 DEF Entry, ElfDst
  <2> QED
    BY <1>3, <2>2, <2>3, <2>4 DEF StackInv, CoreDst, HostPaths
<1>6. CASE ElfDone
  <2>1. PICK new \in Seq(EntType), t \in Types :
           /\ elfs' = elfs \o new /\ ElfWalked /\ Finish(t, cur.op)
           /\ \A i \in DOMAIN new : new[i].k # "NameDst"
    BY <1>6, PushStack
  <2> DEFINE e == [path |-> cur.dst, type |-> t, via |-> cur.op]
  <2>2. /\ DOMAIN out' = DOMAIN out \union {Len(out) + 1}
        /\ out'[Len(out) + 1] = e /\ \A k \in DOMAIN out : out'[k] = out[k]
        /\ HostPaths(e) = {cur.src} /\ cur' = NoEntry /\ cur.src \in DOMAIN Host
    BY <2>1, ElfFinish
  <2> HIDE DEF e
  <2>3. \A k \in DOMAIN out' : out'[k].via \in ElfOps => HostPaths(out'[k]) \subseteq DOMAIN Host
    BY <2>2 DEF StackInv
  <2>4. cur'.op = "none"
    BY <2>2 DEF NoEntry, Entry
  <2>5. elfs \in Seq(EntType)
    BY DEF StackInv
  <2>6. /\ elfs' \in Seq(EntType)
        /\ \A i \in DOMAIN elfs' : elfs'[i].k = "NameDst" =>
             \E c \in DOMAIN CoreElfs : elfs'[i] = CoreElfs[c]
    BY <2>1, <2>5, PushFacts DEF StackInv
  <2> QED
    BY <2>3, <2>4, <2>6 DEF StackInv, HostPaths
<1> QED
  BY <1>1, <1>2, <1>4, <1>5, <1>6 DEF gather_archive_elfs, ElfDone

-----------------------------------------------------------------------------
(* ChildInv.                                                               *)

LEMMA ChildQuiet ==
  ASSUME ChildInv, out \in Seq(OutType), Quiet
  PROVE  ChildInv'
<1>1. \A p : Opened(out, p) => Opened(out', p)
  BY DEF Opened, Quiet, GrownBut, Grown
<1>2. DOMAIN out = 1..Len(out) /\ Len(out) \in Nat
  BY LenProperties
<1>3. TraversalStops'
  <2> SUFFICES ASSUME NEW k \in DOMAIN out', out'[k].via \in {"child", "elfchild"}
               PROVE  \E j \in 1..(k - 1) : /\ out'[j].path = Parent(out'[k].path)
                                            /\ out'[j].type = "dir"
                                            /\ out'[j].via \in ElfOps \union {"tree", "child"}
    BY DEF TraversalStops
  <2>1. k \in DOMAIN out /\ out'[k] = out[k]
    BY DEF Quiet, GrownBut, Grown
  <2>2. PICK j \in 1..(k - 1) : /\ out[j].path = Parent(out[k].path) /\ out[j].type = "dir"
                                /\ out[j].via \in ElfOps \union {"tree", "child"}
    BY <2>1 DEF ChildInv, TraversalStops
  <2>3. j \in DOMAIN out
    BY <1>2, <2>1
  <2>4. out'[j] = out[j]
    BY <2>3 DEF Quiet, GrownBut, Grown
  <2> QED
    BY <2>1, <2>2, <2>4
<1>4. \A i \in DOMAIN elfs' : elfs'[i].k = "Path" =>
        elfs'[i].sep /\ elfs'[i].name # <<>> /\ Opened(out', Parent(elfs'[i].name))
  BY <1>1 DEF Quiet, ChildInv
<1>5. \A i \in DOMAIN items' : items'[i].child =>
        items'[i].dst # <<>> /\ Opened(out', Parent(items'[i].dst))
  BY <1>1 DEF Quiet, ChildInv
<1>6. cur'.op \in {"child", "elfchild"} => Opened(out', Parent(cur'.dst))
  BY <1>1 DEF Quiet, ChildInv
<1> QED
  BY <1>3, <1>4, <1>5, <1>6 DEF ChildInv, Opened, Parent

(* A traversal archives what it found.                                     *)
LEMMA ChildFinish ==
  ASSUME ChildInv, ArchiveTypeOK, cur.op \in Traversals, NEW t \in Types, Finish(t, cur.op)
  PROVE  /\ TraversalStops' /\ \A p : Opened(out, p) => Opened(out', p)
         /\ t = "dir" => Opened(out', cur.dst)
         /\ cur' = NoEntry
<1> DEFINE e == [path |-> cur.dst, type |-> t, via |-> cur.op]
           n == Len(out) + 1
<1>1. out \in Seq(OutType) /\ e \in OutType /\ out' = Append(out, e) /\ cur' = NoEntry
  BY DEF ArchiveTypeOK, OutType, Finish, Write
<1>2. e.path = cur.dst /\ e.type = t /\ e.via = cur.op
  OBVIOUS
<1> HIDE DEF e
<1>3. /\ DOMAIN out' = DOMAIN out \union {n} /\ out'[n] = e
      /\ \A k \in DOMAIN out : out'[k] = out[k]
  BY <1>1, AppendEntry
<1>4. DOMAIN out = 1..Len(out) /\ Len(out) \in Nat /\ n \in Nat
  BY <1>1, LenProperties
<1>5. \A p : Opened(out, p) => Opened(out', p)
  BY <1>3 DEF Opened
<1>6. t = "dir" => Opened(out', cur.dst)
  BY <1>2, <1>3 DEF Opened
<1>7. TraversalStops'
  <2> SUFFICES ASSUME NEW k \in DOMAIN out', out'[k].via \in {"child", "elfchild"}
               PROVE  \E j \in 1..(k - 1) : /\ out'[j].path = Parent(out'[k].path)
                                            /\ out'[j].type = "dir"
                                            /\ out'[j].via \in ElfOps \union {"tree", "child"}
    BY DEF TraversalStops
  <2>1. \E j \in 1..(k - 1) : /\ j \in DOMAIN out /\ out[j].path = Parent(out'[k].path)
                              /\ out[j].type = "dir" /\ out[j].via \in ElfOps \union {"tree", "child"}
    <3>1. CASE k \in DOMAIN out
      <4>1. PICK j \in 1..(k - 1) : /\ out[j].path = Parent(out[k].path) /\ out[j].type = "dir"
                                    /\ out[j].via \in ElfOps \union {"tree", "child"}
        BY <1>3, <3>1 DEF ChildInv, TraversalStops
      <4>2. j \in DOMAIN out
        BY <1>4, <3>1
      <4> QED
        BY <1>3, <3>1, <4>1, <4>2
    <3>2. CASE k = n
      <4>1. cur.op \in {"child", "elfchild"} /\ out'[k].path = cur.dst
        BY <1>2, <1>3, <3>2
      <4>2. PICK j \in DOMAIN out : /\ out[j].path = Parent(cur.dst) /\ out[j].type = "dir"
                                    /\ out[j].via \in Traversals
        BY <4>1 DEF ChildInv, Opened
      <4>3. j \in 1..(k - 1)
        BY <1>4, <3>2
      <4> QED
        BY <4>1, <4>2, <4>3 DEF Traversals
    <3> QED
      BY <1>3, <3>1, <3>2
  <2> QED
    BY <1>3, <2>1
<1> QED
  BY <1>1, <1>5, <1>6, <1>7

(* gather_archive_data().                                                  *)
LEMMA ChildData ==
  ASSUME ChildInv, ArchiveTypeOK, items \in Seq(ItemType), gather_archive_data, UNCHANGED elfVars
  PROVE  ChildInv'
<1>1. elfs' = elfs /\ out \in Seq(OutType)
  BY DEF elfVars, ArchiveTypeOK, OutType
<1>2. ASSUME DataReady, items' = PoppedItems
      PROVE  /\ \A i \in DOMAIN items' : \E l \in DOMAIN items : items[l] = items'[i]
             /\ Len(items) \in DOMAIN items /\ TopItem = items[Len(items)]
  BY <1>2, PopFacts DEF DataReady, PoppedItems, TopItem
<1>3. CASE DataMissing \/ DataSeen
  <2>1. UNCHANGED <<out, cur>> /\ (items' = items \/ (DataReady /\ items' = PoppedItems))
    BY <1>3 DEF DataMissing, DataSeen, archiveVars
  <2>2. Quiet
    BY <1>1, <1>2, <2>1, GrownNone DEF Quiet
  <2> QED
    BY <1>1, <2>2, ChildQuiet
<1>4. CASE DataBegin
  <2>1. DataReady /\ items' = PoppedItems /\ out' = out
        /\ cur' = Entry(IF TopItem.child THEN "child" ELSE "tree", TopItem.dst, TopItem.src)
    BY <1>4 DEF DataBegin, Begin
  <2>2. \A p : Opened(out, p) => Opened(out', p)
    BY <2>1 DEF Opened
  <2>3. cur'.op \in {"child", "elfchild"} => Opened(out', Parent(cur'.dst))
    BY <1>2, <2>1, <2>2 DEF ChildInv, Entry
  <2>4. /\ \A i \in DOMAIN elfs' : elfs'[i].k = "Path" =>
             elfs'[i].sep /\ elfs'[i].name # <<>> /\ Opened(out', Parent(elfs'[i].name))
        /\ \A i \in DOMAIN items' : items'[i].child =>
             items'[i].dst # <<>> /\ Opened(out', Parent(items'[i].dst))
    BY <1>1, <1>2, <2>1, <2>2 DEF ChildInv
  <2> QED
    BY <2>1, <2>3, <2>4 DEF ChildInv, Opened, Parent, TraversalStops
<1>5. CASE DataDir \/ DataLeaf
  <2>1. cur.op \in {"tree", "child"} /\ cur.src \in DOMAIN Host /\ cur.src \in Path /\ cur.dst \in Path
    BY <1>5, HostAssumption DEF DataDir, DataLeaf, DataWalked, Walked, ArchiveTypeOK, HostOps
  <2> DEFINE t == Host[cur.src].type
  <2>2. t \in Types /\ Finish(t, cur.op)
    BY <1>5, <2>1, HostAssumption DEF DataDir, DataLeaf, Types
  <2>3. /\ TraversalStops' /\ \A p : Opened(out, p) => Opened(out', p)
        /\ t = "dir" => Opened(out', cur.dst)
        /\ cur' = NoEntry
    BY <2>1, <2>2, ChildFinish DEF Traversals
  <2>4. \A i \in DOMAIN items' : items'[i].child => items'[i].dst # <<>> /\ Opened(out', Parent(items'[i].dst))
    <3>1. CASE DataLeaf
      BY <2>3, <3>1 DEF DataLeaf, ChildInv
    <3>2. CASE DataDir
      <4> DEFINE kids == Host[cur.src].kids
                 new == [i \in DOMAIN kids |-> Item(Append(cur.src, kids[i]), Append(cur.dst, kids[i]), TRUE)]
      <4>1. t = "dir" /\ items' = items \o new
        BY <3>2 DEF DataDir
      <4>2. kids \in Seq(Name)
        BY <2>1, HostAssumption
      <4>3. \A i \in DOMAIN kids : kids[i] \in Name
        BY <4>2, ElementOfSeq, LenProperties
      <4> HIDE DEF kids
      <4>4. new \in Seq(ItemType)
        BY <2>1, <4>2, KidsType
      <4>5. \A i \in DOMAIN new : new[i].dst # <<>> /\ Parent(new[i].dst) = cur.dst
        <5> TAKE i \in DOMAIN new
        <5>1. new[i].dst = Append(cur.dst, kids[i]) /\ kids[i] \in Name
          BY <4>3 DEF Item
        <5>2. Append(cur.dst, kids[i]) # <<>> /\ Parent(Append(cur.dst, kids[i])) = cur.dst
          <6> DEFINE k == kids[i]
          <6>1. k \in Name
            BY <5>1
          <6> HIDE DEF k
          <6>2. Parent(Append(cur.dst, k)) = cur.dst
            BY <2>1, <6>1, ParentAppend
          <6>3. Append(cur.dst, k) # <<>>
            BY <2>1, <6>1 DEF Path
          <6> QED
            BY <6>2, <6>3 DEF k
        <5> QED
          BY <5>1, <5>2
      <4> HIDE DEF new
      <4>6. \A i \in DOMAIN items' : (\E l \in DOMAIN items : items'[i] = items[l])
                                     \/ (\E l \in DOMAIN new : items'[i] = new[l])
        BY <4>1, <4>4, PushFacts
      <4> QED
        BY <2>3, <4>1, <4>5, <4>6 DEF ChildInv
    <3> QED
      BY <1>5, <3>1, <3>2
  <2>5. \A i \in DOMAIN elfs' : elfs'[i].k = "Path" =>
          elfs'[i].sep /\ elfs'[i].name # <<>> /\ Opened(out', Parent(elfs'[i].name))
    BY <1>1, <2>3 DEF ChildInv
  <2>6. cur'.op = "none"
    BY <2>3 DEF NoEntry, Entry
  <2> QED
    BY <2>3, <2>4, <2>5, <2>6 DEF ChildInv, Opened, Parent
<1> QED
  BY <1>3, <1>4, <1>5 DEF gather_archive_data

(* gather_archive_elfs(): only a renamed directory would break it.         *)
LEMMA ChildElfs ==
  ASSUME InitIsFile, StackInv, ChildInv, ArchiveTypeOK, gather_archive_elfs, UNCHANGED items
  PROVE  ChildInv'
<1>1. out \in Seq(OutType)
  BY DEF ArchiveTypeOK, OutType
<1>2. CASE ElfTryMissing \/ ElfSeen \/ ElfMissing \/ ElfLinkInvalid
  <2>1. /\ UNCHANGED <<out, cur>>
        /\ elfs' = elfs \/ (ElfReady /\ elfs' = Popped)
    BY <1>2 DEF ElfTryMissing, ElfSeen, ElfMissing, ElfLinkInvalid, archiveVars, elfVars
  <2>2. \A i \in DOMAIN elfs' : \E l \in DOMAIN elfs : elfs[l] = elfs'[i]
    BY <2>1, PopStack
  <2>3. Quiet
    BY <2>1, <2>2, GrownNone DEF Quiet
  <2> QED
    BY <1>1, <2>3, ChildQuiet
<1>3. CASE ElfLinkDangling
  <2>1. UNCHANGED <<out, elfs>> /\ cur'.op = "none"
    BY <1>3 DEF ElfLinkDangling, elfVars, NoEntry, Entry
  <2>2. Quiet
    BY <2>1, GrownNone DEF Quiet
  <2> QED
    BY <1>1, <2>2, ChildQuiet
<1>4. CASE ElfBegin
  <2>1. PICK p \in DOMAIN Host :
          /\ path_stat(Top, p)
          /\ cur' = Entry(CASE Top.k = "NameDst" -> "elfdst"
                            [] Top.k = "Lib" -> "elflib"
                            [] Top.k = "Path" -> "elfchild"
                            [] OTHER -> "elf", ElfDst(p), p)
    BY <1>4 DEF ElfBegin, Begin
  <2>2. ElfReady /\ elfs' = Popped /\ out' = out
    BY <1>4 DEF ElfBegin
  <2>3. /\ Top \in EntType /\ \A i \in DOMAIN elfs' : i \in DOMAIN elfs /\ elfs'[i] = elfs[i]
        /\ \E i \in DOMAIN elfs : Top = elfs[i]
    BY <2>2, PopStack DEF Top
  <2>4. cur'.op \in {"child", "elfchild"} => Opened(out', Parent(cur'.dst))
    <3>1. SUFFICES ASSUME cur'.op \in {"child", "elfchild"}
                   PROVE  Opened(out', Parent(cur'.dst))
      OBVIOUS
    <3>2. Top.k = "Path" /\ cur'.dst = p
      BY <2>1, <3>1 DEF Entry, ElfDst
    <3>3. Top.sep /\ Opened(out, Parent(Top.name))
      BY <2>3, <3>2 DEF ChildInv
    <3>4. p = Top.name
      BY <2>1, <2>3, <3>3, StatSep
    <3> QED
      BY <2>2, <3>2, <3>3, <3>4
  <2>5. \A i \in DOMAIN elfs' : elfs'[i].k = "Path" =>
          elfs'[i].sep /\ elfs'[i].name # <<>> /\ Opened(out', Parent(elfs'[i].name))
    BY <2>2, <2>3 DEF ChildInv
  <2> QED
    BY <2>2, <2>4, <2>5 DEF ChildInv, TraversalStops
<1>5. CASE ElfDone
  <2>1. PICK new \in Seq(EntType), t \in Types :
           /\ elfs' = elfs \o new /\ ElfWalked /\ Finish(t, cur.op)
           /\ \A i \in DOMAIN new : new[i].k = "Path" =>
                /\ Node.type = "dir" /\ t = "dir" /\ new[i].sep
                /\ new[i].name # <<>> /\ Parent(new[i].name) = cur.src
    BY <1>5, PushStack
  <2>2. cur.op \in ElfOps /\ cur.src \in DOMAIN Host /\ (cur.op # "elfdst" => cur.dst = cur.src)
    BY <2>1, ElfFinish
  <2>3. /\ TraversalStops' /\ \A p : Opened(out, p) => Opened(out', p)
        /\ t = "dir" => Opened(out', cur.dst)
        /\ cur' = NoEntry
    BY <2>1, <2>2, ChildFinish DEF Traversals
  <2>4. Node.type = "dir" => cur.dst = cur.src
    BY <2>2 DEF StackInv, InitIsFile, Node
  <2>5. elfs \in Seq(EntType)
    BY DEF StackInv
  <2>6. \A i \in DOMAIN elfs' : (\E l \in DOMAIN elfs : elfs'[i] = elfs[l])
                                \/ (\E l \in DOMAIN new : elfs'[i] = new[l])
    <3>1. elfs' = elfs \o new /\ new \in Seq(EntType)
      BY <2>1
    <3> QED
      BY ONLY <2>5, <3>1, PushFacts
  <2>7. \A i \in DOMAIN elfs' : elfs'[i].k = "Path" =>
          elfs'[i].sep /\ elfs'[i].name # <<>> /\ Opened(out', Parent(elfs'[i].name))
    <3>1. ASSUME NEW l \in DOMAIN elfs, elfs[l].k = "Path"
          PROVE  elfs[l].sep /\ elfs[l].name # <<>> /\ Opened(out', Parent(elfs[l].name))
      BY <2>3, <3>1 DEF ChildInv
    <3>2. ASSUME NEW l \in DOMAIN new, new[l].k = "Path"
          PROVE  new[l].sep /\ new[l].name # <<>> /\ Opened(out', Parent(new[l].name))
      BY <2>1, <2>3, <2>4, <3>2
    <3> QED
      BY ONLY Zenon, <2>6, <3>1, <3>2
  <2>8. cur'.op = "none"
    BY <2>3 DEF NoEntry, Entry
  <2> QED
    BY <2>3, <2>7, <2>8 DEF ChildInv
<1> QED
  BY <1>2, <1>3, <1>4, <1>5 DEF gather_archive_elfs, ElfDone

-----------------------------------------------------------------------------
(* The steps of Next.                                                      *)
LEMMA NextCases ==
  ASSUME TypeOK, [Next]_vars
  PROVE  \/ Calm /\ Quiet
         \/ LineBin \/ MainRc
         \/ gather_archive_elfs /\ UNCHANGED items
         \/ gather_archive_data /\ UNCHANGED elfVars
<1>1. ArchiveTypeOK
  BY DEF TypeOK
<1>2. CASE UNCHANGED vars
  <2>1. UNCHANGED <<out, seen, cur, phase, elfs, items, elfVars>>
    BY <1>2 DEF vars, archiveVars, elfVars
  <2>2. Calm /\ Quiet
    BY <2>1, GrownNone DEF Calm, Quiet, Running
  <2> QED
    BY <2>2
<1>3. CASE ReadEof \/ Aborted
  <2>1. UNCHANGED <<out, seen, cur, elfVars, items>> /\ Running
    BY <1>3 DEF ReadEof, Aborted, Abort, archiveVars, Running
  <2> QED
    BY <2>1, GrownNone, CalmQuiet
<1>4. CASE MainStep
  BY <1>4, MainCalm
<1>5. CASE LineStep
  BY <1>5, LinesCalm
<1>6. CASE gather_archive_dirs /\ UNCHANGED <<elfVars, items, kmodVars, cutVars>>
  BY <1>1, <1>6, DirsCalm
<1>7. CASE gather_archive_kmod_and_deps /\ UNCHANGED <<elfVars, items, cutVars>>
  BY <1>1, <1>7, KmodsCalm
<1> QED
  BY <1>2, <1>3, <1>4, <1>5, <1>6, <1>7 DEF Next, Step

(* StackInv is inductive, and ChildInv with it.                            *)
LEMMA StackInit == Init => StackInv /\ ChildInv
<1> SUFFICES ASSUME Init PROVE StackInv /\ ChildInv
  OBVIOUS
<1>1. elfs = <<>> /\ items = <<>> /\ out = <<>> /\ cur.op = "none"
  BY DEF Init, NoEntry, Entry
<1>2. <<>> \in Seq(EntType) /\ DOMAIN <<>> = {}
  BY EmptySeq
<1> QED
  BY <1>1, <1>2 DEF StackInv, ChildInv, TraversalStops

LEMMA StackNext == TypeOK /\ StackInv /\ [Next]_vars => StackInv'
<1> SUFFICES ASSUME TypeOK, StackInv, [Next]_vars PROVE StackInv'
  OBVIOUS
<1>1. ArchiveTypeOK
  BY DEF TypeOK
<1> QED
  BY <1>1, NextCases, StackCalm, StackGiven, StackElfs, DataCalm

LEMMA ChildNext ==
  ASSUME InitIsFile
  PROVE  TypeOK /\ StackInv /\ ChildInv /\ [Next]_vars => ChildInv'
<1> SUFFICES ASSUME TypeOK, StackInv, ChildInv, [Next]_vars PROVE ChildInv'
  OBVIOUS
<1>1. ArchiveTypeOK /\ out \in Seq(OutType) /\ items \in Seq(ItemType)
  BY DEF TypeOK, ArchiveTypeOK, OutType, ItemType
<1>2. CASE LineBin \/ MainRc
  <2>1. Quiet
    BY <1>2, StackGiven DEF Quiet
  <2> QED
    BY <1>1, <2>1, ChildQuiet
<1> QED
  BY <1>1, <1>2, NextCases, ChildQuiet, ChildElfs, ChildData

(* No traversal goes beneath a path that it did not archive, on a host     *)
(* whose init is no directory: an entry that gather_archive_elfs() or      *)
(* gather_archive_data() found in a directory follows that directory's     *)
(* entry, written by a traversal.                                          *)
THEOREM TraversalsStop ==
  ASSUME InitIsFile
  PROVE  Spec => []TraversalStops
<1>1. Init => TypeOK /\ StackInv /\ ChildInv
  BY TypeInit, StackInit
<1>2. TypeOK /\ StackInv /\ ChildInv /\ [Next]_vars => (TypeOK /\ StackInv /\ ChildInv)'
  BY TypeNext, StackNext, ChildNext
<1>3. ChildInv => TraversalStops
  BY DEF ChildInv
<1> QED
  BY <1>1, <1>2, <1>3, PTL DEF Spec

-----------------------------------------------------------------------------
(* One routine at a time.                                                  *)

(* A step taken while gather_archive_elfs() has nothing to do, or one that *)
(* archives at most a parent directory of its entry.                       *)
NotWalk == Ops \union {"line", "autorun", "main"}
Apart ==
  \/ elfs = <<>> /\ cur.op \notin ElfOps
  \/ cur' = cur /\ UNCHANGED <<items, tasks>> /\ GrownBut(NotWalk)

LEMMA ApartNext ==
  ASSUME TypeOK, TurnInv, [Next]_vars
  PROVE  Apart \/ (gather_archive_elfs /\ UNCHANGED <<items, tasks>>)
<1>1. ASSUME Idle PROVE Apart
  BY <1>1 DEF Idle, NoEntry, Entry, ElfOps, Apart
<1>2. ASSUME items # <<>> \/ tasks # <<>> \/ cur.op \notin ElfOps \union {"none"} PROVE Apart
  BY <1>2 DEF TurnInv, Apart
<1>3. CASE UNCHANGED <<out, cur, items, tasks>>
  BY <1>3, GrownNone DEF Apart
<1>4. CASE MainStep \/ ReadEof
  <2>1. Idle
    BY <1>4 DEF MainStep, MainConf, MainRc, MainKmods, Link, MainSbin, MainKmodsLink, MainTrailer, ReadEof
  <2> QED
    BY <1>1, <2>1
<1>5. CASE LineStep
  <2>1. CASE LineArchive
    <3>1. cur.op \in {"dir", "slink", "file"}
      BY <2>1 DEF LineArchive, Walked
    <3> QED
      BY <1>2, <3>1 DEF ElfOps
  <2>2. CASE ~LineArchive
    <3>1. Idle
      BY <1>5, <2>2 DEF LineStep, LineInclude, LineFilter, LineEntry, LineBin, LineKmod, LineTree,
                        LineAutorun, Reading
    <3> QED
      BY <1>1, <3>1
  <2> QED
    BY <2>1, <2>2
<1>6. CASE gather_archive_dirs /\ UNCHANGED <<elfVars, items, kmodVars, cutVars>>
  <2>1. cur' = cur /\ UNCHANGED <<items, tasks>>
    BY <1>6 DEF gather_archive_dirs, DirUp, DirInvalid, DirSeen, DirArchive, kmodVars
  <2>2. CASE UNCHANGED out
    BY <1>3, <2>1, <2>2
  <2>3. CASE DirArchive
    <3> DEFINE e == [path |-> here', type |-> "dir", via |-> "walk"]
    <3>1. out \in Seq(OutType) /\ here' \in Path /\ out' = Append(out, e)
      BY <2>3, DirsType DEF DirArchive, Write, TypeOK, ArchiveTypeOK, OutType, gather_archive_dirs
    <3>2. e \in OutType /\ e.via \notin NotWalk
      BY <3>1 DEF OutType, Types, NotWalk, Ops
    <3> HIDE DEF e
    <3>3. GrownBut(NotWalk)
      BY <3>1, <3>2, GrownOne
    <3> QED
      BY <2>1, <3>3 DEF Apart
  <2> QED
    BY <1>6, <2>2, <2>3 DEF gather_archive_dirs, DirUp, DirInvalid, DirSeen
<1>7. CASE gather_archive_elfs /\ UNCHANGED <<items, kmodVars, cutVars>>
  BY <1>7 DEF kmodVars
<1>8. CASE gather_archive_data
  <2>1. items # <<>> \/ cur.op \in {"tree", "child"}
    BY <1>8 DEF gather_archive_data, DataMissing, DataSeen, DataBegin, DataDir, DataLeaf, DataReady,
                DataWalked, Walked
  <2> QED
    BY <1>2, <2>1 DEF ElfOps
<1>9. CASE gather_archive_kmod_and_deps
  <2>1. tasks # <<>> \/ cur.op = "kmod"
    BY <1>9 DEF gather_archive_kmod_and_deps, KmodSkip, KmodUnknown, KmodMissing, KmodBegin,
                KmodArchive, KmodReady, Walked
  <2> QED
    BY <1>2, <2>1 DEF ElfOps
<1>10. CASE Aborted \/ UNCHANGED vars
  <2>1. UNCHANGED <<out, cur, items, tasks>>
    BY <1>10 DEF Aborted, Abort, vars, archiveVars, kmodVars
  <2> QED
    BY <1>3, <2>1
<1> QED
  BY <1>4, <1>5, <1>6, <1>7, <1>8, <1>9, <1>10 DEF Next, Step

(* What a step of gather_archive_elfs() does with its entry in progress.   *)
LEMMA ElfsTurn ==
  ASSUME gather_archive_elfs
  PROVE  /\ elfs # <<>> \/ cur.op \in ElfOps
         /\ cur' = cur \/ cur'.op \in ElfOps \union {"none"}
<1>1. CASE ElfTryMissing \/ ElfMissing \/ ElfSeen
  BY <1>1 DEF ElfTryMissing, ElfMissing, ElfSeen, ElfReady, archiveVars
<1>2. CASE ElfBegin
  <2>1. PICK p \in DOMAIN Host, op \in ElfOps : cur' = Entry(op, ElfDst(p), p)
    BY <1>2 DEF ElfBegin, Begin, ElfOps
  <2>2. cur'.op \in ElfOps
    BY <2>1 DEF Entry
  <2> QED
    BY <1>2, <2>2 DEF ElfBegin, ElfReady
<1>3. CASE ElfLinkInvalid
  BY <1>3 DEF ElfLinkInvalid, Walked, ElfOps
<1>4. CASE ElfLinkDangling \/ ElfDone
  <2>1. ElfWalked /\ cur' = NoEntry
    BY <1>4 DEF ElfLinkDangling, ElfDone, ElfLink, ElfFile, ElfDir, ElfOther, Finish
  <2>2. cur.op \in ElfOps /\ cur'.op = "none"
    BY <2>1 DEF ElfWalked, Walked, NoEntry, Entry
  <2> QED
    BY <2>2
<1> QED
  BY <1>1, <1>2, <1>3, <1>4 DEF gather_archive_elfs, ElfDone

LEMMA TurnNext == TypeOK /\ StackInv /\ TurnInv /\ [Next]_vars => TurnInv'
<1> SUFFICES ASSUME TypeOK, StackInv, TurnInv, [Next]_vars PROVE TurnInv'
  OBVIOUS
<1>1. CASE gather_archive_elfs /\ UNCHANGED <<items, tasks>>
  <2>1. items = <<>> /\ tasks = <<>> /\ cur.op \in ElfOps \union {"none"}
    BY <1>1, ElfsTurn DEF TurnInv
  <2>2. cur'.op \in ElfOps \union {"none"}
    BY <1>1, <2>1, ElfsTurn
  <2> QED
    BY <1>1, <2>1, <2>2 DEF TurnInv
<1>2. CASE LineBin \/ MainRc
  <2>1. Idle /\ UNCHANGED <<items, tasks, cur>>
    BY <1>2 DEF LineBin, MainRc, Reading, kmodVars, archiveVars
  <2> QED
    BY <2>1 DEF Idle, TurnInv, NoEntry, Entry
<1>3. CASE Calm /\ Apart
  <2>1. elfs' = elfs
    BY <1>3 DEF Calm, elfVars
  <2>2. CASE elfs = <<>> /\ cur.op \notin ElfOps
    <3>1. cur'.op \notin ElfOps
      BY <1>3, <2>2 DEF Calm
    <3> QED
      BY <2>1, <2>2, <3>1 DEF TurnInv
  <2>3. CASE cur' = cur /\ UNCHANGED <<items, tasks>>
    BY <2>1, <2>3 DEF TurnInv
  <2> QED
    BY <1>3, <2>2, <2>3 DEF Apart
<1>4. Calm \/ LineBin \/ MainRc \/ gather_archive_elfs
  <2>1. ArchiveTypeOK
    BY DEF TypeOK
  <2> QED
    BY <2>1, NextCases, DataCalm
<1>5. Apart \/ (gather_archive_elfs /\ UNCHANGED <<items, tasks>>)
  BY ApartNext
<1>6. CASE gather_archive_elfs /\ Apart
  <2>1. cur' = cur /\ UNCHANGED <<items, tasks>>
    BY <1>6, ElfsTurn DEF Apart
  <2> QED
    BY <1>1, <1>6, <2>1
<1> QED
  BY <1>1, <1>2, <1>3, <1>4, <1>5, <1>6

-----------------------------------------------------------------------------
(* Libraries on the stack.                                                 *)

(* A link that a library was found at has a file for its target.           *)
LEMMA LinkedLib ==
  ASSUME NEW p \in DOMAIN Host, LibFile(p), Host[p].type = "lnk",
         NEW e \in EntType, e.sep, e.name = Host[p].tgt
  PROVE  FileEnt(e)
<1> SUFFICES ASSUME NEW r \in DOMAIN Host, path_stat(e, r) PROVE LibFile(r)
  BY DEF FileEnt
<1>1. r = Host[p].tgt /\ Host[p].tgt # NoTarget
  BY StatSep DEF LibFile
<1>2. Host[r].type # "lnk"
  BY <1>1, ElfAssumption
<1>3. Host[r].type # "dir"
  BY <1>1 DEF LibFile
<1> QED
  BY <1>2, <1>3 DEF LibFile

(* What a library adds to the stack are libraries; what else adds something*)
(* finds no library on it.                                                 *)
LEMMA LibPush ==
  ASSUME LibsAreFiles, StackInv, LibInv, ArchiveTypeOK, ElfDone
  PROVE  \E new \in Seq(EntType) :
           /\ elfs' = elfs \o new
           /\ \A i \in DOMAIN new : new[i].k = "Lib" => FileEnt(new[i])
           /\ \/ \A i \in DOMAIN elfs : elfs[i].k # "Lib"
              \/ \A i \in DOMAIN new : new[i].k = "Lib"
           /\ \/ \A i \in DOMAIN new : new[i].k # "Lib"
              \/ \A i \in DOMAIN new : new[i].k = "Lib"
<1>1. ElfWalked /\ cur.op \in ElfOps
  BY DEF ElfDone, ElfLink, ElfFile, ElfDir, ElfOther, ElfWalked, Walked
<1>2. elfs \in Seq(EntType) /\ cur.src \in DOMAIN Host
  BY <1>1 DEF StackInv, ArchiveTypeOK, ElfOps, HostOps
<1>3. <<>> \in Seq(EntType) /\ DOMAIN <<>> = {} /\ elfs \o <<>> = elfs
  BY <1>2, EmptySeq, ConcatEmptySeq
<1>4. cur.op # "elflib" => \A i \in DOMAIN elfs : elfs[i].k # "Lib"
  BY <1>1 DEF LibInv
<1>5. CASE ElfLink
  <2> DEFINE e == Ent(IF cur.op = "elflib" THEN "Lib" ELSE "Name", Node.tgt, TRUE, <<>>)
  <2>1. Node.type = "lnk" /\ Node.tgt # NoTarget /\ elfs' = Append(elfs, e)
    BY <1>5 DEF ElfLink
  <2>2. Node.tgt \in Path /\ <<>> \in Seq(Path)
    BY <1>2, <2>1, ElfAssumption, EmptySeq DEF Node
  <2>3. /\ e \in EntType /\ e.sep /\ e.name = Host[cur.src].tgt
        /\ e.k = IF cur.op = "elflib" THEN "Lib" ELSE "Name"
    BY <2>2 DEF Ent, EntType, Node
  <2> HIDE DEF e
  <2>4. <<e>> \in Seq(EntType) /\ DOMAIN <<e>> = {1} /\ <<e>>[1] = e /\ elfs' = elfs \o <<e>>
    BY <1>2, <2>1, <2>3, Singleton, AppendIsConcat
  <2>5. e.k = "Lib" => FileEnt(e)
    <3>1. SUFFICES ASSUME e.k = "Lib" PROVE FileEnt(e)
      OBVIOUS
    <3>2. LibFile(cur.src) /\ Host[cur.src].type = "lnk"
      BY <2>1, <2>3, <3>1 DEF LibInv, Node
    <3> QED
      BY <1>2, <2>3, <3>2, LinkedLib
  <2>6. \A i \in DOMAIN <<e>> : <<e>>[i] = e
    BY <2>4
  <2> QED
    BY <1>4, <2>3, <2>4, <2>5, <2>6
<1>6. CASE ElfFile
  <2>1. CASE UNCHANGED elfVars
    BY <1>3, <2>1 DEF elfVars
  <2>2. CASE \E deps \in elf_deps(Node) : elfs' = elfs \o deps
    <3>1. PICK deps \in elf_deps(Node) : elfs' = elfs \o deps
      BY <2>2
    <3>2. /\ deps \in Seq(EntType) /\ \A i \in DOMAIN deps : deps[i].k = "Lib"
          /\ \A i \in DOMAIN deps : \E l \in DOMAIN Node.needed :
               deps[i] = Ent("Lib", <<Node.needed[l]>>, FALSE, Node.run)
      BY <1>2, DepsEnts
    <3>3. ASSUME NEW i \in DOMAIN deps PROVE FileEnt(deps[i])
      <4>1. PICK l \in DOMAIN Host[cur.src].needed :
              deps[i] = Ent("Lib", <<Host[cur.src].needed[l]>>, FALSE, Host[cur.src].run)
        BY <3>2 DEF Node
      <4>2. \A p \in DOMAIN Host : LeadsTo(Host[cur.src], Host[cur.src].needed[l], p) => LibFile(p)
        BY <1>2 DEF LibsAreFiles
      <4> QED
        BY <4>1, <4>2 DEF FileEnt, LeadsTo
    <3> QED
      BY <3>1, <3>2, <3>3
  <2> QED
    BY <1>6, <2>1, <2>2 DEF ElfFile
<1>7. CASE ElfDir
  <2>1. Node.type = "dir" /\ elfs' = elfs \o ElfKids
    BY <1>7 DEF ElfDir, ElfKids
  <2>2. ElfKids \in Seq(EntType) /\ \A i \in DOMAIN ElfKids : ElfKids[i].k # "Lib"
    <3>1. ElfKids \in Seq(EntType) /\ \A i \in DOMAIN ElfKids : ElfKids[i].k = "Path"
      BY <1>2, ElfKidsType
    <3> QED
      BY <3>1
  <2>3. cur.op # "elflib"
    BY <2>1 DEF LibInv, LibFile, Node
  <2> QED
    BY <1>4, <2>1, <2>2, <2>3
<1>8. CASE ElfOther
  <2>1. elfs' = elfs
    BY <1>8 DEF ElfOther, elfVars
  <2> QED
    BY <1>3, <2>1
<1> QED
  BY <1>5, <1>6, <1>7, <1>8 DEF ElfDone

LEMMA LibElfs ==
  ASSUME LibsAreFiles, StackInv, LibInv, ArchiveTypeOK, gather_archive_elfs
  PROVE  LibInv'
<1>1. CASE ElfMissing \/ ElfLinkInvalid
  <2>1. UNCHANGED <<elfs, cur>>
    BY <1>1 DEF ElfMissing, ElfLinkInvalid, elfVars
  <2> QED
    BY <2>1 DEF LibInv, FileEnt, LibFile
<1>2. CASE ElfLinkDangling
  <2>1. elfs' = elfs /\ cur'.op = "none"
    BY <1>2 DEF ElfLinkDangling, elfVars, NoEntry, Entry
  <2> QED
    BY <2>1 DEF LibInv, FileEnt, LibFile, ElfOps
<1>3. ASSUME ElfReady, elfs' = Popped
      PROVE  /\ \A i \in DOMAIN elfs' : i \in DOMAIN elfs /\ elfs'[i] = elfs[i]
             /\ Top.k = "Lib" => FileEnt(Top)
             /\ Top.k # "Lib" => \A i \in DOMAIN elfs' : elfs'[i].k # "Lib"
  <2>1. elfs \in Seq(EntType) /\ elfs # <<>>
    BY <1>3 DEF StackInv, ElfReady
  <2>2. /\ Len(elfs) \in DOMAIN elfs /\ Top = elfs[Len(elfs)]
        /\ \A i \in DOMAIN elfs' : i \in DOMAIN elfs /\ elfs'[i] = elfs[i]
    BY <1>3, PopStack DEF Top
  <2>3. DOMAIN elfs = 1..Len(elfs) /\ Len(elfs) \in Nat
    BY <2>1, LenProperties
  <2>4. ASSUME Top.k # "Lib", NEW i \in DOMAIN elfs PROVE elfs[i].k # "Lib"
    <3>1. i = Len(elfs) \/ i < Len(elfs)
      BY <2>3
    <3> QED
      BY <2>2, <2>4, <3>1 DEF LibInv
  <2> QED
    BY <2>2, <2>4 DEF LibInv
<1>4. ASSUME \A i \in DOMAIN elfs' : i \in DOMAIN elfs /\ elfs'[i] = elfs[i]
      PROVE  /\ \A i, l \in DOMAIN elfs' : i < l /\ elfs'[i].k = "Lib" => elfs'[l].k = "Lib"
             /\ \A i \in DOMAIN elfs' : elfs'[i].k = "Lib" => FileEnt(elfs'[i])
  BY <1>4 DEF LibInv
<1>5. CASE ElfTryMissing \/ ElfSeen
  <2>1. ElfReady /\ elfs' = Popped /\ cur' = cur /\ cur.op = "none"
    <3>1. ElfReady /\ elfs' = Popped /\ cur' = cur
      BY <1>5 DEF ElfTryMissing, ElfSeen, archiveVars
    <3> QED
      BY <3>1 DEF ElfReady, NoEntry, Entry
  <2>2. cur'.op = "none"
    BY <2>1
  <2> QED
    BY <1>3, <1>4, <2>1, <2>2 DEF LibInv, FileEnt, LibFile, ElfOps
<1>6. CASE ElfBegin
  <2>1. PICK p \in DOMAIN Host :
          /\ path_stat(Top, p)
          /\ cur' = Entry(CASE Top.k = "NameDst" -> "elfdst"
                            [] Top.k = "Lib" -> "elflib"
                            [] Top.k = "Path" -> "elfchild"
                            [] OTHER -> "elf", ElfDst(p), p)
    BY <1>6 DEF ElfBegin, Begin
  <2>2. ElfReady /\ elfs' = Popped
    BY <1>6 DEF ElfBegin
  <2>3. cur'.op = "elflib" => LibFile(cur'.src)
    BY <1>3, <2>1, <2>2 DEF Entry, FileEnt
  <2>4. cur'.op # "elflib" => \A i \in DOMAIN elfs' : elfs'[i].k # "Lib"
    BY <1>3, <2>1, <2>2 DEF Entry
  <2> QED
    BY <1>3, <1>4, <2>2, <2>3, <2>4 DEF LibInv, FileEnt, LibFile
<1>7. CASE ElfDone
  <2>1. PICK new \in Seq(EntType) :
           /\ elfs' = elfs \o new
           /\ \A i \in DOMAIN new : new[i].k = "Lib" => FileEnt(new[i])
           /\ \/ \A i \in DOMAIN elfs : elfs[i].k # "Lib"
              \/ \A i \in DOMAIN new : new[i].k = "Lib"
           /\ \/ \A i \in DOMAIN new : new[i].k # "Lib"
              \/ \A i \in DOMAIN new : new[i].k = "Lib"
    BY <1>7, LibPush
  <2>2. cur'.op = "none"
    <3>1. cur' = NoEntry
      BY <1>7 DEF ElfDone, ElfLink, ElfFile, ElfDir, ElfOther, Finish
    <3> QED
      BY <3>1 DEF NoEntry, Entry
  <2>3. elfs \in Seq(EntType)
    BY DEF StackInv
  <2>4. \A i \in DOMAIN elfs' : \/ i \in DOMAIN elfs /\ elfs'[i] = elfs[i]
                                \/ i - Len(elfs) \in DOMAIN new /\ elfs'[i] = new[i - Len(elfs)]
    <3>1. elfs' = elfs \o new /\ new \in Seq(EntType)
      BY <2>1
    <3> QED
      BY ONLY SMTT(20), <2>3, <3>1, PushFacts
  <2>5. /\ DOMAIN elfs = 1..Len(elfs) /\ Len(elfs) \in Nat
        /\ DOMAIN new = 1..Len(new) /\ Len(new) \in Nat
    BY <2>3, LenProperties
  <2>6. ASSUME NEW i \in DOMAIN elfs', NEW l \in DOMAIN elfs', i < l, elfs'[i].k = "Lib"
        PROVE  elfs'[l].k = "Lib"
    <3>1. CASE i \in DOMAIN elfs /\ elfs'[i] = elfs[i] /\ l \in DOMAIN elfs /\ elfs'[l] = elfs[l]
      BY <2>6, <3>1 DEF LibInv
    <3>2. CASE /\ i \in DOMAIN elfs /\ elfs'[i] = elfs[i]
               /\ l - Len(elfs) \in DOMAIN new /\ elfs'[l] = new[l - Len(elfs)]
      BY <2>1, <2>6, <3>2
    <3>3. CASE /\ i - Len(elfs) \in DOMAIN new /\ elfs'[i] = new[i - Len(elfs)]
               /\ l - Len(elfs) \in DOMAIN new /\ elfs'[l] = new[l - Len(elfs)]
      BY <2>1, <2>6, <3>3
    <3>4. CASE i - Len(elfs) \in DOMAIN new /\ l \in DOMAIN elfs
      <4>1. i \in Int /\ l \in Int
        <5>1. elfs' \in Seq(EntType)
          BY <2>1, <2>3, PushFacts
        <5> QED
          BY <5>1, LenProperties
      <4> QED
        BY <2>5, <2>6, <3>4, <4>1
    <3> QED
      BY <2>4, <3>1, <3>2, <3>3, <3>4
  <2>7. ASSUME NEW i \in DOMAIN elfs', elfs'[i].k = "Lib" PROVE FileEnt(elfs'[i])
    BY <2>1, <2>4, <2>7 DEF LibInv
  <2> QED
    BY <2>2, <2>6, <2>7 DEF LibInv, FileEnt, LibFile, ElfOps
<1> QED
  BY <1>1, <1>2, <1>5, <1>6, <1>7 DEF gather_archive_elfs, ElfDone

LEMMA LibNext ==
  ASSUME LibsAreFiles
  PROVE  TypeOK /\ StackInv /\ LibInv /\ [Next]_vars => LibInv'
<1> SUFFICES ASSUME TypeOK, StackInv, LibInv, [Next]_vars PROVE LibInv'
  OBVIOUS
<1>1. ArchiveTypeOK
  BY DEF TypeOK
<1>2. CASE Calm
  <2>1. elfs' = elfs /\ (cur' = cur \/ cur'.op \notin ElfOps)
    BY <1>2 DEF Calm, elfVars
  <2> QED
    BY <2>1 DEF LibInv, FileEnt, LibFile, ElfOps
<1>3. CASE LineBin \/ MainRc
  <2>1. cur'.op = "none"
    BY <1>3, StackGiven DEF NoEntry, Entry
  <2>2. \A i \in DOMAIN elfs' : elfs'[i].k # "Lib"
    <3>1. CASE MainRc
      BY <3>1, CoreAssumption DEF MainRc
    <3>2. CASE LineBin
      <4> DEFINE e == Ent(IF L.k = "bin" THEN "Name" ELSE "NameTry", L.src, L.sep, <<>>)
      <4>1. elfs' = <<e>> /\ e.k # "Lib"
        BY <3>2 DEF LineBin, Ent
      <4> HIDE DEF e
      <4>2. DOMAIN <<e>> = {1} /\ <<e>>[1] = e
        OBVIOUS
      <4> QED
        BY <4>1, <4>2
    <3> QED
      BY <1>3, <3>1, <3>2
  <2> QED
    BY <2>1, <2>2 DEF LibInv, ElfOps
<1> QED
  BY <1>1, <1>2, <1>3, NextCases, LibElfs, DataCalm

-----------------------------------------------------------------------------
(* ClosureInv.                                                             *)

(* A step after which whatever was owed is still owed or provided.         *)
Follows ==
  /\ \A k \in DOMAIN out : k \in DOMAIN out' /\ out'[k] = out[k]
  /\ \A j \in DOMAIN out : \A S : Owed(j, S) => Owed(j, S)'
  /\ \A q \in DOMAIN Host : Host[q].type = "lnk" /\ Host[q].tgt # NoTarget =>
       (Target(Host[q].tgt) => Target(Host[q].tgt)')

(* It leaves nothing behind that was seen to.                              *)
LEMMA FollowsKeeps ==
  ASSUME StackInv, Follows
  PROVE  /\ \A lib : \A k \in Nat : Accounted(k, lib) => Accounted(k, lib)'
         /\ \A k \in DOMAIN out : out[k].via \in ElfOps =>
              \A q \in HostPaths(out[k]) : k \in Nat /\ EntryClosed(k, Host[q]) => EntryClosed(k, Host[q])'
<1>1. ASSUME NEW lib, NEW q \in DOMAIN Host, NEW j \in DOMAIN out, Settled(j, Host[q], lib)
      PROVE  Settled(j, Host[q], lib)'
  <2>1. \E i \in DOMAIN Host[q].needed : Host[q].needed[i] = lib
    BY <1>1 DEF Settled
  <2>2. CASE Host[q].broken
    BY <2>1, <2>2 DEF Settled
  <2>3. CASE Owed(j, Leads(Host[q], lib))
    <3>1. Owed(j, Leads(Host[q], lib))'
      BY <2>3 DEF Follows
    <3> QED
      BY <2>1, <3>1 DEF Settled
  <2> QED
    BY <1>1, <2>2, <2>3 DEF Settled
<1>2. \A lib : \A k \in Nat : Accounted(k, lib) => Accounted(k, lib)'
  <2> SUFFICES ASSUME NEW k \in Nat, NEW lib, Accounted(k, lib)
               PROVE  Accounted(k, lib)'
    OBVIOUS
  <2>1. PICK j \in DOMAIN out : j <= k /\ out[j].via \in ElfOps /\
          \E q \in HostPaths(out[j]) : Settled(j, Host[q], lib)
    BY DEF Accounted
  <2>2. PICK q \in HostPaths(out[j]) : Settled(j, Host[q], lib)
    BY <2>1
  <2>3. q \in DOMAIN Host /\ j \in DOMAIN out' /\ out'[j] = out[j]
    BY <2>1, <2>2 DEF StackInv, Follows
  <2>4. Settled(j, Host[q], lib)'
    BY <1>1, <2>2, <2>3
  <2>5. \E qq \in HostPaths(out'[j]) : Settled(j, Host[qq], lib)'
    BY <2>2, <2>3, <2>4
  <2> QED
    BY <2>1, <2>3, <2>5 DEF Accounted, HostPaths
<1>3. ASSUME NEW k \in DOMAIN out, out[k].via \in ElfOps, NEW q \in HostPaths(out[k]), k \in Nat,
             EntryClosed(k, Host[q])
      PROVE  EntryClosed(k, Host[q])'
  <2>1. q \in DOMAIN Host /\ out'[k] = out[k]
    BY <1>3 DEF StackInv, Follows
  <2>2. ASSUME Host[q].type = "lnk"
        PROVE  /\ Host[q].tgt # NoTarget
               /\ out'[k].via = "elflib" => Owed(k, {Host[q].tgt})'
               /\ out'[k].via # "elflib" => Target(Host[q].tgt)'
    <3>1. /\ Host[q].tgt # NoTarget
          /\ out[k].via = "elflib" => Owed(k, {Host[q].tgt})
          /\ out[k].via # "elflib" => Target(Host[q].tgt)
      BY <1>3, <2>2 DEF EntryClosed
    <3>2. Owed(k, {Host[q].tgt}) => Owed(k, {Host[q].tgt})'
      BY DEF Follows
    <3>3. Target(Host[q].tgt) => Target(Host[q].tgt)'
      BY <2>1, <2>2, <3>1 DEF Follows
    <3> QED
      BY <2>1, <3>1, <3>2, <3>3
  <2>3. Scanned(k, Host[q])' => Scanned(k, Host[q])
    BY <2>1 DEF Scanned
  <2>4. Scanned(k, Host[q])' => Host[q].broken \/ \A i \in DOMAIN Host[q].needed : Accounted(k, Host[q].needed[i])'
    BY <1>2, <1>3, <2>3 DEF EntryClosed
  <2> QED
    BY <2>2, <2>4 DEF EntryClosed
<1> QED
  BY <1>2, <1>3

(* A step that archives no program and reads no library names.             *)
LEMMA FollowsClosure ==
  ASSUME StackInv, ClosureInv, out \in Seq(OutType), out' \in Seq(OutType), Follows,
         GrownBut(ElfOps), libs' = libs, Running' => Running
  PROVE  ClosureInv'
<1>1. SUFFICES ASSUME Running'
      PROVE  /\ \A k \in DOMAIN out' : out'[k].via \in ElfOps =>
                  \A q \in HostPaths(out'[k]) : EntryClosed(k, Host[q])'
             /\ \A lib \in libs : \E k \in DOMAIN out' : Accounted(k, lib)'
  BY DEF ClosureInv, HostPaths
<1>2. /\ DOMAIN out = 1..Len(out) /\ Len(out) \in Nat
      /\ DOMAIN out' = 1..Len(out') /\ Len(out') \in Nat
  BY LenProperties
<1>3. ASSUME NEW k \in DOMAIN out', out'[k].via \in ElfOps, NEW q \in HostPaths(out'[k])
      PROVE  EntryClosed(k, Host[q])'
  <2>1. k \in DOMAIN out /\ out'[k] = out[k] /\ k \in Nat
    BY <1>2, <1>3 DEF GrownBut, Grown
  <2>2. EntryClosed(k, Host[q])
    BY <1>1, <1>3, <2>1 DEF ClosureInv
  <2> QED
    BY <1>3, <2>1, <2>2, FollowsKeeps
<1>4. ASSUME NEW lib \in libs
      PROVE  \E k \in DOMAIN out' : Accounted(k, lib)'
  <2>1. PICK k \in DOMAIN out : Accounted(k, lib)
    BY <1>1, <1>4 DEF ClosureInv
  <2>2. k \in Nat /\ k \in DOMAIN out'
    BY <1>2 DEF Follows
  <2>3. Accounted(k, lib)'
    BY <2>1, <2>2, FollowsKeeps
  <2> QED
    BY <2>2, <2>3
<1> QED
  BY <1>3, <1>4

(* What is provided stays so.                                              *)
LEMMA ProvidedStays ==
  ASSUME Marks, \A k \in DOMAIN out : k \in DOMAIN out' /\ out'[k] = out[k]
  PROVE  /\ Covered \subseteq Covered'
         /\ \A j, p : Provided(j, p) => Provided(j, p)'
<1>1. Covered \subseteq Covered'
  BY DEF Marks, Covered, Barred
<1>2. ASSUME NEW j, NEW p, Provided(j, p) PROVE Provided(j, p)'
  BY <1>2 DEF Provided, Marks, AsLib
<1> QED
  BY <1>1, <1>2

(* So it is enough that what waits is not left behind.                     *)
LEMMA OwedStays ==
  ASSUME Marks, \A k \in DOMAIN out : k \in DOMAIN out' /\ out'[k] = out[k],
         NEW j, NEW S, Pure(j) /\ Pend(S) => Owed(j, S)', Owed(j, S)
  PROVE  Owed(j, S)'
<1>1. CASE Pure(j) /\ Pend(S)
  BY <1>1
<1>2. CASE \E p \in S : Provided(j, p)
  <2>1. \E p \in S : Provided(j, p)'
    BY <1>2, ProvidedStays
  <2> QED
    BY <2>1 DEF Owed
<1> QED
  BY <1>1, <1>2 DEF Owed

(* The other routines leave what waits alone, or nothing waits.            *)
LEMMA CalmFollows ==
  ASSUME Calm, Apart, Marks, out' \in Seq(OutType)
  PROVE  Follows
<1>1. elfs' = elfs /\ Covered \subseteq Covered'
  BY DEF Calm, elfVars, Marks, Covered, Barred
<1>2. \A k \in DOMAIN out : k \in DOMAIN out' /\ out'[k] = out[k]
  BY DEF Calm, GrownBut, Grown
<1>3. \A l \in DOMAIN out' : out'[l].via \in NotWalk \union {"walk"}
  <2>1. \A l \in DOMAIN out' : out'[l] \in OutType
    BY ElementOfSeq, LenProperties
  <2> QED
    BY <2>1 DEF OutType, NotWalk
<1>4. ASSUME NEW j \in DOMAIN out, NEW S, Pure(j), Pend(S) PROVE Owed(j, S)'
  <2>1. CASE elfs = <<>> /\ cur.op \notin ElfOps
    BY <1>4, <2>1 DEF Pend, ElfOps
  <2>2. CASE cur' = cur /\ GrownBut(NotWalk)
    <3>1. Pend(S)'
      BY <1>1, <1>4, <2>2 DEF Pend
    <3>2. ASSUME NEW l \in DOMAIN out', l > j PROVE AsLib(out'[l])
      BY <1>2, <1>3, <1>4, <2>2, <3>2 DEF Pure, GrownBut, Grown, AsLib
    <3>3. Pure(j)'
      BY <3>2 DEF Pure, AsLib
    <3> QED
      BY <3>1, <3>3 DEF Owed
  <2> QED
    BY <2>1, <2>2 DEF Apart
<1>5. \A j \in DOMAIN out : \A S : Owed(j, S) => Owed(j, S)'
  BY <1>2, <1>4, OwedStays
<1>6. \A t : Target(t) => Target(t)'
  <2> SUFFICES ASSUME NEW t, Target(t) PROVE Target(t)'
    OBVIOUS
  <2>1. CASE cur' = cur
    BY <1>1, <2>1 DEF Target
  <2>2. CASE cur.op \notin ElfOps
    BY <1>1, <2>2 DEF Target, ElfOps
  <2> QED
    BY <2>1, <2>2 DEF Calm
<1> QED
  BY <1>2, <1>5, <1>6 DEF Follows

(* Nothing waits when a list is handed over.                               *)
LEMMA GivenFollows ==
  ASSUME elfs = <<>>, cur = NoEntry, GrownBut(ElfOps), Marks
  PROVE  Follows
<1>1. DOMAIN elfs = {} /\ cur.op = "none" /\ Covered \subseteq Covered'
  BY DEF NoEntry, Entry, Marks, Covered, Barred
<1>2. \A k \in DOMAIN out : k \in DOMAIN out' /\ out'[k] = out[k]
  BY DEF GrownBut, Grown
<1>3. \A S : ~Pend(S)
  BY <1>1 DEF Pend
<1>4. \A j \in DOMAIN out : \A S : Owed(j, S) => Owed(j, S)'
  BY <1>2, <1>3, OwedStays
<1>5. \A t : Target(t) => Target(t)'
  BY <1>1 DEF Target
<1> QED
  BY <1>2, <1>4, <1>5 DEF Follows

(* Popping: an entry not found, or seen, or taken up.                      *)
LEMMA PopFollows ==
  ASSUME StackInv, SeenInv, Marks, out \in Seq(OutType), ElfTryMissing \/ ElfSeen \/ ElfBegin
  PROVE  Follows
<1>1. ElfReady /\ elfs' = Popped /\ UNCHANGED <<out, seen, filtered, missing>> /\ cur.op = "none"
  <2>1. ElfReady /\ elfs' = Popped /\ UNCHANGED <<out, seen, filtered, missing>>
    BY DEF ElfTryMissing, ElfSeen, ElfBegin, archiveVars
  <2> QED
    BY <2>1 DEF ElfReady, NoEntry, Entry
<1>2. /\ Top \in EntType
      /\ \A i \in DOMAIN elfs : elfs[i] = Top \/ (i \in DOMAIN elfs' /\ elfs'[i] = elfs[i])
  BY <1>1, PopStack
<1>3. seen \subseteq Covered /\ Covered' = Covered
  BY <1>1 DEF SeenInv, Covered, Archived
<1>4. ASSUME NEW j \in DOMAIN out, Pure(j), NEW S, Leading(Top, S)
      PROVE  Owed(j, S)'
  <2>1. Top.k = "Lib"
    BY <1>4 DEF Leading
  <2>2. CASE ElfTryMissing
    BY <2>1, <2>2 DEF ElfTryMissing
  <2>3. CASE ElfSeen
    <3>1. PICK p \in DOMAIN Host : path_stat(Top, p) /\ p \in seen
      BY <2>1, <2>3 DEF ElfSeen, ElfDst
    <3>2. p \in S /\ p \in Covered
      BY <1>3, <1>4, <3>1 DEF Leading
    <3>3. Provided(j, p)
      <4>1. CASE p \in Barred
        BY <4>1 DEF Provided
      <4>2. CASE \E l \in DOMAIN out : out[l].path = p
        <5>1. PICK l \in DOMAIN out : out[l].path = p
          BY <4>2
        <5>2. l > j => AsLib(out[l])
          BY <1>4 DEF Pure
        <5>3. l <= j \/ l > j
          <6>1. DOMAIN out = 1..Len(out) /\ Len(out) \in Nat
            BY LenProperties
          <6> QED
            BY <5>1, <6>1
        <5> QED
          BY <5>1, <5>2, <5>3 DEF Provided
      <4> QED
        BY <3>2, <4>1, <4>2 DEF Covered, Barred, Archived
    <3>4. Provided(j, p)'
      BY <1>1, <3>3 DEF Provided, Barred, AsLib
    <3> QED
      BY <3>2, <3>4 DEF Owed
  <2>4. CASE ElfBegin
    <3>1. PICK p \in DOMAIN Host : path_stat(Top, p) /\ cur' = Entry("elflib", p, p)
      BY <2>1, <2>4 DEF ElfBegin, Begin, ElfDst
    <3>2. cur'.op = "elflib" /\ cur'.src \in S
      BY <1>4, <3>1 DEF Leading, Entry
    <3>3. Pend(S)'
      BY <3>2 DEF Pend
    <3>4. Pure(j)'
      BY <1>1, <1>4 DEF Pure, AsLib
    <3> QED
      BY <3>3, <3>4 DEF Owed
  <2> QED
    BY <2>2, <2>3, <2>4
<1>5. ASSUME NEW j \in DOMAIN out, Pure(j), NEW S, Pend(S)
      PROVE  Owed(j, S)'
  <2>1. PICK i \in DOMAIN elfs : Leading(elfs[i], S)
    BY <1>1, <1>5 DEF Pend
  <2>2. CASE i \in DOMAIN elfs' /\ elfs'[i] = elfs[i]
    <3>1. \E l \in DOMAIN elfs' : Leading(elfs'[l], S)
      BY <2>1, <2>2
    <3>2. Pend(S)' /\ Pure(j)'
      BY <1>1, <1>5, <3>1 DEF Pend, Pure, Leading, AsLib
    <3> QED
      BY <3>2 DEF Owed
  <2> QED
    BY <1>2, <1>4, <1>5, <2>1, <2>2
<1>6. \A j \in DOMAIN out : \A S : Owed(j, S) => Owed(j, S)'
  BY <1>1, <1>5, OwedStays
<1>7. ASSUME NEW t, Top.k = "Name", Top.sep, Top.name = t
      PROVE  Target(t)'
  <2>1. CASE ElfTryMissing
    BY <1>7, <2>1 DEF ElfTryMissing
  <2>2. CASE ElfSeen
    <3>1. PICK p \in DOMAIN Host : path_stat(Top, p) /\ ElfDst(p) \in seen
      BY <2>2 DEF ElfSeen
    <3>2. p = t /\ ElfDst(p) = p
      BY <1>2, <1>7, <3>1, StatSep DEF ElfDst
    <3> QED
      BY <1>3, <3>1, <3>2 DEF Target
  <2>3. CASE ElfBegin
    <3>1. PICK p \in DOMAIN Host : path_stat(Top, p) /\ cur' = Entry("elf", p, p)
      BY <1>7, <2>3 DEF ElfBegin, Begin, ElfDst
    <3>2. p = t
      BY <1>2, <1>7, <3>1, StatSep
    <3>3. cur'.op = "elf" /\ cur'.src = t
      BY <3>1, <3>2 DEF Entry
    <3> QED
      BY <3>3 DEF Target
  <2> QED
    BY <2>1, <2>2, <2>3
<1>8. \A t : Target(t) => Target(t)'
  <2> SUFFICES ASSUME NEW t, Target(t) PROVE Target(t)'
    OBVIOUS
  <2>1. CASE t \in Covered
    BY <1>3, <2>1 DEF Target
  <2>2. CASE \E i \in DOMAIN elfs : elfs[i].k = "Name" /\ elfs[i].sep /\ elfs[i].name = t
    <3>1. PICK i \in DOMAIN elfs : elfs[i].k = "Name" /\ elfs[i].sep /\ elfs[i].name = t
      BY <2>2
    <3>2. CASE i \in DOMAIN elfs' /\ elfs'[i] = elfs[i]
      BY <3>1, <3>2 DEF Target
    <3> QED
      BY <1>2, <1>7, <3>1, <3>2
  <2> QED
    BY <1>1, <2>1, <2>2 DEF Target
<1> QED
  BY <1>1, <1>6, <1>8 DEF Follows

(* A link that leads nowhere is no library, and no link's target.          *)
LEMMA DanglingFollows ==
  ASSUME LibInv, ArchiveTypeOK, Marks, ElfLinkDangling
  PROVE  Follows
<1>1. /\ UNCHANGED <<out, elfs, filtered, missing>> /\ cur.op \in ElfOps
      /\ Node.type = "lnk" /\ Node.tgt = NoTarget
  BY DEF ElfLinkDangling, elfVars, ElfWalked, Walked
<1>2. cur.src \in DOMAIN Host
  BY <1>1 DEF ArchiveTypeOK, ElfOps, HostOps
<1>3. cur.op # "elflib"
  BY <1>1 DEF LibInv, LibFile, Node
<1>4. \A S : ~Pend(S)
  BY <1>1, <1>3 DEF LibInv, Pend, Leading
<1>5. \A j \in DOMAIN out : \A S : Owed(j, S) => Owed(j, S)'
  BY <1>1, <1>4, OwedStays
<1>6. ASSUME NEW q \in DOMAIN Host, Host[q].type = "lnk", Host[q].tgt # NoTarget, Target(Host[q].tgt)
      PROVE  Target(Host[q].tgt)'
  <2>1. Host[q].tgt # cur.src
    BY <1>1, <1>2, <1>6, ElfAssumption DEF Node
  <2> QED
    BY <1>1, <1>6, <2>1 DEF Target, Covered, Archived
<1> QED
  BY <1>1, <1>5, <1>6 DEF Follows

(* An entry that is archived: a library that was waited for, or nobody     *)
(* waits for a library.                                                    *)
LEMMA DoneFollows ==
  ASSUME StackInv, LibInv, ArchiveTypeOK, Marks, ElfDone
  PROVE  Follows
<1>1. PICK new \in Seq(EntType), t \in Types :
        elfs' = elfs \o new /\ ElfWalked /\ Finish(t, cur.op)
  BY PushStack
<1> DEFINE e == [path |-> cur.dst, type |-> t, via |-> cur.op]
           n == Len(out) + 1
<1>2. /\ DOMAIN out' = DOMAIN out \union {n} /\ out'[n] = e
      /\ \A k \in DOMAIN out : out'[k] = out[k]
      /\ cur.op # "elfdst" => cur.dst = cur.src
      /\ cur.op \in ElfOps
  BY <1>1, ElfFinish
<1>3. e.path = cur.dst /\ e.via = cur.op
  OBVIOUS
<1> HIDE DEF e, n
<1>4. elfs \in Seq(EntType)
  BY DEF StackInv
<1>5. \A i \in DOMAIN elfs : i \in DOMAIN elfs' /\ elfs'[i] = elfs[i]
  <2>1. elfs' = elfs \o new /\ new \in Seq(EntType)
    BY <1>1
  <2> QED
    BY ONLY SMTT(20), <1>4, <2>1, PushFacts
<1>6. \A k \in DOMAIN out : k \in DOMAIN out' /\ out'[k] = out[k]
  BY <1>2
<1>7. cur.dst \in Archived' /\ Covered \subseteq Covered' /\ Archived' \subseteq Covered'
  <2>1. \E k \in DOMAIN out' : out'[k].path = cur.dst
    BY <1>2, <1>3
  <2> QED
    BY <2>1 DEF Archived, Covered, Marks, Barred
<1>8. ASSUME NEW j \in DOMAIN out, Pure(j), NEW S, Pend(S) PROVE Owed(j, S)'
  <2>1. cur.op = "elflib"
    BY <1>2, <1>8 DEF Pend, LibInv, Leading
  <2>2. AsLib(e) /\ e.path = cur.src
    BY <1>2, <1>3, <2>1 DEF AsLib
  <2>3. CASE cur.src \in S
    <3>1. PICK p \in S : p = cur.src
      BY <2>3
    <3>2. \E l \in DOMAIN out' : out'[l].path = p /\ AsLib(out'[l])
      BY <1>2, <2>2, <3>1
    <3>3. Provided(j, p)'
      BY <3>2 DEF Provided, AsLib
    <3> QED
      BY <3>3 DEF Owed
  <2>4. CASE \E i \in DOMAIN elfs : Leading(elfs[i], S)
    <3>1. \E i \in DOMAIN elfs' : Leading(elfs'[i], S)
      BY <1>5, <2>4
    <3>2. \A l \in DOMAIN out' : l > j => AsLib(out'[l])
      BY <1>2, <1>8, <2>2 DEF Pure
    <3>3. Pend(S)' /\ Pure(j)'
      BY <3>1, <3>2 DEF Pend, Pure, Leading, AsLib
    <3> QED
      BY <3>3 DEF Owed
  <2> QED
    BY <1>8, <2>3, <2>4 DEF Pend
<1>9. \A j \in DOMAIN out : \A S : Owed(j, S) => Owed(j, S)'
  BY <1>6, <1>8, OwedStays
<1>10. \A x : Target(x) => Target(x)'
  BY <1>2, <1>5, <1>7 DEF Target
<1> QED
  BY <1>6, <1>9, <1>10 DEF Follows

(* A name that libs_seen has not is new where it first comes.              *)
LEMMA SmallestNat ==
  ASSUME NEW T, T \subseteq Nat, T # {}
  PROVE  \E x \in T : \A y \in T : x <= y
<1> DEFINE R == OpToRel(<, Nat)
<1>1. IsWellFoundedOn(R, Nat)
  BY NatLessThanWellFounded
<1>2. \A x, y \in Nat : y < x => <<y, x>> \in R
  BY DEF OpToRel
<1> HIDE DEF R
<1>3. PICK x \in T : \A y \in T : ~(<<y, x>> \in R)
  BY <1>1, WFMin
<1>4. \A y \in T : ~(y < x)
  BY <1>2, <1>3
<1>5. \A y \in T : x <= y
  BY <1>3, <1>4
<1> QED
  BY <1>5

LEMMA FirstPlace ==
  ASSUME NEW n, n.needed \in Seq(Name), NEW i \in DOMAIN n.needed, n.needed[i] \notin libs
  PROVE  \E l \in NewNames(n) : n.needed[l] = n.needed[i]
<1> DEFINE s == n.needed
           T == {l \in DOMAIN s : s[l] = s[i]}
<1>1. DOMAIN s = 1..Len(s) /\ Len(s) \in Nat
  BY LenProperties
<1> HIDE DEF s
<1>2. T \subseteq Nat /\ i \in T
  BY <1>1 DEF s
<1>3. PICK l \in T : \A y \in T : l <= y
  BY <1>2, SmallestNat
<1>4. l \in DOMAIN s /\ s[l] = s[i] /\ \A j \in 1..(l - 1) : s[j] # s[l]
  BY <1>1, <1>2, <1>3
<1> QED
  BY <1>4 DEF NewNames, s

(* What elf_deps() leaves on the stack for a file.                         *)
LEMMA ScanPends ==
  ASSUME StackInv, NEW q \in DOMAIN Host, q = cur.src, ~Host[q].broken,
         NEW deps \in elf_deps(Node), elfs' = elfs \o deps,
         NEW i \in DOMAIN Host[q].needed, Host[q].needed[i] \notin libs
  PROVE  Pend(Leads(Host[q], Host[q].needed[i]))'
<1>1. Node = Host[q] /\ cur.src \in DOMAIN Host
  BY DEF Node
<1>2. deps \in Seq(EntType) /\ elfs \in Seq(EntType)
  BY <1>1, DepsEnts DEF StackInv
<1>3. Host[q].needed \in Seq(Name)
  BY HostAssumption
<1>4. PICK l \in NewNames(Host[q]) : Host[q].needed[l] = Host[q].needed[i]
  BY <1>3, FirstPlace
<1>5. PICK j \in DOMAIN deps : deps[j] = Ent("Lib", <<Host[q].needed[i]>>, FALSE, Host[q].run)
  <2>1. ~Node.broken /\ l \in NewNames(Node)
    BY <1>1, <1>4
  <2>2. \E j \in DOMAIN deps : deps[j] = Ent("Lib", <<Node.needed[l]>>, FALSE, Node.run)
    BY <1>1, <2>1, DepsEnts
  <2> QED
    BY <1>1, <1>4, <2>2
<1>6. Len(elfs) + j \in DOMAIN (elfs \o deps) /\ (elfs \o deps)[Len(elfs) + j] = deps[j]
  BY ONLY SMTT(20), <1>2, PushFacts
<1>7. Len(elfs) + j \in DOMAIN elfs' /\ elfs'[Len(elfs) + j] = deps[j]
  BY ONLY SMTT(20), <1>6, elfs' = elfs \o deps
<1>8. Leading(deps[j], Leads(Host[q], Host[q].needed[i]))
  <2>1. deps[j].k = "Lib"
    BY <1>5 DEF Ent
  <2> QED
    BY <1>5, <2>1 DEF Leading, Leads, LeadsTo
<1>9. \E x \in DOMAIN elfs' : Leading(elfs'[x], Leads(Host[q], Host[q].needed[i]))
  BY <1>7, <1>8
<1> QED
  BY <1>9 DEF Pend, Leading

(* Archiving an entry keeps ClosureInv: what the entry needs is on the     *)
(* stack or was needed by an earlier one.                                  *)
LEMMA DoneClosure ==
  ASSUME StackInv, LibInv, ClosureInv, ArchiveTypeOK, Marks, ElfDone
  PROVE  ClosureInv'
<1>1. PICK new \in Seq(EntType), t \in Types :
        elfs' = elfs \o new /\ ElfWalked /\ Finish(t, cur.op)
  BY PushStack
<1>2. PICK n \in Nat :
        /\ Running /\ cur.op \in ElfOps /\ cur.src \in DOMAIN Host
        /\ n = Len(out) + 1 /\ DOMAIN out = 1..Len(out) /\ DOMAIN out' = DOMAIN out \union {n}
        /\ \A k \in DOMAIN out : out'[k] = out[k]
        /\ out'[n].via = cur.op /\ HostPaths(out'[n]) = {cur.src}
  <2> DEFINE e == [path |-> cur.dst, type |-> t, via |-> cur.op]
  <2>1. /\ Running /\ cur.op \in ElfOps /\ cur.src \in DOMAIN Host
        /\ Len(out) + 1 \in Nat /\ DOMAIN out = 1..Len(out)
        /\ DOMAIN out' = DOMAIN out \union {Len(out) + 1}
        /\ \A k \in DOMAIN out : out'[k] = out[k]
        /\ out'[Len(out) + 1] = e /\ HostPaths(e) = {cur.src}
    BY <1>1, ElfFinish
  <2>2. e.via = cur.op
    OBVIOUS
  <2> HIDE DEF e
  <2> QED
    BY <2>1, <2>2
<1>3. /\ \A k \in DOMAIN out : k \in Nat /\ k <= n
      /\ Len(out) \in Nat
  <2>1. out \in Seq(OutType)
    BY DEF ArchiveTypeOK, OutType
  <2> QED
    BY <1>2, <2>1, LenProperties
<1>4. Pure(n)'
  <2>1. \A l \in DOMAIN out' : ~(l > n)
    BY <1>2, <1>3
  <2> QED
    BY <2>1 DEF Pure
<1>5. Follows
  BY DoneFollows
<1>6. PICK q \in DOMAIN Host : q = cur.src
  BY <1>2
<1>7. Node = Host[q]
  BY <1>6 DEF Node
<1>8. ASSUME NEW lib, Settled(n, Host[q], lib)' PROVE Accounted(n, lib)'
  <2>1. n \in DOMAIN out' /\ n <= n /\ out'[n].via \in ElfOps /\ q \in HostPaths(out'[n])
    BY <1>2, <1>6
  <2> QED
    BY <1>8, <2>1 DEF Accounted, HostPaths
<1>9. ASSUME NEW lib \in libs PROVE Accounted(n, lib)'
  <2>1. PICK k \in DOMAIN out : Accounted(k, lib)
    BY <1>2, <1>9 DEF ClosureInv
  <2>2. Accounted(n, lib)
    BY <1>2, <1>3, <2>1 DEF Accounted
  <2> QED
    BY <1>2, <1>5, <2>2, FollowsKeeps
<1>10. ASSUME ElfFile, Node.exec \/ cur.op = "elflib", NEW i \in DOMAIN Host[q].needed
       PROVE  Accounted(n, Host[q].needed[i])'
  <2>1. PICK deps \in elf_deps(Node) : elfs' = elfs \o deps
    BY <1>10 DEF ElfFile
  <2>2. CASE Host[q].broken
    BY <1>8, <2>2 DEF Settled
  <2>3. CASE Host[q].needed[i] \in libs
    BY <1>9, <2>3
  <2>4. CASE ~Host[q].broken /\ Host[q].needed[i] \notin libs
    <3>1. Pend(Leads(Host[q], Host[q].needed[i]))'
      BY <1>6, <2>1, <2>4, ScanPends
    <3>2. Owed(n, Leads(Host[q], Host[q].needed[i]))'
      BY <1>4, <3>1 DEF Owed
    <3>3. Settled(n, Host[q], Host[q].needed[i])'
      BY <3>2 DEF Settled
    <3> QED
      BY <1>8, <3>3
  <2> QED
    BY <2>2, <2>3, <2>4
<1>11. EntryClosed(n, Host[q])'
  <2>1. CASE ElfLink
    <3>1. Node.type = "lnk" /\ Node.tgt # NoTarget /\
          elfs' = Append(elfs, Ent(IF cur.op = "elflib" THEN "Lib" ELSE "Name", Node.tgt, TRUE, <<>>))
      BY <2>1 DEF ElfLink
    <3> DEFINE x == Ent(IF cur.op = "elflib" THEN "Lib" ELSE "Name", Host[q].tgt, TRUE, <<>>)
    <3>2. /\ x.k = (IF cur.op = "elflib" THEN "Lib" ELSE "Name") /\ x.sep /\ x.name = Host[q].tgt
          /\ elfs' = Append(elfs, x) /\ x \in EntType
      <4>1. Host[q].tgt \in Path /\ <<>> \in Seq(Path)
        BY <1>7, <3>1, ElfAssumption, EmptySeq
      <4> QED
        BY <1>7, <3>1, <4>1 DEF Ent, EntType
    <3> HIDE DEF x
    <3>3. elfs \in Seq(EntType)
      BY DEF StackInv
    <3>4. Len(elfs) + 1 \in DOMAIN elfs' /\ elfs'[Len(elfs) + 1] = x
      BY <3>2, <3>3
    <3>5. ~Scanned(n, Host[q])'
      BY <1>7, <3>1 DEF Scanned
    <3>6. CASE cur.op = "elflib"
      <4>1. Leading(x, {Host[q].tgt})
        BY <3>2, <3>6, StatSep DEF Leading
      <4>2. \E i \in DOMAIN elfs' : Leading(elfs'[i], {Host[q].tgt})
        BY <3>4, <4>1
      <4>3. Pend({Host[q].tgt})'
        BY <4>2 DEF Pend, Leading
      <4>4. Owed(n, {Host[q].tgt})' /\ out'[n].via = "elflib"
        BY <1>2, <1>4, <3>6, <4>3 DEF Owed
      <4> QED
        BY <1>7, <3>1, <3>5, <4>4 DEF EntryClosed
    <3>7. CASE cur.op # "elflib"
      <4>1. Target(Host[q].tgt)' /\ out'[n].via # "elflib"
        BY <1>2, <3>2, <3>4, <3>7 DEF Target
      <4> QED
        BY <1>7, <3>1, <3>5, <4>1 DEF EntryClosed
    <3> QED
      BY <3>6, <3>7
  <2>2. CASE ElfFile
    <3>1. Host[q].type # "lnk"
      BY <1>7, <2>2 DEF ElfFile
    <3>2. Scanned(n, Host[q])' => Node.exec \/ cur.op = "elflib"
      BY <1>2, <1>7 DEF Scanned
    <3>3. Scanned(n, Host[q])' => \A i \in DOMAIN Host[q].needed : Accounted(n, Host[q].needed[i])'
      BY <1>10, <2>2, <3>2
    <3> QED
      BY <3>1, <3>3 DEF EntryClosed
  <2>3. CASE ElfDir
    <3>1. Host[q].type = "dir"
      BY <1>7, <2>3 DEF ElfDir
    <3> QED
      BY <3>1 DEF EntryClosed, Scanned
  <2>4. CASE ElfOther
    <3>1. Host[q].type = "other" \/ (Host[q].type = "reg" /\ Host[q].empty)
      BY <1>7, <2>4 DEF ElfOther
    <3>2. Host[q].type = "reg" => DOMAIN Host[q].needed = {}
      BY <3>1, ElfAssumption
    <3> QED
      BY <3>1, <3>2 DEF EntryClosed, Scanned
  <2> QED
    BY <2>1, <2>2, <2>3, <2>4 DEF ElfDone
<1>12. ASSUME NEW k \in DOMAIN out', out'[k].via \in ElfOps, NEW p \in HostPaths(out'[k])
       PROVE  EntryClosed(k, Host[p])'
  <2>1. CASE k = n
    BY <1>2, <1>6, <1>11, <1>12, <2>1
  <2>2. CASE k \in DOMAIN out
    <3>1. EntryClosed(k, Host[p])
      BY <1>2, <1>12, <2>2 DEF ClosureInv
    <3> QED
      BY <1>2, <1>3, <1>5, <1>12, <2>2, <3>1, FollowsKeeps
  <2> QED
    BY <1>2, <2>1, <2>2
<1>13. ASSUME NEW lib \in libs' PROVE \E k \in DOMAIN out' : Accounted(k, lib)'
  <2>1. lib \in libs \/ (/\ ElfFile /\ (Node.exec \/ cur.op = "elflib")
                         /\ \E i \in DOMAIN Host[q].needed : lib = Host[q].needed[i])
    BY <1>7, <1>13 DEF ElfDone, ElfLink, ElfFile, ElfDir, ElfOther, elfVars
  <2>2. Accounted(n, lib)'
    BY <1>9, <1>10, <2>1
  <2> QED
    BY <1>2, <2>2
<1> QED
  BY <1>12, <1>13 DEF ClosureInv, HostPaths

-----------------------------------------------------------------------------
LEMMA ClosureInit == Init => TurnInv /\ LibInv /\ ClosureInv
<1> SUFFICES ASSUME Init PROVE TurnInv /\ LibInv /\ ClosureInv
  OBVIOUS
<1>1. out = <<>> /\ libs = {} /\ elfs = <<>> /\ cur.op = "none"
  BY DEF Init, NoEntry, Entry
<1>2. DOMAIN <<>> = {}
  OBVIOUS
<1> QED
  BY <1>1, <1>2 DEF ClosureInv, TurnInv, LibInv, ElfOps

LEMMA ClosureNext ==
  TypeOK /\ StackInv /\ SeenInv /\ TurnInv /\ LibInv /\ ClosureInv /\ [Next]_vars => ClosureInv'
<1> SUFFICES ASSUME TypeOK, StackInv, SeenInv, TurnInv, LibInv, ClosureInv, [Next]_vars
             PROVE  ClosureInv'
  OBVIOUS
<1>1. ArchiveTypeOK /\ out \in Seq(OutType) /\ out' \in Seq(OutType) /\ Marks
  BY TypeNext, MarksNext DEF TypeOK, ArchiveTypeOK, OutType
<1>2. CASE Calm /\ Apart
  <2>1. Follows
    BY <1>1, <1>2, CalmFollows
  <2> QED
    BY <1>1, <1>2, <2>1, FollowsClosure DEF Calm, elfVars
<1>3. CASE LineBin \/ MainRc
  <2>1. /\ GrownBut(ElfOps) /\ Running /\ libs' = libs
        /\ elfs = <<>> /\ cur = NoEntry
    BY <1>3, StackGiven
  <2>2. Follows
    BY <1>1, <2>1, GivenFollows
  <2> QED
    BY <1>1, <2>1, <2>2, FollowsClosure
<1>4. CASE ElfTryMissing \/ ElfSeen \/ ElfBegin
  <2>1. UNCHANGED <<out, libs>> /\ Running
    BY <1>4 DEF ElfTryMissing, ElfSeen, ElfBegin, archiveVars, ElfReady
  <2>2. Follows
    BY <1>1, <1>4, PopFollows
  <2> QED
    BY <1>1, <2>1, <2>2, GrownNone, FollowsClosure
<1>5. CASE ElfLinkDangling
  <2>1. UNCHANGED <<out, libs>> /\ Running
    BY <1>5 DEF ElfLinkDangling, ElfWalked, Walked, elfVars
  <2>2. Follows
    BY <1>1, <1>5, DanglingFollows
  <2> QED
    BY <1>1, <2>1, <2>2, GrownNone, FollowsClosure
<1>6. CASE ElfMissing \/ ElfLinkInvalid
  <2>1. ~Running'
    BY <1>6 DEF ElfMissing, ElfLinkInvalid, Fail, Running
  <2> QED
    BY <2>1 DEF ClosureInv
<1>7. CASE ElfDone
  BY <1>1, <1>7, DoneClosure
<1>8. CASE gather_archive_elfs
  BY <1>4, <1>5, <1>6, <1>7, <1>8 DEF gather_archive_elfs, ElfDone
<1>9. Calm \/ LineBin \/ MainRc \/ gather_archive_elfs
  BY <1>1, NextCases, DataCalm
<1>10. Apart \/ gather_archive_elfs
  BY ApartNext
<1> QED
  BY <1>2, <1>3, <1>8, <1>9, <1>10

(* Once nothing waits, what ClosureInv accounts for is in the archive.     *)
LEMMA ClosureHolds == TypeOK /\ StackInv /\ ClosureInv => ElfClosure
<1> SUFFICES ASSUME TypeOK, StackInv, ClosureInv, Running, Idle,
                    NEW k \in DOMAIN out, out[k].via \in ElfOps, NEW src \in HostPaths(out[k])
             PROVE  LET n == Host[src]
                    IN  /\ n.type = "lnk" => n.tgt \in Archived \union Barred
                        /\ n.type = "lnk" /\ out[k].via = "elflib" => Provided(k, n.tgt)
                        /\ Scanned(k, n) => n.broken \/ Resolved(k, n)
  BY DEF ElfClosure
<1> DEFINE n == Host[src]
<1>1. DOMAIN elfs = {} /\ cur.op = "none"
  BY DEF Idle, NoEntry, Entry
<1>2. \A j, S : Owed(j, S) => \E p \in S : Provided(j, p)
  BY <1>1 DEF Owed, Pend
<1>3. EntryClosed(k, n) /\ src \in DOMAIN Host
  BY DEF ClosureInv, StackInv
<1>4. DOMAIN out = 1..Len(out) /\ Len(out) \in Nat
  <2>1. out \in Seq(OutType)
    BY DEF TypeOK, ArchiveTypeOK, OutType
  <2> QED
    BY <2>1, LenProperties
<1>5. \A q \in HostPaths(out[k]) : q = src
  <2>1. CASE out[k].via = "elfdst"
    <3>1. \A q \in HostPaths(out[k]) : CoreDst(q)
      BY <2>1 DEF HostPaths, CoreDst
    <3> QED
      BY <3>1, CoreUnique
  <2>2. CASE out[k].via # "elfdst"
    BY <2>2 DEF HostPaths
  <2> QED
    BY <2>1, <2>2
<1> HIDE DEF n
<1>6. ASSUME n.type = "lnk"
      PROVE  /\ n.tgt \in Archived \union Barred
             /\ out[k].via = "elflib" => Provided(k, n.tgt)
  <2>1. CASE out[k].via = "elflib"
    <3>1. Provided(k, n.tgt)
      BY <1>2, <1>3, <1>6, <2>1 DEF EntryClosed
    <3> QED
      BY <3>1 DEF Provided, Archived
  <2>2. CASE out[k].via # "elflib"
    BY <1>1, <1>3, <1>6, <2>2 DEF EntryClosed, Target, Covered, Barred
  <2> QED
    BY <2>1, <2>2
<1>7. ASSUME Scanned(k, n), ~n.broken
      PROVE  Resolved(k, n)
  <2> SUFFICES ASSUME NEW i \in DOMAIN n.needed
               PROVE  \/ \E p \in DOMAIN Host : LeadsTo(n, n.needed[i], p) /\ Provided(k, p)
                      \/ Taken(k, n, n.needed[i])
    BY DEF Resolved
  <2> DEFINE lib == n.needed[i]
  <2>1. Accounted(k, lib)
    BY <1>3, <1>7 DEF EntryClosed
  <2> HIDE DEF lib
  <2>2. PICK j \in DOMAIN out : j <= k /\ out[j].via \in ElfOps /\
          \E q \in HostPaths(out[j]) : Settled(j, Host[q], lib)
    BY <2>1 DEF Accounted
  <2>3. PICK q \in HostPaths(out[j]) : Settled(j, Host[q], lib)
    BY <2>2
  <2>4. /\ \E l \in DOMAIN Host[q].needed : Host[q].needed[l] = lib
        /\ Host[q].broken \/ \E p \in DOMAIN Host : LeadsTo(Host[q], lib, p) /\ Provided(j, p)
    <3>1. Host[q].broken \/ \E p \in Leads(Host[q], lib) : Provided(j, p)
      BY <1>2, <2>3 DEF Settled
    <3> QED
      BY <2>3, <3>1 DEF Settled, Leads
  <2>5. CASE j = k
    <3>1. q = src /\ Host[q] = n
      BY <1>5, <2>3, <2>5 DEF n
    <3> QED
      BY <1>7, <2>4, <2>5, <3>1 DEF lib
  <2>6. CASE j # k
    <3>1. j \in 1..(k - 1)
      BY <1>4, <2>2, <2>6
    <3>2. ASSUME NEW p, Provided(j, p) PROVE Provided(k, p)
      <4>1. \A l \in DOMAIN out : l <= j => l <= k
        BY <1>4, <2>2
      <4> QED
        BY <3>2, <4>1 DEF Provided
    <3>3. CASE \E p \in DOMAIN Host : LeadsTo(n, lib, p) /\ Provided(k, p)
      BY <3>3 DEF lib
    <3>4. CASE ~\E p \in DOMAIN Host : LeadsTo(n, lib, p) /\ Provided(k, p)
      <4>1. Host[q].broken \/ \E p \in DOMAIN Host : LeadsTo(Host[q], lib, p) /\ Provided(j, p)
                                                     /\ ~LeadsTo(n, lib, p)
        BY <2>4, <3>2, <3>4
      <4>2. Taken(k, n, lib)
        BY <2>2, <2>3, <2>4, <3>1, <4>1 DEF Taken
      <4> QED
        BY <4>2 DEF lib
    <3> QED
      BY <3>3, <3>4
  <2> QED
    BY <2>5, <2>6
<1> QED
  BY <1>6, <1>7 DEF n

(* Programs come with what they need, on a host where each needed library  *)
(* that is found is a file or a link to one: whenever gather_archive_elfs()*)
(* has returned, each shared object that an archived executable or library *)
(* needs is in the archive where its RUNPATH leads, as a library that was  *)
(* scanned in turn, and each archived link has its target there.  A path   *)
(* that a filter line closed, a library archived before the file that      *)
(* needs it and a name that an earlier file took in libs_seen are the      *)
(* exceptions, and the only ones.                                          *)
THEOREM ProgramsComplete ==
  ASSUME LibsAreFiles
  PROVE  Spec => []ElfClosure
<1> DEFINE Inv == TypeOK /\ StackInv /\ SeenInv /\ TurnInv /\ LibInv /\ ClosureInv
<1>1. Init => Inv
  BY TypeInit, StackInit, SeenInit, ClosureInit
<1>2. Inv /\ [Next]_vars => Inv'
  BY TypeNext, StackNext, SeenNext, TurnNext, LibNext, ClosureNext
<1>3. Inv => ElfClosure
  BY ClosureHolds
<1> QED
  BY <1>1, <1>2, <1>3, PTL DEF Spec
=============================================================================
