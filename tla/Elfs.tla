-------------------------------- MODULE Elfs ---------------------------------
(***************************************************************************)
(* gather_archive_elfs(): a LIFO of GatherEnts, each resolved on the host, *)
(* archived after its parent directories, and replaced on the stack by     *)
(* what it leads to: a symlink's target, a directory's children, the       *)
(* shared objects that an ELF file's dynamic section names.                *)
(***************************************************************************)
EXTENDS Archive

CONSTANTS
  BinPaths,  \* BIN_PATHS
  LibPaths   \* LIB_PATHS

(* canonicalize() resolves every link; an empty file needs nothing.        *)
ASSUME ElfAssumption ==
  /\ BinPaths \in Seq(Path) /\ LibPaths \in Seq(Path)
  /\ \A p \in DOMAIN Host :
       /\ Host[p].run \in Seq(Path)
       /\ Host[p].type = "reg" /\ Host[p].empty => Host[p].needed = <<>>
       /\ Host[p].type = "lnk" /\ Host[p].tgt # NoTarget =>
            /\ Host[p].tgt \in Path
            /\ Host[p].tgt \in DOMAIN Host => Host[Host[p].tgt].type # "lnk"

VARIABLES
  elfs,      \* the stack of GatherEnts
  libs       \* libs_seen: DT_NEEDED names already met

elfVars == <<elfs, libs>>

(* GatherEnt.  sep: the name holds a '/', and is given here as path::      *)
(* absolute() returns it; run: the directories of LibRunPath.              *)
Ent(k, name, sep, run) == [k |-> k, name |-> name, sep |-> sep, run |-> run]
EntType == [k : {"Name", "NameTry", "NameDst", "Path", "Lib"}, name : Path,
            sep : BOOLEAN, run : Seq(Path)]
NameDstPath == <<"rdinit">>    \* the only NameDst destination main() uses

(* path_stat(): the host paths tried for an entry, in order.               *)
Candidates(e) ==
  LET dirs == IF e.k = "Lib" THEN e.run \o LibPaths ELSE BinPaths
  IN  IF e.sep THEN <<e.name>>
      ELSE [i \in DOMAIN dirs |-> dirs[i] \o e.name]

path_stat(e, p) ==
  LET c == Candidates(e)
  IN  /\ p \in DOMAIN Host
      /\ \E i \in DOMAIN c : /\ p = c[i]
                             /\ \A j \in 1..(i - 1) : c[j] \notin DOMAIN Host

NotFound(e) == \A i \in DOMAIN Candidates(e) : Candidates(e)[i] \notin DOMAIN Host

(* elf_deps(): the libraries an ELF file adds to the stack, the one        *)
(* element of a set: those at the places where DT_NEEDED has a new name.   *)
(* Every name joins libs_seen as it is read; on a bad string the list      *)
(* built so far is lost with the error, which the caller ignores.          *)
NewNames(n) ==
  {i \in DOMAIN n.needed : /\ n.needed[i] \notin libs
                           /\ \A j \in 1..(i - 1) : n.needed[j] # n.needed[i]}
Ascending(I, max) ==
  {f \in UNION {[1..m -> I] : m \in 0..max} :
     /\ \A i \in I : \E j \in DOMAIN f : f[j] = i
     /\ \A j, l \in DOMAIN f : j < l => f[j] < f[l]}
elf_deps(n) ==
  IF n.broken THEN {<<>>}
  ELSE {[j \in DOMAIN f |-> Ent("Lib", <<n.needed[f[j]]>>, FALSE, n.run)] :
          f \in Ascending(NewNames(n), Len(n.needed))}

Top == elfs[Len(elfs)]
Popped == SubSeq(elfs, 1, Len(elfs) - 1)
ElfReady == Running /\ cur = NoEntry /\ elfs # <<>>
ElfDst(p) == IF Top.k = "NameDst" THEN NameDstPath ELSE p

-----------------------------------------------------------------------------
ElfTryMissing ==
  /\ ElfReady /\ NotFound(Top) /\ Top.k = "NameTry"
  /\ elfs' = Popped
  /\ UNCHANGED <<archiveVars, libs>>

ElfMissing ==
  /\ ElfReady /\ NotFound(Top) /\ Top.k # "NameTry"
  /\ Fail
  /\ UNCHANGED <<seen, out, cur, here, wi, filtered, missing, elfVars>>

ElfSeen ==
  /\ ElfReady
  /\ \E p \in DOMAIN Host : path_stat(Top, p) /\ ElfDst(p) \in seen
  /\ elfs' = Popped
  /\ UNCHANGED <<archiveVars, libs>>

(* The pop.  cur.op keeps what the rest of the iteration asks of the       *)
(* entry's kind: a NameDst may not be a symlink, Lib is lib_ent.           *)
ElfBegin ==
  /\ ElfReady
  /\ \E p \in DOMAIN Host :
       /\ path_stat(Top, p) /\ ElfDst(p) \notin seen
       /\ Begin(Entry(CASE Top.k = "NameDst" -> "elfdst"
                        [] Top.k = "Lib" -> "elflib"
                        [] Top.k = "Path" -> "elfchild"
                        [] OTHER -> "elf",
                      ElfDst(p), p), seen, FALSE)
  /\ elfs' = Popped
  /\ UNCHANGED <<seen, out, phase, filtered, missing, libs>>

ElfOps == {"elf", "elfdst", "elfchild", "elflib"}
ElfWalked == \E op \in ElfOps : Walked(op)
Node == Host[cur.src]

ElfLinkInvalid ==
  /\ Walked("elfdst") /\ Node.type = "lnk"
  /\ Fail
  /\ UNCHANGED <<seen, out, cur, here, wi, filtered, missing, elfVars>>

(* canonicalize() failed: the link is dropped, and not marked seen.        *)
ElfLinkDangling ==
  /\ ElfWalked /\ cur.op # "elfdst" /\ Node.type = "lnk" /\ Node.tgt = NoTarget
  /\ cur' = NoEntry
  /\ UNCHANGED <<seen, out, here, wi, phase, filtered, missing, elfVars>>

ElfLink ==
  /\ ElfWalked /\ cur.op # "elfdst" /\ Node.type = "lnk" /\ Node.tgt # NoTarget
  /\ elfs' = Append(elfs, Ent(IF cur.op = "elflib" THEN "Lib" ELSE "Name",
                              Node.tgt, TRUE, <<>>))
  /\ Finish("lnk", cur.op)
  /\ UNCHANGED libs

(* Mutant: lib_ent forgotten, only executables are scanned.                *)
ElfFileExecOnly ==
  /\ ElfWalked /\ Node.type = "reg" /\ ~Node.empty
  /\ IF Node.exec
     THEN /\ \E deps \in elf_deps(Node) : elfs' = elfs \o deps
          /\ libs' = libs \union {Node.needed[i] : i \in DOMAIN Node.needed}
     ELSE UNCHANGED elfVars
  /\ Finish("reg", cur.op)

ElfFile ==
  /\ ElfWalked /\ Node.type = "reg" /\ ~Node.empty
  /\ IF Node.exec \/ cur.op = "elflib"
     THEN /\ \E deps \in elf_deps(Node) : elfs' = elfs \o deps
          /\ libs' = libs \union {Node.needed[i] : i \in DOMAIN Node.needed}
     ELSE UNCHANGED elfVars
  /\ Finish("reg", cur.op)

ElfDir ==
  /\ ElfWalked /\ Node.type = "dir"
  /\ elfs' = elfs \o [i \in DOMAIN Node.kids |->
                        Ent("Path", Append(cur.src, Node.kids[i]), TRUE, <<>>)]
  /\ Finish("dir", cur.op)
  /\ UNCHANGED libs

ElfOther ==
  /\ ElfWalked /\ (Node.type = "other" \/ (Node.type = "reg" /\ Node.empty))
  /\ Finish(Node.type, cur.op)
  /\ UNCHANGED elfVars

gather_archive_elfs ==
  \/ ElfTryMissing \/ ElfMissing \/ ElfSeen \/ ElfBegin
  \/ ElfLinkInvalid \/ ElfLinkDangling \/ ElfLink
  \/ ElfFile \/ ElfDir \/ ElfOther
=============================================================================
