--------------------------------- MODULE Cut ---------------------------------
(***************************************************************************)
(* rapido-cut: main() and the manifest parser, composed with the gathering *)
(* routines of Elfs, Kmods and Data over the archive they share.  One step *)
(* is one manifest line, one iteration of a gathering loop, one parent     *)
(* directory, or one statement of main().                                  *)
(***************************************************************************)
EXTENDS Elfs, Data, Kmods

CONSTANTS
  Inputs,       \* [main: --manifest files, incs: files include may name]
  MaxOpen,      \* open manifest readers the fd limit allows
  AutorunName,  \* "{:03}-{}": [index -> [script base name -> Name]]
  CoreElfs,     \* main(): core_elfs
  ConfKmods     \* rapido::conf_kmod_deps(&conf)

(* A manifest line after variable substitution and path::absolute().       *)
Line(k, dst, src, name, sep, srcs) ==
  [k |-> k, dst |-> dst, src |-> src, name |-> name, sep |-> sep, srcs |-> srcs]
LineType ==
  [k : {"include", "filter", "dir", "slink", "file", "bin", "try-bin", "kmod",
        "try-kmod", "tree", "autorun"},
   dst : Path, src : Path, name : STRING, sep : BOOLEAN, srcs : Seq(Path)]

ASSUME MaxOpenAssumption == MaxOpen \in Nat \ {0}
ASSUME InputAssumption ==
  \A i \in Inputs : /\ i.main \in Seq(Seq(LineType))
                    /\ \A n \in DOMAIN i.incs : i.incs[n] \in Seq(LineType)
ASSUME AutorunAssumption ==
  /\ DOMAIN AutorunName \subseteq Nat
  /\ \A i \in DOMAIN AutorunName : AutorunName[i] \in [Name -> Name]
ASSUME ConfAssumption == ConfKmods \in Seq(STRING)

(* "we only have one internal NameDst user".                               *)
ASSUME CoreAssumption ==
  /\ CoreElfs \in Seq(EntType)
  /\ \A i \in DOMAIN CoreElfs : CoreElfs[i].k \in {"Name", "NameDst"}
  /\ \A i, j \in DOMAIN CoreElfs :
       CoreElfs[i].k = "NameDst" /\ CoreElfs[j].k = "NameDst" => i = j

VARIABLES
  fests,        \* the stack of manifest readers: lines not yet read
  incs,         \* contents of the manifests that include can open
  idx,          \* autorun_idx
  kwant         \* history: modules that must be archived for the cut to succeed

cutVars == <<fests, incs, idx, kwant>>
vars == <<archiveVars, elfVars, items, kmodVars, cutVars>>

AutorunDir == <<"rapido_autorun">>

Init ==
  /\ seen = {} /\ out = <<>> /\ cur = NoEntry /\ here = <<>> /\ wi = 0
  /\ phase = "conf" /\ filtered = {} /\ missing = {}
  /\ elfs = <<>> /\ libs = {} /\ items = <<>> /\ tasks = <<>> /\ gk = FALSE
  /\ \E i \in Inputs : fests = i.main /\ incs = i.incs
  /\ idx = 0 /\ kwant = {}

Idle == cur = NoEntry /\ elfs = <<>> /\ items = <<>> /\ tasks = <<>>

-----------------------------------------------------------------------------
(* manifest_parse() and manifest_parse_one().                              *)
Depth == Len(fests)
Reading == phase = "manifest" /\ Idle /\ fests # <<>> /\ fests[Depth] # <<>>
L == fests[Depth][1]
Consume == fests' = [fests EXCEPT ![Depth] = Tail(@)]

(* Mutant: the reader that reached its end stays on the stack.             *)
ReadEofKept ==
  /\ phase = "manifest" /\ Idle /\ fests # <<>> /\ fests[Depth] = <<>>
  /\ UNCHANGED vars

ReadEof ==
  /\ phase = "manifest" /\ Idle /\ fests # <<>> /\ fests[Depth] = <<>>
  /\ fests' = SubSeq(fests, 1, Depth - 1)
  /\ UNCHANGED <<archiveVars, elfVars, items, kmodVars, incs, idx, kwant>>

(* Mutant: the included manifest is read after its includer.               *)
LineIncludeLast ==
  /\ Reading /\ L.k = "include"
  /\ IF L.name \in DOMAIN incs /\ Depth < MaxOpen
     THEN /\ fests' = <<incs[L.name]>> \o [fests EXCEPT ![Depth] = Tail(@)]
          /\ UNCHANGED phase
     ELSE Fail /\ UNCHANGED fests
  /\ UNCHANGED <<seen, out, cur, here, wi, filtered, missing>>
  /\ UNCHANGED <<elfVars, items, kmodVars, incs, idx, kwant>>

(* include: the new reader is the one read next; path_stat() or open fails *)
(* on a missing manifest and when no descriptor is left.                   *)
LineInclude ==
  /\ Reading /\ L.k = "include"
  /\ IF L.name \in DOMAIN incs /\ Depth < MaxOpen
     THEN /\ fests' = Append([fests EXCEPT ![Depth] = Tail(@)], incs[L.name])
          /\ UNCHANGED phase
     ELSE Fail /\ UNCHANGED fests
  /\ UNCHANGED <<seen, out, cur, here, wi, filtered, missing>>
  /\ UNCHANGED <<elfVars, items, kmodVars, incs, idx, kwant>>

(* Mutant: the path does not reach paths_seen.                             *)
LineFilterLost ==
  /\ Reading /\ L.k = "filter"
  /\ filtered' = filtered \union {L.dst}
  /\ Consume
  /\ UNCHANGED <<seen, out, cur, here, wi, phase, missing>>
  /\ UNCHANGED <<elfVars, items, kmodVars, incs, idx, kwant>>

LineFilter ==
  /\ Reading /\ L.k = "filter"
  /\ seen' = seen \union {L.dst}
  /\ filtered' = filtered \union {L.dst}
  /\ Consume
  /\ UNCHANGED <<out, cur, here, wi, phase, missing>>
  /\ UNCHANGED <<elfVars, items, kmodVars, incs, idx, kwant>>

(* manifest_dir(), manifest_slink() and manifest_file(), up to the parent  *)
(* walk.  File::open() follows symlinks; src = <<>>: no LOCATION given.    *)
Opens(src) ==
  \/ src = <<>>
  \/ src \in DOMAIN Host /\ Host[src].type = "reg"
  \/ /\ src \in DOMAIN Host /\ Host[src].type = "lnk"
     /\ Host[src].tgt \in DOMAIN Host /\ Host[Host[src].tgt].type = "reg"

LineEntry ==
  /\ Reading /\ L.k \in {"dir", "slink", "file"}
  /\ IF L.dst \in seen THEN UNCHANGED <<cur, here, wi, phase>>
     ELSE IF L.k = "file" /\ ~Opens(L.src) THEN Fail /\ UNCHANGED <<cur, here, wi>>
     ELSE Begin(Entry(L.k, L.dst, L.src), seen, FALSE) /\ UNCHANGED phase
  /\ Consume
  /\ UNCHANGED <<seen, out, filtered, missing>>
  /\ UNCHANGED <<elfVars, items, kmodVars, incs, idx, kwant>>

LineArchive ==
  /\ \E op \in {"dir", "slink", "file"} :
       /\ Walked(op)
       /\ Finish(CASE op = "dir" -> "dir" [] op = "slink" -> "lnk"
                   [] op = "file" -> "reg", "line")
  /\ UNCHANGED <<elfVars, items, kmodVars, cutVars>>

LineBin ==
  /\ Reading /\ L.k \in {"bin", "try-bin"}
  /\ elfs' = <<Ent(IF L.k = "bin" THEN "Name" ELSE "NameTry", L.src, L.sep, <<>>)>>
  /\ Consume
  /\ UNCHANGED <<archiveVars, libs, items, kmodVars, incs, idx, kwant>>

LineKmod ==
  /\ Reading /\ L.k \in {"kmod", "try-kmod"}
  /\ gather_archive_kmods(<<L.name>>, L.k = "try-kmod")
  /\ kwant' = IF L.k = "kmod" THEN kwant \union {L.name} ELSE kwant
  /\ Consume
  /\ UNCHANGED <<archiveVars, elfVars, items, incs, idx>>

LineTree ==
  /\ Reading /\ L.k = "tree"
  /\ items' = <<Item(L.src, L.dst, FALSE)>>
  /\ Consume
  /\ UNCHANGED <<archiveVars, elfVars, kmodVars, incs, idx, kwant>>

(* manifest_autorun() for the first LOCATION; the line stays for the rest. *)
(* Neither the script nor the directory is looked up in paths_seen.        *)
LineAutorun ==
  /\ Reading /\ L.k = "autorun" /\ L.srcs # <<>> /\ L.srcs[1] # <<>>
  /\ idx \in DOMAIN AutorunName
  /\ LET dir == [path |-> AutorunDir, type |-> "dir", via |-> "main"]
         script == [path |-> Append(AutorunDir, AutorunName[idx][Base(L.srcs[1])]),
                    type |-> "reg", via |-> "autorun"]
         start == IF idx = 0 THEN Append(out, dir) ELSE out
     IN  IF Opens(L.srcs[1])
         THEN /\ out' = Append(start, script)
              /\ idx' = idx + 1
              /\ UNCHANGED phase
         ELSE /\ out' = start
              /\ Fail
              /\ UNCHANGED idx
  /\ seen' = IF idx = 0 THEN seen \union {AutorunDir} ELSE seen
  /\ fests' = [fests EXCEPT ![Depth] =
                 IF Len(L.srcs) = 1 THEN Tail(@)
                 ELSE <<[L EXCEPT !.srcs = Tail(@)]>> \o Tail(@)]
  /\ UNCHANGED <<cur, here, wi, filtered, missing>>
  /\ UNCHANGED <<elfVars, items, kmodVars, incs, kwant>>

LineStep ==
  \/ LineInclude \/ LineFilter \/ LineEntry \/ LineArchive
  \/ LineBin \/ LineKmod \/ LineTree \/ LineAutorun

-----------------------------------------------------------------------------
(* main().  rapido.conf and rapido.rc are archived without paths_seen.     *)
MainConf ==
  /\ phase = "conf" /\ Idle
  /\ Write(<<"rapido.conf">>, "reg", "main")
  /\ phase' = "manifest"
  /\ UNCHANGED <<seen, cur, here, wi, filtered, missing>>
  /\ UNCHANGED <<elfVars, items, kmodVars, cutVars>>

MainRc ==
  /\ phase = "manifest" /\ Idle /\ fests = <<>>
  /\ Write(<<"rapido.rc">>, "reg", "main")
  /\ elfs' = CoreElfs
  /\ phase' = "core"
  /\ UNCHANGED <<seen, cur, here, wi, filtered, missing>>
  /\ UNCHANGED <<libs, items, kmodVars, cutVars>>

MainKmods ==
  /\ phase = "core" /\ Idle
  /\ gather_archive_kmods(ConfKmods, FALSE)
  /\ kwant' = kwant \union {ConfKmods[i] : i \in DOMAIN ConfKmods}
  /\ phase' = "lib64"
  /\ UNCHANGED <<seen, out, cur, here, wi, filtered, missing>>
  /\ UNCHANGED <<elfVars, items, fests, incs, idx>>

(* populate_default_symlinks(), one link after the other.                  *)
Link(from, to, p) ==
  /\ phase = from /\ Idle
  /\ IF p \in seen THEN UNCHANGED out ELSE Write(p, "lnk", "main")
  /\ phase' = to
  /\ UNCHANGED <<seen, cur, here, wi, filtered, missing>>
  /\ UNCHANGED <<elfVars, items, kmodVars, cutVars>>

SbinModprobe == <<"sbin", "modprobe">>
MainSbin ==
  IF <<"sbin">> \in seen /\ <<"usr", "sbin", "modprobe">> \notin seen
  THEN /\ phase = "sbin" /\ Idle
       /\ phase' = "lib"
       /\ UNCHANGED <<seen, out, cur, here, wi, filtered, missing>>
       /\ UNCHANGED <<elfVars, items, kmodVars, cutVars>>
  ELSE Link("sbin", "lib", IF <<"sbin">> \in seen THEN SbinModprobe ELSE <<"sbin">>)

(* archive_kmods_symlink(): /lib/modules is not looked up in paths_seen.   *)
KmodsLink == IF <<"lib">> \in seen THEN <<"lib", "modules">> ELSE <<"lib">>
MainKmodsLink ==
  /\ phase = "lib" /\ Idle
  /\ Write(KmodsLink, "lnk", "main")
  /\ phase' = "trailer"
  /\ UNCHANGED <<seen, cur, here, wi, filtered, missing>>
  /\ UNCHANGED <<elfVars, items, kmodVars, cutVars>>

(* Mutant: the archive is left without its trailer.                        *)
MainTrailerUnwritten ==
  /\ phase = "trailer" /\ Idle
  /\ phase' = "done"
  /\ UNCHANGED <<seen, out, cur, here, wi, filtered, missing>>
  /\ UNCHANGED <<elfVars, items, kmodVars, cutVars>>
MainTrailer ==
  /\ phase = "trailer" /\ Idle
  /\ Write(<<"TRAILER!!!">>, "trailer", "main")
  /\ phase' = "done"
  /\ UNCHANGED <<seen, cur, here, wi, filtered, missing>>
  /\ UNCHANGED <<elfVars, items, kmodVars, cutVars>>

MainStep ==
  \/ MainConf \/ MainRc \/ MainKmods
  \/ Link("lib64", "bin", <<"lib64">>) \/ Link("bin", "sbin", <<"bin">>)
  \/ MainSbin \/ MainKmodsLink \/ MainTrailer

-----------------------------------------------------------------------------
Step ==
  \/ MainStep \/ ReadEof \/ LineStep
  \/ gather_archive_dirs /\ UNCHANGED <<elfVars, items, kmodVars, cutVars>>
  \/ gather_archive_elfs /\ UNCHANGED <<items, kmodVars, cutVars>>
  \/ gather_archive_data /\ UNCHANGED <<elfVars, kmodVars, cutVars>>
  \/ gather_archive_kmod_and_deps /\ UNCHANGED <<elfVars, items, cutVars>>

Aborted == Abort /\ UNCHANGED <<elfVars, items, kmodVars, cutVars>>

Next == Step \/ Aborted
Spec == Init /\ [][Next]_vars

(* rapido-cut waits for nobody: while it has a step it takes one.          *)
FairSpec == Spec /\ WF_vars(Step)

-----------------------------------------------------------------------------
(* Each variable holds what the code's type for it holds.                  *)
TypeOK ==
  /\ ArchiveTypeOK
  /\ elfs \in Seq(EntType) /\ libs \subseteq Name
  /\ gk \in BOOLEAN /\ idx \in Nat /\ kwant \subseteq STRING
  /\ items \in Seq([src : Path, dst : Path, child : BOOLEAN])
  /\ tasks \in Seq(TaskType)
  /\ fests \in Seq(Seq(LineType))
  /\ \A n \in DOMAIN incs : incs[n] \in Seq(LineType)

(* Paths main() and manifest_autorun() write without asking paths_seen.    *)
Unguarded ==
  {<<"rapido.conf">>, <<"rapido.rc">>, <<"lib", "modules">>, AutorunDir, <<"TRAILER!!!">>}
  \union {Append(AutorunDir, AutorunName[i][s]) :
             i \in DOMAIN AutorunName, s \in Name}

(* "order is important: parent dirs must be archived before children":     *)
(* whatever routines and manifest lines put an entry in the archive, the   *)
(* entry for its parent directory precedes it, unless paths_seen holds     *)
(* that directory without an entry (a filter line, a module not found).    *)
Plain(p) == \A i \in 1..Len(p) : p[i] # ".."
ParentFirst ==
  \A k \in DOMAIN out :
    Len(out[k].path) > 1 /\ Plain(out[k].path) =>
      \/ \E j \in 1..(k - 1) : out[j].path = Parent(out[k].path)
      \/ Parent(out[k].path) \in filtered \union missing

(* paths_seen keeps every routine from archiving a path a second time,     *)
(* whichever routine archived it first; only the unguarded writes can.     *)
NoDuplicate ==
  \A j, k \in DOMAIN out :
    out[j].path = out[k].path /\ j # k => out[j].path \in Unguarded

(* "FILTER: Archive path to treat as already processed": once filtered, a  *)
(* path without an entry gets none, from any later line or from main().    *)
FilterHolds ==
  [][\A p \in filtered : p \in Archived' => p \in Archived \union Unguarded]_vars

(* All routines together keep the promise of Image: the archive is only    *)
(* added to, parents come first, nothing comes twice or after a filter     *)
(* line or a failed lookup closed its path, the trailer comes last.        *)
Img == INSTANCE Image WITH archive <- out, closed <- filtered \union missing,
         state <- IF Running THEN "open" ELSE phase, Free <- Unguarded
WellGrown == Img!Spec

(* "Directory traversals will not go beneath this path": an entry that a   *)
(* traversal found follows its directory's entry, even if an ancestor was  *)
(* filtered; the directory was read because that same traversal wrote it.  *)
TraversalStops ==
  \A k \in DOMAIN out : out[k].via \in {"child", "elfchild"} =>
    \E j \in 1..(k - 1) : /\ out[j].path = Parent(out[k].path)
                          /\ out[j].type = "dir"
                          /\ out[j].via \in ElfOps \union {"tree", "child"}

(* "ELF executable, archived with all needed dependencies": when the parser*)
(* is back at a line, or main() past its core list, each shared object that*)
(* a file scanned for them needs is in the archive at the path its own     *)
(* RUNPATH leads to, and it came there as a library, so that it was itself *)
(* scanned (or as the directory of another entry, with nothing to scan);   *)
(* and each link has its target there.  The exceptions are a path          *)
(* closed by a filter line (or by a module lookup that failed), a library  *)
(* that was in the archive before the file that needs it, which nobody may *)
(* have scanned, and a name that libs_seen has from a file archived        *)
(* earlier, malformed or with a RUNPATH that leads elsewhere.              *)
HostPaths(e) ==
  IF e.via = "elfdst"
  THEN {p \in DOMAIN Host : \E i \in DOMAIN CoreElfs :
          CoreElfs[i].k = "NameDst" /\ path_stat(CoreElfs[i], p)}
  ELSE {e.path}
LeadsTo(n, lib, p) == path_stat(Ent("Lib", <<lib>>, FALSE, n.run), p)
Barred == filtered \union missing
AsLib(e) == e.via \in {"elflib", "walk"}
Provided(k, p) ==
  p \in Barred \/ \E l \in DOMAIN out : out[l].path = p /\ (l <= k \/ AsLib(out[l]))
Taken(k, n, lib) ==
  \E j \in 1..(k - 1) : out[j].via \in ElfOps /\ \E q \in HostPaths(out[j]) :
    LET m == Host[q]
    IN  /\ \E i \in DOMAIN m.needed : m.needed[i] = lib
        /\ m.broken \/ \E p \in DOMAIN Host :
             LeadsTo(m, lib, p) /\ Provided(j, p) /\ ~LeadsTo(n, lib, p)
Resolved(k, n) ==
  \A i \in DOMAIN n.needed :
    \/ \E p \in DOMAIN Host : LeadsTo(n, n.needed[i], p) /\ Provided(k, p)
    \/ Taken(k, n, n.needed[i])
Scanned(k, n) == n.type = "reg" /\ (n.exec \/ out[k].via = "elflib")
ElfClosure ==
  Running /\ Idle => \A k \in DOMAIN out : out[k].via \in ElfOps =>
    \A src \in HostPaths(out[k]) :
      LET n == Host[src]
      IN  /\ n.type = "lnk" => n.tgt \in Archived \union Barred
          /\ n.type = "lnk" /\ out[k].via = "elflib" => Provided(k, n.tgt)
          /\ Scanned(k, n) => n.broken \/ Resolved(k, n)

(* The same without the exceptions, as the usage text has it: what an      *)
(* archived program, or a library in the archive that an archived file     *)
(* needs, itself needs is in the archive.                                  *)
Loads(p) ==
  p \in Archived \intersect DOMAIN Host /\
    \/ Host[p].exec /\ \E k \in DOMAIN out : out[k].path = p /\ out[k].via \in ElfOps
    \/ \E q \in Archived \intersect DOMAIN Host :
         \E i \in DOMAIN Host[q].needed : LeadsTo(Host[q], Host[q].needed[i], p)
AllNeeded ==
  Running /\ Idle => \A p \in DOMAIN Host : Loads(p) =>
    \A i \in DOMAIN Host[p].needed : \E r \in Archived : LeadsTo(Host[p], Host[p].needed[i], r)

(* "Kernel module, archived with dependencies" and "Fail if root mod or    *)
(* hard deps are missing": a kmod line that returned leaves the module and *)
(* all its hard dependencies in the archive, unless one was filtered.  The *)
(* only exceptions are a module that came in as a soft dependency, behind  *)
(* a module that names it as one, and one that another routine archived.   *)
ModPath(n) == KmodRoot \o Kmod[n].rel
NamesSoft(m, n) ==
  \E i \in DOMAIN Kmod[m].soft :
    Kmod[m].soft[i] \in DOMAIN Kmod /\ Kmod[Kmod[m].soft[i]].rel = Kmod[n].rel
CameSoft(n) ==
  \E j, k \in DOMAIN out : j < k /\ out[k].path = ModPath(n)
    /\ \E m \in DOMAIN Kmod : out[j].path = ModPath(m) /\ NamesSoft(m, n)
Foreign(n) == \E k \in DOMAIN out : out[k].path = ModPath(n) /\ out[k].via # "kmod"
Has(rel) == KmodRoot \o rel \in Archived \union filtered
KmodClosure ==
  Running /\ Idle => \A n \in kwant \intersect DOMAIN Kmod :
    ~Kmod[n].builtin /\ ModPath(n) \notin filtered =>
      /\ Has(Kmod[n].rel)
      /\ \/ CameSoft(n) \/ Foreign(n)
         \/ \A i \in DOMAIN Kmod[n].hard : Has(Kmod[n].hard[i])

(* Whatever the manifest, symlink loops and manifests that include         *)
(* themselves among it, rapido-cut ends.                                   *)
Terminates == <>(phase \in {"done", "failed"})
=============================================================================
