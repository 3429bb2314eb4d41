------------------------------- MODULE Archive -------------------------------
(***************************************************************************)
(* The state every archiving routine of rapido-cut shares: paths_seen, the *)
(* cpio entries written so far, and the entry in progress with the walk of *)
(* gather_archive_dirs() over its parent directories.                      *)
(*                                                                         *)
(* A path is a sequence of components below "/", as Path::components()     *)
(* yields them: "." has already been dropped, ".." has not.  An entry is   *)
(* what the kernel's initramfs unpacker distinguishes: a name and a type.  *)
(***************************************************************************)
EXTENDS Naturals, Sequences

CONSTANTS
  Name,      \* path components, ".." among them
  Host       \* host paths that exist -> what lstat and the ELF parser report

(* A host node.  exec: an execute bit is set; empty: no data; tgt: what    *)
(* canonicalize() returns (NoTarget: dangling); kids: read_dir(), sorted;  *)
(* needed and run: DT_NEEDED names and DT_RUNPATH directories; broken: a   *)
(* DT_NEEDED entry after those in needed has no valid string.              *)
NoTarget == <<"dangling">>

Path == Seq(Name)
Parent(p) == SubSeq(p, 1, Len(p) - 1)
Base(p) == p[Len(p)]

ASSUME NameAssumption ==
  {"..", "rdinit", "rapido.conf", "rapido.rc", "rapido_autorun", "lib64", "bin",
   "sbin", "lib", "modules", "modprobe", "usr", "TRAILER!!!"} \subseteq Name

ASSUME HostAssumption ==
  /\ DOMAIN Host \subseteq Path
  /\ \A p \in DOMAIN Host : /\ Host[p].type \in {"reg", "dir", "lnk", "other"}
                            /\ Host[p].kids \in Seq(Name)
                            /\ Host[p].needed \in Seq(Name)

Types == {"reg", "dir", "lnk", "other", "trailer"}

VARIABLES
  seen,      \* paths_seen
  out,       \* cpio entries, in archive order
  cur,       \* the entry a routine is archiving, or NoEntry
  here,      \* gather_archive_dirs(): the directory reached
  wi,        \* gather_archive_dirs(): index of the next component of cur.dst
  phase,     \* where main() is; "failed" once an error has been returned
  filtered,  \* history: paths put in paths_seen by a filter line
  missing    \* history: paths put in paths_seen whose source was not found

archiveVars == <<seen, out, cur, here, wi, phase, filtered, missing>>

(* The entry in progress: the routine archiving it, archive and host path. *)
Entry(op, dst, src) == [op |-> op, dst |-> dst, src |-> src]
NoEntry == Entry("none", <<>>, <<>>)

(* The values of these variables: the routines that set cur.op, what main()*)
(* is about to do, and the entries of the archive.                         *)
Ops == {"elf", "elfdst", "elfchild", "elflib", "tree", "child", "kmod", "dir",
        "slink", "file", "none"}
HostOps == {"elf", "elfdst", "elfchild", "elflib", "tree", "child"}
Phases == {"conf", "manifest", "core", "lib64", "bin", "sbin", "lib", "trailer",
           "done", "failed"}
ArchiveTypeOK ==
  /\ seen \subseteq Path /\ filtered \subseteq seen /\ missing \subseteq seen
  /\ out \in Seq([path : Path, type : Types,
                  via : Ops \union {"walk", "line", "autorun", "main"}])
  /\ cur \in [op : Ops, dst : Path, src : Path]
  /\ here \in Path /\ wi \in Nat /\ phase \in Phases
  /\ cur.dst # <<>> => wi > 0
  /\ cur.op \in HostOps => cur.src \in DOMAIN Host

Archived == {out[k].path : k \in DOMAIN out}
Write(p, t, via) == out' = Append(out, [path |-> p, type |-> t, via |-> via])

Running == phase \notin {"failed", "done"}
Fail == phase' = "failed"

-----------------------------------------------------------------------------
(* Entry of gather_archive_dirs() for c.dst.parent(): nothing to do for    *)
(* "/", or when the parent is in paths_seen ("ignoring seen directory and  *)
(* parents").  s is paths_seen at the time of the call.                    *)
Begin(c, s, ignoreParent) ==
  /\ cur' = c
  /\ here' = <<>>
  /\ wi' = IF c.dst = <<>> \/ Parent(c.dst) \in s \/ ignoreParent
           THEN Len(c.dst) ELSE 1

Walking == Running /\ cur # NoEntry /\ wi < Len(cur.dst)
Walked(op) == Running /\ cur.op = op /\ wi >= Len(cur.dst)

(* Component::ParentDir below "/": keep walking at the parent.             *)
DirUp ==
  /\ Walking /\ cur.dst[wi] = ".." /\ here # <<>>
  /\ here' = Parent(here)
  /\ wi' = wi + 1
  /\ UNCHANGED <<seen, out, cur, phase, filtered, missing>>

(* Component::ParentDir at "/": here.pop() fails.                          *)
DirInvalid ==
  /\ Walking /\ cur.dst[wi] = ".." /\ here = <<>>
  /\ Fail
  /\ UNCHANGED <<seen, out, cur, here, wi, filtered, missing>>

(* Component::Normal: archive the directory unless it has been seen.       *)
DirSeen ==
  /\ Walking /\ cur.dst[wi] # ".."
  /\ Append(here, cur.dst[wi]) \in seen
  /\ here' = Append(here, cur.dst[wi])
  /\ wi' = wi + 1
  /\ UNCHANGED <<seen, out, cur, phase, filtered, missing>>

(* Mutant: the directory is marked seen but not archived.                  *)
DirArchiveUnwritten ==
  /\ Walking /\ cur.dst[wi] # ".."
  /\ here' = Append(here, cur.dst[wi])
  /\ wi' = wi + 1
  /\ seen' = seen \union {here'}
  /\ UNCHANGED <<out, cur, phase, filtered, missing>>

(* Mutant: paths_seen is not consulted.                                    *)
DirArchiveUnchecked ==
  /\ Walking /\ cur.dst[wi] # ".."
  /\ here' = Append(here, cur.dst[wi])
  /\ wi' = wi + 1
  /\ seen' = seen \union {here'}
  /\ Write(here', "dir", "walk")
  /\ UNCHANGED <<cur, phase, filtered, missing>>

DirArchive ==
  /\ Walking /\ cur.dst[wi] # ".."
  /\ Append(here, cur.dst[wi]) \notin seen
  /\ here' = Append(here, cur.dst[wi])
  /\ wi' = wi + 1
  /\ seen' = seen \union {here'}
  /\ Write(here', "dir", "walk")
  /\ UNCHANGED <<cur, phase, filtered, missing>>

gather_archive_dirs == DirUp \/ DirInvalid \/ DirSeen \/ DirArchive

(* Mutant: the path archived is not added to paths_seen.                   *)
FinishUnmarked(type, via) ==
  /\ Write(cur.dst, type, via)
  /\ cur' = NoEntry
  /\ UNCHANGED <<seen, here, wi, phase, filtered, missing>>

(* Completion of the entry in progress, once its parents are archived.     *)
Finish(type, via) ==
  /\ Write(cur.dst, type, via)
  /\ seen' = seen \union {cur.dst}
  /\ cur' = NoEntry
  /\ UNCHANGED <<here, wi, phase, filtered, missing>>

(* Any "?" on the way: a read, write, stat or open that fails for a reason *)
(* the model does not otherwise tell apart (EIO, ENOSPC, EACCES, a file    *)
(* that changed size, an invalid or unsupported manifest line).            *)
Abort ==
  /\ Running
  /\ Fail
  /\ UNCHANGED <<seen, out, cur, here, wi, filtered, missing>>
=============================================================================
