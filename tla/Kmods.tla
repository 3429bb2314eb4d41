-------------------------------- MODULE Kmods --------------------------------
(***************************************************************************)
(* gather_archive_kmods(): kernel modules and what they depend on.  The    *)
(* call becomes a queue of tasks: the module database files on the first   *)
(* call (GatherKmods::init), then for each name the module itself, its     *)
(* hard dependencies and its soft and weak ones.                           *)
(***************************************************************************)
EXTENDS Archive

CONSTANTS
  KmodRoot,   \* kmod_dst_root
  KmodDb,     \* MODULE_DB_FILES, as sequence
  Kmod,       \* what KmodContext::find() returns, for the names it finds
  KmodFile    \* relative paths that exist under the host's module_root

(* A module: rel_path, builtin, hard (hard_deps_paths, relative paths) and *)
(* soft (names: soft_deps_pre, soft_deps_post, weak_deps).                 *)

ASSUME KmodAssumption ==
  /\ KmodRoot \in Path /\ KmodDb \in Seq(Path)
  /\ \A n \in DOMAIN Kmod : /\ n \in STRING /\ Kmod[n].rel \in Path
                            /\ Kmod[n].hard \in Seq(Path)
                            /\ Kmod[n].soft \in Seq(STRING)

(* Names that find() takes to one file are names of one module, and no     *)
(* file of the database is a module.                                       *)
Loadable == {n \in DOMAIN Kmod : ~Kmod[n].builtin}
ASSUME KmodFileAssumption ==
  /\ \A m, n \in Loadable : Kmod[m].rel = Kmod[n].rel => Kmod[m].hard = Kmod[n].hard
  /\ \A n \in Loadable : \A i \in DOMAIN KmodDb : KmodDb[i] # Kmod[n].rel

(* "modules.dep entry is complete": a hard dependency's own hard           *)
(* dependencies are listed too.                                            *)
ASSUME KmodDepComplete ==
  \A n \in DOMAIN Kmod : \A i \in DOMAIN Kmod[n].hard : \A m \in DOMAIN Kmod :
    Kmod[m].rel = Kmod[n].hard[i] =>
      \A j \in DOMAIN Kmod[m].hard : \E l \in DOMAIN Kmod[n].hard :
        Kmod[n].hard[l] = Kmod[m].hard[j]

VARIABLES
  tasks,      \* what is left of the call
  gk          \* gk.is_some()

kmodVars == <<tasks, gk>>

TaskType == [t : {"db", "root", "hard", "soft"}, name : STRING \union {"-"},
             rel : Path, try : BOOLEAN]
Task(t, name, rel, try) == [t |-> t, name |-> name, rel |-> rel, try |-> try]
DbTasks == [i \in DOMAIN KmodDb |-> Task("db", "-", KmodDb[i], FALSE)]
HardTasks(m, try) ==
  [i \in DOMAIN m.hard |-> Task("hard", "-", m.hard[i], try)]
SoftTasks(m) ==
  [i \in DOMAIN m.soft |-> Task("soft", m.soft[i], <<>>, FALSE)]

(* The call.  Only a single name is ever given with ignore_missing.        *)
gather_archive_kmods(names, try) ==
  /\ tasks' = (IF gk THEN <<>> ELSE DbTasks)
              \o [i \in DOMAIN names |-> Task("root", names[i], <<>>, try)]
  /\ gk' = TRUE

Task1 == tasks[1]
KmodReady == Running /\ cur = NoEntry /\ tasks # <<>>

(* root and soft tasks name a module, hard and db ones a file.             *)
Named == Task1.t \in {"root", "soft"}
Found == Task1.name \in DOMAIN Kmod
Builtin == Named /\ Found /\ Kmod[Task1.name].builtin
Rel == IF Named THEN Kmod[Task1.name].rel ELSE Task1.rel
HasFile == ~Named \/ (Found /\ ~Builtin)
KmodDst == KmodRoot \o Rel
Mandatory == Task1.t \in {"root", "hard"}

-----------------------------------------------------------------------------
(* Builtin modules, soft dependencies find() does not know, paths in       *)
(* paths_seen: for a root module the latter skips "all deps" too.          *)
KmodSkip ==
  /\ KmodReady
  /\ \/ Builtin
     \/ Task1.t = "soft" /\ ~Found
     \/ HasFile /\ KmodDst \in seen
  /\ tasks' = Tail(tasks)
  /\ UNCHANGED <<archiveVars, gk>>

(* NotFound from find() or, for a root or hard module, from its file.      *)
KmodNotFound ==
  /\ tasks' = <<>>
  /\ IF Task1.try THEN UNCHANGED phase ELSE Fail

KmodUnknown ==
  /\ KmodReady /\ Task1.t = "root" /\ ~Found
  /\ KmodNotFound
  /\ UNCHANGED <<seen, out, cur, here, wi, filtered, missing, gk>>

(* paths_seen.insert() comes before archive_kmod_path() stats the source.  *)
KmodMissing ==
  /\ KmodReady /\ HasFile /\ KmodDst \notin seen /\ Rel \notin KmodFile
  /\ seen' = seen \union {KmodDst}
  /\ missing' = missing \union {KmodDst}
  /\ IF Mandatory THEN KmodNotFound
                  ELSE tasks' = Tail(tasks) /\ UNCHANGED phase
  /\ UNCHANGED <<out, cur, here, wi, filtered, gk>>

(* Mutant: the hard dependencies of a root module are not archived.        *)
KmodBeginNoHard ==
  /\ KmodReady /\ HasFile /\ KmodDst \notin seen /\ Rel \in KmodFile
  /\ seen' = seen \union {KmodDst}
  /\ Begin(Entry("kmod", KmodDst, Rel), seen', FALSE)
  /\ tasks' = (IF Task1.t = "root" THEN SoftTasks(Kmod[Task1.name]) ELSE <<>>)
              \o Tail(tasks)
  /\ UNCHANGED <<out, phase, filtered, missing, gk>>

KmodBegin ==
  /\ KmodReady /\ HasFile /\ KmodDst \notin seen /\ Rel \in KmodFile
  /\ seen' = seen \union {KmodDst}
  /\ Begin(Entry("kmod", KmodDst, Rel), seen', FALSE)
  /\ tasks' = (IF Task1.t = "root"
               THEN HardTasks(Kmod[Task1.name], Task1.try)
                    \o SoftTasks(Kmod[Task1.name])
               ELSE <<>>) \o Tail(tasks)
  /\ UNCHANGED <<out, phase, filtered, missing, gk>>

(* archive_kmod_path(), after its parent walk.                             *)
KmodArchive ==
  /\ Walked("kmod")
  /\ Finish("reg", "kmod")
  /\ UNCHANGED kmodVars

gather_archive_kmod_and_deps ==
  KmodSkip \/ KmodUnknown \/ KmodMissing \/ KmodBegin \/ KmodArchive
=============================================================================
