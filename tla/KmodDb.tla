-------------------------------- MODULE KmodDb --------------------------------
(***************************************************************************)
(* The kmod-parser crate: KmodContext::new() reads five files of depmod    *)
(* into one table of modules and one of aliases, one loader after the      *)
(* other, and find() looks a name up in them.                              *)
(*                                                                         *)
(* The lines of modules.dep and modules.builtin name a file: its name and  *)
(* extensions.  Those of the others are sequences of words.  A file that   *)
(* does not exist is None.                                                 *)
(***************************************************************************)
EXTENDS Naturals, SequencesExt

CONSTANTS
  DepFiles, BuiltinFiles, SoftdepFiles, WeakdepFiles, AliasFiles,
  Norm,            \* name -> the name with "_" for "-"
  None

VARIABLES
  dir,             \* the five files
  modules_hash,    \* name -> module
  alias_map,       \* alias -> name
  pc               \* the loader to run, "done" or "error"

vars == <<dir, modules_hash, alias_map, pc>>

Names == DOMAIN Norm

Init ==
  /\ dir \in [dep : DepFiles, builtin : BuiltinFiles, softdep : SoftdepFiles,
              weakdep : WeakdepFiles, alias : AliasFiles]
  /\ modules_hash = <<>> /\ alias_map = <<>> /\ pc = "dep"

-----------------------------------------------------------------------------
(* extract_module_name(): the last extension goes, then ".ko".             *)
extract_module_name(file) ==
  LET stem == Front(file.exts)
      base == IF stem # <<>> /\ Last(stem) = "ko" THEN Front(stem) ELSE stem
  IN  IF base = <<>> THEN Norm[file.name] ELSE <<file.name, base>>

KmodModule(status, path, hard) ==
  [status |-> status, rel_path |-> path, hard_deps_paths |-> hard,
   soft_deps_pre |-> <<>>, soft_deps_post |-> <<>>, weak_deps |-> <<>>]

With(f, x, y) == [z \in DOMAIN f \union {x} |-> IF z = x THEN y ELSE f[z]]
Goto(next) == pc' = next /\ UNCHANGED dir
Fails == pc' = "error" /\ UNCHANGED <<dir, modules_hash, alias_map>>

(* modules.dep: "entries should be unique".                                *)
DepName(i) == extract_module_name(dir.dep[i].file)
Unique == \A i, j \in DOMAIN dir.dep : i # j => DepName(i) # DepName(j)

load_hard_dependencies ==
  /\ pc = "dep"
  /\ IF dir.dep = None THEN Goto("builtin") /\ UNCHANGED <<modules_hash, alias_map>>
     ELSE IF ~Unique THEN Fails
     ELSE /\ modules_hash' =
               FoldLeft(LAMBDA h, l : With(h, extract_module_name(l.file),
                          KmodModule("LoadableModule", l.file, l.deps)), <<>>, dir.dep)
          /\ Goto("builtin") /\ UNCHANGED alias_map

(* modules.builtin: "retain first entry, i.e. modules.dep takes            *)
(* precedence".  This file has to be there.                                *)
(* Mutant: the last entry is retained.                                     *)
load_builtin_modules_last ==
  /\ pc = "builtin"
  /\ IF dir.builtin = None THEN Fails
     ELSE /\ modules_hash' =
               FoldLeft(LAMBDA h, f : With(h, extract_module_name(f),
                                           KmodModule("Builtin", None, <<>>)),
                        modules_hash, dir.builtin)
          /\ Goto("softdep") /\ UNCHANGED alias_map
load_builtin_modules ==
  /\ pc = "builtin"
  /\ IF dir.builtin = None THEN Fails
     ELSE /\ modules_hash' =
               FoldLeft(LAMBDA h, f : IF extract_module_name(f) \in DOMAIN h THEN h
                                      ELSE With(h, extract_module_name(f),
                                                KmodModule("Builtin", None, <<>>)),
                        modules_hash, dir.builtin)
          /\ Goto("softdep") /\ UNCHANGED alias_map

(* modules.softdep: "softdep mod pre: a b post: c".                        *)
Soft(m, words) ==
  FoldLeft(LAMBDA s, w :
             IF w \in {"pre:", "post:"} THEN [s EXCEPT !.list = w]
             ELSE IF s.list = "pre:" THEN [s EXCEPT !.m.soft_deps_pre = Append(@, w)]
             ELSE [s EXCEPT !.m.soft_deps_post = Append(@, w)],
           [m |-> m, list |-> "pre:"], words).m

load_soft_dependencies ==
  /\ pc = "softdep"
  /\ modules_hash' =
       IF dir.softdep = None THEN modules_hash
       ELSE FoldLeft(LAMBDA h, l :
              IF Len(l) < 3 \/ l[1] # "softdep" \/ l[2] \notin DOMAIN h THEN h
              ELSE [h EXCEPT ![l[2]] = Soft(@, SubSeq(l, 3, Len(l)))],
            modules_hash, dir.softdep)
  /\ Goto("weakdep") /\ UNCHANGED alias_map

(* modules.weakdep: "weakdep mod dep".                                     *)
load_weak_dependencies ==
  /\ pc = "weakdep"
  /\ modules_hash' =
       IF dir.weakdep = None THEN modules_hash
       ELSE FoldLeft(LAMBDA h, l :
              IF Len(l) # 3 \/ l[1] # "weakdep" \/ l[2] \notin DOMAIN h THEN h
              ELSE [h EXCEPT ![l[2]].weak_deps = Append(@, l[3])],
            modules_hash, dir.weakdep)
  /\ Goto("alias") /\ UNCHANGED alias_map

(* modules.alias: "alias name mod".                                        *)
load_aliases ==
  /\ pc = "alias"
  /\ alias_map' =
       IF dir.alias = None THEN alias_map
       ELSE FoldLeft(LAMBDA a, l : IF Len(l) >= 3 /\ l[1] = "alias" THEN With(a, l[2], l[3])
                                   ELSE a, alias_map, dir.alias)
  /\ Goto("done") /\ UNCHANGED modules_hash

Next ==
  \/ load_hard_dependencies \/ load_builtin_modules \/ load_soft_dependencies
  \/ load_weak_dependencies \/ load_aliases
Spec == Init /\ [][Next]_vars

(* find(): the name, what it is an alias of, then the normalised name.     *)
find_raw(name) ==
  IF name \in DOMAIN modules_hash THEN {modules_hash[name]}
  ELSE IF name \in DOMAIN alias_map /\ alias_map[name] \in DOMAIN modules_hash
       THEN {modules_hash[alias_map[name]]}
  ELSE {}
find(name) ==
  IF find_raw(name) # {} THEN find_raw(name)
  ELSE IF Norm[name] # name THEN find_raw(Norm[name]) ELSE {}

-----------------------------------------------------------------------------
(* What the files say, each read on its own.                               *)
Lines(file) == IF file = None THEN <<>> ELSE file
InDep(n) == {i \in DOMAIN Lines(dir.dep) : DepName(i) = n}
InBuiltin(n) == \E i \in DOMAIN Lines(dir.builtin) :
                  extract_module_name(dir.builtin[i]) = n
Known(n) == InDep(n) # {} \/ InBuiltin(n)

(* The words of lines "kw n ..." that stand behind "post:", or that do not.*)
SoftWords(n, post) ==
  UNION {LET l == dir.softdep[i]
             behind(j) == \E k \in 3..j : l[k] = "post:" /\ \A x \in k..j : l[x] # "pre:"
         IN  {l[j] : j \in {j \in 3..Len(l) : l[j] \notin {"pre:", "post:"} /\ behind(j) = post}}
         : i \in {i \in DOMAIN Lines(dir.softdep) :
                    Len(dir.softdep[i]) > 2 /\ dir.softdep[i][1] = "softdep" /\ dir.softdep[i][2] = n}}
WeakWords(n) ==
  {l[3] : l \in {l \in ToSet(Lines(dir.weakdep)) : Len(l) = 3 /\ l[1] = "weakdep" /\ l[2] = n}}

(* Does module m say what the files say of name n?                         *)
Describes(m, n) ==
  /\ IF InDep(n) # {}
     THEN \E i \in InDep(n) : /\ m.status = "LoadableModule"
                              /\ m.rel_path = dir.dep[i].file
                              /\ m.hard_deps_paths = dir.dep[i].deps
     ELSE m.status = "Builtin" /\ m.rel_path = None /\ m.hard_deps_paths = <<>>
  /\ ToSet(m.soft_deps_pre) = SoftWords(n, FALSE)
  /\ ToSet(m.soft_deps_post) = SoftWords(n, TRUE)
  /\ ToSet(m.weak_deps) = WeakWords(n)

(* The name that a request stands for: itself, or the last alias line's.   *)
AliasOf(n) ==
  LET at == {i \in DOMAIN Lines(dir.alias) :
               Len(dir.alias[i]) > 2 /\ dir.alias[i][1] = "alias" /\ dir.alias[i][2] = n}
  IN  {dir.alias[i][3] : i \in {i \in at : \A j \in at : j <= i}}
Target(n) == IF Known(n) THEN {n} ELSE {m \in AliasOf(n) : Known(m)}
Stands(n) == IF Target(n) # {} THEN Target(n) ELSE Target(Norm[n])

(* find() returns, for every name, the module that the five files describe *)
(* together, although each loader only sees what the ones before it left:  *)
(* modules.dep before modules.builtin, the dependencies of both kinds, the *)
(* alias only where there is no module of that name.                       *)
Finds ==
  pc = "done" => \A n \in Names :
    /\ find(n) = {} <=> Stands(n) = {}
    /\ \A m \in find(n) : \E t \in Stands(n) : Describes(m, t)
=============================================================================
