--------------------------------- MODULE Image ---------------------------------
(***************************************************************************)
(* What rapido-cut promises of the archive it writes, whatever routine     *)
(* writes it: the archive is only ever added to, a new entry follows its   *)
(* parent directory's, is the first of its path and not of a path that was *)
(* closed before, and the trailer comes last.                              *)
(***************************************************************************)
EXTENDS Naturals, Sequences

CONSTANT Free        \* paths that may be archived again and when closed

VARIABLES
  archive,           \* entries, each with a path and a type
  closed,            \* paths to leave out from now on
  state              \* "open", "done" or "failed"

vars == <<archive, closed, state>>

Init == archive = <<>> /\ closed = {} /\ state = "open"

Parent(p) == SubSeq(p, 1, Len(p) - 1)
Plain(p) == \A i \in 1..Len(p) : p[i] # ".."

(* The kth entry of archive a is where its directory is.                   *)
Placed(a, k) ==
  Len(a[k].path) > 1 /\ Plain(a[k].path) =>
    \/ \E j \in 1..(k - 1) : a[j].path = Parent(a[k].path)
    \/ Parent(a[k].path) \in closed

(* It is the first of its path.                                            *)
First(a, k) ==
  a[k].path \notin Free =>
    a[k].path \notin closed /\ \A j \in 1..(k - 1) : a[j].path # a[k].path

Extend ==
  /\ \A k \in DOMAIN archive : k \in DOMAIN archive' /\ archive'[k] = archive[k]
  /\ \A k \in DOMAIN archive' \ DOMAIN archive :
       /\ Placed(archive', k) /\ First(archive', k)
       /\ archive'[k].type = "trailer" => k = Len(archive') /\ state' = "done"
  /\ state' = "done" => archive'[Len(archive')].type = "trailer"
  /\ UNCHANGED closed

Close ==
  /\ closed \subseteq closed' /\ state' # "done"
  /\ UNCHANGED archive

Next ==
  /\ state = "open" /\ state' \in {"open", "done", "failed"}
  /\ Extend \/ Close

Spec == Init /\ [][Next]_vars
=============================================================================
