-------------------------------- MODULE Data ---------------------------------
(***************************************************************************)
(* gather_archive_data(): the traversal behind a manifest's tree line.     *)
(* Unlike gather_archive_elfs() it marks a path seen before archiving it,  *)
(* gives every path a destination of its own, skips the parent walk for    *)
(* children (GATHER_ITEM_IGNORE_PARENT) and does not follow symlinks.      *)
(***************************************************************************)
EXTENDS Archive

VARIABLE items       \* the stack of GatherItems

Item(src, dst, child) == [src |-> src, dst |-> dst, child |-> child]

TopItem == items[Len(items)]
PoppedItems == SubSeq(items, 1, Len(items) - 1)
DataReady == Running /\ cur = NoEntry /\ items # <<>>

DataMissing ==
  /\ DataReady /\ TopItem.src \notin DOMAIN Host
  /\ Fail
  /\ UNCHANGED <<seen, out, cur, here, wi, filtered, missing, items>>

(* Mutant: a directory that has been seen is traversed all the same.       *)
DataSeenTraversed ==
  /\ DataReady /\ TopItem.src \in DOMAIN Host /\ TopItem.dst \in seen
  /\ LET kids == Host[TopItem.src].kids
     IN  items' = PoppedItems \o [i \in DOMAIN kids |->
                                    Item(Append(TopItem.src, kids[i]),
                                         Append(TopItem.dst, kids[i]), TRUE)]
  /\ UNCHANGED archiveVars

DataSeen ==
  /\ DataReady /\ TopItem.src \in DOMAIN Host /\ TopItem.dst \in seen
  /\ items' = PoppedItems
  /\ UNCHANGED archiveVars

DataBegin ==
  /\ DataReady /\ TopItem.src \in DOMAIN Host /\ TopItem.dst \notin seen
  /\ seen' = seen \union {TopItem.dst}
  /\ Begin(Entry(IF TopItem.child THEN "child" ELSE "tree",
                 TopItem.dst, TopItem.src), seen', TopItem.child)
  /\ items' = PoppedItems
  /\ UNCHANGED <<out, phase, filtered, missing>>

DataWalked == \E op \in {"tree", "child"} : Walked(op)

DataDir ==
  /\ DataWalked /\ Host[cur.src].type = "dir"
  /\ LET kids == Host[cur.src].kids
     IN  items' = items \o [i \in DOMAIN kids |->
                              Item(Append(cur.src, kids[i]),
                                   Append(cur.dst, kids[i]), TRUE)]
  /\ Finish("dir", cur.op)

(* Files, symlinks (archived with read_link()'s target) and the rest.      *)
DataLeaf ==
  /\ DataWalked /\ Host[cur.src].type # "dir"
  /\ Finish(Host[cur.src].type, cur.op)
  /\ UNCHANGED items

gather_archive_data ==
  DataMissing \/ DataSeen \/ DataBegin \/ DataDir \/ DataLeaf
=============================================================================
