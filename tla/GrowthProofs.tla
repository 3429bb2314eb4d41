----------------------------- MODULE GrowthProofs -----------------------------
(***************************************************************************)
(* Parents before children, modules with their dependencies, no path       *)
(* twice, filters hold, and the archive grows as Image promises, for every *)
(* host, module database and manifest.                                     *)
(*                                                                         *)
(* ParentFirst is not inductive: a routine that finds a parent directory   *)
(* in paths_seen takes it to be in the archive.  OrderInv adds why it is:  *)
(* whatever paths_seen holds is archived, filtered, missing or the entry   *)
(* in progress; the parent walk leaves no gap behind it; the children that *)
(* a tree line still has to archive have their directory in the archive.   *)
(*                                                                         *)
(* KmodClosure is not inductive: a module's dependencies are archived one  *)
(* by one, and the list of one module stands for those of its members.     *)
(* KmodInv says which tasks are left of a list, and that a module in the   *)
(* archive has its dependencies or is on the list being worked off.        *)
(*                                                                         *)
(* NoDuplicate is not inductive: a routine looks a path up in paths_seen,  *)
(* not in the archive, and some time before it writes the entry.  GrowInv  *)
(* adds that paths_seen knows of every entry but the unguarded ones and    *)
(* the links main() writes last; that nobody archives, filters or misses   *)
(* the path of the entry in progress before that entry is written; and     *)
(* that all gathering is over when main() writes its links.                *)
(***************************************************************************)
EXTENDS CutProofs

(* A leaf that names no prover is tried with Zenon, then with SMT.         *)
USE Zenon, SMTT(20)

-----------------------------------------------------------------------------
(* Parents before children.                                                *)
WalkInv ==
  /\ wi < Len(cur.dst) =>
       /\ Plain(here)
       /\ \A i \in 1..Len(here) : SubSeq(here, 1, i) \in Covered
       /\ Plain(cur.dst) => here = SubSeq(cur.dst, 1, wi - 1)
  /\ wi >= Len(cur.dst) /\ Len(cur.dst) > 1 /\ Plain(cur.dst) =>
       Parent(cur.dst) \in Covered
ItemInv ==
  \A i \in DOMAIN items :
    items[i].child => items[i].dst # <<>> /\ Parent(items[i].dst) \in Covered
IdxInv == idx > 0 => AutorunDir \in Archived
OrderInv == TypeOK /\ ParentFirst /\ SeenInv /\ WalkInv /\ ItemInv /\ IdxInv

-----------------------------------------------------------------------------
(* A step that writes nothing.                                             *)
LEMMA NoWrite ==
  ASSUME ParentFirst, UNCHANGED out, filtered \subseteq filtered',
         missing \subseteq missing'
  PROVE  ParentFirst' /\ Covered \subseteq Covered' /\ Archived' = Archived
BY DEF ParentFirst, Covered, Archived

(* ParentFirst of an archive o, when the directories of f are excused.     *)
Ordered(o, f) ==
  \A k \in DOMAIN o :
    Len(o[k].path) > 1 /\ Plain(o[k].path) =>
      \/ \E j \in 1..(k - 1) : o[j].path = Parent(o[k].path)
      \/ Parent(o[k].path) \in f

(* An entry added to an ordered archive that has its parent.               *)
LEMMA OrderedAppend ==
  ASSUME NEW o \in Seq(OutType), NEW f, NEW e \in OutType, Ordered(o, f),
         Len(e.path) > 1 /\ Plain(e.path) => Parent(e.path) \in Paths(o) \union f
  PROVE  /\ Ordered(Append(o, e), f) /\ Append(o, e) \in Seq(OutType)
         /\ Paths(Append(o, e)) = Paths(o) \union {e.path}
<1> DEFINE q == Append(o, e)
<1>1. Len(o) \in Nat /\ DOMAIN o = 1..Len(o)
  BY LenProperties
<1>2. /\ q \in Seq(OutType) /\ DOMAIN q = 1..(Len(o) + 1) /\ q[Len(o) + 1] = e
      /\ \A k \in 1..Len(o) : q[k] = o[k]
  <2>1. q \in Seq(OutType) /\ Len(q) = Len(o) + 1
    BY AppendProperties
  <2> QED BY <1>1, <2>1, AppendProperties, LenProperties
<1> HIDE DEF q
<1>3. Paths(q) = Paths(o) \union {e.path}
  BY <1>1, <1>2 DEF Paths
<1>4. ASSUME NEW k \in 1..(Len(o) + 1), Len(q[k].path) > 1, Plain(q[k].path)
      PROVE  \/ \E j \in 1..(k - 1) : q[j].path = Parent(q[k].path)
             \/ Parent(q[k].path) \in f
  <2>1. CASE k \in 1..Len(o)
    <3>1. q[k] = o[k] /\ k \in DOMAIN o
      BY <1>1, <1>2, <2>1
    <3>2. \A j \in 1..(k - 1) : q[j] = o[j]
      BY <1>1, <1>2, <2>1
    <3> QED BY <1>4, <3>1, <3>2 DEF Ordered
  <2>2. CASE k = Len(o) + 1
    <3>1. q[k] = e /\ Parent(e.path) \in Paths(o) \union f
      BY <1>2, <1>4, <2>2
    <3>2. CASE Parent(e.path) \in Paths(o)
      <4>1. PICK j \in DOMAIN o : o[j].path = Parent(e.path)
        BY <3>2 DEF Paths
      <4>2. j \in 1..(k - 1) /\ q[j] = o[j]
        BY <1>1, <1>2, <2>2, <4>1
      <4> QED BY <3>1, <4>1, <4>2
    <3> QED BY <3>1, <3>2
  <2> QED BY <1>1, <2>1, <2>2
<1>5. Ordered(q, f)
  BY <1>2, <1>4 DEF Ordered
<1> QED BY <1>2, <1>3, <1>5 DEF q

(* A step that writes an entry whose parent is covered.                    *)
LEMMA WriteOrder ==
  ASSUME ParentFirst, out \in Seq(OutType),
         NEW e \in OutType, out' = Append(out, e),
         filtered \subseteq filtered', missing \subseteq missing',
         Len(e.path) > 1 /\ Plain(e.path) => Parent(e.path) \in Covered
  PROVE  ParentFirst' /\ Covered \subseteq Covered' /\ Archived' = Archived \union {e.path}
<1> DEFINE f == filtered' \union missing'
<1>1. Ordered(out, f) /\ Paths(out) = Archived /\ Paths(out') = Archived'
  BY DEF ParentFirst, Ordered, Paths, Archived
<1>2. Len(e.path) > 1 /\ Plain(e.path) => Parent(e.path) \in Paths(out) \union f
  BY <1>1 DEF Covered
<1> HIDE DEF f
<1>3. Ordered(out', f) /\ Archived' = Archived \union {e.path}
  BY <1>1, <1>2, OrderedAppend
<1> QED BY <1>3 DEF f, ParentFirst, Ordered, Covered

(* Entering the parent walk: it has nothing to do only when the parent is  *)
(* covered, and it starts at "/".                                          *)
LEMMA BeginWalk ==
  ASSUME SeenInv, cur = NoEntry, Covered \subseteq Covered', NEW c \in EntryType, NEW s, NEW b \in BOOLEAN,
         s = seen \/ s = seen \union {c.dst}, Begin(c, s, b),
         b => Parent(c.dst) \in Covered
  PROVE  WalkInv'
<1>1. c.dst \in Path /\ c.dst \in Seq(Name) /\ Len(c.dst) \in Nat
      /\ (c.dst # <<>> => Len(c.dst) > 0) /\ Len(<<>>) = 0
  BY LenProperties, EmptySeq DEF EntryType, Path
<1>2. cur' = c /\ here' = <<>> /\ wi' \in {1, Len(c.dst)}
  BY DEF Begin
<1>3. ASSUME wi' < Len(c.dst)
      PROVE  /\ Plain(here') /\ \A i \in 1..Len(here') : SubSeq(here', 1, i) \in Covered'
             /\ here' = SubSeq(c.dst, 1, wi' - 1)
  <2>1. wi' = 1
    BY <1>1, <1>2, <1>3
  <2>2. SubSeq(c.dst, 1, wi' - 1) = <<>>
    BY <2>1, SubSeqEmpty
  <2>3. Len(here') = 0 /\ 1..0 = {}
    BY <1>1, <1>2
  <2> QED BY <1>2, <2>2, <2>3 DEF Plain
<1>4. ASSUME wi' >= Len(c.dst), Len(c.dst) > 1
      PROVE  Parent(c.dst) \in Covered'
  <2>1. c.dst # <<>> /\ (Parent(c.dst) \in s \/ b)
    BY <1>1, <1>4 DEF Begin
  <2>2. Parent(c.dst) # c.dst
    BY <1>1, <2>1, ParentType
  <2>3. Parent(c.dst) \in seen \/ b
    BY <2>1, <2>2
  <2>4. Parent(c.dst) \in Covered
    BY <2>3 DEF SeenInv, NoEntry, Entry
  <2> QED BY <2>4
<1>5. WalkInv' <=>
        /\ wi' < Len(c.dst) =>
             /\ Plain(here')
             /\ \A i \in 1..Len(here') : SubSeq(here', 1, i) \in Covered'
             /\ Plain(c.dst) => here' = SubSeq(c.dst, 1, wi' - 1)
        /\ wi' >= Len(c.dst) /\ Len(c.dst) > 1 /\ Plain(c.dst) =>
             Parent(c.dst) \in Covered'
  BY <1>2 DEF WalkInv
<1> QED BY <1>3, <1>4, <1>5

(* Completing an entry whose parent walk is over.                          *)
LEMMA FinishOrder ==
  ASSUME ArchiveTypeOK, ParentFirst, SeenInv, WalkInv, wi >= Len(cur.dst),
         NEW t \in Types, NEW via \in Ops \union {"line"}, Finish(t, via)
  PROVE  /\ ParentFirst' /\ SeenInv' /\ WalkInv' /\ Covered \subseteq Covered'
         /\ cur.dst \in Archived' /\ Archived \subseteq Archived'
<1> DEFINE e == [path |-> cur.dst, type |-> t, via |-> via]
<1>1. out \in Seq(OutType) /\ e \in OutType /\ out' = Append(out, e) /\ e.path = cur.dst
  BY DEF ArchiveTypeOK, OutType, Finish, Write
<1>2. Len(e.path) > 1 /\ Plain(e.path) => Parent(e.path) \in Covered
  BY <1>1 DEF WalkInv
<1>3. UNCHANGED <<here, wi, filtered, missing>> /\ cur' = NoEntry
      /\ seen' = seen \union {cur.dst}
  BY DEF Finish
<1> HIDE DEF e
<1>4. ParentFirst' /\ Covered \subseteq Covered' /\ Archived' = Archived \union {e.path}
  BY <1>1, <1>2, <1>3, WriteOrder
<1>5. SeenInv'
  BY <1>1, <1>3, <1>4 DEF SeenInv, Covered
<1>6. WalkInv'
  <2>1. cur'.dst = <<>> /\ Len(cur'.dst) = 0 /\ wi' \in Nat
    BY <1>3, EmptySeq DEF NoEntry, Entry, ArchiveTypeOK
  <2>2. ~(wi' < Len(cur'.dst)) /\ ~(Len(cur'.dst) > 1)
    BY <2>1
  <2> QED BY <2>2 DEF WalkInv
<1> QED BY <1>1, <1>4, <1>5, <1>6

(* A step that leaves the walk and paths_seen alone.                       *)
LEMMA StillWalk ==
  ASSUME SeenInv, WalkInv, Covered \subseteq Covered', UNCHANGED <<seen, cur, here, wi>>
  PROVE  SeenInv' /\ WalkInv'
<1>1. SeenInv'
  BY DEF SeenInv
<1>2. WalkInv'
  BY DEF WalkInv
<1> QED BY <1>1, <1>2

(* A path with a component added has the same prefixes.                    *)
LEMMA PrefixAppend ==
  ASSUME NEW p \in Seq(Name), NEW n \in Name, NEW i \in 1..Len(p)
  PROVE  SubSeq(Append(p, n), 1, i) = SubSeq(p, 1, i)
<1>1. Append(p, n) = p \o <<n>> /\ <<n>> \in Seq(Name) /\ 1 \in 1..Len(p)
  BY AppendIsConcat, Singleton, LenProperties
<1> QED BY <1>1, SubSeqOfConcat1

(* The next longer prefix.                                                 *)
LEMMA PrefixExtend ==
  ASSUME NEW p \in Seq(Name), NEW i \in 1..Len(p)
  PROVE  Append(SubSeq(p, 1, i - 1), p[i]) = SubSeq(p, 1, i)
<1>1. Len(p) \in Nat /\ 1 \in 1..Len(p) /\ i \in 1..Len(p)
  BY LenProperties
<1>2. SubSeq(p, 1, i) = SubSeq(p, 1, i - 1) \o <<p[i]>>
  BY <1>1, SubSeqRecursiveSecond
<1>3. SubSeq(p, 1, i - 1) \in Seq(Name) /\ p[i] \in Name
  <2>1. \A j \in 1..(i - 1) : p[j] \in Name
    BY <1>1, ElementOfSeq
  <2> QED BY <1>1, <2>1, SubSeqProperties, ElementOfSeq
<1> QED BY <1>2, <1>3, AppendIsConcat

(* The walk covers the next component: archived now, or seen before.       *)
LEMMA DirDown ==
  ASSUME ArchiveTypeOK, WalkInv, Walking, cur.dst[wi] # "..", Covered \subseteq Covered', UNCHANGED cur,
         here' = Append(here, cur.dst[wi]), wi' = wi + 1, here' \in Covered'
  PROVE  WalkInv'
<1> DEFINE n == cur.dst[wi]
<1>1. /\ cur.dst \in Seq(Name) /\ here \in Seq(Name) /\ wi \in Nat /\ Len(cur.dst) \in Nat
      /\ wi \in 1..Len(cur.dst) /\ wi < Len(cur.dst) /\ n \in Name
  BY LenProperties, EmptySeq, ElementOfSeq DEF ArchiveTypeOK, Walking, Path
<1> HIDE DEF n
<1>2. /\ here' \in Seq(Name) /\ Len(here') = Len(here) + 1 /\ Len(here) \in Nat
      /\ here'[Len(here) + 1] = n /\ \A i \in 1..Len(here) : here'[i] = here[i]
  BY <1>1, AppendProperties, LenProperties DEF n
<1>3. Plain(here')
  BY <1>1, <1>2 DEF WalkInv, Plain, n
<1>4. \A i \in 1..Len(here') : SubSeq(here', 1, i) \in Covered'
  <2> TAKE i \in 1..Len(here')
  <2>1. CASE i = Len(here')
    BY <1>2, <2>1, SubSeqFull
  <2>2. CASE i \in 1..Len(here)
    <3>1. SubSeq(here', 1, i) = SubSeq(here, 1, i)
      BY <1>1, <2>2, PrefixAppend DEF n
    <3>2. SubSeq(here, 1, i) \in Covered
      BY <1>1, <2>2 DEF WalkInv
    <3> QED BY <3>1, <3>2
  <2> QED BY <1>2, <2>1, <2>2
<1>5. Plain(cur.dst) => here' = SubSeq(cur.dst, 1, wi)
  BY <1>1, PrefixExtend DEF WalkInv
<1>6. wi' >= Len(cur.dst) /\ Plain(cur.dst) => Parent(cur.dst) \in Covered'
  <2> SUFFICES ASSUME wi' >= Len(cur.dst), Plain(cur.dst)
               PROVE  Parent(cur.dst) \in Covered'
    OBVIOUS
  <2>1. wi = Len(cur.dst) - 1
    BY <1>1
  <2> QED BY <1>5, <2>1 DEF Parent
<1>7. wi' - 1 = wi
  BY <1>1
<1> QED BY <1>3, <1>4, <1>5, <1>6, <1>7 DEF WalkInv

(* The directory the walk comes to next: below the one it is in, covered   *)
(* unless that is "/", and not the path the walk is for.                   *)
LEMMA NextDir ==
  ASSUME ArchiveTypeOK, WalkInv, Walking, cur.dst[wi] # ".."
  PROVE  /\ Append(here, cur.dst[wi]) \in Path
         /\ Parent(Append(here, cur.dst[wi])) = here
         /\ Append(here, cur.dst[wi]) # cur.dst
         /\ Len(Append(here, cur.dst[wi])) > 1 => here \in Covered
<1> DEFINE next == Append(here, cur.dst[wi])
<1>1. /\ cur.dst \in Seq(Name) /\ here \in Seq(Name) /\ Len(cur.dst) \in Nat
      /\ wi \in 1..Len(cur.dst) /\ wi < Len(cur.dst) /\ cur.dst[wi] \in Name
  BY LenProperties, EmptySeq, ElementOfSeq DEF ArchiveTypeOK, Walking, Path
<1>2. next \in Path /\ Parent(next) = here
  BY <1>1, ParentAppend DEF Path
<1>3. /\ Len(next) = Len(here) + 1 /\ Len(here) \in Nat
      /\ next[Len(here) + 1] = cur.dst[wi]
      /\ \A i \in 1..Len(here) : next[i] = here[i]
  BY <1>1, AppendProperties, LenProperties
<1>4. Len(next) > 1 => here \in Covered
  <2> SUFFICES ASSUME Len(next) > 1 PROVE here \in Covered
    OBVIOUS
  <2>1. Len(here) \in 1..Len(here) /\ SubSeq(here, 1, Len(here)) = here
    BY <1>1, <1>3, SubSeqFull
  <2> QED BY <1>1, <2>1 DEF WalkInv
<1>5. next # cur.dst
  <2>1. CASE Plain(cur.dst)
    <3>1. next = SubSeq(cur.dst, 1, wi)
      BY <1>1, <2>1, PrefixExtend DEF WalkInv
    <3>2. \A i \in 1..wi : cur.dst[i] \in Name
      BY <1>1, ElementOfSeq
    <3>3. Len(next) = wi
      BY <1>1, <3>1, <3>2, SubSeqProperties
    <3> QED BY <1>1, <3>3
  <2>2. CASE ~Plain(cur.dst)
    BY <1>1, <1>3, <2>2 DEF WalkInv, Plain
  <2> QED BY <2>1, <2>2
<1> QED BY <1>2, <1>4, <1>5

(* Each step of gather_archive_dirs().                                     *)
LEMMA DirsOrder ==
  ASSUME ArchiveTypeOK, ParentFirst, SeenInv, WalkInv, gather_archive_dirs
  PROVE  /\ ParentFirst' /\ SeenInv' /\ WalkInv' /\ Covered \subseteq Covered'
         /\ Archived \subseteq Archived'
<1>1. CASE DirInvalid
  <2>1. ParentFirst' /\ Covered \subseteq Covered' /\ Archived' = Archived
    BY <1>1, NoWrite DEF DirInvalid
  <2> QED BY <1>1, <2>1, StillWalk DEF DirInvalid
<1> DEFINE next == Append(here, cur.dst[wi])
<1>2. ASSUME Walking, cur.dst[wi] # ".."
      PROVE  /\ next \in Path /\ Parent(next) = here /\ next # cur.dst
             /\ Len(next) > 1 => here \in Covered
  BY <1>2, NextDir
<1> HIDE DEF next
<1>3. CASE DirSeen
  <2>1. ParentFirst' /\ Covered \subseteq Covered' /\ Archived' = Archived
    BY <1>3, NoWrite DEF DirSeen
  <2>2. next \in Covered
    BY <1>2, <1>3 DEF DirSeen, SeenInv, next
  <2>3. WalkInv'
    BY <1>3, <2>1, <2>2, DirDown DEF DirSeen, next
  <2>4. SeenInv'
    BY <1>3, <2>1 DEF DirSeen, SeenInv
  <2> QED BY <2>1, <2>3, <2>4
<1>4. CASE DirArchive
  <2> DEFINE e == [path |-> next, type |-> "dir", via |-> "walk"]
  <2>1. next \in Path /\ Parent(next) = here /\ (Len(next) > 1 => here \in Covered)
    BY <1>2, <1>4 DEF DirArchive
  <2>2. /\ out \in Seq(OutType) /\ e \in OutType /\ e.path = next
        /\ out' = Append(out, e) /\ here' = next
    BY <1>4, <2>1 DEF DirArchive, Write, ArchiveTypeOK, OutType, Types, next
  <2> HIDE DEF e
  <2>3. ParentFirst' /\ Covered \subseteq Covered' /\ Archived' = Archived \union {next}
    BY <1>4, <2>1, <2>2, WriteOrder DEF DirArchive
  <2>4. here' \in Covered'
    BY <2>2, <2>3 DEF Covered
  <2>5. WalkInv'
    BY <1>4, <2>2, <2>3, <2>4, DirDown DEF DirArchive, next
  <2>6. SeenInv'
    BY <1>4, <2>3, <2>4 DEF DirArchive, SeenInv
  <2> QED BY <2>3, <2>5, <2>6
<1>5. CASE DirUp
  <2>1. ParentFirst' /\ Covered \subseteq Covered' /\ Archived' = Archived
    BY <1>5, NoWrite DEF DirUp
  <2>2. SeenInv'
    BY <1>5, <2>1 DEF DirUp, SeenInv
  <2>3. /\ here \in Seq(Name) /\ Len(here) \in Nat \ {0} /\ here' = Parent(here)
        /\ Len(here') = Len(here) - 1 /\ wi < Len(cur.dst) /\ cur' = cur
        /\ wi \in 1..Len(cur.dst)
    <3>1. /\ here \in Path /\ cur.dst \in Path /\ here # <<>> /\ wi \in Nat
          /\ wi < Len(cur.dst) /\ (cur.dst # <<>> => wi > 0) /\ here' = Parent(here)
          /\ cur' = cur
      BY <1>5 DEF DirUp, Walking, ArchiveTypeOK
    <3>2. Len(here) \in Nat \ {0} /\ Len(cur.dst) \in Nat /\ cur.dst # <<>>
      BY <3>1, EmptySeq, LenProperties DEF Path
    <3>3. Len(Parent(here)) = Len(here) - 1
      BY <3>1, ParentType
    <3> QED BY <3>1, <3>2, <3>3 DEF Path
  <2>4. ~Plain(cur.dst)
    BY <1>5, <2>3 DEF DirUp, Plain
  <2>5. \A i \in 1..Len(here') : here'[i] = here[i] /\ SubSeq(here', 1, i) = SubSeq(here, 1, i)
    <3> TAKE i \in 1..Len(here')
    <3>1. /\ 1 \in 1..Len(here) /\ Len(here) - 1 \in 1..Len(here)
          /\ 1 \in 1..(Len(here) - 1 - 1 + 1) /\ i \in 1..(Len(here) - 1 - 1 + 1)
      BY <2>3
    <3>2. SubSeq(here', 1, i) = SubSeq(here, 1 + 1 - 1, 1 + i - 1)
      BY <2>3, <3>1, SubSeqOfSubSeq DEF Parent
    <3>3. \A j \in 1..(Len(here) - 1) : here[j] \in Name
      BY <2>3, ElementOfSeq
    <3>4. here'[i] = here[i]
      BY <2>3, <3>1, <3>3, SubSeqProperties DEF Parent
    <3> QED BY <3>1, <3>2, <3>4
  <2>6. Plain(here') /\ \A i \in 1..Len(here') : SubSeq(here', 1, i) \in Covered'
    <3>1. \A i \in 1..Len(here') : i \in 1..Len(here)
      BY <2>3
    <3>2. Plain(here) /\ \A i \in 1..Len(here) : SubSeq(here, 1, i) \in Covered
      BY <2>3 DEF WalkInv
    <3>3. Plain(here')
      BY <2>5, <3>1, <3>2 DEF Plain
    <3> QED BY <2>1, <2>5, <3>1, <3>2, <3>3
  <2>7. WalkInv'
    BY <2>3, <2>4, <2>6 DEF WalkInv
  <2> QED BY <2>1, <2>2, <2>7
<1> QED BY <1>1, <1>3, <1>4, <1>5 DEF gather_archive_dirs

(* Entering the walk of an entry that joins paths_seen only when archived. *)
LEMMA BeginOrder ==
  ASSUME ArchiveTypeOK, ParentFirst, SeenInv, cur = NoEntry, NEW c \in EntryType,
         Begin(c, seen, FALSE), UNCHANGED <<seen, out, filtered, missing>>
  PROVE  /\ ParentFirst' /\ SeenInv' /\ WalkInv' /\ Covered \subseteq Covered'
         /\ Archived \subseteq Archived'
<1>1. ParentFirst' /\ Covered \subseteq Covered' /\ Archived' = Archived
  BY NoWrite
<1>2. WalkInv'
  BY <1>1, BeginWalk
<1>3. SeenInv'
  BY <1>1 DEF SeenInv, NoEntry, Entry
<1> QED BY <1>1, <1>2, <1>3

(* Each step of gather_archive_elfs().                                     *)
LEMMA ElfsOrder ==
  ASSUME ArchiveTypeOK, ParentFirst, SeenInv, WalkInv, gather_archive_elfs
  PROVE  /\ ParentFirst' /\ SeenInv' /\ WalkInv' /\ Covered \subseteq Covered'
         /\ Archived \subseteq Archived'
<1>1. CASE ElfTryMissing \/ ElfSeen \/ ElfMissing \/ ElfLinkInvalid
  <2>1. UNCHANGED <<seen, out, cur, here, wi, filtered, missing>>
    BY <1>1 DEF ElfTryMissing, ElfSeen, ElfMissing, ElfLinkInvalid, archiveVars
  <2>2. ParentFirst' /\ Covered \subseteq Covered' /\ Archived' = Archived
    BY <2>1, NoWrite
  <2> QED BY <2>1, <2>2, StillWalk
<1>2. CASE ElfBegin
  <2>1. PICK p \in DOMAIN Host, op \in ElfOps :
          Begin(Entry(op, ElfDst(p), p), seen, FALSE)
    BY <1>2 DEF ElfBegin, ElfOps
  <2>2. p \in Path /\ ElfDst(p) \in Path
    BY HostAssumption, NameAssumption DEF ElfDst, NameDstPath, Path
  <2>3. Entry(op, ElfDst(p), p) \in EntryType
    BY <2>2 DEF Entry, EntryType, Ops, ElfOps
  <2>4. cur = NoEntry /\ UNCHANGED <<seen, out, filtered, missing>>
    BY <1>2 DEF ElfBegin, ElfReady
  <2> QED BY <2>1, <2>3, <2>4, BeginOrder
<1>3. ASSUME ElfWalked PROVE cur.op \in Ops /\ cur.op \in ElfOps /\ wi >= Len(cur.dst)
  BY <1>3 DEF ElfWalked, Walked, ArchiveTypeOK
<1>4. CASE ElfLinkDangling
  <2>1. UNCHANGED <<seen, out, wi, filtered, missing>> /\ cur' = NoEntry
    BY <1>4 DEF ElfLinkDangling
  <2>2. ParentFirst' /\ Covered \subseteq Covered' /\ Archived' = Archived
    BY <2>1, NoWrite
  <2>3. SeenInv'
    BY <1>3, <1>4, <2>1, <2>2 DEF ElfLinkDangling, ElfOps, SeenInv
  <2>4. Len(cur'.dst) = 0 /\ wi' \in Nat
    BY <2>1, EmptySeq DEF NoEntry, Entry, ArchiveTypeOK
  <2>5. ~(wi' < Len(cur'.dst)) /\ ~(Len(cur'.dst) > 1)
    BY <2>4
  <2>6. WalkInv'
    BY <2>5 DEF WalkInv
  <2> QED BY <2>2, <2>3, <2>6
<1>5. CASE ElfLink \/ ElfDir \/ ElfFile \/ ElfOther
  <2>1. PICK t \in Types : Finish(t, cur.op)
    BY <1>5 DEF ElfLink, ElfDir, ElfFile, ElfOther, Types
  <2>2. cur.op \in Ops /\ wi >= Len(cur.dst)
    BY <1>3, <1>5 DEF ElfLink, ElfDir, ElfFile, ElfOther
  <2> QED BY <2>1, <2>2, FinishOrder
<1> QED BY <1>1, <1>2, <1>4, <1>5 DEF gather_archive_elfs

(* Items left for a tree line keep their covered parents.                  *)
LEMMA StillItems ==
  ASSUME ItemInv, Covered \subseteq Covered', UNCHANGED items
  PROVE  ItemInv'
BY DEF ItemInv

(* So do those left once the last item has been taken.                     *)
LEMMA PopItems ==
  ASSUME ItemInv, Covered \subseteq Covered', items \in Seq(ItemType), items # <<>>,
         items' = PoppedItems
  PROVE  ItemInv'
<1>1. Len(items) \in Nat \ {0} /\ DOMAIN items = 1..Len(items)
  BY EmptySeq, LenProperties
<1>2. \A i \in 1..(Len(items) - 1) : items[i] \in ItemType
  BY <1>1, ElementOfSeq
<1>3. /\ items' \in Seq(ItemType)
      /\ Len(items') = IF 1 <= Len(items) - 1 THEN Len(items) - 1 ELSE 0
      /\ \A i \in 1..(Len(items) - 1) : items'[i] = items[i]
  BY <1>1, <1>2, SubSeqProperties DEF PoppedItems
<1>4. Len(items') = Len(items) - 1
  <2> DEFINE n == Len(items)
  <2>1. n \in Nat \ {0} /\ Len(items') = IF 1 <= n - 1 THEN n - 1 ELSE 0
    BY <1>1, <1>3
  <2> HIDE DEF n
  <2>2. Len(items') = n - 1
    BY <2>1
  <2> QED BY <2>2 DEF n
<1>5. DOMAIN items' = 1..Len(items')
  BY <1>3, LenProperties
<1>6. \A i \in DOMAIN items' : i \in DOMAIN items /\ items'[i] = items[i]
  <2>1. \A i \in 1..(Len(items) - 1) : i \in 1..Len(items)
    BY <1>1
  <2> QED BY <1>1, <1>3, <1>4, <1>5, <2>1
<1> QED BY <1>6 DEF ItemInv

(* Each step of gather_archive_data().                                     *)
LEMMA DataOrder ==
  ASSUME ArchiveTypeOK, items \in Seq(ItemType), ParentFirst, SeenInv, WalkInv, ItemInv,
         gather_archive_data
  PROVE  /\ ParentFirst' /\ SeenInv' /\ WalkInv' /\ ItemInv' /\ Covered \subseteq Covered'
         /\ Archived \subseteq Archived'
<1>1. CASE DataMissing
  <2>1. ParentFirst' /\ Covered \subseteq Covered' /\ Archived' = Archived
    BY <1>1, NoWrite DEF DataMissing
  <2> QED BY <1>1, <2>1, StillWalk, StillItems DEF DataMissing
<1>2. CASE DataSeen
  <2>1. ParentFirst' /\ Covered \subseteq Covered' /\ Archived' = Archived
    BY <1>2, NoWrite DEF DataSeen, archiveVars
  <2> QED BY <1>2, <2>1, StillWalk, PopItems DEF DataSeen, DataReady, archiveVars
<1>3. CASE DataBegin
  <2> DEFINE c == Entry(IF TopItem.child THEN "child" ELSE "tree",
                        TopItem.dst, TopItem.src)
  <2>1. TopItem \in ItemType /\ Len(items) \in DOMAIN items
    BY <1>3, SeqTypes, EmptySeq, LenProperties DEF DataBegin, DataReady, TopItem
  <2>2. c \in EntryType /\ c.dst = TopItem.dst /\ c.op \in {"tree", "child"}
    BY <1>3, <2>1 DEF DataBegin, Entry, EntryType, ItemType, Ops, HostOps
  <2>3. TopItem.child \in BOOLEAN /\ (TopItem.child => Parent(c.dst) \in Covered)
    BY <2>1, <2>2 DEF ItemInv, TopItem, ItemType
  <2>4. /\ cur = NoEntry /\ Begin(c, seen', TopItem.child) /\ cur' = c
        /\ seen' = seen \union {c.dst} /\ items # <<>>
        /\ UNCHANGED <<out, filtered, missing>> /\ items' = PoppedItems
    BY <1>3, <2>2 DEF DataBegin, DataReady, Begin
  <2> HIDE DEF c
  <2>5. ParentFirst' /\ Covered \subseteq Covered' /\ Archived' = Archived
    BY <2>4, NoWrite
  <2>6. WalkInv'
    BY <2>2, <2>3, <2>4, <2>5, BeginWalk
  <2>7. SeenInv'
    BY <2>2, <2>4, <2>5 DEF SeenInv, NoEntry, Entry
  <2> QED BY <2>4, <2>5, <2>6, <2>7, PopItems
<1>4. ASSUME DataWalked
      PROVE  /\ cur.op \in Ops /\ wi >= Len(cur.dst) /\ cur.dst \in Path /\ cur.src \in DOMAIN Host
             /\ Host[cur.src].type \in Types /\ Host[cur.src].kids \in Seq(Name)
  BY <1>4, HostAssumption DEF DataWalked, Walked, ArchiveTypeOK, Types, HostOps
<1>5. CASE DataLeaf
  <2>1. /\ ParentFirst' /\ SeenInv' /\ WalkInv' /\ Covered \subseteq Covered'
        /\ Archived \subseteq Archived'
    BY <1>4, <1>5, FinishOrder DEF DataLeaf
  <2> QED BY <1>5, <2>1, StillItems DEF DataLeaf
<1>6. CASE DataDir
  <2>1. /\ ParentFirst' /\ SeenInv' /\ WalkInv' /\ Covered \subseteq Covered'
        /\ Archived \subseteq Archived' /\ cur.dst \in Archived'
    BY <1>4, <1>6, FinishOrder DEF DataDir, Types
  <2> DEFINE kids == Host[cur.src].kids
             new == [i \in DOMAIN kids |-> Item(Append(cur.src, kids[i]),
                                               Append(cur.dst, kids[i]), TRUE)]
  <2>2. ASSUME NEW i \in DOMAIN kids
        PROVE  new[i].dst # <<>> /\ Parent(new[i].dst) \in Covered'
    <3>1. kids[i] \in Name /\ cur.dst \in Seq(Name)
      BY <1>4, <1>6, ElementOfSeq, LenProperties DEF DataDir, Path
    <3>2. Parent(Append(cur.dst, kids[i])) = cur.dst
      BY <3>1, ParentAppend DEF Path
    <3>3. Append(cur.dst, kids[i]) # <<>>
      BY <3>1, AppendProperties
    <3> QED BY <2>1, <3>2, <3>3 DEF Item, Covered
  <2>3. new \in Seq(ItemType) /\ DOMAIN new = DOMAIN kids
    BY <1>4, <1>6, KidsType, HostAssumption DEF DataDir
  <2>4. items' = items \o new
    BY <1>6 DEF DataDir
  <2> HIDE DEF new
  <2>5. \A i \in DOMAIN items' : items'[i] \in {items[j] : j \in DOMAIN items}
                                               \union {new[j] : j \in DOMAIN new}
    BY <2>3, <2>4, ConcatProperties, LenProperties
  <2>6. ItemInv'
    BY <2>1, <2>2, <2>3, <2>5 DEF ItemInv
  <2> QED BY <2>1, <2>6
<1> QED BY <1>1, <1>2, <1>3, <1>5, <1>6 DEF gather_archive_data

(* Each step of gather_archive_kmod_and_deps().                            *)
LEMMA KmodsOrder ==
  ASSUME ArchiveTypeOK, tasks \in Seq(TaskType), ParentFirst, SeenInv, WalkInv,
         gather_archive_kmod_and_deps
  PROVE  /\ ParentFirst' /\ SeenInv' /\ WalkInv' /\ Covered \subseteq Covered'
         /\ Archived \subseteq Archived'
<1>1. CASE KmodSkip \/ KmodUnknown
  <2>1. UNCHANGED <<seen, out, cur, here, wi, filtered, missing>>
    BY <1>1 DEF KmodSkip, KmodUnknown, archiveVars
  <2>2. ParentFirst' /\ Covered \subseteq Covered' /\ Archived' = Archived
    BY <2>1, NoWrite
  <2> QED BY <2>1, <2>2, StillWalk
<1>2. CASE KmodMissing
  <2>1. UNCHANGED <<out, cur, here, wi, filtered>> /\ seen' = seen \union {KmodDst}
        /\ missing' = missing \union {KmodDst}
    BY <1>2 DEF KmodMissing
  <2>2. ParentFirst' /\ Covered \subseteq Covered' /\ Archived' = Archived
    BY <2>1, NoWrite
  <2>3. SeenInv'
    BY <2>1, <2>2 DEF SeenInv, Covered
  <2>4. WalkInv'
    BY <2>1, <2>2 DEF WalkInv
  <2> QED BY <2>2, <2>3, <2>4
<1>3. CASE KmodBegin
  <2> DEFINE c == Entry("kmod", KmodDst, Rel)
  <2>1. c \in EntryType
    BY <1>3, KmodEntryType DEF KmodBegin
  <2>2. /\ cur = NoEntry /\ Begin(c, seen', FALSE) /\ cur' = c /\ c.op = "kmod"
        /\ seen' = seen \union {c.dst} /\ UNCHANGED <<out, filtered, missing>>
    BY <1>3 DEF KmodBegin, KmodReady, Begin, Entry
  <2> HIDE DEF c
  <2>3. ParentFirst' /\ Covered \subseteq Covered' /\ Archived' = Archived
    BY <2>2, NoWrite
  <2>4. WalkInv'
    BY <2>1, <2>2, <2>3, BeginWalk
  <2>5. SeenInv'
    BY <2>2, <2>3 DEF SeenInv, NoEntry, Entry
  <2> QED BY <2>3, <2>4, <2>5
<1>4. CASE KmodArchive
  BY <1>4, FinishOrder DEF KmodArchive, Walked, Types, Ops
<1> QED BY <1>1, <1>2, <1>3, <1>4 DEF gather_archive_kmod_and_deps

(* Each manifest line.                                                     *)
LEMMA LinesOrder ==
  ASSUME OrderInv, LineStep
  PROVE  /\ ParentFirst' /\ SeenInv' /\ WalkInv' /\ ItemInv' /\ IdxInv'
<1> USE DEF OrderInv
<1>1. ArchiveTypeOK /\ fests \in Seq(Seq(LineType)) /\ idx \in Nat
  BY DEF TypeOK
<1>2. ASSUME UNCHANGED <<seen, out, cur, here, wi, filtered, missing, idx>>
      PROVE  /\ ParentFirst' /\ SeenInv' /\ WalkInv' /\ Covered \subseteq Covered' /\ IdxInv'
  <2>1. ParentFirst' /\ Covered \subseteq Covered' /\ Archived' = Archived
    BY <1>2, NoWrite
  <2> QED BY <1>2, <2>1, StillWalk DEF IdxInv
<1>3. CASE LineInclude \/ LineBin \/ LineKmod
  <2>1. UNCHANGED <<seen, out, cur, here, wi, filtered, missing, idx, items>>
    BY <1>3 DEF LineInclude, LineBin, LineKmod, archiveVars
  <2> QED BY <1>2, <2>1, StillItems
<1>4. CASE LineFilter
  <2>1. UNCHANGED <<out, cur, here, wi, missing, idx, items>>
        /\ seen' = seen \union {L.dst} /\ filtered' = filtered \union {L.dst}
    BY <1>4 DEF LineFilter
  <2>2. ParentFirst' /\ Covered \subseteq Covered' /\ Archived' = Archived
    BY <2>1, NoWrite
  <2>3. SeenInv'
    BY <2>1, <2>2 DEF SeenInv, Covered
  <2>4. WalkInv'
    BY <2>1, <2>2 DEF WalkInv
  <2> QED BY <2>1, <2>2, <2>3, <2>4, StillItems DEF IdxInv
<1>5. CASE LineEntry
  <2>1. L \in LineType /\ L.k \in {"dir", "slink", "file"}
    BY <1>1, <1>5, ReadingType DEF LineEntry
  <2>2. Entry(L.k, L.dst, L.src) \in EntryType
    BY <2>1 DEF Entry, EntryType, LineType, Ops, HostOps
  <2>3. UNCHANGED <<seen, out, filtered, missing, idx, items>> /\ cur = NoEntry
    BY <1>5 DEF LineEntry, Reading, Idle
  <2>4. Begin(Entry(L.k, L.dst, L.src), seen, FALSE) \/ UNCHANGED <<cur, here, wi>>
    BY <1>5 DEF LineEntry
  <2>5. CASE Begin(Entry(L.k, L.dst, L.src), seen, FALSE)
    BY <1>1, <2>2, <2>3, <2>5, BeginOrder, StillItems DEF IdxInv
  <2>6. CASE UNCHANGED <<cur, here, wi>>
    BY <1>2, <2>3, <2>6, StillItems
  <2> QED BY <2>4, <2>5, <2>6
<1>6. CASE LineArchive
  <2>1. PICK op \in {"dir", "slink", "file"} :
          /\ Walked(op)
          /\ Finish(CASE op = "dir" -> "dir" [] op = "slink" -> "lnk"
                       [] op = "file" -> "reg", "line")
    BY <1>6 DEF LineArchive
  <2>2. PICK t \in Types : Finish(t, "line")
    BY <2>1 DEF Types
  <2>3. /\ ParentFirst' /\ SeenInv' /\ WalkInv' /\ Covered \subseteq Covered'
        /\ Archived \subseteq Archived'
    BY <1>1, <2>1, <2>2, FinishOrder DEF Walked
  <2>4. UNCHANGED <<items, idx>>
    BY <1>6 DEF LineArchive, cutVars
  <2> QED BY <2>3, <2>4, StillItems DEF IdxInv
<1>7. CASE LineTree
  <2>1. UNCHANGED <<seen, out, cur, here, wi, filtered, missing, idx>>
        /\ items' = <<Item(L.src, L.dst, FALSE)>>
    BY <1>7 DEF LineTree, archiveVars
  <2>2. ItemInv'
    BY <2>1 DEF ItemInv, Item
  <2> QED BY <1>2, <2>1, <2>2
<1>8. CASE LineAutorun
  <2> DEFINE dir == [path |-> AutorunDir, type |-> "dir", via |-> "main"]
             p == Append(AutorunDir, AutorunName[idx][Base(L.srcs[1])])
             script == [path |-> p, type |-> "reg", via |-> "autorun"]
             f == filtered \union missing
  <2>1. AutorunName[idx][Base(L.srcs[1])] \in Name
    BY <1>1, <1>8, ScriptType
  <2>2. /\ dir \in OutType /\ script \in OutType /\ dir.path = AutorunDir
        /\ Parent(script.path) = AutorunDir /\ Len(dir.path) = 1
    BY <2>1, LiteralPaths, ParentAppend DEF OutType, Types, AutorunDir
  <2>3. /\ UNCHANGED <<cur, here, wi, filtered, missing, items>>
        /\ seen' = IF idx = 0 THEN seen \union {AutorunDir} ELSE seen
    BY <1>8 DEF LineAutorun
  <2>4. out \in Seq(OutType) /\ Ordered(out, f) /\ Paths(out) = Archived
    BY <1>1 DEF ArchiveTypeOK, OutType, ParentFirst, Ordered, Paths, Archived
  <2>5. \/ idx = 0 /\ out' = Append(Append(out, dir), script) /\ idx' = 1
        \/ idx = 0 /\ out' = Append(out, dir) /\ idx' = 0
        \/ idx # 0 /\ out' = Append(out, script) /\ idx' = idx + 1
        \/ idx # 0 /\ out' = out /\ idx' = idx
    <3>1. CASE Opens(L.srcs[1])
      <4>1. /\ out' = Append(IF idx = 0 THEN Append(out, dir) ELSE out, script)
            /\ idx' = idx + 1
        BY <1>8, <3>1 DEF LineAutorun
      <4> QED BY <1>1, <4>1
    <3>2. CASE ~Opens(L.srcs[1])
      BY <1>8, <3>2 DEF LineAutorun
    <3> QED BY <3>1, <3>2
  <2> HIDE DEF dir, script, f
  <2>6. /\ Ordered(Append(out, dir), f) /\ Append(out, dir) \in Seq(OutType)
        /\ Paths(Append(out, dir)) = Archived \union {AutorunDir}
    <3>1. ~(Len(dir.path) > 1)
      BY <2>2
    <3> QED BY <2>2, <2>4, <3>1, OrderedAppend
  <2>7. /\ Ordered(Append(Append(out, dir), script), f)
        /\ Paths(Append(Append(out, dir), script))
             = Archived \union {AutorunDir} \union {script.path}
    BY <2>2, <2>6, OrderedAppend
  <2>8. idx # 0 => /\ Ordered(Append(out, script), f) /\ AutorunDir \in Archived
                   /\ Paths(Append(out, script)) = Archived \union {script.path}
    <3> SUFFICES ASSUME idx # 0
                 PROVE  /\ Ordered(Append(out, script), f) /\ AutorunDir \in Archived
                        /\ Paths(Append(out, script)) = Archived \union {script.path}
      OBVIOUS
    <3>1. AutorunDir \in Archived
      BY <1>1 DEF IdxInv
    <3> QED BY <2>2, <2>4, <3>1, OrderedAppend
  <2>9. /\ Ordered(out', f) /\ Archived \subseteq Paths(out') /\ AutorunDir \in Paths(out')
    <3>1. CASE idx = 0
      BY <2>5, <2>6, <2>7, <3>1
    <3>2. CASE idx # 0
      BY <2>4, <2>5, <2>8, <3>2
    <3> QED BY <3>1, <3>2
  <2>10. Paths(out') = Archived'
    BY DEF Paths, Archived
  <2>11. ParentFirst' /\ IdxInv' /\ Covered \subseteq Covered'
    BY <2>3, <2>9, <2>10 DEF ParentFirst, Ordered, IdxInv, Covered, f
  <2>12. SeenInv'
    BY <2>3, <2>9, <2>10, <2>11 DEF SeenInv, Covered
  <2>13. WalkInv'
    BY <2>3, <2>11 DEF WalkInv
  <2> QED BY <2>3, <2>11, <2>12, <2>13, StillItems
<1> QED BY <1>3, <1>4, <1>5, <1>6, <1>7, <1>8 DEF LineStep

(* An entry that main() writes, or skips.                                  *)
LEMMA MainWrite ==
  ASSUME ArchiveTypeOK, ParentFirst, SeenInv, WalkInv, ItemInv, IdxInv,
         NEW p \in Path, NEW t \in Types,
         Write(p, t, "main") \/ UNCHANGED out, Len(p) > 1 => Parent(p) \in Covered,
         UNCHANGED <<seen, cur, here, wi, filtered, missing, items, idx>>
  PROVE  ParentFirst' /\ SeenInv' /\ WalkInv' /\ ItemInv' /\ IdxInv'
<1> DEFINE e == [path |-> p, type |-> t, via |-> "main"]
<1>1. out \in Seq(OutType) /\ e \in OutType /\ e.path = p
      /\ (out' = Append(out, e) \/ UNCHANGED out)
  BY DEF ArchiveTypeOK, OutType, Write
<1> HIDE DEF e
<1>2. ParentFirst' /\ Covered \subseteq Covered' /\ Archived \subseteq Archived'
  <2>1. CASE out' = Append(out, e)
    BY <1>1, <2>1, WriteOrder
  <2>2. CASE UNCHANGED out
    BY <2>2, NoWrite
  <2> QED BY <1>1, <2>1, <2>2
<1> QED BY <1>2, StillWalk, StillItems DEF IdxInv

(* Each statement of main().                                               *)
LEMMA MainOrder ==
  ASSUME OrderInv, MainStep
  PROVE  ParentFirst' /\ SeenInv' /\ WalkInv' /\ ItemInv' /\ IdxInv'
<1> USE DEF OrderInv
<1>1. ArchiveTypeOK
  BY DEF TypeOK
<1>2. /\ Len(<<"rapido.conf">>) = 1 /\ Len(<<"rapido.rc">>) = 1 /\ Len(<<"lib64">>) = 1
      /\ Len(<<"bin">>) = 1 /\ Len(<<"sbin">>) = 1 /\ Len(<<"lib">>) = 1
      /\ Len(<<"TRAILER!!!">>) = 1
  OBVIOUS
<1>3. Parent(SbinModprobe) = <<"sbin">> /\ Parent(<<"lib", "modules">>) = <<"lib">>
  <2>1. /\ <<"sbin", "modprobe">> = Append(<<"sbin">>, "modprobe")
        /\ <<"lib", "modules">> = Append(<<"lib">>, "modules")
    OBVIOUS
  <2> QED BY <2>1, LiteralPaths, NameAssumption, ParentAppend DEF SbinModprobe
<1>4. CASE MainConf
  BY <1>1, <1>2, <1>4, LiteralPaths, MainWrite DEF MainConf, Types, cutVars
<1>5. CASE MainRc
  BY <1>1, <1>2, <1>5, LiteralPaths, MainWrite DEF MainRc, Types, cutVars
<1>6. CASE MainKmods
  <2>1. UNCHANGED <<seen, out, cur, here, wi, filtered, missing, idx, items>>
    BY <1>6 DEF MainKmods
  <2>2. "reg" \in Types
    BY DEF Types
  <2> QED BY <1>1, <1>2, <2>1, <2>2, LiteralPaths, MainWrite
<1>7. ASSUME NEW from, NEW to, NEW p \in Path, Link(from, to, p),
             Len(p) > 1 => Parent(p) \in Covered
      PROVE  ParentFirst' /\ SeenInv' /\ WalkInv' /\ ItemInv' /\ IdxInv'
  BY <1>1, <1>7, MainWrite DEF Link, Types, cutVars
<1>8. CASE Link("lib64", "bin", <<"lib64">>) \/ Link("bin", "sbin", <<"bin">>)
  BY <1>2, <1>7, <1>8, LiteralPaths
<1>9. ASSUME Idle, NEW p \in seen PROVE p \in Covered
  BY <1>9 DEF Idle, SeenInv, NoEntry, Entry
<1>10. CASE MainSbin
  <2>1. CASE <<"sbin">> \in seen /\ <<"usr", "sbin", "modprobe">> \notin seen
    <3>1. UNCHANGED <<seen, out, cur, here, wi, filtered, missing, idx, items>>
      BY <1>10, <2>1 DEF MainSbin, cutVars
    <3>2. "reg" \in Types
      BY DEF Types
    <3> QED BY <1>1, <1>2, <3>1, <3>2, LiteralPaths, MainWrite
  <2>2. CASE <<"sbin">> \in seen /\ <<"usr", "sbin", "modprobe">> \in seen
    <3>1. Link("sbin", "lib", SbinModprobe) /\ Idle
      BY <1>10, <2>2 DEF MainSbin, Link
    <3> QED BY <1>3, <1>7, <1>9, <2>2, <3>1, LiteralPaths
  <2>3. CASE <<"sbin">> \notin seen
    <3>1. Link("sbin", "lib", <<"sbin">>)
      BY <1>10, <2>3 DEF MainSbin
    <3> QED BY <1>2, <1>7, <3>1, LiteralPaths
  <2> QED BY <2>1, <2>2, <2>3
<1>11. CASE MainKmodsLink
  <2>1. KmodsLink \in Path /\ (Len(KmodsLink) > 1 => Parent(KmodsLink) \in Covered)
    BY <1>2, <1>3, <1>9, <1>11, LiteralPaths DEF MainKmodsLink, KmodsLink
  <2> QED BY <1>1, <1>11, <2>1, MainWrite DEF MainKmodsLink, Types, cutVars
<1>12. CASE MainTrailer
  BY <1>1, <1>2, <1>12, LiteralPaths, MainWrite DEF MainTrailer, Types, cutVars
<1> QED BY <1>4, <1>5, <1>6, <1>8, <1>10, <1>11, <1>12 DEF MainStep

-----------------------------------------------------------------------------
(* The state rapido-cut starts in.                                         *)
LEMMA OrderInit == Init => OrderInv
<1> SUFFICES ASSUME Init PROVE OrderInv
  OBVIOUS
<1>1. TypeOK
  BY TypeInit
<1>2. out = <<>> /\ items = <<>> /\ seen = {} /\ idx = 0 /\ cur.dst = <<>> /\ wi = 0
  BY DEF Init, NoEntry, Entry
<1>3. ~(wi < Len(cur.dst)) /\ ~(Len(cur.dst) > 1)
  BY <1>2
<1>4. WalkInv
  BY <1>3 DEF WalkInv
<1> QED BY <1>1, <1>2, <1>4 DEF OrderInv, ParentFirst, SeenInv, ItemInv, IdxInv

(* Every step of rapido-cut keeps the invariant.                           *)
LEMMA OrderNext == OrderInv /\ [Next]_vars => OrderInv'
<1> SUFFICES ASSUME OrderInv, [Next]_vars PROVE OrderInv'
  OBVIOUS
<1>1. /\ TypeOK' /\ ArchiveTypeOK /\ items \in Seq(ItemType) /\ tasks \in Seq(TaskType)
  BY TypeNext DEF OrderInv, TypeOK, ItemType
<1> SUFFICES ParentFirst' /\ SeenInv' /\ WalkInv' /\ ItemInv' /\ IdxInv'
  BY <1>1 DEF OrderInv
<1> USE DEF OrderInv
<1>2. CASE MainStep
  BY <1>2, MainOrder
<1>3. CASE LineStep
  BY <1>3, LinesOrder
<1>4. CASE gather_archive_dirs /\ UNCHANGED <<elfVars, items, kmodVars, cutVars>>
  BY <1>1, <1>4, DirsOrder, StillItems DEF IdxInv, cutVars
<1>5. CASE gather_archive_elfs /\ UNCHANGED <<items, kmodVars, cutVars>>
  BY <1>1, <1>5, ElfsOrder, StillItems DEF IdxInv, cutVars
<1>6. CASE gather_archive_data /\ UNCHANGED <<elfVars, kmodVars, cutVars>>
  BY <1>1, <1>6, DataOrder DEF IdxInv, cutVars
<1>7. CASE gather_archive_kmod_and_deps /\ UNCHANGED <<elfVars, items, cutVars>>
  BY <1>1, <1>7, KmodsOrder, StillItems DEF IdxInv, cutVars
<1>8. CASE ReadEof \/ Aborted \/ UNCHANGED vars
  <2>1. UNCHANGED <<seen, out, cur, here, wi, filtered, missing, idx, items>>
    BY <1>8 DEF ReadEof, Aborted, Abort, vars, archiveVars, cutVars
  <2>2. ParentFirst' /\ Covered \subseteq Covered' /\ Archived' = Archived
    BY <2>1, NoWrite
  <2> QED BY <2>1, <2>2, StillWalk, StillItems DEF IdxInv
<1> QED BY <1>2, <1>3, <1>4, <1>5, <1>6, <1>7, <1>8 DEF Next, Step

(* Whatever the manifest asks for and whatever the host holds, an entry of *)
(* the archive comes after the entry of its parent directory: the comment  *)
(* of gather_archive_dirs(), "parent dirs must be archived before          *)
(* children", holds of the whole program.                                  *)
THEOREM ParentsFirst == Spec => []ParentFirst
<1>1. OrderInv => ParentFirst
  BY DEF OrderInv
<1> QED BY <1>1, OrderInit, OrderNext, PTL DEF Spec

-----------------------------------------------------------------------------
(* Kernel modules with their hard dependencies.                            *)

(* The files of a module.  Spared: each module to whose files n's belongs  *)
(* had all of its files, so that no loop over them was given up.           *)
FilesOf(m) ==
  {ModPath(m)} \union {KmodRoot \o Kmod[m].hard[i] : i \in DOMAIN Kmod[m].hard}
Spared(n) ==
  \A m \in Loadable : ModPath(n) \in FilesOf(m) => FilesOf(m) \intersect missing = {}
NoneMissing == \A n \in kwant \intersect Loadable : Spared(n)

(* A file that is seen to: archived, filtered, missing, in progress or a   *)
(* task to come.  Origin: the tasks for hard dependencies are those left   *)
(* of m's.                                                                 *)
Underway(p) == cur.op = "kmod" /\ cur.dst = p
Pending(rel) == \E i \in DOMAIN tasks : tasks[i].t = "hard" /\ tasks[i].rel = rel
Handled(rel) ==
  \/ Has(rel) \/ KmodRoot \o rel \in missing
  \/ Underway(KmodRoot \o rel) \/ Pending(rel)
Origin(m) ==
  /\ \A i \in DOMAIN tasks : tasks[i].t = "hard" =>
       \E j \in DOMAIN Kmod[m].hard : Kmod[m].hard[j] = tasks[i].rel
  /\ \A j \in DOMAIN Kmod[m].hard : Handled(Kmod[m].hard[j])

(* The tasks: those of one module come before other modules, and all names *)
(* of a call are optional or none is.                                      *)
Later == {"db", "root"}
SoftOf(m, name) == \E j \in DOMAIN Kmod[m].soft : Kmod[m].soft[j] = name
QueueInv ==
  /\ \A i, j \in DOMAIN tasks : i < j /\ tasks[i].t \in Later => tasks[j].t \in Later
  /\ \A i \in DOMAIN tasks : tasks[i].t = "db" =>
       \E j \in DOMAIN KmodDb : tasks[i].rel = KmodDb[j]
  /\ \A i, j \in DOMAIN tasks : tasks[i].try /\ tasks[j].t = "root" => tasks[j].try
OriginInv ==
  /\ \A i \in DOMAIN tasks : tasks[i].t = "hard" => \E m \in Loadable : Origin(m)
  /\ \A i \in DOMAIN tasks : tasks[i].t = "soft" =>
       \E m \in DOMAIN Kmod : /\ SoftOf(m, tasks[i].name)
                              /\ ModPath(m) \in Archived \/ Underway(ModPath(m))

(* What is known of a module that is archived or in progress.              *)
SoftNow(n) ==
  /\ Underway(ModPath(n))
  /\ \E m \in DOMAIN Kmod : ModPath(m) \in Archived /\ NamesSoft(m, n)
AllHas(n) == \A i \in DOMAIN Kmod[n].hard : Has(Kmod[n].hard[i])
Closed(n) ==
  \/ Foreign(n) \/ CameSoft(n) \/ SoftNow(n) \/ ~Spared(n) \/ AllHas(n)
  \/ \E m \in Loadable : ModPath(n) \in FilesOf(m) /\ Origin(m)
ModInv ==
  \A n \in Loadable : ModPath(n) \in Archived \/ Underway(ModPath(n)) => Closed(n)
WantInv ==
  \A n \in kwant \intersect Loadable :
    \/ ModPath(n) \in seen
    \/ \E i \in DOMAIN tasks : tasks[i].t = "root" /\ tasks[i].name = n /\ ~tasks[i].try
KmodInv == Running => QueueInv /\ OriginInv /\ ModInv /\ WantInv

-----------------------------------------------------------------------------
(* Paths below KmodRoot differ where the relative paths do.                *)
LEMMA ConcatCancel ==
  ASSUME NEW a \in Path, NEW b \in Path, KmodRoot \o a = KmodRoot \o b
  PROVE  a = b
<1>1. KmodRoot \in Path
  BY KmodAssumption
<1>2. /\ Len(KmodRoot) \in Nat /\ Len(a) \in Nat /\ Len(b) \in Nat
      /\ DOMAIN a = 1..Len(a) /\ DOMAIN b = 1..Len(b)
  BY <1>1, LenProperties DEF Path
<1>3. /\ Len(KmodRoot \o a) = Len(KmodRoot) + Len(a)
      /\ Len(KmodRoot \o b) = Len(KmodRoot) + Len(b)
      /\ \A i \in 1..(Len(KmodRoot) + Len(a)) :
           (KmodRoot \o a)[i] = IF i <= Len(KmodRoot) THEN KmodRoot[i] ELSE a[i - Len(KmodRoot)]
      /\ \A i \in 1..(Len(KmodRoot) + Len(b)) :
           (KmodRoot \o b)[i] = IF i <= Len(KmodRoot) THEN KmodRoot[i] ELSE b[i - Len(KmodRoot)]
  BY <1>1, ConcatProperties DEF Path
<1>4. Len(a) = Len(b)
  <2>1. Len(KmodRoot) + Len(a) = Len(KmodRoot) + Len(b)
    BY ONLY <1>3, KmodRoot \o a = KmodRoot \o b
  <2>2. \A x, y, z \in Nat : x + y = x + z => y = z
    OBVIOUS
  <2> QED
    BY <1>2, <2>1, <2>2
<1>5. ASSUME NEW i \in 1..Len(a) PROVE a[i] = b[i]
  <2>1. /\ i + Len(KmodRoot) \in 1..(Len(KmodRoot) + Len(a))
        /\ i + Len(KmodRoot) \in 1..(Len(KmodRoot) + Len(b))
        /\ ~(i + Len(KmodRoot) <= Len(KmodRoot)) /\ (i + Len(KmodRoot)) - Len(KmodRoot) = i
    BY <1>2, <1>4
  <2> QED
    BY <1>3, <2>1
<1> QED
  BY <1>2, <1>4, <1>5, SeqEqual DEF Path

(* A list of hard dependencies holds those of its own members.             *)
LEMMA HardListed ==
  ASSUME NEW m \in Loadable, NEW n \in Loadable, ModPath(n) \in FilesOf(m),
         NEW i \in DOMAIN Kmod[n].hard
  PROVE  \E l \in DOMAIN Kmod[m].hard : Kmod[m].hard[l] = Kmod[n].hard[i]
<1>1. /\ m \in DOMAIN Kmod /\ n \in DOMAIN Kmod
      /\ Kmod[m].rel \in Path /\ Kmod[n].rel \in Path
      /\ \A j \in DOMAIN Kmod[m].hard : Kmod[m].hard[j] \in Path
  <2>1. m \in DOMAIN Kmod /\ n \in DOMAIN Kmod
    BY DEF Loadable
  <2>2. Kmod[m].hard \in Seq(Path)
    BY <2>1, KmodAssumption
  <2> QED
    BY <2>1, <2>2, KmodAssumption, ElementOfSeq
<1>2. CASE ModPath(n) = ModPath(m)
  <2>1. Kmod[n].rel = Kmod[m].rel
    BY <1>1, <1>2, ConcatCancel DEF ModPath
  <2> QED
    BY <2>1, KmodFileAssumption
<1>3. CASE \E j \in DOMAIN Kmod[m].hard : ModPath(n) = KmodRoot \o Kmod[m].hard[j]
  <2>1. PICK j \in DOMAIN Kmod[m].hard : ModPath(n) = KmodRoot \o Kmod[m].hard[j]
    BY <1>3
  <2>2. Kmod[n].rel = Kmod[m].hard[j]
    BY <1>1, <2>1, ConcatCancel DEF ModPath
  <2> QED
    BY <1>1, <2>2, KmodDepComplete
<1> QED
  BY <1>2, <1>3 DEF FilesOf

(* When nothing of m is left to do, what belongs to m is closed.           *)
LEMMA OriginDone ==
  ASSUME NEW m \in Loadable, NEW n \in Loadable, ModPath(n) \in FilesOf(m), Origin(m),
         \A i \in DOMAIN tasks : tasks[i].t # "hard", cur = NoEntry
  PROVE  ~Spared(n) \/ AllHas(n)
<1> SUFFICES ASSUME Spared(n), NEW i \in DOMAIN Kmod[n].hard
             PROVE  Has(Kmod[n].hard[i])
  BY DEF AllHas
<1>1. PICK l \in DOMAIN Kmod[m].hard : Kmod[m].hard[l] = Kmod[n].hard[i]
  BY HardListed
<1>2. Handled(Kmod[m].hard[l])
  BY DEF Origin
<1>3. KmodRoot \o Kmod[m].hard[l] \notin missing
  BY DEF Spared, FilesOf
<1>4. ~Pending(Kmod[m].hard[l]) /\ ~Underway(KmodRoot \o Kmod[m].hard[l])
  BY DEF Pending, Underway, NoEntry, Entry
<1> QED
  BY <1>1, <1>2, <1>3, <1>4 DEF Handled

-----------------------------------------------------------------------------
(* Steps that carry the modules on: the archive grows, and what was in     *)
(* progress or a task for a hard dependency is still seen to.              *)
Completed(p) == \E k \in DOMAIN out' : out'[k].path = p /\ \A j \in DOMAIN out : j < k
Moves ==
  /\ GrownBut({}) /\ filtered \subseteq filtered' /\ missing \subseteq missing'
  /\ \A p : Underway(p) => Underway(p)' \/ Completed(p)
  /\ \A i \in DOMAIN tasks' : tasks'[i].t \in {"hard", "soft"} =>
       \E l \in DOMAIN tasks : tasks[l] = tasks'[i]
  /\ \A rel : Pending(rel) => Handled(rel)'

(* What a growing archive keeps.                                           *)
LEMMA Lasting ==
  ASSUME GrownBut({}), filtered \subseteq filtered', missing \subseteq missing'
  PROVE  /\ Archived \subseteq Archived' /\ \A rel : Has(rel) => Has(rel)'
         /\ \A n : (Foreign(n) => Foreign(n)') /\ (CameSoft(n) => CameSoft(n)')
                   /\ (~Spared(n) => ~Spared(n)') /\ (AllHas(n) => AllHas(n)')
<1>1. \A k \in DOMAIN out : k \in DOMAIN out' /\ out'[k] = out[k]
  BY DEF GrownBut, Grown
<1>2. Archived \subseteq Archived'
  BY <1>1 DEF Archived
<1>3. \A rel : Has(rel) => Has(rel)'
  BY <1>2 DEF Has
<1>4. ASSUME NEW n PROVE Foreign(n) => Foreign(n)'
  BY <1>1 DEF Foreign
<1>5. ASSUME NEW n PROVE CameSoft(n) => CameSoft(n)'
  BY <1>1 DEF CameSoft
<1>6. ASSUME NEW n PROVE ~Spared(n) => ~Spared(n)'
  BY DEF Spared
<1>7. ASSUME NEW n PROVE AllHas(n) => AllHas(n)'
  BY <1>3 DEF AllHas
<1> QED
  BY <1>2, <1>3, <1>4, <1>5, <1>6, <1>7

LEMMA HandledMoves ==
  ASSUME Moves, NEW rel, Handled(rel)
  PROVE  Handled(rel)'
<1>1. GrownBut({}) /\ filtered \subseteq filtered' /\ missing \subseteq missing'
  BY DEF Moves
<1>2. CASE Has(rel)
  BY <1>1, <1>2, Lasting DEF Handled
<1>3. CASE KmodRoot \o rel \in missing
  BY <1>1, <1>3 DEF Handled
<1>4. CASE Underway(KmodRoot \o rel)
  <2>1. CASE Underway(KmodRoot \o rel)'
    BY <2>1 DEF Handled
  <2>2. CASE Completed(KmodRoot \o rel)
    BY <2>2 DEF Completed, Handled, Has, Archived
  <2> QED
    BY <1>4, <2>1, <2>2 DEF Moves
<1>5. CASE Pending(rel)
  BY <1>5 DEF Moves
<1> QED
  BY <1>2, <1>3, <1>4, <1>5 DEF Handled

LEMMA OriginMoves ==
  ASSUME Moves, NEW m, Origin(m)
  PROVE  Origin(m)'
<1>1. \A i \in DOMAIN tasks' : tasks'[i].t = "hard" =>
        \E l \in DOMAIN tasks : tasks[l] = tasks'[i]
  BY DEF Moves
<1>2. \A i \in DOMAIN tasks' : tasks'[i].t = "hard" =>
        \E j \in DOMAIN Kmod[m].hard : Kmod[m].hard[j] = tasks'[i].rel
  BY <1>1 DEF Origin
<1>3. \A j \in DOMAIN Kmod[m].hard : Handled(Kmod[m].hard[j])'
  <2> TAKE j \in DOMAIN Kmod[m].hard
  <2> DEFINE rel == Kmod[m].hard[j]
  <2>1. Handled(rel)
    BY DEF Origin
  <2> HIDE DEF rel
  <2>2. Handled(rel)'
    BY <2>1, HandledMoves
  <2> QED
    BY <2>2 DEF rel
<1> QED
  BY <1>2, <1>3 DEF Origin

LEMMA OriginInvMoves ==
  ASSUME Moves, OriginInv
  PROVE  OriginInv'
<1>1. \A i \in DOMAIN tasks' : tasks'[i].t \in {"hard", "soft"} =>
        \E l \in DOMAIN tasks : tasks[l] = tasks'[i]
  BY DEF Moves
<1>2. ASSUME NEW i \in DOMAIN tasks', tasks'[i].t = "hard"
      PROVE  \E m \in Loadable : Origin(m)'
  <2>1. PICK m \in Loadable : Origin(m)
    BY <1>1, <1>2 DEF OriginInv
  <2> QED
    BY <2>1, OriginMoves
<1>3. ASSUME NEW i \in DOMAIN tasks', tasks'[i].t = "soft"
      PROVE  \E m \in DOMAIN Kmod : /\ SoftOf(m, tasks'[i].name)
                                    /\ ModPath(m) \in Archived' \/ Underway(ModPath(m))'
  <2>1. PICK m \in DOMAIN Kmod : /\ SoftOf(m, tasks'[i].name)
                                 /\ ModPath(m) \in Archived \/ Underway(ModPath(m))
    BY <1>1, <1>3 DEF OriginInv
  <2>2. Archived \subseteq Archived'
    BY Lasting DEF Moves
  <2>3. Underway(ModPath(m)) => Underway(ModPath(m))' \/ ModPath(m) \in Archived'
    <3>1. Completed(ModPath(m)) => ModPath(m) \in Archived'
      BY DEF Completed, Archived
    <3> QED
      BY <3>1 DEF Moves
  <2> QED
    BY <2>1, <2>2, <2>3
<1> QED
  BY <1>2, <1>3 DEF OriginInv

LEMMA ClosedMoves ==
  ASSUME Moves, NEW n \in Loadable, Closed(n)
  PROVE  Closed(n)'
<1>1. GrownBut({}) /\ filtered \subseteq filtered' /\ missing \subseteq missing'
  BY DEF Moves
<1>2. CASE Foreign(n) \/ CameSoft(n) \/ ~Spared(n) \/ AllHas(n)
  BY <1>1, <1>2, Lasting DEF Closed
<1>3. CASE SoftNow(n)
  <2>1. PICK m \in DOMAIN Kmod : ModPath(m) \in Archived /\ NamesSoft(m, n)
    BY <1>3 DEF SoftNow
  <2>2. PICK j \in DOMAIN out : out[j].path = ModPath(m)
    BY <2>1 DEF Archived
  <2>3. j \in DOMAIN out' /\ out'[j] = out[j] /\ ModPath(m) \in Archived'
    BY <1>1, <2>1, <2>2, Lasting DEF GrownBut, Grown
  <2>4. CASE Underway(ModPath(n))'
    BY <2>1, <2>3, <2>4 DEF Closed, SoftNow
  <2>5. CASE Completed(ModPath(n))
    <3>1. PICK k \in DOMAIN out' : out'[k].path = ModPath(n) /\ j < k
      BY <2>5 DEF Completed
    <3>2. CameSoft(n)'
      BY <2>1, <2>2, <2>3, <3>1 DEF CameSoft
    <3> QED
      BY <3>2 DEF Closed
  <2> QED
    BY <1>3, <2>4, <2>5 DEF SoftNow, Moves
<1>4. CASE \E m \in Loadable : ModPath(n) \in FilesOf(m) /\ Origin(m)
  BY <1>4, OriginMoves DEF Closed
<1> QED
  BY <1>2, <1>3, <1>4 DEF Closed

LEMMA ModInvMoves ==
  ASSUME Moves, ModInv,
         \A n \in Loadable : ModPath(n) \in Archived' \/ Underway(ModPath(n))' =>
           ModPath(n) \in Archived \/ Underway(ModPath(n)) \/ Closed(n)'
  PROVE  ModInv'
BY ClosedMoves DEF ModInv

-----------------------------------------------------------------------------
(* Steps that are none of gather_archive_kmod_and_deps().                  *)
Still ==
  /\ GrownBut({"kmod"}) /\ filtered \subseteq filtered' /\ missing \subseteq missing'
  /\ seen \subseteq seen' /\ UNCHANGED <<tasks, kwant>> /\ (Running' => Running)
  /\ cur.op = "kmod" \/ cur'.op = "kmod" => cur' = cur

LEMMA StillMoves ==
  ASSUME Still
  PROVE  Moves
<1>1. GrownBut({}) /\ filtered \subseteq filtered' /\ missing \subseteq missing'
  BY DEF Still, GrownBut, Grown
<1>2. ASSUME NEW p, Underway(p) PROVE Underway(p)'
  BY <1>2 DEF Still, Underway
<1>3. ASSUME NEW rel, Pending(rel) PROVE Handled(rel)'
  BY <1>3 DEF Still, Pending, Handled
<1>4. tasks' = tasks
  BY DEF Still
<1> QED
  BY <1>1, <1>2, <1>3, <1>4 DEF Moves

LEMMA StillInv ==
  ASSUME KmodInv, Still
  PROVE  KmodInv'
<1> SUFFICES ASSUME Running' PROVE (QueueInv /\ OriginInv /\ ModInv /\ WantInv)'
  BY DEF KmodInv
<1>1. Running /\ QueueInv /\ OriginInv /\ ModInv /\ WantInv
  BY DEF KmodInv, Still
<1>2. Moves
  BY StillMoves
<1>3. tasks' = tasks /\ kwant' = kwant /\ seen \subseteq seen'
  BY DEF Still
<1>4. QueueInv' /\ WantInv'
  BY <1>1, <1>3 DEF QueueInv, WantInv
<1>5. ASSUME NEW n \in Loadable, ModPath(n) \in Archived' \/ Underway(ModPath(n))'
      PROVE  ModPath(n) \in Archived \/ Underway(ModPath(n)) \/ Closed(n)'
  <2>1. CASE Underway(ModPath(n))'
    BY <2>1 DEF Still, Underway
  <2>2. CASE ModPath(n) \in Archived'
    <3>1. PICK k \in DOMAIN out' : out'[k].path = ModPath(n)
      BY <2>2 DEF Archived
    <3>2. (k \in DOMAIN out /\ out'[k] = out[k]) \/ out'[k].via # "kmod"
      BY DEF Still, GrownBut, Grown
    <3>3. CASE k \in DOMAIN out /\ out'[k] = out[k]
      BY <3>1, <3>3 DEF Archived
    <3>4. CASE out'[k].via # "kmod"
      BY <3>1, <3>4 DEF Closed, Foreign
    <3> QED
      BY <3>2, <3>3, <3>4
  <2> QED
    BY <1>5, <2>1, <2>2
<1> QED
  BY <1>1, <1>2, <1>4, <1>5, OriginInvMoves, ModInvMoves

LEMMA StillHolds ==
  ASSUME GrownBut({"kmod"}), filtered \subseteq filtered', missing \subseteq missing',
         seen \subseteq seen', UNCHANGED <<tasks, kwant>>, Running,
         cur' = cur \/ (cur.op # "kmod" /\ cur'.op # "kmod")
  PROVE  Still
BY DEF Still

(* gather_archive_dirs().                                                  *)
LEMMA DirsStill ==
  ASSUME ArchiveTypeOK, gather_archive_dirs, UNCHANGED <<tasks, kwant>>
  PROVE  Still
<1>1. Running /\ UNCHANGED <<cur, filtered, missing>> /\ seen \subseteq seen'
  BY DEF gather_archive_dirs, DirUp, DirInvalid, DirSeen, DirArchive, Walking
<1>2. GrownBut({"kmod"})
  <2>1. CASE UNCHANGED out
    BY <2>1, GrownNone
  <2>2. CASE DirArchive
    <3> DEFINE e == [path |-> here', type |-> "dir", via |-> "walk"]
    <3>1. out \in Seq(OutType) /\ here' \in Path /\ out' = Append(out, e)
      BY <2>2, DirsType DEF DirArchive, Write, ArchiveTypeOK, OutType
    <3>2. e \in OutType /\ e.via \notin {"kmod"}
      BY <3>1 DEF OutType, Types
    <3> HIDE DEF e
    <3> QED
      BY <3>1, <3>2, GrownOne
  <2> QED
    BY <2>1, <2>2 DEF gather_archive_dirs, DirUp, DirInvalid, DirSeen
<1> QED
  BY <1>1, <1>2, StillHolds

(* An entry of another routine completed.                                  *)
LEMMA FinishStill ==
  ASSUME ArchiveTypeOK, Running, NEW t \in Types, NEW via \in Ops \union {"line"},
         via # "kmod", Finish(t, via), cur.op # "kmod", UNCHANGED <<tasks, kwant>>
  PROVE  Still
<1>1. GrownBut({"kmod"}) /\ seen \subseteq seen' /\ cur' = NoEntry
  BY FinishGrown
<1>2. filtered' = filtered /\ missing' = missing /\ cur'.op # "kmod"
  BY <1>1 DEF Finish, NoEntry, Entry
<1> QED
  BY <1>1, <1>2, StillHolds

(* gather_archive_elfs().                                                  *)
LEMMA ElfsStill ==
  ASSUME ArchiveTypeOK, gather_archive_elfs, UNCHANGED <<tasks, kwant>>
  PROVE  Still
<1>1. CASE ElfLink \/ ElfFile \/ ElfDir \/ ElfOther
  <2>1. Running /\ cur.op \in ElfOps
    BY <1>1 DEF ElfLink, ElfFile, ElfDir, ElfOther, ElfWalked, Walked
  <2>2. cur.op \in Ops /\ cur.op # "kmod" /\ cur.src \in DOMAIN Host
    BY <2>1 DEF ElfOps, Ops, HostOps, ArchiveTypeOK
  <2>3. Node.type \in Types /\ {"lnk", "reg", "dir"} \subseteq Types
    BY <2>2, HostAssumption DEF Node, Types
  <2>4. \E t \in Types : Finish(t, cur.op)
    BY <1>1, <2>3 DEF ElfLink, ElfFile, ElfDir, ElfOther
  <2> QED
    BY <2>1, <2>2, <2>4, FinishStill
<1>2. CASE ElfTryMissing \/ ElfMissing \/ ElfSeen \/ ElfLinkInvalid
  <2>1. Running /\ UNCHANGED <<out, cur, seen, filtered, missing>>
    BY <1>2 DEF ElfTryMissing, ElfMissing, ElfSeen, ElfLinkInvalid, ElfReady, Walked, archiveVars
  <2> QED
    BY <2>1, GrownNone, StillHolds
<1>3. CASE ElfLinkDangling \/ ElfBegin
  <2>1. Running /\ UNCHANGED <<out, seen, filtered, missing>>
    BY <1>3 DEF ElfLinkDangling, ElfBegin, ElfReady, ElfWalked, Walked
  <2>2. cur.op # "kmod" /\ cur'.op # "kmod"
    <3>1. CASE ElfLinkDangling
      <4>1. cur.op \in ElfOps /\ cur' = NoEntry
        BY <3>1 DEF ElfLinkDangling, ElfWalked, Walked
      <4> QED
        BY <4>1 DEF ElfOps, NoEntry, Entry
    <3>2. CASE ElfBegin
      <4>1. cur = NoEntry
        BY <3>2 DEF ElfBegin, ElfReady
      <4>2. PICK p \in DOMAIN Host :
              cur' = Entry(CASE Top.k = "NameDst" -> "elfdst" [] Top.k = "Lib" -> "elflib"
                             [] Top.k = "Path" -> "elfchild" [] OTHER -> "elf", ElfDst(p), p)
        BY <3>2 DEF ElfBegin, Begin
      <4> QED
        BY <4>1, <4>2 DEF NoEntry, Entry
    <3> QED
      BY <1>3, <3>1, <3>2
  <2> QED
    BY <2>1, <2>2, GrownNone, StillHolds
<1> QED
  BY <1>1, <1>2, <1>3 DEF gather_archive_elfs

(* gather_archive_data().                                                  *)
LEMMA DataStill ==
  ASSUME ArchiveTypeOK, gather_archive_data, UNCHANGED <<tasks, kwant>>
  PROVE  Still
<1>1. CASE DataDir \/ DataLeaf
  <2>1. Running /\ cur.op \in {"tree", "child"}
    BY <1>1 DEF DataDir, DataLeaf, DataWalked, Walked
  <2>2. cur.op \in Ops /\ cur.op # "kmod" /\ cur.src \in DOMAIN Host
    BY <2>1 DEF Ops, HostOps, ArchiveTypeOK
  <2>3. Host[cur.src].type \in Types /\ "dir" \in Types
    BY <2>2, HostAssumption DEF Types
  <2>4. \E t \in Types : Finish(t, cur.op)
    BY <1>1, <2>3 DEF DataDir, DataLeaf
  <2> QED
    BY <2>1, <2>2, <2>4, FinishStill
<1>2. CASE DataMissing \/ DataSeen \/ DataBegin
  <2>1. Running /\ UNCHANGED <<out, filtered, missing>> /\ seen \subseteq seen' /\ cur = NoEntry
    BY <1>2 DEF DataMissing, DataSeen, DataBegin, DataReady, archiveVars
  <2>2. cur' = cur \/ cur'.op \in {"tree", "child"}
    BY <1>2 DEF DataMissing, DataSeen, DataBegin, Begin, Entry, archiveVars
  <2>3. cur' = cur \/ (cur.op # "kmod" /\ cur'.op # "kmod")
    BY <2>1, <2>2 DEF NoEntry, Entry
  <2> QED
    BY <2>1, <2>3, GrownNone, StillHolds
<1> QED
  BY <1>1, <1>2 DEF gather_archive_data

(* A manifest line, other than kmod and try-kmod.                          *)
LEMMA LinesStill ==
  ASSUME TypeOK, LineStep, ~LineKmod
  PROVE  Still
<1>1. ArchiveTypeOK
  BY DEF TypeOK
<1>2. ASSUME Reading PROVE Running /\ cur = NoEntry /\ cur.op # "kmod"
  BY <1>2 DEF Reading, Running, Idle, NoEntry, Entry
<1>3. CASE LineArchive
  <2>1. Running /\ cur.op # "kmod" /\ \E t \in Types : Finish(t, "line")
    BY <1>3 DEF LineArchive, Walked, Types
  <2>2. UNCHANGED <<tasks, kwant>>
    BY <1>3 DEF LineArchive, kmodVars, cutVars
  <2> QED
    BY <1>1, <2>1, <2>2, FinishStill
<1>4. CASE LineInclude \/ LineFilter \/ LineBin \/ LineTree
  <2>1. /\ Reading /\ UNCHANGED <<out, cur, missing, tasks, kwant>>
        /\ seen \subseteq seen' /\ filtered \subseteq filtered'
    BY <1>4 DEF LineInclude, LineFilter, LineBin, LineTree, archiveVars, kmodVars
  <2> QED
    BY <1>2, <2>1, GrownNone, StillHolds
<1>5. CASE LineEntry
  <2>1. /\ Reading /\ UNCHANGED <<out, seen, filtered, missing, tasks, kwant>>
        /\ L.k \in {"dir", "slink", "file"}
    BY <1>5 DEF LineEntry, kmodVars
  <2>2. cur' = cur \/ cur' = Entry(L.k, L.dst, L.src)
    BY <1>5 DEF LineEntry, Begin
  <2>3. cur' = cur \/ (cur.op # "kmod" /\ cur'.op # "kmod")
    BY <1>2, <2>1, <2>2 DEF Entry
  <2> QED
    BY <1>2, <2>1, <2>3, GrownNone, StillHolds
<1>6. CASE LineAutorun
  <2>1. Reading /\ UNCHANGED <<cur, filtered, missing, tasks, kwant>> /\ seen \subseteq seen'
    BY <1>6 DEF LineAutorun, kmodVars
  <2>2. GrownBut({"kmod"})
    BY <1>6, AutorunGrown
  <2> QED
    BY <1>2, <2>1, <2>2, StillHolds
<1> QED
  BY <1>3, <1>4, <1>5, <1>6 DEF LineStep

(* main(), but for the configured kernel modules.                          *)
LEMMA MainStill ==
  ASSUME TypeOK, MainStep, ~MainKmods
  PROVE  Still
<1>1. ArchiveTypeOK /\ "reg" \in Types /\ "lnk" \in Types /\ "trailer" \in Types
      /\ "main" \notin {"kmod"}
  BY DEF TypeOK, Types
<1>2. ASSUME NEW p \in Path, NEW t \in Types, Write(p, t, "main") \/ UNCHANGED out,
             Running, UNCHANGED <<seen, cur, filtered, missing, kmodVars, kwant>>
      PROVE  Still
  <2>1. GrownBut({"kmod"})
    BY <1>1, <1>2, MainGrown
  <2> QED
    BY <1>2, <2>1, StillHolds DEF kmodVars
<1>3. ASSUME NEW from \in {"lib64", "bin", "sbin"}, NEW to, NEW p \in Path, Link(from, to, p)
      PROVE  Still
  <2>1. /\ Running /\ UNCHANGED <<seen, cur, filtered, missing, kmodVars, kwant>>
        /\ Write(p, "lnk", "main") \/ UNCHANGED out
    BY <1>3 DEF Link, Running, cutVars
  <2> QED
    BY <1>1, <1>2, <2>1
<1>4. CASE MainConf
  BY <1>1, <1>2, <1>4, LiteralPaths DEF MainConf, Running, cutVars
<1>5. CASE MainRc
  BY <1>1, <1>2, <1>5, LiteralPaths DEF MainRc, Running, cutVars
<1>6. CASE MainSbin
  <2>1. CASE Running /\ UNCHANGED <<seen, out, cur, filtered, missing, kmodVars, kwant>>
    BY <1>1, <1>2, <2>1, LiteralPaths
  <2> QED
    BY <1>3, <1>6, <2>1, LiteralPaths DEF MainSbin, Running, cutVars
<1>7. CASE MainKmodsLink
  <2>1. KmodsLink \in Path
    BY LiteralPaths DEF KmodsLink
  <2> QED
    BY <1>1, <1>2, <1>7, <2>1 DEF MainKmodsLink, Running, cutVars
<1>8. CASE MainTrailer
  BY <1>1, <1>2, <1>8, LiteralPaths DEF MainTrailer, Running, cutVars
<1> QED
  BY <1>3, <1>4, <1>5, <1>6, <1>7, <1>8, LiteralPaths DEF MainStep

-----------------------------------------------------------------------------
(* The steps of gather_archive_kmod_and_deps().                            *)

(* The queue without its first task.                                       *)
LEMMA Rest ==
  ASSUME tasks \in Seq(TaskType), tasks # <<>>
  PROVE  /\ 1 \in DOMAIN tasks /\ Tail(tasks) \in Seq(TaskType)
         /\ \A i \in DOMAIN Tail(tasks) : i \in Nat /\ i + 1 \in DOMAIN tasks
                                          /\ Tail(tasks)[i] = tasks[i + 1]
         /\ \A i \in DOMAIN tasks : i \in Nat /\ i >= 1
              /\ (i = 1 \/ (i - 1 \in DOMAIN Tail(tasks) /\ Tail(tasks)[i - 1] = tasks[i]))
<1>1. /\ Len(tasks) \in Nat /\ DOMAIN tasks = 1..Len(tasks) /\ Len(tasks) # 0
  BY LenProperties, EmptySeq
<1>2. /\ Tail(tasks) \in Seq(TaskType) /\ Len(Tail(tasks)) = Len(tasks) - 1
      /\ \A i \in 1..Len(Tail(tasks)) : Tail(tasks)[i] = tasks[i + 1]
  BY HeadTailProperties
<1>3. DOMAIN Tail(tasks) = 1..(Len(tasks) - 1)
  BY <1>2, LenProperties
<1> QED
  BY <1>1, <1>2, <1>3

(* The parts of the queue's invariant that an action cannot disturb when   *)
(* it only takes the first task away.                                      *)
LEMMA RestInv ==
  ASSUME tasks \in Seq(TaskType), tasks # <<>>, tasks' = Tail(tasks), QueueInv
  PROVE  /\ QueueInv'
         /\ \A i \in DOMAIN tasks' : \E l \in DOMAIN tasks : tasks[l] = tasks'[i]
         /\ \A l \in DOMAIN tasks : l = 1 \/ \E i \in DOMAIN tasks' : tasks'[i] = tasks[l]
<1>1. \A i \in DOMAIN tasks' : i \in Nat /\ i + 1 \in DOMAIN tasks /\ tasks'[i] = tasks[i + 1]
  BY Rest
<1>2. QueueInv'
  <2>1. ASSUME NEW i \in DOMAIN tasks', NEW j \in DOMAIN tasks', i < j, tasks'[i].t \in Later
        PROVE  tasks'[j].t \in Later
    <3>1. i + 1 \in DOMAIN tasks /\ j + 1 \in DOMAIN tasks /\ i + 1 < j + 1
      BY <1>1, <2>1
    <3> QED
      BY <1>1, <2>1, <3>1 DEF QueueInv
  <2>2. ASSUME NEW i \in DOMAIN tasks', tasks'[i].t = "db"
        PROVE  \E j \in DOMAIN KmodDb : tasks'[i].rel = KmodDb[j]
    BY <1>1, <2>2 DEF QueueInv
  <2>3. ASSUME NEW i \in DOMAIN tasks', NEW j \in DOMAIN tasks', tasks'[i].try, tasks'[j].t = "root"
        PROVE  tasks'[j].try
    BY <1>1, <2>3 DEF QueueInv
  <2> QED
    BY <2>1, <2>2, <2>3 DEF QueueInv
<1>3. \A l \in DOMAIN tasks : l = 1 \/ \E i \in DOMAIN tasks' : tasks'[i] = tasks[l]
  BY Rest
<1> QED
  BY <1>1, <1>2, <1>3

(* A wanted module stays wanted when the first task is not its root task,  *)
(* or its path is seen.                                                    *)
LEMMA RestWant ==
  ASSUME tasks \in Seq(TaskType), tasks # <<>>, tasks' = Tail(tasks), QueueInv, WantInv,
         kwant' = kwant, seen \subseteq seen',
         Task1.t = "root" => (Task1.name \in Loadable => ModPath(Task1.name) \in seen')
  PROVE  WantInv'
<1> SUFFICES ASSUME NEW n \in kwant \intersect Loadable, ModPath(n) \notin seen'
             PROVE  \E i \in DOMAIN tasks' :
                      tasks'[i].t = "root" /\ tasks'[i].name = n /\ ~tasks'[i].try
  BY DEF WantInv
<1>1. PICK l \in DOMAIN tasks : tasks[l].t = "root" /\ tasks[l].name = n /\ ~tasks[l].try
  BY DEF WantInv
<1>2. l # 1
  BY <1>1 DEF Task1
<1>3. PICK i \in DOMAIN tasks' : tasks'[i] = tasks[l]
  BY <1>2, RestInv
<1> QED
  BY <1>1, <1>3

(* The entry in progress is written.                                       *)
LEMMA ArchiveMoves ==
  ASSUME TypeOK, KmodArchive
  PROVE  /\ Moves /\ seen \subseteq seen'
         /\ \A p : p \in Archived' \/ Underway(p)' => p \in Archived \/ Underway(p)
<1> DEFINE e == [path |-> cur.dst, type |-> "reg", via |-> "kmod"]
<1>1. ArchiveTypeOK /\ cur.op = "kmod" /\ Finish("reg", "kmod") /\ tasks' = tasks
  BY DEF TypeOK, KmodArchive, Walked, kmodVars
<1>2. out \in Seq(OutType) /\ e \in OutType /\ out' = Append(out, e)
  BY <1>1 DEF Finish, Write, ArchiveTypeOK, OutType, Types
<1>3. /\ GrownBut({}) /\ seen \subseteq seen' /\ cur' = NoEntry
      /\ filtered' = filtered /\ missing' = missing
  BY <1>1, FinishGrown DEF Types, Ops, Finish
<1> HIDE DEF e
<1>4. /\ DOMAIN out' = DOMAIN out \union {Len(out) + 1} /\ out'[Len(out) + 1] = e
      /\ \A k \in DOMAIN out : out'[k] = out[k]
  BY ONLY <1>2, AppendEntry
<1>5. \A j \in DOMAIN out : j < Len(out) + 1
  BY <1>2, LenProperties
<1>6. Completed(cur.dst)
  <2>1. out'[Len(out) + 1].path = cur.dst
    BY <1>4 DEF e
  <2> QED
    BY <1>4, <1>5, <2>1 DEF Completed
<1>7. ASSUME NEW p, Underway(p) PROVE Completed(p)
  BY <1>6, <1>7 DEF Underway
<1>8. ASSUME NEW rel, Pending(rel) PROVE Handled(rel)'
  BY <1>1, <1>8 DEF Pending, Handled
<1>9. Moves
  BY <1>1, <1>3, <1>7, <1>8 DEF Moves
<1>10. \A p : ~Underway(p)'
  BY <1>3 DEF Underway, NoEntry, Entry
<1>11. ASSUME NEW p \in Archived' PROVE p \in Archived \/ Underway(p)
  <2>1. PICK k \in DOMAIN out' : out'[k].path = p
    BY DEF Archived
  <2>2. CASE k \in DOMAIN out
    BY <1>4, <2>1, <2>2 DEF Archived
  <2>3. CASE k = Len(out) + 1
    BY <1>1, <1>4, <2>1, <2>3 DEF e, Underway
  <2> QED
    BY <1>4, <2>2, <2>3
<1> QED
  BY <1>3, <1>9, <1>10, <1>11

(* What a step of this routine starts from.                                *)
LEMMA ReadyFacts ==
  ASSUME OrderInv, KmodReady
  PROVE  /\ tasks \in Seq(TaskType) /\ tasks # <<>> /\ 1 \in DOMAIN tasks
         /\ Task1 \in TaskType /\ cur = NoEntry /\ \A p : ~Underway(p)
         /\ \A rel : KmodRoot \o rel \in seen =>
                       Has(rel) \/ KmodRoot \o rel \in missing
<1>1. tasks \in Seq(TaskType) /\ tasks # <<>> /\ cur = NoEntry
  BY DEF OrderInv, TypeOK, KmodReady
<1>2. 1 \in DOMAIN tasks
  BY <1>1, Rest
<1>3. Task1 \in TaskType
  BY <1>1, SeqTypes DEF Task1
<1>4. cur.op = "none"
  BY <1>1 DEF NoEntry, Entry
<1>5. \A rel : KmodRoot \o rel \in seen => Has(rel) \/ KmodRoot \o rel \in missing
  BY <1>4 DEF OrderInv, SeenInv, Covered, Has
<1>6. \A p : ~Underway(p)
  BY <1>4 DEF Underway
<1> QED
  BY <1>1, <1>2, <1>3, <1>5, <1>6

(* A root task's module.                                                   *)
LEMMA RootFacts ==
  ASSUME KmodReady, HasFile, Task1.t = "root"
  PROVE  Task1.name \in Loadable /\ KmodDst = ModPath(Task1.name)
BY DEF HasFile, Named, Found, Builtin, Loadable, KmodDst, Rel, ModPath

(* With a root task ahead, no task of a module is left.                    *)
LEMMA RootAhead ==
  ASSUME OrderInv, KmodReady, QueueInv, Task1.t = "root"
  PROVE  \A i \in DOMAIN tasks : tasks[i].t \in Later
<1>1. 1 \in DOMAIN tasks /\ \A i \in DOMAIN tasks : i \in Nat /\ i >= 1
  BY ReadyFacts, Rest
<1>2. \A i \in DOMAIN tasks : i = 1 \/ 1 < i
  BY <1>1
<1> QED
  BY <1>1, <1>2 DEF QueueInv, Task1, Later

(* A task that is done with: seen, builtin or not known.                   *)
LEMMA SkipInv ==
  ASSUME OrderInv, KmodInv, KmodSkip, kwant' = kwant
  PROVE  KmodInv'
<1>1. KmodReady /\ Running /\ QueueInv /\ OriginInv /\ ModInv /\ WantInv
  BY DEF KmodSkip, KmodReady, KmodInv
<1>2. /\ tasks' = Tail(tasks) /\ out' = out /\ cur' = cur /\ seen' = seen
      /\ filtered' = filtered /\ missing' = missing
  BY DEF KmodSkip, archiveVars
<1>3. /\ QueueInv' /\ \A i \in DOMAIN tasks' : \E l \in DOMAIN tasks : tasks[l] = tasks'[i]
      /\ \A l \in DOMAIN tasks : l = 1 \/ \E i \in DOMAIN tasks' : tasks'[i] = tasks[l]
  BY <1>1, <1>2, ReadyFacts, RestInv
<1>4. GrownBut({}) /\ filtered \subseteq filtered' /\ missing \subseteq missing'
  BY <1>2, GrownNone
<1>5. \A p : ~Underway(p) /\ ~Underway(p)'
  BY <1>1, <1>2, ReadyFacts DEF Underway
<1>6. ASSUME NEW rel, Pending(rel) PROVE Handled(rel)'
  <2>1. PICK l \in DOMAIN tasks : tasks[l].t = "hard" /\ tasks[l].rel = rel
    BY <1>6 DEF Pending
  <2>2. CASE l = 1
    <3>1. KmodRoot \o rel \in seen
      BY <2>1, <2>2 DEF KmodSkip, Task1, Named, Builtin, HasFile, KmodDst, Rel
    <3>2. Has(rel) \/ KmodRoot \o rel \in missing
      BY <1>1, <3>1, ReadyFacts
    <3> QED
      BY <1>2, <1>4, <3>2, Lasting DEF Handled
  <2>3. CASE l # 1
    BY <1>3, <2>1, <2>3 DEF Handled, Pending
  <2> QED
    BY <2>2, <2>3
<1>7. Moves
  BY <1>3, <1>4, <1>5, <1>6 DEF Moves
<1>8. WantInv'
  <2>1. ASSUME Task1.t = "root", Task1.name \in Loadable PROVE ModPath(Task1.name) \in seen'
    BY <1>2, <2>1
    DEF KmodSkip, Named, Builtin, Found, HasFile, KmodDst, Rel, Loadable, ModPath
  <2> QED
    BY <1>1, <1>2, <2>1, ReadyFacts, RestWant
<1>9. Archived' = Archived
  BY <1>2 DEF Archived
<1> QED
  BY <1>1, <1>3, <1>5, <1>7, <1>8, <1>9, OriginInvMoves, ModInvMoves DEF KmodInv

(* Giving up the rest of a call, where missing modules are allowed.        *)
LEMMA GivenUp ==
  ASSUME OrderInv, KmodInv, KmodReady, Task1.try, tasks' = <<>>, kwant' = kwant,
         seen \subseteq seen'
  PROVE  QueueInv' /\ OriginInv' /\ WantInv'
<1>1. QueueInv /\ WantInv /\ 1 \in DOMAIN tasks
  BY ReadyFacts DEF KmodInv, KmodReady
<1>2. DOMAIN tasks' = {}
  OBVIOUS
<1>3. QueueInv' /\ OriginInv'
  BY <1>2 DEF QueueInv, OriginInv
<1>4. ~\E i \in DOMAIN tasks : tasks[i].t = "root" /\ ~tasks[i].try
  BY <1>1 DEF QueueInv, Task1
<1>5. WantInv'
  BY <1>1, <1>4 DEF WantInv
<1> QED
  BY <1>3, <1>5

(* A root module find() does not know.                                     *)
LEMMA UnknownInv ==
  ASSUME OrderInv, KmodInv, KmodUnknown, kwant' = kwant
  PROVE  KmodInv'
<1> SUFFICES ASSUME Running' PROVE (QueueInv /\ OriginInv /\ ModInv /\ WantInv)'
  BY DEF KmodInv
<1>1. /\ KmodReady /\ Task1.t = "root" /\ tasks' = <<>> /\ out' = out /\ cur' = cur
      /\ seen' = seen /\ filtered' = filtered /\ missing' = missing
  BY DEF KmodUnknown, KmodNotFound
<1>2. Task1.try
  BY DEF KmodUnknown, KmodNotFound, Fail, Running
<1>3. Running /\ QueueInv /\ ModInv
  BY <1>1 DEF KmodInv, KmodReady
<1>4. \A p : ~Underway(p) /\ ~Underway(p)'
  BY <1>1, ReadyFacts DEF Underway
<1>5. \A i \in DOMAIN tasks : tasks[i].t # "hard"
  BY <1>1, <1>3, RootAhead DEF Later
<1>6. Moves
  <2>1. GrownBut({}) /\ DOMAIN tasks' = {}
    BY <1>1, GrownNone
  <2>2. \A rel : ~Pending(rel)
    BY <1>5 DEF Pending
  <2> QED
    BY <1>1, <1>4, <2>1, <2>2 DEF Moves
<1>7. Archived' = Archived
  BY <1>1 DEF Archived
<1> QED
  BY <1>1, <1>2, <1>3, <1>4, <1>6, <1>7, GivenUp, ModInvMoves

(* A file that is not there.                                               *)
LEMMA MissingInv ==
  ASSUME OrderInv, KmodInv, KmodMissing, kwant' = kwant
  PROVE  KmodInv'
<1> SUFFICES ASSUME Running' PROVE (QueueInv /\ OriginInv /\ ModInv /\ WantInv)'
  BY DEF KmodInv
<1>1. /\ KmodReady /\ HasFile /\ out' = out /\ cur' = cur /\ filtered' = filtered
      /\ seen' = seen \union {KmodDst} /\ missing' = missing \union {KmodDst}
  BY DEF KmodMissing
<1>2. Running /\ QueueInv /\ OriginInv /\ ModInv /\ WantInv
  BY <1>1 DEF KmodInv, KmodReady
<1>3. \A p : ~Underway(p) /\ ~Underway(p)'
  BY <1>1, ReadyFacts DEF Underway
<1>4. GrownBut({}) /\ filtered \subseteq filtered' /\ missing \subseteq missing'
  BY <1>1, GrownNone
<1>5. Archived' = Archived
  BY <1>1 DEF Archived
<1>6. CASE ~Mandatory
  <2>1. tasks' = Tail(tasks) /\ Task1.t \notin {"root", "hard"}
    BY <1>6 DEF KmodMissing, Mandatory
  <2>2. /\ QueueInv' /\ \A i \in DOMAIN tasks' : \E l \in DOMAIN tasks : tasks[l] = tasks'[i]
        /\ \A l \in DOMAIN tasks : l = 1 \/ \E i \in DOMAIN tasks' : tasks'[i] = tasks[l]
    BY <1>1, <1>2, <2>1, ReadyFacts, RestInv
  <2>3. ASSUME NEW rel, Pending(rel) PROVE Handled(rel)'
    BY <2>1, <2>2, <2>3 DEF Pending, Handled, Task1
  <2>4. Moves
    BY <1>3, <1>4, <2>2, <2>3 DEF Moves
  <2>5. WantInv'
    BY <1>1, <1>2, <2>1, ReadyFacts, RestWant
  <2> QED
    BY <1>2, <1>3, <1>5, <2>2, <2>4, <2>5, OriginInvMoves, ModInvMoves
<1>7. CASE Mandatory
  <2>1. tasks' = <<>> /\ Task1.try
    BY <1>7 DEF KmodMissing, KmodNotFound, Fail, Running
  <2>2. QueueInv' /\ OriginInv' /\ WantInv'
    BY <1>1, <2>1, GivenUp
  <2>3. CASE Task1.t = "root"
    <3>1. \A i \in DOMAIN tasks : tasks[i].t # "hard"
      BY <1>1, <1>2, <2>3, RootAhead DEF Later
    <3>2. (\A rel : ~Pending(rel)) /\ DOMAIN tasks' = {}
      BY <2>1, <3>1 DEF Pending
    <3>3. Moves
      BY <1>3, <1>4, <3>2 DEF Moves
    <3> QED
      BY <1>2, <1>3, <1>5, <2>2, <3>3, ModInvMoves
  <2>4. CASE Task1.t = "hard"
    <3>1. 1 \in DOMAIN tasks /\ KmodDst = KmodRoot \o Task1.rel
      BY <1>1, <2>4, ReadyFacts DEF KmodDst, Rel, Named
    <3>2. ASSUME NEW n \in Loadable, Closed(n) PROVE Closed(n)'
      <4>1. CASE Foreign(n) \/ CameSoft(n) \/ ~Spared(n) \/ AllHas(n)
        BY <1>4, <4>1, Lasting DEF Closed
      <4>2. CASE \E m \in Loadable : ModPath(n) \in FilesOf(m) /\ Origin(m)
        <5>1. PICK m \in Loadable : ModPath(n) \in FilesOf(m) /\ Origin(m)
          BY <4>2
        <5>2. PICK j \in DOMAIN Kmod[m].hard : Kmod[m].hard[j] = Task1.rel
          BY <2>4, <3>1, <5>1 DEF Origin, Task1
        <5>3. KmodDst \in FilesOf(m) /\ KmodDst \in missing'
          BY <1>1, <3>1, <5>2 DEF FilesOf
        <5> QED
          BY <5>1, <5>3 DEF Closed, Spared
      <4> QED
        BY <1>3, <3>2, <4>1, <4>2 DEF Closed, SoftNow
    <3>3. ModInv'
      BY <1>2, <1>3, <1>5, <3>2 DEF ModInv
    <3> QED
      BY <2>2, <3>3
  <2> QED
    BY <1>7, <2>3, <2>4 DEF Mandatory
<1> QED
  BY <1>6, <1>7

(* A file that is there, other than that of a root task.                   *)
LEMMA BeginInv ==
  ASSUME OrderInv, KmodInv, KmodBegin, kwant' = kwant, Task1.t # "root"
  PROVE  KmodInv'
<1>1. /\ KmodReady /\ HasFile /\ out' = out /\ filtered' = filtered /\ missing' = missing
      /\ seen' = seen \union {KmodDst} /\ cur' = Entry("kmod", KmodDst, Rel)
  BY DEF KmodBegin, Begin
<1>2. Running /\ QueueInv /\ OriginInv /\ ModInv /\ WantInv
  BY <1>1 DEF KmodInv, KmodReady
<1>3. tasks \in Seq(TaskType) /\ tasks # <<>> /\ 1 \in DOMAIN tasks /\ Task1 \in TaskType
  BY <1>1, ReadyFacts
<1>4. tasks' = Tail(tasks)
  <2>1. tasks' = <<>> \o Tail(tasks) /\ Tail(tasks) \in Seq(TaskType)
    BY <1>3, Rest DEF KmodBegin
  <2> QED
    BY <2>1, ConcatEmptySeq
<1>5. \A p : ~Underway(p) /\ (Underway(p)' <=> p = KmodDst)
  BY <1>1, ReadyFacts DEF Underway, Entry
<1>6. GrownBut({}) /\ filtered \subseteq filtered' /\ missing \subseteq missing'
  BY <1>1, GrownNone
<1>7. Archived' = Archived
  BY <1>1 DEF Archived
<1>8. /\ QueueInv' /\ \A i \in DOMAIN tasks' : \E l \in DOMAIN tasks : tasks[l] = tasks'[i]
      /\ \A l \in DOMAIN tasks : l = 1 \/ \E i \in DOMAIN tasks' : tasks'[i] = tasks[l]
  BY <1>2, <1>3, <1>4, RestInv
<1>9. ASSUME NEW rel, Pending(rel) PROVE Handled(rel)'
  <2>1. PICK l \in DOMAIN tasks : tasks[l].t = "hard" /\ tasks[l].rel = rel
    BY <1>9 DEF Pending
  <2>2. CASE l = 1
    BY <1>5, <2>1, <2>2 DEF Task1, KmodDst, Rel, Named, Handled
  <2>3. CASE l # 1
    BY <1>8, <2>1, <2>3 DEF Handled, Pending
  <2> QED
    BY <2>2, <2>3
<1>10. Moves
  BY <1>5, <1>6, <1>8, <1>9 DEF Moves
<1>11. WantInv'
  BY <1>1, <1>2, <1>3, <1>4, RestWant
<1>12. ASSUME NEW n \in Loadable, ModPath(n) = KmodDst PROVE Closed(n)'
  <2>1. Kmod[n].rel \in Path /\ Rel \in Path /\ Kmod[n].rel = Rel
    <3>1. Kmod[n].rel \in Path
      BY KmodAssumption DEF Loadable
    <3>2. Rel \in Path
      BY <1>1, <1>3, KmodEntryType
    <3> QED
      BY <1>12, <3>1, <3>2, ConcatCancel DEF ModPath, KmodDst
  <2>2. CASE Task1.t = "db"
    <3>1. \E j \in DOMAIN KmodDb : KmodDb[j] = Kmod[n].rel
      BY <1>2, <1>3, <2>1, <2>2 DEF QueueInv, Task1, Rel, Named
    <3> QED
      BY <3>1, KmodFileAssumption
  <2>3. CASE Task1.t = "hard"
    <3>1. PICK m \in Loadable : Origin(m)
      BY <1>2, <1>3, <2>3 DEF OriginInv, Task1
    <3>2. PICK j \in DOMAIN Kmod[m].hard : Kmod[m].hard[j] = Task1.rel
      BY <1>3, <2>3, <3>1 DEF Origin, Task1
    <3>3. ModPath(n) \in FilesOf(m)
      BY <1>12, <2>3, <3>2 DEF FilesOf, KmodDst, Rel, Named
    <3>4. Origin(m)'
      BY <1>10, <3>1, OriginMoves
    <3> QED
      BY <3>1, <3>3, <3>4 DEF Closed
  <2>4. CASE Task1.t = "soft"
    <3>1. PICK m \in DOMAIN Kmod : SoftOf(m, Task1.name) /\ ModPath(m) \in Archived
      BY <1>2, <1>3, <1>5, <2>4 DEF OriginInv, Task1
    <3>2. Task1.name \in DOMAIN Kmod /\ Kmod[Task1.name].rel = Kmod[n].rel
      BY <1>1, <2>1, <2>4 DEF HasFile, Named, Found, Rel
    <3>3. NamesSoft(m, n)
      BY <3>1, <3>2 DEF SoftOf, NamesSoft
    <3>4. SoftNow(n)'
      BY <1>5, <1>7, <1>12, <3>1, <3>3 DEF SoftNow
    <3> QED
      BY <3>4 DEF Closed
  <2> QED
    BY <1>3, <2>2, <2>3, <2>4 DEF TaskType
<1>13. ModInv'
  BY <1>2, <1>5, <1>7, <1>10, <1>12, ModInvMoves
<1> QED
  BY <1>2, <1>8, <1>10, <1>11, <1>13, OriginInvMoves DEF KmodInv

(* The queue to which a root module adds its dependencies: each task with  *)
(* where it comes from, a of them hard and b of them soft.                 *)
IsHard(x, rel) == x.t = "hard" /\ x.rel = rel /\ (x.try => Task1.try)
IsSoft(x, name) == x.t = "soft" /\ x.name = name /\ ~x.try
Queued(r, a, b) ==
  /\ \A i \in DOMAIN tasks' : i \in Nat /\
       \/ i <= a /\ i \in DOMAIN Kmod[r].hard /\ IsHard(tasks'[i], Kmod[r].hard[i])
       \/ /\ a < i /\ i <= a + b /\ i - a \in DOMAIN Kmod[r].soft
          /\ IsSoft(tasks'[i], Kmod[r].soft[i - a])
       \/ /\ a + b < i /\ (i - (a + b)) + 1 \in DOMAIN tasks
          /\ tasks'[i] = tasks[(i - (a + b)) + 1]
  /\ \A i \in DOMAIN Kmod[r].hard : i \in DOMAIN tasks' /\ IsHard(tasks'[i], Kmod[r].hard[i])
  /\ \A l \in DOMAIN tasks : l = 1 \/ \E i \in DOMAIN tasks' : tasks'[i] = tasks[l]
LEMMA RootQueue ==
  ASSUME OrderInv, KmodBegin, Task1.t = "root", NEW r, r = Task1.name
  PROVE  \E a, b \in Nat : Queued(r, a, b)
<1> DEFINE h == HardTasks(Kmod[r], Task1.try)
           s == SoftTasks(Kmod[r])
           z == Tail(tasks)
           hs == h \o s
<1>1. KmodReady /\ HasFile
  BY DEF KmodBegin
<1>2. tasks \in Seq(TaskType) /\ tasks # <<>> /\ Task1 \in TaskType
  BY <1>1, ReadyFacts
<1>3. r \in DOMAIN Kmod /\ Task1.try \in BOOLEAN
  BY <1>1, <1>2, RootFacts DEF Loadable, TaskType
<1>4. h \in Seq(TaskType) /\ s \in Seq(TaskType)
  BY <1>3, DepsType
<1>5. z \in Seq(TaskType)
  BY <1>2, Rest
<1>6. tasks' = hs \o z
  BY DEF KmodBegin
<1>7. /\ DOMAIN h = DOMAIN Kmod[r].hard
      /\ \A i \in DOMAIN h : IsHard(h[i], Kmod[r].hard[i])
      /\ DOMAIN s = DOMAIN Kmod[r].soft
      /\ \A i \in DOMAIN s : IsSoft(s[i], Kmod[r].soft[i])
  BY <1>3 DEF HardTasks, SoftTasks, Task, IsHard, IsSoft
<1>8. /\ \A i \in DOMAIN z : i + 1 \in DOMAIN tasks /\ z[i] = tasks[i + 1]
      /\ \A l \in DOMAIN tasks : l = 1 \/ (l - 1 \in DOMAIN z /\ z[l - 1] = tasks[l])
  BY <1>2, Rest
<1> HIDE DEF h, s, z
<1>9. /\ Len(h) \in Nat /\ DOMAIN h = 1..Len(h) /\ Len(s) \in Nat /\ DOMAIN s = 1..Len(s)
      /\ Len(z) \in Nat /\ DOMAIN z = 1..Len(z)
  BY <1>4, <1>5, LenProperties
<1>10. /\ hs \in Seq(TaskType) /\ Len(hs) = Len(h) + Len(s)
       /\ \A i \in 1..(Len(h) + Len(s)) :
            hs[i] = IF i <= Len(h) THEN h[i] ELSE s[i - Len(h)]
  BY <1>4, ConcatProperties
<1> HIDE DEF hs
<1>11. /\ tasks' \in Seq(TaskType) /\ Len(tasks') = Len(hs) + Len(z)
       /\ \A i \in 1..(Len(hs) + Len(z)) :
            tasks'[i] = IF i <= Len(hs) THEN hs[i] ELSE z[i - Len(hs)]
  BY <1>5, <1>6, <1>10, ConcatProperties
<1>12. DOMAIN tasks' = 1..(Len(h) + Len(s) + Len(z))
  BY <1>10, <1>11, LenProperties
<1>13. ASSUME NEW i \in DOMAIN tasks'
       PROVE  i \in Nat /\
                \/ i <= Len(h) /\ i \in DOMAIN h /\ tasks'[i] = h[i]
                \/ /\ Len(h) < i /\ i <= Len(h) + Len(s)
                   /\ i - Len(h) \in DOMAIN s /\ tasks'[i] = s[i - Len(h)]
                \/ /\ Len(h) + Len(s) < i /\ i - (Len(h) + Len(s)) \in DOMAIN z
                   /\ tasks'[i] = z[i - (Len(h) + Len(s))]
  <2>1. i \in 1..(Len(h) + Len(s) + Len(z))
    BY <1>12, <1>13
  <2>2. i <= Len(h) + Len(s) => i \in 1..(Len(h) + Len(s)) /\ tasks'[i] = hs[i]
    BY ONLY <1>9, <1>10, <1>11, <2>1
  <2>3. ~(i <= Len(h) + Len(s)) => tasks'[i] = z[i - (Len(h) + Len(s))]
    BY ONLY <1>9, <1>10, <1>11, <2>1
  <2>4. CASE i <= Len(h)
    BY ONLY SMTT(20), <1>9, <1>10, <2>1, <2>2, <2>4
  <2>5. CASE Len(h) < i /\ i <= Len(h) + Len(s)
    BY ONLY SMTT(20), <1>9, <1>10, <2>1, <2>2, <2>5
  <2>6. CASE Len(h) + Len(s) < i
    BY ONLY <1>9, <2>1, <2>3, <2>6
  <2> QED
    BY ONLY <1>9, <2>1, <2>4, <2>5, <2>6
<1>14. \A i \in DOMAIN h : i \in DOMAIN tasks' /\ tasks'[i] = h[i]
  BY <1>9, <1>10, <1>11, <1>12
<1>15. \A i \in DOMAIN z : /\ i + (Len(h) + Len(s)) \in DOMAIN tasks'
                           /\ tasks'[i + (Len(h) + Len(s))] = z[i]
  BY <1>9, <1>10, <1>11, <1>12
<1>16. \A l \in DOMAIN tasks : l = 1 \/ \E i \in DOMAIN tasks' : tasks'[i] = tasks[l]
  BY <1>8, <1>15
<1>17. ASSUME NEW i \in DOMAIN tasks'
       PROVE  i \in Nat /\
                \/ i <= Len(h) /\ i \in DOMAIN Kmod[r].hard /\ IsHard(tasks'[i], Kmod[r].hard[i])
                \/ /\ Len(h) < i /\ i <= Len(h) + Len(s) /\ i - Len(h) \in DOMAIN Kmod[r].soft
                   /\ IsSoft(tasks'[i], Kmod[r].soft[i - Len(h)])
                \/ /\ Len(h) + Len(s) < i /\ (i - (Len(h) + Len(s))) + 1 \in DOMAIN tasks
                   /\ tasks'[i] = tasks[(i - (Len(h) + Len(s))) + 1]
  BY <1>7, <1>8, <1>13
<1>18. \A i \in DOMAIN Kmod[r].hard : i \in DOMAIN tasks' /\ IsHard(tasks'[i], Kmod[r].hard[i])
  BY <1>7, <1>14
<1> WITNESS Len(h) \in Nat, Len(s) \in Nat
<1> QED
  BY <1>16, <1>17, <1>18 DEF Queued

(* A root module's file: its dependencies join the queue.                  *)
LEMMA BeginRootInv ==
  ASSUME OrderInv, KmodInv, KmodBegin, kwant' = kwant, Task1.t = "root"
  PROVE  KmodInv'
<1>1. /\ KmodReady /\ HasFile /\ out' = out /\ filtered' = filtered /\ missing' = missing
      /\ seen' = seen \union {KmodDst} /\ cur' = Entry("kmod", KmodDst, Rel)
  BY DEF KmodBegin, Begin
<1>2. Running /\ QueueInv /\ ModInv /\ WantInv
  BY <1>1 DEF KmodInv, KmodReady
<1>3. PICK r \in Loadable : r = Task1.name /\ KmodDst = ModPath(r)
  BY <1>1, RootFacts
<1>4. 1 \in DOMAIN tasks /\ tasks[1] = Task1 /\ cur = NoEntry
  BY <1>1, ReadyFacts DEF Task1
<1>5. \A i \in DOMAIN tasks : i \in Nat /\ tasks[i].t \in {"db", "root"}
  BY <1>1, <1>2, RootAhead, ReadyFacts, Rest DEF Later
<1>6. PICK a, b \in Nat : Queued(r, a, b)
  BY <1>3, RootQueue
<1>7. ASSUME NEW i \in DOMAIN tasks'
      PROVE  /\ i \in Nat
             /\ \/ i <= a + b /\ \E j \in DOMAIN Kmod[r].hard : IsHard(tasks'[i], Kmod[r].hard[j])
                \/ i <= a + b /\ \E j \in DOMAIN Kmod[r].soft : IsSoft(tasks'[i], Kmod[r].soft[j])
                \/ a + b < i /\ \E l \in DOMAIN tasks : tasks'[i] = tasks[l]
  <2>1. /\ i \in Nat
        /\ \/ i <= a /\ \E j \in DOMAIN Kmod[r].hard : IsHard(tasks'[i], Kmod[r].hard[j])
           \/ i <= a + b /\ \E j \in DOMAIN Kmod[r].soft : IsSoft(tasks'[i], Kmod[r].soft[j])
           \/ a + b < i /\ \E l \in DOMAIN tasks : tasks'[i] = tasks[l]
    BY <1>6, <1>7 DEF Queued
  <2>2. i <= a => i <= a + b
    BY ONLY <2>1, a \in Nat, b \in Nat
  <2> QED
    BY <2>1, <2>2
<1>8. QueueInv'
  <2>1. ASSUME NEW i \in DOMAIN tasks', tasks'[i].t \in Later
        PROVE  a + b < i
    BY <1>7, <2>1 DEF Later, IsHard, IsSoft
  <2>2. ASSUME NEW i \in DOMAIN tasks', a + b < i
        PROVE  \E l \in DOMAIN tasks : tasks'[i] = tasks[l]
    <3>1. i \in Nat /\ ~(i <= a + b)
      BY <1>7, <2>2
    <3> QED
      BY <1>7, <3>1
  <2>3. ASSUME NEW i \in DOMAIN tasks', NEW j \in DOMAIN tasks', i < j, tasks'[i].t \in Later
        PROVE  tasks'[j].t \in Later
    <3>1. a + b < j
      BY <1>7, <2>1, <2>3
    <3> QED
      BY <1>5, <2>2, <3>1 DEF Later
  <2>4. ASSUME NEW i \in DOMAIN tasks', tasks'[i].t = "db"
        PROVE  \E j \in DOMAIN KmodDb : tasks'[i].rel = KmodDb[j]
    <3>1. PICK l \in DOMAIN tasks : tasks'[i] = tasks[l]
      BY <2>1, <2>2, <2>4 DEF Later
    <3> QED
      BY <1>2, <2>4, <3>1 DEF QueueInv
  <2>5. ASSUME NEW i \in DOMAIN tasks', NEW j \in DOMAIN tasks', tasks'[i].try, tasks'[j].t = "root"
        PROVE  tasks'[j].try
    <3>1. PICK l \in DOMAIN tasks : tasks'[j] = tasks[l]
      BY <2>1, <2>2, <2>5 DEF Later
    <3>2. \E k \in DOMAIN tasks : tasks[k].try
      <4>1. CASE Task1.try
        BY <1>4, <4>1
      <4>2. CASE ~Task1.try
        BY <1>7, <2>5, <4>2 DEF IsHard, IsSoft
      <4> QED
        BY <4>1, <4>2
    <3> QED
      BY <1>2, <2>5, <3>1, <3>2 DEF QueueInv
  <2> QED
    BY <2>3, <2>4, <2>5 DEF QueueInv
<1>9. \A p : ~Underway(p) /\ (Underway(p)' <=> p = ModPath(r))
  BY <1>1, <1>3, ReadyFacts DEF Underway, Entry
<1>10. \A i \in DOMAIN tasks' : /\ tasks'[i].t = "hard" => \E j \in DOMAIN Kmod[r].hard :
                                                             Kmod[r].hard[j] = tasks'[i].rel
                                /\ tasks'[i].t = "soft" => SoftOf(r, tasks'[i].name)
  <2> SUFFICES ASSUME NEW i \in DOMAIN tasks'
               PROVE  /\ tasks'[i].t = "hard" => \E j \in DOMAIN Kmod[r].hard :
                                                   Kmod[r].hard[j] = tasks'[i].rel
                      /\ tasks'[i].t = "soft" => SoftOf(r, tasks'[i].name)
    OBVIOUS
  <2>1. CASE \E j \in DOMAIN Kmod[r].hard : IsHard(tasks'[i], Kmod[r].hard[j])
    BY <2>1 DEF IsHard
  <2>2. CASE \E j \in DOMAIN Kmod[r].soft : IsSoft(tasks'[i], Kmod[r].soft[j])
    BY <2>2 DEF IsSoft, SoftOf
  <2>3. CASE \E l \in DOMAIN tasks : tasks'[i] = tasks[l]
    BY <1>5, <2>3
  <2> QED
    BY <1>7, <2>1, <2>2, <2>3
<1>11. Origin(r)'
  <2>1. \A j \in DOMAIN Kmod[r].hard : Pending(Kmod[r].hard[j])'
    BY <1>6 DEF Pending, Queued, IsHard
  <2> QED
    BY <1>10, <2>1 DEF Origin, Handled
<1>12. OriginInv'
  <2>1. r \in DOMAIN Kmod
    BY DEF Loadable
  <2> QED
    BY <1>9, <1>10, <1>11, <2>1 DEF OriginInv
<1>13. GrownBut({}) /\ filtered \subseteq filtered' /\ missing \subseteq missing'
  BY <1>1, GrownNone
<1>14. ModInv'
  <2> SUFFICES ASSUME NEW n \in Loadable, ModPath(n) \in Archived' \/ Underway(ModPath(n))'
               PROVE  Closed(n)'
    BY DEF ModInv
  <2>1. CASE Underway(ModPath(n))'
    BY <1>9, <1>11, <2>1 DEF Closed, FilesOf
  <2>2. CASE ModPath(n) \in Archived'
    <3>1. Closed(n)
      BY <1>1, <1>2, <2>2 DEF ModInv, Archived
    <3>2. ~SoftNow(n)
      BY <1>9 DEF SoftNow
    <3>3. Foreign(n) \/ CameSoft(n) \/ ~Spared(n) \/ AllHas(n)
      <4>1. CASE \E m \in Loadable : ModPath(n) \in FilesOf(m) /\ Origin(m)
        BY <1>4, <1>5, <4>1, OriginDone
      <4> QED
        BY <3>1, <3>2, <4>1 DEF Closed
    <3> QED
      BY <1>13, <3>3, Lasting DEF Closed
  <2> QED
    BY <2>1, <2>2
<1>15. WantInv'
  <2> SUFFICES ASSUME NEW n \in kwant \intersect Loadable, ModPath(n) \notin seen'
               PROVE  \E i \in DOMAIN tasks' :
                        tasks'[i].t = "root" /\ tasks'[i].name = n /\ ~tasks'[i].try
    BY DEF WantInv
  <2>1. PICK l \in DOMAIN tasks : tasks[l].t = "root" /\ tasks[l].name = n /\ ~tasks[l].try
    BY <1>1, <1>2 DEF WantInv
  <2>2. l # 1
    BY <1>1, <1>3, <1>4, <2>1
  <2>3. PICK i \in DOMAIN tasks' : tasks'[i] = tasks[l]
    BY <1>6, <2>2 DEF Queued
  <2> QED
    BY <2>1, <2>3
<1> QED
  BY <1>8, <1>12, <1>14, <1>15 DEF KmodInv

(* The entry in progress is written.                                       *)
LEMMA ArchiveInv ==
  ASSUME OrderInv, KmodInv, KmodArchive, kwant' = kwant
  PROVE  KmodInv'
<1>1. TypeOK /\ Running /\ tasks' = tasks
  BY DEF OrderInv, KmodArchive, Walked, kmodVars
<1>2. QueueInv /\ OriginInv /\ ModInv /\ WantInv
  BY <1>1 DEF KmodInv
<1>3. /\ Moves /\ seen \subseteq seen'
      /\ \A p : p \in Archived' \/ Underway(p)' => p \in Archived \/ Underway(p)
  BY <1>1, ArchiveMoves
<1>4. QueueInv' /\ WantInv'
  <2>1. QueueInv'
    BY ONLY SMTT(20), <1>1, <1>2 DEF QueueInv
  <2>2. WantInv'
    BY ONLY SMTT(20), <1>1, <1>2, <1>3, kwant' = kwant DEF WantInv, ModPath, Loadable
  <2> QED
    BY <2>1, <2>2
<1> QED
  BY <1>2, <1>3, <1>4, OriginInvMoves, ModInvMoves DEF KmodInv

(* A call of gather_archive_kmods().                                       *)
LEMMA CallInv ==
  ASSUME OrderInv, KmodInv, Running, Idle, NEW names \in Seq(STRING), NEW try \in BOOLEAN,
         gather_archive_kmods(names, try), UNCHANGED <<seen, out, cur, filtered, missing>>,
         kwant' = IF try THEN kwant ELSE kwant \union {names[i] : i \in DOMAIN names}
  PROVE  KmodInv'
<1> DEFINE roots == [i \in DOMAIN names |-> Task("root", names[i], <<>>, try)]
           db == IF gk THEN <<>> ELSE DbTasks
           IsDb(x, rel) == x.t = "db" /\ x.rel = rel /\ ~x.try
           IsRoot(x, name) == x.t = "root" /\ x.name = name /\ (x.try <=> try)
<1>1. QueueInv /\ ModInv /\ WantInv /\ tasks = <<>> /\ cur = NoEntry
  BY DEF KmodInv, Idle
<1>2. db \in Seq(TaskType) /\ roots \in Seq(TaskType) /\ tasks' = db \o roots
  <2>1. \A i \in DOMAIN names : names[i] \in STRING
    BY ElementOfSeq, LenProperties
  <2>2. \A i \in DOMAIN KmodDb : KmodDb[i] \in Path
    BY KmodAssumption, ElementOfSeq, LenProperties
  <2>3. <<>> \in Path
    BY EmptySeq DEF Path
  <2>4. DbTasks \in [DOMAIN KmodDb -> TaskType]
    BY <2>2 DEF DbTasks, Task, TaskType
  <2>5. roots \in [DOMAIN names -> TaskType]
    BY <2>1, <2>3 DEF Task, TaskType
  <2>6. DbTasks \in Seq(TaskType) /\ roots \in Seq(TaskType) /\ <<>> \in Seq(TaskType)
    BY <2>4, <2>5, MapType, EmptySeq, KmodAssumption
  <2> QED
    BY <2>6 DEF gather_archive_kmods
<1>3. \A i \in DOMAIN db : i \in DOMAIN KmodDb /\ IsDb(db[i], KmodDb[i])
  BY DEF DbTasks, Task
<1>4. /\ DOMAIN roots = DOMAIN names
      /\ \A i \in DOMAIN roots : IsRoot(roots[i], names[i])
  BY DEF Task
<1> HIDE DEF roots, db, IsDb, IsRoot
<1>5. /\ \A i \in DOMAIN roots : Len(db) + i \in DOMAIN tasks' /\ tasks'[Len(db) + i] = roots[i]
      /\ \A i \in DOMAIN tasks' : \/ i \in DOMAIN db /\ tasks'[i] = db[i]
                                  \/ i - Len(db) \in DOMAIN roots /\ tasks'[i] = roots[i - Len(db)]
  BY ONLY SMTT(20), <1>2, PushFacts
<1>6. \A i \in DOMAIN tasks' : \/ \E j \in DOMAIN KmodDb : IsDb(tasks'[i], KmodDb[j])
                               \/ \E j \in DOMAIN names : IsRoot(tasks'[i], names[j])
  BY ONLY Zenon, <1>3, <1>4, <1>5
<1>7. \A j \in DOMAIN names : \E i \in DOMAIN tasks' : IsRoot(tasks'[i], names[j])
  BY ONLY <1>4, <1>5
<1>8. QueueInv'
  <2>1. \A i \in DOMAIN tasks' : tasks'[i].t \in Later
    BY <1>6 DEF Later, IsDb, IsRoot
  <2>2. \A i \in DOMAIN tasks' : tasks'[i].t = "db" =>
          \E j \in DOMAIN KmodDb : tasks'[i].rel = KmodDb[j]
    BY <1>6 DEF IsDb, IsRoot
  <2>3. \A i \in DOMAIN tasks' : /\ tasks'[i].try => try
                                 /\ tasks'[i].t = "root" => (tasks'[i].try <=> try)
    BY <1>6 DEF IsDb, IsRoot
  <2> QED
    BY <2>1, <2>2, <2>3 DEF QueueInv
<1>9. \A i \in DOMAIN tasks' : tasks'[i].t \notin {"hard", "soft"}
  BY <1>6 DEF IsDb, IsRoot
<1>10. \A p : ~Underway(p) /\ ~Underway(p)'
  BY <1>1 DEF Underway, NoEntry, Entry
<1>11. Moves
  <2>1. GrownBut({})
    BY GrownNone
  <2>2. \A rel : ~Pending(rel)
    BY <1>1 DEF Pending
  <2> QED
    BY <1>9, <1>10, <2>1, <2>2 DEF Moves
<1>12. OriginInv'
  BY <1>9 DEF OriginInv
<1>13. Archived' = Archived
  BY DEF Archived
<1>14. ModInv'
  BY <1>1, <1>10, <1>11, <1>13, ModInvMoves
<1>15. WantInv'
  <2> SUFFICES ASSUME NEW n \in kwant' \intersect Loadable, ModPath(n) \notin seen
               PROVE  \E i \in DOMAIN tasks' :
                        tasks'[i].t = "root" /\ tasks'[i].name = n /\ ~tasks'[i].try
    BY DEF WantInv
  <2>1. n \notin kwant
    BY <1>1 DEF WantInv
  <2>2. PICK j \in DOMAIN names : n = names[j] /\ ~try
    BY <2>1
  <2> QED
    BY <1>7, <2>2 DEF IsRoot
<1> QED
  BY <1>8, <1>12, <1>14, <1>15 DEF KmodInv

-----------------------------------------------------------------------------
LEMMA KmodInit == Init => KmodInv
<1> SUFFICES ASSUME Init PROVE KmodInv
  OBVIOUS
<1>1. tasks = <<>> /\ out = <<>> /\ cur = NoEntry /\ kwant = {}
  BY DEF Init
<1>2. Archived = {} /\ \A p : ~Underway(p)
  <2>1. Archived = {}
    BY ONLY <1>1 DEF Archived
  <2>2. \A p : ~Underway(p)
    BY ONLY <1>1 DEF Underway, NoEntry, Entry
  <2> QED
    BY <2>1, <2>2
<1>3. QueueInv /\ OriginInv /\ WantInv
  BY <1>1 DEF QueueInv, OriginInv, WantInv
<1>4. ModInv
  BY <1>2 DEF ModInv
<1> QED
  BY <1>3, <1>4 DEF KmodInv

(* Each step of gather_archive_kmod_and_deps() keeps the invariant.        *)
LEMMA KmodsInv ==
  ASSUME OrderInv, KmodInv, gather_archive_kmod_and_deps, kwant' = kwant
  PROVE  KmodInv'
BY SkipInv, UnknownInv, MissingInv, BeginInv, BeginRootInv, ArchiveInv
DEF gather_archive_kmod_and_deps

LEMMA KmodNext == OrderInv /\ KmodInv /\ [Next]_vars => KmodInv'
<1> SUFFICES ASSUME OrderInv, KmodInv, [Next]_vars PROVE KmodInv'
  OBVIOUS
<1>1. TypeOK /\ ArchiveTypeOK
  BY DEF OrderInv, TypeOK
<1>2. CASE LineKmod
  <2>1. Running /\ Idle /\ L.name \in STRING
    <3>1. Reading
      BY <1>2 DEF LineKmod
    <3>2. L \in LineType
      BY <1>1, <3>1, ReadingType DEF TypeOK
    <3> QED
      BY <3>1, <3>2 DEF Reading, Running, LineType
  <2>2. <<L.name>> \in Seq(STRING) /\ (L.k = "try-kmod") \in BOOLEAN
    BY <2>1, Singleton
  <2>3. PICK try \in BOOLEAN, names \in Seq(STRING) : try = (L.k = "try-kmod") /\ names = <<L.name>>
    BY <2>2
  <2>4. gather_archive_kmods(names, try) /\ UNCHANGED <<seen, out, cur, filtered, missing>>
    BY <1>2, <2>3 DEF LineKmod, archiveVars
  <2>5. kwant' = IF try THEN kwant ELSE kwant \union {names[i] : i \in DOMAIN names}
    <3>1. {names[i] : i \in DOMAIN names} = {L.name}
      BY <2>3
    <3> QED
      BY <1>2, <2>3, <3>1 DEF LineKmod
  <2> QED
    BY <2>1, <2>4, <2>5, CallInv
<1>3. CASE MainKmods
  <2>1. /\ Running /\ Idle /\ gather_archive_kmods(ConfKmods, FALSE)
        /\ UNCHANGED <<seen, out, cur, filtered, missing>>
        /\ kwant' = kwant \union {ConfKmods[i] : i \in DOMAIN ConfKmods}
    BY <1>3 DEF MainKmods, Running
  <2>2. ConfKmods \in Seq(STRING)
    BY ConfAssumption
  <2> QED
    BY <2>1, <2>2, CallInv
<1>4. CASE gather_archive_kmod_and_deps /\ UNCHANGED <<elfVars, items, cutVars>>
  BY <1>4, KmodsInv DEF cutVars
<1>5. CASE Aborted
  <2>1. ~Running'
    BY <1>5 DEF Aborted, Abort, Fail, Running
  <2> QED
    BY <2>1 DEF KmodInv
<1>6. CASE Still
  BY <1>6, StillInv
<1>7. CASE MainStep /\ ~MainKmods
  BY <1>1, <1>6, <1>7, MainStill
<1>8. CASE LineStep /\ ~LineKmod
  BY <1>1, <1>6, <1>8, LinesStill
<1>9. CASE ReadEof \/ UNCHANGED vars
  <2>1. UNCHANGED <<seen, out, cur, phase, filtered, missing, tasks, kwant>>
    BY <1>9 DEF ReadEof, vars, archiveVars, kmodVars, cutVars
  <2> QED
    BY <1>6, <2>1, GrownNone DEF Still, Running
<1>10. CASE gather_archive_dirs /\ UNCHANGED <<elfVars, items, kmodVars, cutVars>>
  BY <1>1, <1>6, <1>10, DirsStill DEF kmodVars, cutVars
<1>11. CASE gather_archive_elfs /\ UNCHANGED <<items, kmodVars, cutVars>>
  BY <1>1, <1>6, <1>11, ElfsStill DEF kmodVars, cutVars
<1>12. CASE gather_archive_data /\ UNCHANGED <<elfVars, kmodVars, cutVars>>
  BY <1>1, <1>6, <1>12, DataStill DEF kmodVars, cutVars
<1> QED
  BY <1>2, <1>3, <1>4, <1>5, <1>7, <1>8, <1>9, <1>10, <1>11, <1>12 DEF Next, Step, LineStep, MainStep

(* What the invariant says between two calls.                              *)
LEMMA KmodClosed == OrderInv /\ KmodInv => (NoneMissing => KmodClosure)
<1> SUFFICES ASSUME OrderInv, KmodInv, NoneMissing, Running, Idle,
                    NEW n \in kwant \intersect DOMAIN Kmod, ~Kmod[n].builtin,
                    ModPath(n) \notin filtered
             PROVE  /\ Has(Kmod[n].rel)
                    /\ CameSoft(n) \/ Foreign(n) \/ \A i \in DOMAIN Kmod[n].hard : Has(Kmod[n].hard[i])
  BY DEF KmodClosure
<1>1. n \in Loadable /\ n \in kwant /\ Spared(n)
  BY DEF Loadable, NoneMissing
<1>2. QueueInv /\ ModInv /\ WantInv /\ tasks = <<>> /\ cur = NoEntry
  BY DEF KmodInv, Idle
<1>3. ModPath(n) \in seen
  BY <1>1, <1>2 DEF WantInv
<1>4. ModPath(n) \notin missing
  BY <1>1 DEF Spared, FilesOf
<1>5. ModPath(n) \in Archived
  BY <1>2, <1>3, <1>4 DEF OrderInv, SeenInv, Covered, NoEntry, Entry
<1>6. Closed(n) /\ ~SoftNow(n)
  BY <1>1, <1>2, <1>5 DEF ModInv, SoftNow, Underway, NoEntry, Entry
<1>7. \A i \in DOMAIN tasks : tasks[i].t # "hard"
  BY <1>2
<1>8. CASE \E m \in Loadable : ModPath(n) \in FilesOf(m) /\ Origin(m)
  <2>1. AllHas(n)
    BY <1>1, <1>2, <1>7, <1>8, OriginDone
  <2> QED
    BY <1>5, <2>1 DEF AllHas, Has, ModPath
<1> QED
  BY <1>1, <1>5, <1>6, <1>8 DEF Closed, AllHas, Has, ModPath

(* Whatever the manifest and the modules: when every file was found that a *)
(* required module needs, the module is in the image, with its hard        *)
(* dependencies unless it came as a soft dependency or by another routine. *)
THEOREM ModulesComplete == Spec => [](NoneMissing => KmodClosure)
<1>1. Init => OrderInv /\ KmodInv
  BY OrderInit, KmodInit
<1>2. OrderInv /\ KmodInv /\ [Next]_vars => (OrderInv /\ KmodInv)'
  BY OrderNext, KmodNext
<1> QED
  BY <1>1, <1>2, KmodClosed, PTL DEF Spec

-----------------------------------------------------------------------------
(* No path twice, and the refinement of Image.                             *)
Linking == {"bin", "sbin", "lib", "trailer"}
Over == {"done", "failed"}

(* The links of populate_default_symlinks() and archive_kmods_symlink()    *)
(* written so far, which do not join paths_seen.                           *)
Late ==
  (IF phase \in Linking \union Over THEN {<<"lib64">>} ELSE {})
  \union (IF phase \in {"sbin", "lib", "trailer"} \union Over THEN {<<"bin">>} ELSE {})
  \union (IF phase \in {"lib", "trailer"} \union Over
          THEN {<<"sbin">>, SbinModprobe} ELSE {})
  \union (IF phase \in {"trailer"} \union Over THEN {<<"lib">>} ELSE {})

KnownInv == Archived \subseteq seen \union Unguarded \union Late
NewInv == cur.op # "none" /\ cur.dst \in Covered => cur.dst \in Unguarded
LinkInv == phase \in Linking => Idle
GrowInv == OrderInv /\ NoDuplicate /\ KnownInv /\ NewInv /\ LinkInv

-----------------------------------------------------------------------------
(* Archive q is archive o with entries of new paths, or unguarded ones,    *)
(* added; none of the paths in f.                                          *)
Distinct(o) ==
  \A j, k \in DOMAIN o : o[j].path = o[k].path /\ j # k => o[j].path \in Unguarded
Longer(o, q, f, T) ==
  /\ \A k \in DOMAIN o : k \in DOMAIN q /\ q[k] = o[k]
  /\ \A k \in DOMAIN q \ DOMAIN o :
       q[k].type \in T /\ (q[k].path \in Unguarded \/ q[k].path \notin f)

(* It makes the archive longer.                                            *)
LEMMA LongerAppend ==
  ASSUME NEW o, NEW q \in Seq(OutType), NEW f, NEW T, NEW e \in OutType,
         Longer(o, q, f, T), e.type \in T, e.path \in Unguarded \/ e.path \notin f
  PROVE  Longer(o, Append(q, e), f, T)
<1> DEFINE r == Append(q, e)
           n == Len(q) + 1
<1>1. /\ DOMAIN r = DOMAIN q \union {n} /\ r[n] = e
      /\ n \notin DOMAIN q /\ \A k \in DOMAIN q : r[k] = q[k]
  BY AppendEntry
<1> HIDE DEF r, n
<1>2. Longer(o, r, f, T)
  BY <1>1 DEF Longer
<1> QED
  BY <1>2 DEF r

(* It leaves the archive without duplicates.                               *)
LEMMA DistinctAppend ==
  ASSUME NEW q \in Seq(OutType), NEW e \in OutType, Distinct(q),
         e.path \in Unguarded \/ e.path \notin Paths(q)
  PROVE  Distinct(Append(q, e))
<1> DEFINE r == Append(q, e)
           n == Len(q) + 1
<1>1. /\ DOMAIN r = DOMAIN q \union {n} /\ n \notin DOMAIN q /\ r[n] = e
      /\ \A k \in DOMAIN q : r[k] = q[k]
  BY AppendEntry
<1> HIDE DEF r, n
<1>2. Distinct(r)
  <2> SUFFICES ASSUME NEW j \in DOMAIN r, NEW k \in DOMAIN r, r[j].path = r[k].path, j # k
               PROVE  r[j].path \in Unguarded
    BY DEF Distinct
  <2>1. CASE j = n
    <3>1. k \in DOMAIN q /\ r[k] = q[k] /\ r[j] = e
      BY <1>1, <2>1
    <3>2. e.path \in Paths(q)
      BY <3>1 DEF Paths
    <3> QED BY <3>1, <3>2
  <2>2. CASE k = n
    <3>1. j \in DOMAIN q /\ r[j] = q[j] /\ r[k] = e
      BY <1>1, <2>2
    <3>2. e.path \in Paths(q)
      BY <3>1 DEF Paths
    <3> QED BY <3>1, <3>2
  <2>3. CASE j # n /\ k # n
    <3>1. j \in DOMAIN q /\ r[j] = q[j] /\ k \in DOMAIN q /\ r[k] = q[k]
      BY <1>1, <2>3
    <3> QED BY <3>1 DEF Distinct
  <2> QED BY <2>1, <2>2, <2>3
<1> QED BY <1>2 DEF r

(* What a step other than the trailer's does to the archive.               *)
Files == {"reg", "dir", "lnk", "other"}
Grows ==
  \/ Longer(out, out', filtered \union missing, Files) /\ UNCHANGED <<filtered, missing>>
  \/ UNCHANGED out /\ filtered \subseteq filtered' /\ missing \subseteq missing'
Kept == NoDuplicate' /\ KnownInv' /\ NewInv' /\ LinkInv' /\ Grows /\ phase' # "done"

(* Gathering: no link has been written, so paths_seen knows of every entry.*)
Gathering == phase \in {"conf", "manifest", "core", "lib64"}

(* While entries are gathered, what the archive covers is in paths_seen or *)
(* unguarded.                                                              *)
LEMMA Known ==
  ASSUME GrowInv, Gathering
  PROVE  Covered \subseteq seen \union Unguarded
<1>1. Late = {}
  BY DEF Gathering, Late, Linking, Over
<1>2. filtered \subseteq seen /\ missing \subseteq seen
  BY DEF GrowInv, OrderInv, TypeOK, ArchiveTypeOK
<1> QED BY <1>1, <1>2 DEF GrowInv, KnownInv, Covered

(* A routine at work is at work before main() writes its links.            *)
LEMMA AtWork ==
  ASSUME GrowInv, Running, ~Idle
  PROVE  Gathering
<1>1. phase \in Phases
  BY DEF GrowInv, OrderInv, TypeOK, ArchiveTypeOK
<1> QED BY <1>1 DEF GrowInv, LinkInv, Running, Gathering, Phases, Linking

(* A step that writes nothing and takes up no entry.                       *)
LEMMA QuietStep ==
  ASSUME GrowInv, UNCHANGED out, filtered \subseteq filtered', missing \subseteq missing',
         seen \subseteq seen', cur' = NoEntry \/ UNCHANGED <<cur, filtered, missing>>,
         Gathering /\ phase' \in {phase, "failed"}
  PROVE  Kept
<1>1. Archived' = Archived
  BY DEF Archived
<1>2. NoDuplicate'
  BY DEF GrowInv, NoDuplicate
<1>3. KnownInv'
  <2>1. Archived \subseteq seen \union Unguarded
    BY Known DEF Covered
  <2> QED BY <1>1, <2>1 DEF KnownInv
<1>4. NewInv'
  <2>1. CASE cur' = NoEntry
    BY <2>1 DEF NewInv, NoEntry, Entry
  <2>2. CASE UNCHANGED <<cur, filtered, missing>>
    BY <1>1, <2>2 DEF GrowInv, NewInv, Covered
  <2> QED BY <2>1, <2>2
<1>5. LinkInv' /\ phase' # "done"
  BY DEF LinkInv, Gathering, Linking
<1>6. Grows
  BY DEF Grows
<1> QED BY <1>2, <1>3, <1>4, <1>5, <1>6 DEF Kept

(* A step that takes up an entry whose path is not in paths_seen.          *)
LEMMA BeginStep ==
  ASSUME GrowInv, Gathering, UNCHANGED <<out, filtered, missing, phase>>,
         seen \subseteq seen', cur'.dst \notin seen
  PROVE  Kept
<1>1. Archived' = Archived /\ Covered' = Covered
  BY DEF Archived, Covered
<1>2. NoDuplicate'
  BY DEF GrowInv, NoDuplicate
<1>3. KnownInv' /\ NewInv'
  BY <1>1, Known DEF KnownInv, NewInv, Covered
<1>4. LinkInv' /\ phase' # "done"
  BY DEF LinkInv, Gathering, Linking
<1>5. Grows
  BY DEF Grows
<1> QED BY <1>2, <1>3, <1>4, <1>5 DEF Kept

(* Any entry of a new path, or an unguarded one.                           *)
LEMMA WriteStep ==
  ASSUME GrowInv, NEW e \in OutType, out' = Append(out, e),
         NEW T, e.type \in T, e.path \in Unguarded \/ e.path \notin Covered
  PROVE  /\ NoDuplicate' /\ Longer(out, out', filtered \union missing, T)
         /\ Archived' = Archived \union {e.path}
<1> DEFINE f == filtered \union missing
<1>1. out \in Seq(OutType)
  BY DEF GrowInv, OrderInv, TypeOK, ArchiveTypeOK, OutType
<1>2. Distinct(out) /\ Longer(out, out, f, T)
  BY DEF GrowInv, NoDuplicate, Distinct, Longer
<1>3. Paths(out) = Archived /\ Paths(out') = Archived'
  BY DEF Paths, Archived
<1>4. e.path \in Unguarded \/ e.path \notin Paths(out) \union f
  BY <1>3 DEF Covered
<1> HIDE DEF f
<1>5. Longer(out, out', f, T) /\ Distinct(out') /\ Paths(out') = Paths(out) \union {e.path}
  <2>1. e \in OutType /\ e.type \in T
    OBVIOUS
  <2>2. /\ Longer(out, Append(out, e), f, T) /\ Distinct(Append(out, e))
        /\ Paths(Append(out, e)) = Paths(out) \union {e.path}
    BY ONLY Zenon, <1>1, <1>2, <1>4, <2>1, LongerAppend, DistinctAppend, AppendEntry
  <2> QED BY <2>2
<1>6. NoDuplicate'
  BY <1>5 DEF NoDuplicate, Distinct
<1> QED BY <1>3, <1>5, <1>6 DEF f

(* Completing the entry in progress.                                       *)
LEMMA FinishStep ==
  ASSUME GrowInv, Running, cur.op # "none", NEW t \in Files,
         NEW via \in Ops \union {"line"}, Finish(t, via)
  PROVE  Kept
<1> DEFINE e == [path |-> cur.dst, type |-> t, via |-> via]
<1>1. cur.dst \in Path /\ t \in Types
  BY DEF GrowInv, OrderInv, TypeOK, ArchiveTypeOK, Files, Types
<1>2. e \in OutType /\ out' = Append(out, e) /\ e.path = cur.dst /\ e.type = t
  BY <1>1 DEF OutType, Finish, Write
<1>3. /\ cur' = NoEntry /\ seen' = seen \union {cur.dst}
      /\ UNCHANGED <<phase, filtered, missing>>
  BY DEF Finish
<1> HIDE DEF e
<1>4. e.path \in Unguarded \/ e.path \notin Covered
  BY <1>2 DEF GrowInv, NewInv
<1>5. NoDuplicate' /\ Longer(out, out', filtered \union missing, Files)
      /\ Archived' = Archived \union {e.path}
  BY <1>2, <1>4, WriteStep
<1>6. Gathering
  BY AtWork DEF Idle, NoEntry, Entry
<1>7. KnownInv'
  BY <1>2, <1>3, <1>5, <1>6, Known DEF KnownInv, Covered
<1>8. NewInv'
  BY <1>3 DEF NewInv, NoEntry, Entry
<1>9. LinkInv' /\ phase' # "done"
  BY <1>3, <1>6 DEF LinkInv, Gathering, Linking
<1> QED BY <1>3, <1>5, <1>7, <1>8, <1>9 DEF Kept, Grows

(* Each step of gather_archive_dirs().                                     *)
LEMMA DirsStep ==
  ASSUME GrowInv, gather_archive_dirs
  PROVE  Kept
<1>1. Running /\ ~Idle /\ Walking
  BY DEF gather_archive_dirs, DirUp, DirInvalid, DirSeen, DirArchive, Walking, Idle
<1>2. Gathering
  BY <1>1, AtWork
<1>3. CASE DirUp \/ DirInvalid \/ DirSeen
  <2>1. /\ UNCHANGED <<seen, out, cur, filtered, missing>> /\ phase' \in {phase, "failed"}
    BY <1>3 DEF DirUp, DirInvalid, DirSeen, Fail
  <2> QED BY <1>2, <2>1, QuietStep
<1>4. CASE DirArchive
  <2> DEFINE next == Append(here, cur.dst[wi])
             e == [path |-> next, type |-> "dir", via |-> "walk"]
  <2>1. next \in Path /\ next # cur.dst
    BY <1>1, <1>4, NextDir DEF DirArchive, GrowInv, OrderInv, TypeOK
  <2>2. /\ next \notin seen /\ seen' = seen \union {next} /\ out' = Append(out, e)
        /\ UNCHANGED <<cur, phase, filtered, missing>>
    BY <1>4 DEF DirArchive, Write
  <2> HIDE DEF next
  <2>3. e \in OutType /\ e.path = next /\ e.type \in Files
    BY <2>1 DEF OutType, Types, Files
  <2> HIDE DEF e
  <2>4. next \in Unguarded \/ next \notin Covered
    BY <1>2, <2>2, Known
  <2>5. /\ NoDuplicate' /\ Longer(out, out', filtered \union missing, Files)
        /\ Archived' = Archived \union {next}
    BY <2>2, <2>3, <2>4, WriteStep
  <2>6. KnownInv'
    BY <1>2, <2>2, <2>5, Known DEF KnownInv, Covered
  <2>7. NewInv'
    BY <2>1, <2>2, <2>5 DEF GrowInv, NewInv, Covered
  <2>8. LinkInv' /\ phase' # "done"
    BY <1>2, <2>2 DEF LinkInv, Gathering, Linking
  <2> QED BY <2>2, <2>5, <2>6, <2>7, <2>8 DEF Kept, Grows
<1> QED BY <1>3, <1>4 DEF gather_archive_dirs

(* Each step of gather_archive_elfs().                                     *)
LEMMA ElfsStep ==
  ASSUME GrowInv, gather_archive_elfs
  PROVE  Kept
<1>1. ASSUME ElfReady PROVE Gathering
  BY <1>1, AtWork DEF ElfReady, Idle
<1>2. ASSUME ElfWalked
      PROVE  Gathering /\ Running /\ cur.op # "none" /\ cur.op \in Ops /\ cur.src \in DOMAIN Host
  <2>1. Running /\ cur.op \in ElfOps /\ cur.op # "none"
    BY <1>2 DEF ElfWalked, Walked, ElfOps
  <2>2. cur.op \in Ops /\ cur.src \in DOMAIN Host
    BY <2>1 DEF GrowInv, OrderInv, TypeOK, ArchiveTypeOK, ElfOps, HostOps
  <2> QED BY <2>1, <2>2, AtWork DEF Idle, NoEntry, Entry
<1>3. CASE ElfTryMissing \/ ElfSeen \/ ElfMissing
  <2>1. UNCHANGED <<seen, out, cur, filtered, missing>> /\ phase' \in {phase, "failed"}
    BY <1>3 DEF ElfTryMissing, ElfSeen, ElfMissing, archiveVars, Fail
  <2>2. ElfReady
    BY <1>3 DEF ElfTryMissing, ElfSeen, ElfMissing
  <2> QED BY <1>1, <2>1, <2>2, QuietStep
<1>4. CASE ElfLinkInvalid \/ ElfLinkDangling
  <2>1. /\ UNCHANGED <<seen, out, filtered, missing>> /\ phase' \in {phase, "failed"}
        /\ (cur' = NoEntry \/ cur' = cur)
    BY <1>4 DEF ElfLinkInvalid, ElfLinkDangling, Fail
  <2>2. ElfWalked
    BY <1>4 DEF ElfLinkInvalid, ElfLinkDangling, ElfWalked, ElfOps
  <2> QED BY <1>2, <2>1, <2>2, QuietStep
<1>5. CASE ElfBegin
  <2>1. cur'.dst \notin seen /\ ElfReady /\ UNCHANGED <<seen, out, phase, filtered, missing>>
    BY <1>5 DEF ElfBegin, Begin, Entry
  <2> QED BY <1>1, <2>1, BeginStep
<1>6. CASE ElfLink \/ ElfDir \/ ElfFile \/ ElfOther
  <2>1. PICK t \in Files : Finish(t, cur.op)
    BY <1>6 DEF ElfLink, ElfDir, ElfFile, ElfOther, Files
  <2>2. ElfWalked
    BY <1>6 DEF ElfLink, ElfDir, ElfFile, ElfOther
  <2> QED BY <1>2, <2>1, <2>2, FinishStep
<1> QED BY <1>3, <1>4, <1>5, <1>6 DEF gather_archive_elfs

(* Each step of gather_archive_data().                                     *)
LEMMA DataStep ==
  ASSUME GrowInv, gather_archive_data
  PROVE  Kept
<1>1. ASSUME DataReady PROVE Gathering
  BY <1>1, AtWork DEF DataReady, Idle
<1>2. ASSUME DataWalked
      PROVE  /\ Running /\ cur.op # "none" /\ cur.op \in Ops
             /\ Host[cur.src].type \in Files
  <2>1. Running /\ cur.op \in {"tree", "child"} /\ cur.op # "none"
    BY <1>2 DEF DataWalked, Walked
  <2>2. cur.op \in Ops /\ cur.src \in DOMAIN Host
    BY <2>1 DEF GrowInv, OrderInv, TypeOK, ArchiveTypeOK, HostOps
  <2> QED BY <2>1, <2>2, HostAssumption DEF Files
<1>3. CASE DataMissing \/ DataSeen
  <2>1. UNCHANGED <<seen, out, cur, filtered, missing>> /\ phase' \in {phase, "failed"}
    BY <1>3 DEF DataMissing, DataSeen, archiveVars, Fail
  <2>2. DataReady
    BY <1>3 DEF DataMissing, DataSeen
  <2> QED BY <1>1, <2>1, <2>2, QuietStep
<1>4. CASE DataBegin
  <2>1. /\ cur'.dst \notin seen /\ DataReady /\ seen \subseteq seen'
        /\ UNCHANGED <<out, phase, filtered, missing>>
    BY <1>4 DEF DataBegin, Begin, Entry
  <2> QED BY <1>1, <2>1, BeginStep
<1>5. CASE DataDir \/ DataLeaf
  <2>1. DataWalked
    BY <1>5 DEF DataDir, DataLeaf
  <2>2. PICK t \in Files : Finish(t, cur.op)
    BY <1>2, <1>5, <2>1 DEF DataDir, DataLeaf, Files
  <2> QED BY <1>2, <2>1, <2>2, FinishStep
<1> QED BY <1>3, <1>4, <1>5 DEF gather_archive_data

(* Each step of gather_archive_kmod_and_deps().                            *)
LEMMA KmodsStep ==
  ASSUME GrowInv, gather_archive_kmod_and_deps
  PROVE  Kept
<1>1. ASSUME KmodReady PROVE Gathering /\ cur = NoEntry
  BY <1>1, AtWork DEF KmodReady, Idle
<1>2. CASE KmodSkip \/ KmodUnknown \/ KmodMissing
  <2>1. /\ UNCHANGED <<out, cur, filtered>> /\ phase' \in {phase, "failed"}
        /\ seen \subseteq seen' /\ missing \subseteq missing' /\ KmodReady
    BY <1>2 DEF KmodSkip, KmodUnknown, KmodMissing, KmodNotFound, archiveVars, Fail
  <2> QED BY <1>1, <2>1, QuietStep
<1>3. CASE KmodBegin
  <2>1. /\ cur'.dst \notin seen /\ KmodReady /\ seen \subseteq seen'
        /\ UNCHANGED <<out, phase, filtered, missing>>
    BY <1>3 DEF KmodBegin, Begin, Entry
  <2> QED BY <1>1, <2>1, BeginStep
<1>4. CASE KmodArchive
  BY <1>4, FinishStep DEF KmodArchive, Walked, Files, Ops
<1> QED BY <1>2, <1>3, <1>4 DEF gather_archive_kmod_and_deps
(* Each manifest line.                                                     *)
LEMMA LinesStep ==
  ASSUME GrowInv, LineStep
  PROVE  Kept
<1>1. ArchiveTypeOK /\ fests \in Seq(Seq(LineType)) /\ out \in Seq(OutType) /\ idx \in Nat
  BY DEF GrowInv, OrderInv, TypeOK, ArchiveTypeOK, OutType
<1>2. ASSUME Reading PROVE Gathering /\ cur = NoEntry
  BY <1>2 DEF Reading, Gathering, Idle
<1>3. CASE LineInclude \/ LineFilter \/ LineBin \/ LineKmod \/ LineTree
  <2>1. /\ UNCHANGED <<out, cur, missing>> /\ seen \subseteq seen'
        /\ filtered \subseteq filtered' /\ phase' \in {phase, "failed"} /\ Reading
    BY <1>3 DEF LineInclude, LineFilter, LineBin, LineKmod, LineTree, archiveVars, Fail
  <2> QED BY <1>2, <2>1, QuietStep
<1>4. CASE LineEntry
  <2>1. Reading /\ UNCHANGED <<seen, out, filtered, missing>>
    BY <1>4 DEF LineEntry
  <2>2. \/ UNCHANGED cur /\ phase' \in {phase, "failed"}
        \/ cur'.dst \notin seen /\ UNCHANGED phase
    <3>1. CASE L.dst \in seen
      BY <1>4, <3>1 DEF LineEntry
    <3>2. CASE L.dst \notin seen /\ Fail /\ UNCHANGED cur
      BY <3>2 DEF Fail
    <3>3. CASE L.dst \notin seen /\ cur' = Entry(L.k, L.dst, L.src) /\ UNCHANGED phase
      BY <3>3 DEF Entry
    <3> QED
      BY <1>4, <3>1, <3>2, <3>3 DEF LineEntry, Begin
  <2>3. CASE UNCHANGED cur /\ phase' \in {phase, "failed"}
    BY <1>2, <2>1, <2>3, QuietStep
  <2>4. CASE cur'.dst \notin seen /\ UNCHANGED phase
    BY <1>2, <2>1, <2>4, BeginStep
  <2> QED BY <2>2, <2>3, <2>4
<1>5. CASE LineArchive
  <2>1. PICK op \in {"dir", "slink", "file"} :
          /\ Walked(op)
          /\ Finish(CASE op = "dir" -> "dir" [] op = "slink" -> "lnk"
                       [] op = "file" -> "reg", "line")
    BY <1>5 DEF LineArchive
  <2>2. PICK t \in Files : Finish(t, "line")
    BY <2>1 DEF Files
  <2>3. Running /\ cur.op # "none"
    BY <2>1 DEF Walked
  <2> QED BY <2>2, <2>3, FinishStep
<1>6. CASE LineAutorun
  <2> DEFINE dir == [path |-> AutorunDir, type |-> "dir", via |-> "main"]
             p == Append(AutorunDir, AutorunName[idx][Base(L.srcs[1])])
             script == [path |-> p, type |-> "reg", via |-> "autorun"]
             f == filtered \union missing
  <2>1. AutorunName[idx][Base(L.srcs[1])] \in Name
    BY <1>1, <1>6, ScriptType
  <2>2. Base(L.srcs[1]) \in Name
    <3>1. L.srcs \in Seq(Path) /\ L.srcs # <<>> /\ L.srcs[1] # <<>>
      BY <1>1, <1>6, ReadingType DEF LineAutorun, LineType
    <3>2. L.srcs[1] \in Seq(Name)
      BY <3>1, SeqTypes DEF Path
    <3> QED BY <3>1, <3>2, SeqTypes DEF Base
  <2>3. p \in Unguarded /\ AutorunDir \in Unguarded
    <3>1. idx \in DOMAIN AutorunName
      BY <1>6 DEF LineAutorun
    <3> QED BY <2>2, <3>1 DEF Unguarded
  <2>4. p \in Path
    BY <2>1, LiteralPaths, ParentAppend
  <2> HIDE DEF p
  <2>5. /\ dir \in OutType /\ script \in OutType /\ dir.type \in Files /\ script.type \in Files
        /\ dir.path \in Unguarded /\ script.path \in Unguarded
    BY <2>3, <2>4, LiteralPaths DEF OutType, Types, Files
  <2>6. \/ out' = Append(Append(out, dir), script)
        \/ out' = Append(out, dir)
        \/ out' = Append(out, script)
        \/ out' = out
    <3>1. CASE Opens(L.srcs[1])
      <4>1. out' = Append(IF idx = 0 THEN Append(out, dir) ELSE out, script)
        BY <1>6, <3>1 DEF LineAutorun, p
      <4> QED BY <4>1
    <3>2. CASE ~Opens(L.srcs[1])
      BY <1>6, <3>2 DEF LineAutorun
    <3> QED BY <3>1, <3>2
  <2>7. /\ UNCHANGED <<cur, filtered, missing>> /\ seen \subseteq seen' /\ Reading
        /\ phase' \in {phase, "failed"}
    BY <1>6 DEF LineAutorun, Fail
  <2> HIDE DEF dir, script, f
  <2>8. /\ Longer(out, out, f, Files) /\ Distinct(out)
        /\ Paths(out) = Archived /\ Paths(out') = Archived'
    BY DEF GrowInv, NoDuplicate, Longer, Distinct, Paths, Archived
  <2>9. ASSUME NEW q \in Seq(OutType), Longer(out, q, f, Files), Distinct(q),
               NEW e \in {dir, script}
        PROVE  /\ Longer(out, Append(q, e), f, Files) /\ Distinct(Append(q, e))
               /\ Append(q, e) \in Seq(OutType)
               /\ Paths(Append(q, e)) = Paths(q) \union {e.path}
    <3>1. /\ e \in OutType /\ e.type \in Files /\ out \in Seq(OutType)
          /\ q \in Seq(OutType) /\ Longer(out, q, f, Files) /\ Distinct(q)
          /\ e.path \in Unguarded \/ e.path \notin Paths(q) \union f
      BY <1>1, <2>5, <2>9
    <3> QED BY ONLY Zenon, <3>1, LongerAppend, DistinctAppend, AppendEntry
  <2>10. /\ Longer(out, Append(out, dir), f, Files) /\ Distinct(Append(out, dir))
         /\ Append(out, dir) \in Seq(OutType)
         /\ Paths(Append(out, dir)) = Paths(out) \union {dir.path}
    BY <1>1, <2>8, <2>9
  <2>11. /\ Longer(out, Append(out, script), f, Files) /\ Distinct(Append(out, script))
         /\ Paths(Append(out, script)) = Paths(out) \union {script.path}
    BY <1>1, <2>8, <2>9
  <2>12. LET q == Append(Append(out, dir), script)
         IN  /\ Longer(out, q, f, Files) /\ Distinct(q)
             /\ Paths(q) = Paths(out) \union {dir.path} \union {script.path}
    BY <2>9, <2>10
  <2>13. /\ Longer(out, out', f, Files) /\ Distinct(out')
         /\ Paths(out') \subseteq Paths(out) \union {dir.path, script.path}
    <3>1. CASE out' = Append(Append(out, dir), script)
      BY <2>12, <3>1
    <3>2. CASE out' = Append(out, dir)
      BY <2>10, <3>2
    <3>3. CASE out' = Append(out, script)
      BY <2>11, <3>3
    <3>4. CASE out' = out
      BY <2>8, <3>4
    <3> QED BY <2>6, <3>1, <3>2, <3>3, <3>4
  <2>14. NoDuplicate'
    BY <2>13 DEF NoDuplicate, Distinct
  <2>15. KnownInv'
    <3>1. Archived \subseteq seen \union Unguarded
      BY <1>2, <2>7, Known DEF Covered
    <3> QED BY <2>5, <2>7, <2>8, <2>13, <3>1 DEF KnownInv
  <2>16. NewInv' /\ LinkInv' /\ phase' # "done"
    BY <1>2, <2>7 DEF NewInv, LinkInv, NoEntry, Entry, Gathering, Linking
  <2>17. Grows
    BY <2>7, <2>13 DEF Grows, f
  <2> QED BY <2>14, <2>15, <2>16, <2>17 DEF Kept
<1> QED BY <1>3, <1>4, <1>5, <1>6 DEF LineStep

(* An entry that main() writes: one it may write, or the next of its links.*)
LEMMA MainEntry ==
  ASSUME GrowInv, NEW p \in Path, NEW t \in Types, NEW T, t \in T, Write(p, t, "main"),
         \/ p \in Unguarded
         \/ Idle /\ p \in Late' /\ p \notin seen \union Unguarded \union Late,
         Late \subseteq Late', UNCHANGED <<seen, cur, filtered, missing>>
  PROVE  /\ NoDuplicate' /\ KnownInv' /\ NewInv'
         /\ Longer(out, out', filtered \union missing, T)
<1> DEFINE e == [path |-> p, type |-> t, via |-> "main"]
<1>1. e \in OutType /\ out' = Append(out, e) /\ e.path = p /\ e.type \in T
  BY DEF OutType, Write
<1> HIDE DEF e
<1>2. Archived \subseteq seen \union Unguarded \union Late
      /\ filtered \subseteq seen /\ missing \subseteq seen
  BY DEF GrowInv, KnownInv, OrderInv, TypeOK, ArchiveTypeOK
<1>3. p \in Unguarded \/ p \notin Covered
  BY <1>2 DEF Covered
<1>4. /\ NoDuplicate' /\ Longer(out, out', filtered \union missing, T)
      /\ Archived' = Archived \union {p}
  BY <1>1, <1>3, WriteStep
<1>5. KnownInv'
  BY <1>2, <1>4 DEF KnownInv
<1>6. NewInv'
  BY <1>4 DEF GrowInv, NewInv, Covered, Idle, NoEntry, Entry
<1> QED BY <1>4, <1>5, <1>6
(* Each statement of main() before the trailer.                            *)
LEMMA MainsStep ==
  ASSUME GrowInv, MainStep, ~MainTrailer
  PROVE  Kept
<1> USE DEF Linking, Over
<1>1. ASSUME NEW p \in Path, NEW t \in Files, Write(p, t, "main"),
             \/ p \in Unguarded
             \/ Idle /\ p \in Late' /\ p \notin seen \union Unguarded \union Late,
             Late \subseteq Late', UNCHANGED <<seen, cur, filtered, missing>>,
             LinkInv' /\ phase' # "done"
      PROVE  Kept
  <2>1. t \in Types
    BY DEF Types, Files
  <2>2. /\ NoDuplicate' /\ KnownInv' /\ NewInv'
        /\ Longer(out, out', filtered \union missing, Files)
    BY <1>1, <2>1, MainEntry
  <2> QED BY <1>1, <2>2 DEF Kept, Grows
<1>2. ASSUME UNCHANGED <<seen, out, cur, filtered, missing>>, Late \subseteq Late',
             LinkInv' /\ phase' # "done"
      PROVE  Kept
  <2>1. Archived' = Archived /\ Covered' = Covered
    BY <1>2 DEF Archived, Covered
  <2>2. NoDuplicate'
    BY <1>2 DEF GrowInv, NoDuplicate
  <2>3. KnownInv' /\ NewInv'
    BY <1>2, <2>1 DEF GrowInv, KnownInv, NewInv
  <2> QED BY <1>2, <2>2, <2>3 DEF Kept, Grows
<1>3. CASE MainConf
  <2>1. /\ Write(<<"rapido.conf">>, "reg", "main") /\ phase = "conf" /\ phase' = "manifest"
        /\ UNCHANGED <<seen, cur, filtered, missing>>
    BY <1>3 DEF MainConf
  <2>2. Late \subseteq Late' /\ LinkInv'
    BY <2>1 DEF Late, LinkInv
  <2> QED BY <1>1, <2>1, <2>2, LiteralPaths DEF Files, Unguarded
<1>4. CASE MainRc
  <2>1. /\ Write(<<"rapido.rc">>, "reg", "main") /\ phase = "manifest" /\ phase' = "core"
        /\ UNCHANGED <<seen, cur, filtered, missing>>
    BY <1>4 DEF MainRc
  <2>2. Late \subseteq Late' /\ LinkInv'
    BY <2>1 DEF Late, LinkInv
  <2> QED BY <1>1, <2>1, <2>2, LiteralPaths DEF Files, Unguarded
<1>5. CASE MainKmods
  <2>1. /\ phase = "core" /\ phase' = "lib64"
        /\ UNCHANGED <<seen, out, cur, filtered, missing>>
    BY <1>5 DEF MainKmods
  <2>2. Late \subseteq Late' /\ LinkInv'
    BY <2>1 DEF Late, LinkInv
  <2> QED BY <1>2, <2>1, <2>2
<1>6. ASSUME NEW from, NEW to, NEW p \in Path, Link(from, to, p), to # "done",
             p \in Late' /\ p \notin Late /\ Late \subseteq Late'
      PROVE  Kept
  <2>1. /\ Idle /\ phase' = to /\ UNCHANGED <<seen, cur, filtered, missing>> /\ Idle'
    BY <1>6 DEF Link, Idle, elfVars, kmodVars
  <2>2. LinkInv' /\ phase' # "done"
    BY <1>6, <2>1 DEF LinkInv
  <2>3. CASE p \in seen
    BY <1>2, <1>6, <2>1, <2>2, <2>3 DEF Link
  <2>4. CASE p \notin seen
    <3>1. Write(p, "lnk", "main") /\ "lnk" \in Files
      BY <1>6, <2>4 DEF Link, Files
    <3> QED BY <1>1, <1>6, <2>1, <2>2, <2>4, <3>1
  <2> QED BY <2>3, <2>4
<1>7. /\ <<"lib64">> # <<"bin">> /\ <<"lib64">> # <<"sbin">> /\ <<"lib64">> # <<"lib">>
      /\ <<"bin">> # <<"sbin">> /\ <<"bin">> # <<"lib">> /\ <<"sbin">> # <<"lib">>
  OBVIOUS
<1>8. /\ SbinModprobe # <<"lib64">> /\ SbinModprobe # <<"bin">>
      /\ SbinModprobe # <<"lib">>
  BY DEF SbinModprobe
<1>9. CASE Link("lib64", "bin", <<"lib64">>)
  <2>1. phase = "lib64" /\ phase' = "bin"
    BY <1>9 DEF Link
  <2>2. <<"lib64">> \in Late' /\ <<"lib64">> \notin Late /\ Late \subseteq Late'
    BY <2>1 DEF Late
  <2> QED BY <1>6, <1>9, <2>2, LiteralPaths
<1>10. CASE Link("bin", "sbin", <<"bin">>)
  <2>1. phase = "bin" /\ phase' = "sbin"
    BY <1>10 DEF Link
  <2>2. <<"bin">> \in Late' /\ <<"bin">> \notin Late /\ Late \subseteq Late'
    BY <1>7, <2>1 DEF Late
  <2> QED BY <1>6, <1>10, <2>2, LiteralPaths
<1>11. CASE MainSbin
  <2>1. phase = "sbin" /\ phase' = "lib" /\ Idle
    BY <1>11 DEF MainSbin, Link
  <2>2. /\ Late \subseteq Late' /\ <<"sbin">> \in Late' /\ SbinModprobe \in Late'
        /\ <<"sbin">> \notin Late /\ SbinModprobe \notin Late
    <3>1. Late = {<<"lib64">>, <<"bin">>}
      BY <2>1 DEF Late
    <3>2. Late' = {<<"lib64">>, <<"bin">>, <<"sbin">>, SbinModprobe}
      BY <2>1 DEF Late
    <3> QED BY <1>7, <1>8, <3>1, <3>2
  <2>3. CASE <<"sbin">> \in seen /\ <<"usr", "sbin", "modprobe">> \notin seen
    <3>1. UNCHANGED <<seen, out, cur, filtered, missing>> /\ Idle'
      BY <1>11, <2>1, <2>3 DEF MainSbin, Idle, elfVars, kmodVars
    <3>2. LinkInv'
      BY <3>1 DEF LinkInv
    <3> QED BY <1>2, <2>1, <2>2, <3>1, <3>2
  <2>4. CASE ~(<<"sbin">> \in seen /\ <<"usr", "sbin", "modprobe">> \notin seen)
    <3> DEFINE p == IF <<"sbin">> \in seen THEN SbinModprobe ELSE <<"sbin">>
    <3>1. Link("sbin", "lib", p)
      BY <1>11, <2>4 DEF MainSbin
    <3>2. p \in Path /\ p \in Late' /\ p \notin Late
      BY <2>2, LiteralPaths
    <3> HIDE DEF p
    <3> QED BY <1>6, <2>2, <3>1, <3>2
  <2> QED BY <2>3, <2>4
<1>12. CASE MainKmodsLink
  <2>1. /\ phase = "lib" /\ phase' = "trailer" /\ Idle /\ Idle'
        /\ Write(KmodsLink, "lnk", "main") /\ UNCHANGED <<seen, cur, filtered, missing>>
    BY <1>12 DEF MainKmodsLink, Idle, elfVars, kmodVars
  <2>2. Late \subseteq Late' /\ <<"lib">> \in Late' /\ <<"lib">> \notin Late
    <3>1. Late = {<<"lib64">>, <<"bin">>, <<"sbin">>, SbinModprobe}
      BY <2>1 DEF Late
    <3>2. Late' = Late \union {<<"lib">>}
      BY <2>1 DEF Late
    <3> QED BY <1>7, <1>8, <3>1, <3>2
  <2>3. /\ KmodsLink \in Path
        /\ \/ KmodsLink \in Unguarded
           \/ KmodsLink \in Late' /\ KmodsLink \notin seen \union Late
    BY <2>2, LiteralPaths DEF KmodsLink, Unguarded
  <2>4. LinkInv' /\ phase' # "done" /\ "lnk" \in Files
    BY <2>1 DEF LinkInv, Files
  <2> QED BY <1>1, <2>1, <2>2, <2>3, <2>4
<1> QED BY <1>3, <1>4, <1>5, <1>9, <1>10, <1>11, <1>12 DEF MainStep

(* The trailer.                                                            *)
Ends ==
  /\ Longer(out, out', filtered \union missing, {"trailer"})
  /\ UNCHANGED <<filtered, missing>> /\ phase' = "done"
  /\ Len(out) \in Nat /\ Len(out') = Len(out) + 1

(* The trailer is the last entry, and nothing else is added with it.       *)
LEMMA TrailerStep ==
  ASSUME GrowInv, MainTrailer
  PROVE  NoDuplicate' /\ KnownInv' /\ NewInv' /\ LinkInv' /\ Ends
<1>1. /\ Write(<<"TRAILER!!!">>, "trailer", "main") /\ phase = "trailer" /\ phase' = "done"
      /\ UNCHANGED <<seen, cur, filtered, missing>>
  BY DEF MainTrailer
<1>2. Late \subseteq Late' /\ LinkInv'
  BY <1>1 DEF Late, LinkInv, Linking, Over
<1>3. <<"TRAILER!!!">> \in Unguarded /\ "trailer" \in Types
  BY DEF Unguarded, Types
<1>4. /\ NoDuplicate' /\ KnownInv' /\ NewInv'
      /\ Longer(out, out', filtered \union missing, {"trailer"})
  BY <1>1, <1>2, <1>3, LiteralPaths, MainEntry
<1>5. Len(out) \in Nat /\ Len(out') = Len(out) + 1
  <2> DEFINE e == [path |-> <<"TRAILER!!!">>, type |-> "trailer", via |-> "main"]
  <2>1. out \in Seq(OutType) /\ e \in OutType /\ out' = Append(out, e)
    BY <1>1, LiteralPaths
    DEF GrowInv, OrderInv, TypeOK, ArchiveTypeOK, OutType, Types, Write
  <2> HIDE DEF e
  <2> QED BY <2>1, AppendProperties, LenProperties
<1> QED BY <1>1, <1>2, <1>4, <1>5 DEF Ends
-----------------------------------------------------------------------------
(* Every step of rapido-cut adds to the archive, or leaves it, or ends it. *)
LEMMA StepKept ==
  ASSUME GrowInv, Next
  PROVE  Running /\ NoDuplicate' /\ KnownInv' /\ NewInv' /\ LinkInv'
         /\ (Ends \/ (Grows /\ phase' # "done"))
<1>1. CASE MainTrailer
  BY <1>1, TrailerStep DEF MainTrailer, Running
<1>2. CASE MainStep /\ ~MainTrailer
  <2>1. Running
    BY <1>2 DEF MainStep, MainConf, MainRc, MainKmods, Link, MainSbin, MainKmodsLink, Running
  <2> QED BY <1>2, <2>1, MainsStep DEF Kept
<1>3. CASE LineStep
  <2>1. Running
    BY <1>3 DEF LineStep, LineInclude, LineFilter, LineEntry, LineArchive, LineBin,
                LineKmod, LineTree, LineAutorun, Reading, Walked, Running
  <2> QED BY <1>3, <2>1, LinesStep DEF Kept
<1>4. CASE gather_archive_dirs
  <2>1. Running
    BY <1>4 DEF gather_archive_dirs, DirUp, DirInvalid, DirSeen, DirArchive, Walking
  <2> QED BY <1>4, <2>1, DirsStep DEF Kept
<1>5. CASE gather_archive_elfs
  <2>1. Running
    BY <1>5 DEF gather_archive_elfs, ElfTryMissing, ElfMissing, ElfSeen, ElfBegin,
                ElfLinkInvalid, ElfLinkDangling, ElfLink, ElfFile, ElfDir, ElfOther,
                ElfReady, ElfWalked, Walked
  <2> QED BY <1>5, <2>1, ElfsStep DEF Kept
<1>6. CASE gather_archive_data
  <2>1. Running
    BY <1>6 DEF gather_archive_data, DataMissing, DataSeen, DataBegin, DataDir, DataLeaf,
                DataReady, DataWalked, Walked
  <2> QED BY <1>6, <2>1, DataStep DEF Kept
<1>7. CASE gather_archive_kmod_and_deps
  <2>1. Running
    BY <1>7 DEF gather_archive_kmod_and_deps, KmodSkip, KmodUnknown, KmodMissing,
                KmodBegin, KmodArchive, KmodReady, Walked
  <2> QED BY <1>7, <2>1, KmodsStep DEF Kept
<1>8. CASE ReadEof
  <2>1. UNCHANGED <<seen, out, cur, filtered, missing, phase>> /\ Gathering /\ Running
    BY <1>8 DEF ReadEof, archiveVars, Gathering, Running
  <2> QED BY <2>1, QuietStep DEF Kept
<1>9. CASE Aborted
  <2>1. UNCHANGED <<seen, out, cur, filtered, missing>> /\ phase' = "failed" /\ Running
    BY <1>9 DEF Aborted, Abort, Fail
  <2>2. Archived' = Archived /\ Covered' = Covered /\ NoDuplicate'
    BY <2>1 DEF Archived, Covered, GrowInv, NoDuplicate
  <2>3. Late \subseteq Late'
    BY <2>1 DEF Late, Linking, Over
  <2>4. KnownInv' /\ NewInv'
    BY <2>1, <2>2, <2>3 DEF GrowInv, KnownInv, NewInv
  <2>5. LinkInv' /\ phase' # "done" /\ Grows
    BY <2>1 DEF LinkInv, Linking, Grows
  <2> QED BY <2>1, <2>2, <2>4, <2>5
<1> QED BY <1>1, <1>2, <1>3, <1>4, <1>5, <1>6, <1>7, <1>8, <1>9 DEF Next, Step

(* The state rapido-cut starts in.                                         *)
LEMMA GrowInit == Init => GrowInv
<1> SUFFICES ASSUME Init PROVE GrowInv
  OBVIOUS
<1>1. OrderInv
  BY OrderInit
<1>2. out = <<>> /\ cur.op = "none" /\ phase = "conf"
  BY DEF Init, NoEntry, Entry
<1>3. NoDuplicate /\ KnownInv
  BY <1>2 DEF NoDuplicate, KnownInv, Archived
<1>4. NewInv /\ LinkInv
  BY <1>2 DEF NewInv, LinkInv, Linking
<1> QED BY <1>1, <1>3, <1>4 DEF GrowInv

(* Every step keeps the invariant.                                         *)
LEMMA GrowNext == GrowInv /\ [Next]_vars => GrowInv'
<1> SUFFICES ASSUME GrowInv, [Next]_vars PROVE GrowInv'
  OBVIOUS
<1>1. OrderInv'
  BY OrderNext DEF GrowInv
<1>2. CASE Next
  BY <1>1, <1>2, StepKept DEF GrowInv
<1>3. CASE UNCHANGED vars
  <2>1. UNCHANGED <<seen, out, cur, phase, filtered, missing, elfs, items, tasks>>
    BY <1>3 DEF vars, archiveVars, elfVars, kmodVars
  <2>2. NoDuplicate' /\ KnownInv'
    BY <2>1 DEF GrowInv, NoDuplicate, KnownInv, Archived, Late
  <2>3. NewInv' /\ LinkInv'
    BY <2>1 DEF GrowInv, NewInv, LinkInv, Covered, Archived, Idle
  <2> QED BY <1>1, <2>2, <2>3 DEF GrowInv
<1> QED BY <1>2, <1>3

(* Whatever the manifest asks for and in whatever order the routines come  *)
(* across a path, the archive holds it once, unless main() or an autorun   *)
(* line wrote it without looking at paths_seen.                            *)
THEOREM NoPathTwice == Spec => []NoDuplicate
<1>1. GrowInv => NoDuplicate
  BY DEF GrowInv
<1> QED BY <1>1, GrowInit, GrowNext, PTL DEF Spec

(* A filter line holds to the end of the run: no routine, parent walk or   *)
(* link of main() archives a filtered path that was not archived before.   *)
THEOREM FiltersHold == Spec => FilterHolds
<1> DEFINE A == \A p \in filtered : p \in Archived' => p \in Archived \union Unguarded
<1>1. ASSUME GrowInv, [Next]_vars PROVE [A]_vars
  <2> SUFFICES ASSUME Next PROVE A
    BY <1>1
  <2> SUFFICES ASSUME NEW p \in filtered, p \in Archived' PROVE p \in Archived \union Unguarded
    OBVIOUS
  <2>1. PICK k \in DOMAIN out' : out'[k].path = p
    BY DEF Archived
  <2>2. \/ UNCHANGED out
        \/ \E T : Longer(out, out', filtered \union missing, T)
    BY <1>1, StepKept DEF Ends, Grows
  <2>3. CASE UNCHANGED out
    BY <2>1, <2>3 DEF Archived
  <2>4. CASE \E T : Longer(out, out', filtered \union missing, T)
    <3>1. CASE k \in DOMAIN out
      BY <2>1, <2>4, <3>1 DEF Longer, Archived
    <3>2. CASE k \notin DOMAIN out
      BY <2>1, <2>4, <3>2 DEF Longer
    <3> QED BY <3>1, <3>2
  <2> QED BY <2>2, <2>3, <2>4
<1> HIDE DEF A
<1>2. Spec => [][A]_vars
  BY <1>1, GrowInit, GrowNext, PTL DEF Spec
<1> QED BY <1>2 DEF FilterHolds, A
-----------------------------------------------------------------------------
(* A new entry of the archive is where Image wants it: after its parent's, *)
(* the first of its path, and not of a closed path.                        *)
LEMMA EntryPlaced ==
  ASSUME OrderInv', NoDuplicate', UNCHANGED <<filtered, missing>>, NEW T,
         Longer(out, out', filtered \union missing, T), NEW k \in DOMAIN out' \ DOMAIN out
  PROVE  Img!Placed(out', k) /\ Img!First(out', k) /\ out'[k].type \in T
<1>1. out' \in Seq(OutType)
  BY DEF OrderInv, TypeOK, ArchiveTypeOK, OutType
<1>2. Len(out') \in Nat /\ DOMAIN out' = 1..Len(out')
  BY <1>1, LenProperties
<1>3. \A j \in 1..(k - 1) : j \in DOMAIN out' /\ j # k
  BY <1>2
<1>4. Img!Placed(out', k)
  BY DEF OrderInv, ParentFirst, Img!Placed, Img!Plain, Img!Parent, Plain, Parent
<1>5. Img!First(out', k)
  <2>1. out'[k].path \in Unguarded \/ out'[k].path \notin filtered \union missing
    BY DEF Longer
  <2> QED BY <1>3, <2>1 DEF NoDuplicate, Img!First
<1> QED BY <1>4, <1>5 DEF Longer

(* Every step of rapido-cut is a step of Image, or changes nothing of it.  *)
LEMMA StepRefines ==
  ASSUME GrowInv, GrowInv', Next
  PROVE  Img!Next
<1> DEFINE f == filtered \union missing
           state == IF Running THEN "open" ELSE phase
<1>1. /\ Running /\ NoDuplicate' /\ OrderInv' /\ phase' \in Phases
      /\ (Ends \/ (Grows /\ phase' # "done"))
  BY StepKept DEF GrowInv, OrderInv, TypeOK, ArchiveTypeOK
<1>2. /\ state = "open" /\ state' \in {"open", "done", "failed"}
      /\ state' = "done" <=> phase' = "done"
  BY <1>1 DEF Running, Phases
<1>3. CASE Ends
  <2>1. /\ Longer(out, out', f, {"trailer"}) /\ UNCHANGED <<filtered, missing>>
        /\ phase' = "done" /\ Len(out) \in Nat /\ Len(out') = Len(out) + 1
    BY <1>3 DEF Ends
  <2>2. \A k \in DOMAIN out' \ DOMAIN out :
          Img!Placed(out', k) /\ Img!First(out', k) /\ out'[k].type \in {"trailer"}
    BY <1>1, <2>1, EntryPlaced
  <2>3. /\ DOMAIN out = 1..Len(out) /\ DOMAIN out' = 1..Len(out')
    BY <1>1, LenProperties DEF GrowInv, OrderInv, TypeOK, ArchiveTypeOK
  <2>4. /\ Len(out') \in DOMAIN out' \ DOMAIN out
        /\ \A k \in DOMAIN out' \ DOMAIN out : k = Len(out')
    BY <2>1, <2>3
  <2>5. \A k \in DOMAIN out : k \in DOMAIN out' /\ out'[k] = out[k]
    BY <2>1 DEF Longer
  <2>6. Img!Extend
    BY <1>2, <2>1, <2>2, <2>4, <2>5 DEF Img!Extend
  <2> QED BY <1>2, <2>6 DEF Img!Next
<1>4. CASE Grows /\ phase' # "done"
  <2>1. CASE Longer(out, out', f, Files) /\ UNCHANGED <<filtered, missing>>
    <3>1. \A k \in DOMAIN out' \ DOMAIN out :
            Img!Placed(out', k) /\ Img!First(out', k) /\ out'[k].type \in Files
      BY <1>1, <2>1, EntryPlaced
    <3>2. \A k \in DOMAIN out : k \in DOMAIN out' /\ out'[k] = out[k]
      BY <2>1 DEF Longer
    <3>3. "trailer" \notin Files
      BY DEF Files
    <3>4. Img!Extend
      BY <1>2, <1>4, <2>1, <3>1, <3>2, <3>3 DEF Img!Extend
    <3> QED BY <1>2, <3>4 DEF Img!Next
  <2>2. CASE UNCHANGED out /\ filtered \subseteq filtered' /\ missing \subseteq missing'
    <3>1. Img!Close
      BY <1>2, <1>4, <2>2 DEF Img!Close
    <3> QED BY <1>2, <3>1 DEF Img!Next
  <2> QED BY <1>4, <2>1, <2>2 DEF Grows
<1> QED BY <1>1, <1>3, <1>4

(* rapido-cut implements Image: its routines, run in whatever order the    *)
(* manifest and the host lead to, and failing anywhere, build the archive  *)
(* the way the abstract specification allows.                              *)
THEOREM ImageRefined == Spec => WellGrown
<1>1. Init => Img!Init
  BY DEF Init, Img!Init, Running
<1>2. ASSUME GrowInv, GrowInv', [Next]_vars PROVE [Img!Next]_Img!vars
  <2>1. CASE Next
    BY <1>2, <2>1, StepRefines
  <2>2. CASE UNCHANGED vars
    BY <2>2 DEF vars, archiveVars, Img!vars, Running
  <2> QED BY <1>2, <2>1, <2>2
<1> QED BY <1>1, <1>2, GrowInit, GrowNext, PTL DEF Spec, WellGrown, Img!Spec
=============================================================================
