------------------------------ MODULE CutProofs ------------------------------
(***************************************************************************)
(* Type correctness of Cut, for every host, module database and manifest,  *)
(* and what GrowthProofs and ClosureProofs share: lemmas about paths, lists*)
(* and archives, and that paths_seen holds nothing but what was archived,  *)
(* filtered or missing, or is in progress (SeenInv).                       *)
(***************************************************************************)
EXTENDS Cut, SequenceTheorems, TLAPS

(* A leaf that names no prover is tried with Zenon, then with SMT.         *)
USE Zenon, SMTT(20)

-----------------------------------------------------------------------------
(* Facts about paths.                                                      *)

(* The parent of a path with a component added is that path.               *)
LEMMA ParentAppend ==
  ASSUME NEW p \in Path, NEW n \in Name
  PROVE  Append(p, n) \in Path /\ Parent(Append(p, n)) = p
BY DEF Parent, Path

(* A parent is a path; that of a path below "/" is shorter by one.         *)
LEMMA ParentType ==
  ASSUME NEW p \in Path
  PROVE  /\ Parent(p) \in Path
         /\ p = <<>> => Parent(p) = <<>>
         /\ p # <<>> => Len(Parent(p)) = Len(p) - 1 /\ Parent(p) # p
<1>1. \A i \in 1..(Len(p) - 1) : p[i] \in Name
  BY DEF Path
<1>2. Len(p) \in Nat /\ (p = <<>> <=> Len(p) = 0)
  BY EmptySeq, LenProperties DEF Path
<1>3. Parent(p) \in Path /\ Len(Parent(p)) = IF 1 <= Len(p) - 1 THEN Len(p) - 1 ELSE 0
  BY <1>1, <1>2, SubSeqProperties DEF Parent, Path
<1>4. p = <<>> => Parent(p) = <<>>
  BY <1>2, <1>3, EmptySeq DEF Path
<1>5. ASSUME p # <<>> PROVE Len(Parent(p)) = Len(p) - 1
  <2>1. Len(p) \in Nat /\ Len(p) # 0
    BY <1>2, <1>5
  <2> QED BY <2>1, <1>3
<1>6. ASSUME p # <<>> PROVE Parent(p) # p
  <2>1. Len(Parent(p)) # Len(p)
    BY <1>2, <1>5, <1>6
  <2> QED BY <2>1
<1> QED BY <1>3, <1>4, <1>5, <1>6

-----------------------------------------------------------------------------
(* Type correctness.                                                       *)

EntryType == {e \in [op : Ops, dst : Path, src : Path] :
                e.op \in HostOps => e.src \in DOMAIN Host}
OutType == [path : Path, type : Types,
            via : Ops \union {"walk", "line", "autorun", "main"}]

(* Writing an entry of the right kind keeps the archive well typed.        *)
LEMMA WriteType ==
  ASSUME out \in Seq(OutType), NEW p \in Path, NEW t \in Types,
         NEW via \in Ops \union {"walk", "line", "autorun", "main"},
         Write(p, t, via)
  PROVE  out' \in Seq(OutType)
<1>1. [path |-> p, type |-> t, via |-> via] \in OutType
  BY DEF OutType
<1> QED BY <1>1, AppendProperties DEF Write

(* Entering the parent walk for a well typed entry.                        *)
LEMMA BeginType ==
  ASSUME NEW c \in EntryType, NEW s, NEW b \in BOOLEAN, Begin(c, s, b)
  PROVE  /\ cur' \in EntryType /\ here' \in Path /\ wi' \in Nat
         /\ (cur.dst # <<>> => wi > 0)'
<1>1. c.dst \in Path
  BY DEF EntryType
<1>2. Len(c.dst) \in Nat /\ <<>> \in Path /\ (c.dst # <<>> => Len(c.dst) > 0)
  BY <1>1, LenProperties, EmptySeq DEF Path
<1> QED BY <1>2 DEF Begin

(* No entry in progress is an entry.                                       *)
LEMMA NoEntryType == NoEntry \in EntryType
<1>1. <<>> \in Path
  BY EmptySeq DEF Path
<1> QED BY <1>1 DEF NoEntry, Entry, EntryType, Ops, HostOps

(* Completing an entry.                                                    *)
LEMMA FinishType ==
  ASSUME ArchiveTypeOK, NEW t \in Types, NEW via \in Ops \union {"line"},
         Finish(t, via)
  PROVE  ArchiveTypeOK'
<1>1. out \in Seq(OutType) /\ cur \in EntryType /\ cur.dst \in Path
  BY DEF ArchiveTypeOK, OutType, EntryType
<1>2. out' \in Seq(OutType)
  BY <1>1, WriteType DEF Finish
<1>3. cur' \in EntryType /\ cur'.dst = <<>>
  BY NoEntryType DEF Finish, NoEntry, Entry
<1> QED BY <1>1, <1>2, <1>3 DEF ArchiveTypeOK, Finish, OutType, EntryType

(* Each step of gather_archive_dirs().                                     *)
LEMMA DirsType ==
  ASSUME ArchiveTypeOK, gather_archive_dirs
  PROVE  ArchiveTypeOK'
<1>1. out \in Seq(OutType) /\ cur.dst \in Path
  BY DEF ArchiveTypeOK, OutType
<1>2. ASSUME Walking PROVE Append(here, cur.dst[wi]) \in Path
  <2>1. wi \in 1..Len(cur.dst) /\ here \in Path
    BY <1>1, <1>2, LenProperties, EmptySeq DEF Walking, ArchiveTypeOK, Path
  <2>2. cur.dst[wi] \in Name
    BY <1>1, <2>1, ElementOfSeq DEF Path
  <2> QED BY <2>1, <2>2, AppendProperties DEF Path
<1>3. CASE DirUp
  <2>1. here' \in Path /\ wi' \in Nat /\ wi' > 0
    BY <1>3, ParentType DEF DirUp, ArchiveTypeOK
  <2> QED BY <1>3, <2>1 DEF DirUp, ArchiveTypeOK
<1>4. CASE DirInvalid
  BY <1>4 DEF DirInvalid, Fail, ArchiveTypeOK, Phases
<1>5. CASE DirSeen
  BY <1>2, <1>5 DEF DirSeen, ArchiveTypeOK
<1>6. CASE DirArchive
  <2>1. here' \in Path
    BY <1>2, <1>6 DEF DirArchive
  <2>2. out' \in Seq(OutType)
    BY <1>1, <1>6, <2>1, WriteType DEF DirArchive, Types
  <2>3. seen' \subseteq Path /\ filtered' \subseteq seen' /\ missing' \subseteq seen'
    BY <1>6, <2>1 DEF DirArchive, ArchiveTypeOK
  <2>4. wi' \in Nat /\ wi' > 0
    BY <1>6 DEF DirArchive, ArchiveTypeOK
  <2>5. cur' = cur /\ phase' = phase
    BY <1>6 DEF DirArchive
  <2> QED BY <2>1, <2>2, <2>3, <2>4, <2>5 DEF ArchiveTypeOK, OutType
<1> QED BY <1>3, <1>4, <1>5, <1>6 DEF gather_archive_dirs

(* Elements of what is left of a stack or queue, and of what was added.    *)
LEMMA SeqTypes ==
  ASSUME NEW S, NEW s \in Seq(S), s # <<>>
  PROVE  /\ SubSeq(s, 1, Len(s) - 1) \in Seq(S) /\ Tail(s) \in Seq(S)
         /\ s[Len(s)] \in S /\ s[1] \in S
<1>1. Len(s) \in Nat \ {0}
  BY EmptySeq
<1>2. \A i \in 1..Len(s) : s[i] \in S
  BY ElementOfSeq
<1>3. SubSeq(s, 1, Len(s) - 1) \in Seq(S)
  BY <1>1, <1>2, SubSeqProperties
<1> QED BY <1>1, <1>2, <1>3, HeadTailProperties

(* A sequence of one element.                                              *)
LEMMA Singleton ==
  ASSUME NEW S, NEW e \in S
  PROVE  <<e>> \in Seq(S)
OBVIOUS

(* Replacing each element of a sequence.                                   *)
LEMMA MapType ==
  ASSUME NEW S, NEW T, NEW s \in Seq(S), NEW f \in [DOMAIN s -> T]
  PROVE  f \in Seq(T)
<1>1. DOMAIN s = 1..Len(s) /\ Len(s) \in Nat
  BY LenProperties
<1> QED BY <1>1

(* What is left of a stack, and what was on top.                           *)
LEMMA PopFacts ==
  ASSUME NEW S, NEW s \in Seq(S), s # <<>>
  PROVE  LET q == SubSeq(s, 1, Len(s) - 1)
         IN  /\ q \in Seq(S) /\ s[Len(s)] \in S /\ Len(s) \in DOMAIN s
             /\ \A i \in DOMAIN q : i \in DOMAIN s /\ q[i] = s[i]
             /\ \A i \in DOMAIN s : i = Len(s) \/ (i \in DOMAIN q /\ q[i] = s[i])
<1> DEFINE q == SubSeq(s, 1, Len(s) - 1)
<1>1. Len(s) \in Nat \ {0} /\ DOMAIN s = 1..Len(s)
  BY EmptySeq, LenProperties
<1>2. q \in Seq(S) /\ s[Len(s)] \in S
  BY SeqTypes
<1>3. \A i \in 1..(Len(s) - 1) : s[i] \in S
  BY <1>1, ElementOfSeq
<1>4. Len(q) = Len(s) - 1 /\ \A i \in 1..(Len(s) - 1) : q[i] = s[i]
  BY <1>1, <1>3, SubSeqProperties
<1> HIDE DEF q
<1>5. DOMAIN q = 1..(Len(s) - 1)
  BY <1>2, <1>4, LenProperties
<1>6. /\ q \in Seq(S) /\ s[Len(s)] \in S /\ Len(s) \in DOMAIN s
      /\ \A i \in DOMAIN q : i \in DOMAIN s /\ q[i] = s[i]
      /\ \A i \in DOMAIN s : i = Len(s) \/ (i \in DOMAIN q /\ q[i] = s[i])
  BY <1>1, <1>2, <1>4, <1>5
<1> QED
  BY <1>6 DEF q

(* What a directory puts on the stack.                                     *)
ElfKids == [i \in DOMAIN Node.kids |-> Ent("Path", Append(cur.src, Node.kids[i]), TRUE, <<>>)]
LEMMA ElfKidsType ==
  ASSUME cur.src \in DOMAIN Host
  PROVE  /\ ElfKids \in Seq(EntType)
         /\ \A i \in DOMAIN ElfKids :
              /\ ElfKids[i].k = "Path" /\ ElfKids[i].sep /\ ElfKids[i].name # <<>>
              /\ Parent(ElfKids[i].name) = cur.src
<1>1. cur.src \in Path /\ Node.kids \in Seq(Name) /\ <<>> \in Seq(Path)
  BY HostAssumption, EmptySeq DEF Node
<1>2. \A i \in DOMAIN Node.kids : Node.kids[i] \in Name
  BY <1>1, ElementOfSeq, LenProperties
<1>3. \A i \in DOMAIN Node.kids :
        /\ Append(cur.src, Node.kids[i]) \in Path /\ Append(cur.src, Node.kids[i]) # <<>>
        /\ Parent(Append(cur.src, Node.kids[i])) = cur.src
  <2> TAKE i \in DOMAIN Node.kids
  <2>1. Node.kids[i] \in Name
    BY <1>2
  <2>2. Append(cur.src, Node.kids[i]) \in Path /\ Parent(Append(cur.src, Node.kids[i])) = cur.src
    BY <1>1, <2>1, ParentAppend
  <2>3. Append(cur.src, Node.kids[i]) # <<>>
    BY <1>1, <2>1 DEF Path
  <2> QED
    BY <2>2, <2>3
<1>4. \A i \in DOMAIN Node.kids : ElfKids[i] \in EntType
  BY <1>1, <1>3 DEF ElfKids, EntType, Ent
<1>5. ElfKids \in [DOMAIN Node.kids -> EntType]
  BY <1>4 DEF ElfKids
<1>6. ElfKids \in Seq(EntType)
  BY <1>1, <1>5, MapType
<1> QED
  BY <1>3, <1>6 DEF ElfKids, Ent

(* The libraries that elf_deps() returns.                                  *)
LEMMA DepsEnts ==
  ASSUME cur.src \in DOMAIN Host, NEW deps \in elf_deps(Node)
  PROVE  /\ deps \in Seq(EntType) /\ \A i \in DOMAIN deps : deps[i].k = "Lib"
         /\ \A i \in DOMAIN deps : \E l \in DOMAIN Node.needed :
              deps[i] = Ent("Lib", <<Node.needed[l]>>, FALSE, Node.run)
         /\ ~Node.broken => \A i \in NewNames(Node) : \E j \in DOMAIN deps :
              deps[j] = Ent("Lib", <<Node.needed[i]>>, FALSE, Node.run)
<1>1. CASE Node.broken
  <2>1. deps = <<>>
    BY <1>1 DEF elf_deps
  <2> QED
    BY <1>1, <2>1, EmptySeq
<1>2. CASE ~Node.broken
  <2>1. PICK f \in Ascending(NewNames(Node), Len(Node.needed)) :
          deps = [j \in DOMAIN f |-> Ent("Lib", <<Node.needed[f[j]]>>, FALSE, Node.run)]
    BY <1>2 DEF elf_deps
  <2>2. PICK m \in 0..Len(Node.needed) : f \in [1..m -> NewNames(Node)]
    BY <2>1 DEF Ascending
  <2>3. Node.needed \in Seq(Name) /\ Node.run \in Seq(Path)
    BY HostAssumption, ElfAssumption DEF Node
  <2>4. Len(Node.needed) \in Nat /\ \A i \in DOMAIN Node.needed : Node.needed[i] \in Name
    BY <2>3, ElementOfSeq, LenProperties
  <2>5. m \in Nat /\ NewNames(Node) \subseteq DOMAIN Node.needed
    BY <2>2, <2>4 DEF NewNames
  <2>6. \A j \in 1..m : Node.needed[f[j]] \in Name
    BY <2>2, <2>4, <2>5
  <2>7. \A j \in 1..m : Ent("Lib", <<Node.needed[f[j]]>>, FALSE, Node.run) \in EntType
    BY <2>3, <2>6, Singleton DEF EntType, Ent, Path
  <2>8. DOMAIN deps = 1..m /\ deps \in [1..m -> EntType] /\ \A i \in DOMAIN deps : deps[i].k = "Lib"
    BY <2>1, <2>2, <2>7 DEF Ent
  <2>9. deps \in Seq(EntType)
    BY <2>5, <2>8
  <2>10. \A i \in NewNames(Node) : \E j \in DOMAIN f : f[j] = i
    BY <2>1 DEF Ascending
  <2>11. \A i \in NewNames(Node) : \E j \in DOMAIN deps :
           deps[j] = Ent("Lib", <<Node.needed[i]>>, FALSE, Node.run)
    BY <2>1, <2>10
  <2>12. \A i \in DOMAIN deps : \E l \in DOMAIN Node.needed :
           deps[i] = Ent("Lib", <<Node.needed[l]>>, FALSE, Node.run)
    BY <2>1, <2>2, <2>5, <2>8
  <2> QED
    BY <2>8, <2>9, <2>11, <2>12
<1> QED
  BY <1>1, <1>2

(* The stack of gather_archive_elfs().                                     *)
LEMMA ElfsStackType ==
  ASSUME ArchiveTypeOK, elfs \in Seq(EntType), gather_archive_elfs
  PROVE  elfs' \in Seq(EntType)
<1>1. CASE ElfTryMissing \/ ElfSeen \/ ElfBegin
  <2>1. elfs # <<>> /\ elfs' = Popped
    BY <1>1 DEF ElfTryMissing, ElfSeen, ElfBegin, ElfReady
  <2> QED
    BY <2>1, SeqTypes DEF Popped
<1>2. CASE UNCHANGED elfVars
  BY <1>2 DEF elfVars
<1>3. ASSUME ElfWalked PROVE cur.src \in DOMAIN Host
  BY <1>3 DEF ElfWalked, Walked, ArchiveTypeOK, ElfOps, HostOps
<1>4. CASE ElfLink
  <2> DEFINE e == Ent(IF cur.op = "elflib" THEN "Lib" ELSE "Name", Node.tgt, TRUE, <<>>)
  <2>1. Node.type = "lnk" /\ Node.tgt # NoTarget /\ elfs' = Append(elfs, e)
        /\ cur.src \in DOMAIN Host
    BY <1>3, <1>4 DEF ElfLink
  <2>2. Node.tgt \in Path /\ <<>> \in Seq(Path)
    BY <2>1, ElfAssumption, EmptySeq DEF Node
  <2>3. e \in EntType
    BY <2>2 DEF Ent, EntType
  <2> HIDE DEF e
  <2> QED
    BY <2>1, <2>3, AppendProperties
<1>5. CASE \E deps \in elf_deps(Node) : ElfFile /\ elfs' = elfs \o deps
  <2>1. PICK deps \in elf_deps(Node) : ElfFile /\ elfs' = elfs \o deps
    BY <1>5
  <2>2. deps \in Seq(EntType)
    BY <1>3, <2>1, DepsEnts DEF ElfFile
  <2> QED
    BY <2>1, <2>2, ConcatProperties
<1>6. CASE ElfDir
  <2>1. elfs' = elfs \o ElfKids /\ cur.src \in DOMAIN Host
    BY <1>3, <1>6 DEF ElfDir, ElfKids
  <2> QED
    BY <2>1, ElfKidsType, ConcatProperties
<1>7. CASE ElfFile
  BY <1>2, <1>5, <1>7 DEF ElfFile
<1> QED
  BY <1>1, <1>2, <1>4, <1>6, <1>7
  DEF gather_archive_elfs, ElfMissing, ElfLinkInvalid, ElfLinkDangling, ElfOther

(* Each step of gather_archive_elfs(), whatever its stack holds.           *)
LEMMA ElfsType ==
  ASSUME ArchiveTypeOK, libs \subseteq Name, gather_archive_elfs
  PROVE  ArchiveTypeOK' /\ libs' \subseteq Name
<1>1. CASE ElfTryMissing \/ ElfSeen
  BY <1>1 DEF ElfTryMissing, ElfSeen, ArchiveTypeOK, archiveVars
<1>2. CASE ElfMissing \/ ElfLinkInvalid
  BY <1>2 DEF ElfMissing, ElfLinkInvalid, Fail, ArchiveTypeOK, Phases, elfVars
<1>3. CASE ElfBegin
  <2>1. PICK p \in DOMAIN Host, op \in ElfOps :
          Begin(Entry(op, ElfDst(p), p), seen, FALSE)
    BY <1>3 DEF ElfBegin, ElfOps
  <2>2. p \in Path /\ ElfDst(p) \in Path
    BY HostAssumption, NameAssumption DEF ElfDst, NameDstPath, Path
  <2>3. Entry(op, ElfDst(p), p) \in EntryType
    BY <2>2 DEF Entry, EntryType, Ops, ElfOps
  <2> QED BY <1>3, <2>1, <2>3, BeginType DEF ElfBegin, ArchiveTypeOK, EntryType
<1>4. ASSUME ElfWalked PROVE cur.op \in Ops /\ cur.op \in ElfOps
  BY <1>4 DEF ElfWalked, Walked, ArchiveTypeOK
<1>5. CASE ElfLinkDangling
  BY <1>5, NoEntryType DEF ElfLinkDangling, ArchiveTypeOK, EntryType, NoEntry, Entry, elfVars
<1>6. CASE ElfLink
  BY <1>4, <1>6, FinishType DEF ElfLink, Types
<1>7. CASE ElfDir
  BY <1>4, <1>7, FinishType DEF ElfDir, Types
<1>8. CASE ElfOther
  BY <1>4, <1>8, FinishType DEF ElfOther, Types, elfVars
<1>9. CASE ElfFile
  <2>1. ArchiveTypeOK'
    BY <1>4, <1>9, FinishType DEF ElfFile, Types
  <2>2. Node.needed \in Seq(Name)
    BY <1>4, <1>9, HostAssumption DEF ElfFile, Node, ArchiveTypeOK, ElfOps, HostOps
  <2>3. \A i \in DOMAIN Node.needed : Node.needed[i] \in Name
    BY <2>2, ElementOfSeq, LenProperties
  <2>4. libs' \subseteq Name
    BY <1>9, <2>3 DEF ElfFile, elfVars
  <2> QED BY <2>1, <2>4
<1> QED BY <1>1, <1>2, <1>3, <1>5, <1>6, <1>7, <1>8, <1>9 DEF gather_archive_elfs

ItemType == [src : Path, dst : Path, child : BOOLEAN]

(* The items a directory adds are well typed.                              *)
LEMMA KidsType ==
  ASSUME NEW src \in Path, NEW dst \in Path, NEW kids \in Seq(Name)
  PROVE  [i \in DOMAIN kids |-> Item(Append(src, kids[i]), Append(dst, kids[i]), TRUE)]
           \in Seq(ItemType)
<1> DEFINE new == [i \in DOMAIN kids |->
                     Item(Append(src, kids[i]), Append(dst, kids[i]), TRUE)]
<1>1. \A i \in DOMAIN kids : kids[i] \in Name
  BY ElementOfSeq, LenProperties
<1>2. \A i \in DOMAIN kids : Append(src, kids[i]) \in Path /\ Append(dst, kids[i]) \in Path
  BY <1>1, AppendProperties DEF Path
<1>3. new \in [DOMAIN kids -> ItemType]
  BY <1>2 DEF Item, ItemType
<1> HIDE DEF new
<1>4. new \in Seq(ItemType)
  BY <1>3, MapType
<1> QED BY <1>4 DEF new

(* Each step of gather_archive_data().                                     *)
LEMMA DataType ==
  ASSUME ArchiveTypeOK, items \in Seq(ItemType), gather_archive_data
  PROVE  ArchiveTypeOK' /\ items' \in Seq(ItemType)
<1>1. ASSUME DataReady PROVE PoppedItems \in Seq(ItemType) /\ TopItem \in ItemType
  BY <1>1, SeqTypes DEF DataReady, PoppedItems, TopItem
<1>2. CASE DataMissing
  BY <1>2 DEF DataMissing, Fail, ArchiveTypeOK, Phases
<1>3. CASE DataSeen
  BY <1>1, <1>3 DEF DataSeen, archiveVars, ArchiveTypeOK
<1>4. CASE DataBegin
  <2>1. TopItem \in ItemType /\ PoppedItems \in Seq(ItemType)
    BY <1>1, <1>4 DEF DataBegin
  <2> DEFINE c == Entry(IF TopItem.child THEN "child" ELSE "tree",
                        TopItem.dst, TopItem.src)
  <2>2. c \in EntryType
    BY <1>4, <2>1 DEF DataBegin, Entry, EntryType, ItemType, Ops, HostOps
  <2>3. /\ cur' \in EntryType /\ here' \in Path /\ wi' \in Nat
        /\ (cur.dst # <<>> => wi > 0)'
    BY <1>4, <2>1, <2>2, BeginType DEF DataBegin, ItemType
  <2>4. seen' \subseteq Path /\ filtered' \subseteq seen' /\ missing' \subseteq seen'
    BY <1>4, <2>1 DEF DataBegin, ArchiveTypeOK, ItemType
  <2>5. out' = out /\ phase' = phase /\ items' = PoppedItems
    BY <1>4 DEF DataBegin
  <2> QED BY <2>1, <2>3, <2>4, <2>5 DEF ArchiveTypeOK, EntryType
<1>5. CASE DataDir
  <2>1. cur.op \in {"tree", "child"} /\ cur.op \in Ops
    BY <1>5 DEF DataDir, DataWalked, Walked, ArchiveTypeOK
  <2>2. ArchiveTypeOK'
    BY <1>5, <2>1, FinishType DEF DataDir, Types
  <2>3. cur.src \in Path /\ cur.dst \in Path /\ Host[cur.src].kids \in Seq(Name)
    BY <2>1, HostAssumption DEF ArchiveTypeOK, HostOps
  <2> DEFINE kids == Host[cur.src].kids
             new == [i \in DOMAIN kids |-> Item(Append(cur.src, kids[i]),
                                               Append(cur.dst, kids[i]), TRUE)]
  <2>4. new \in Seq(ItemType)
    BY <2>3, KidsType
  <2>5. items' = items \o new
    BY <1>5 DEF DataDir
  <2> HIDE DEF new
  <2> QED BY <2>2, <2>4, <2>5, ConcatProperties
<1>6. CASE DataLeaf
  <2>1. cur.op \in {"tree", "child"} /\ cur.op \in Ops
    BY <1>6 DEF DataLeaf, DataWalked, Walked, ArchiveTypeOK
  <2>2. Host[cur.src].type \in Types
    BY <2>1, HostAssumption DEF ArchiveTypeOK, HostOps, Types
  <2> QED BY <1>6, <2>1, <2>2, FinishType DEF DataLeaf
<1> QED BY <1>2, <1>3, <1>4, <1>5, <1>6 DEF gather_archive_data

(* The tasks a root module adds are well typed.                            *)
LEMMA DepsType ==
  ASSUME NEW m \in DOMAIN Kmod, NEW b \in BOOLEAN
  PROVE  HardTasks(Kmod[m], b) \in Seq(TaskType) /\ SoftTasks(Kmod[m]) \in Seq(TaskType)
<1>1. Kmod[m].hard \in Seq(Path) /\ Kmod[m].soft \in Seq(STRING)
  BY KmodAssumption
<1>2. /\ \A i \in DOMAIN Kmod[m].hard : Kmod[m].hard[i] \in Path
      /\ \A i \in DOMAIN Kmod[m].soft : Kmod[m].soft[i] \in STRING
  BY <1>1, ElementOfSeq, LenProperties
<1>3. <<>> \in Path
  BY EmptySeq DEF Path
<1>4. HardTasks(Kmod[m], b) \in [DOMAIN Kmod[m].hard -> TaskType]
  BY <1>2 DEF HardTasks, Task, TaskType
<1>5. SoftTasks(Kmod[m]) \in [DOMAIN Kmod[m].soft -> TaskType]
  BY <1>2, <1>3 DEF SoftTasks, Task, TaskType
<1> QED BY <1>1, <1>4, <1>5, MapType

(* The tasks of a call of gather_archive_kmods().                          *)
LEMMA CallType ==
  ASSUME NEW names \in Seq(STRING), NEW b \in BOOLEAN, gather_archive_kmods(names, b)
  PROVE  tasks' \in Seq(TaskType) /\ gk' \in BOOLEAN
<1> DEFINE roots == [i \in DOMAIN names |-> Task("root", names[i], <<>>, b)]
<1>1. \A i \in DOMAIN names : names[i] \in STRING
  BY ElementOfSeq, LenProperties
<1>2. \A i \in DOMAIN KmodDb : KmodDb[i] \in Path
  BY KmodAssumption, ElementOfSeq, LenProperties
<1>3. <<>> \in Path
  BY EmptySeq DEF Path
<1>4. DbTasks \in [DOMAIN KmodDb -> TaskType]
  BY <1>2 DEF DbTasks, Task, TaskType
<1>5. roots \in [DOMAIN names -> TaskType]
  BY <1>1, <1>3 DEF Task, TaskType
<1>6. DbTasks \in Seq(TaskType) /\ roots \in Seq(TaskType) /\ <<>> \in Seq(TaskType)
  BY <1>4, <1>5, MapType, EmptySeq, KmodAssumption
<1>7. tasks' = (IF gk THEN <<>> ELSE DbTasks) \o roots /\ gk' = TRUE
  BY DEF gather_archive_kmods
<1> HIDE DEF roots
<1> QED BY <1>6, <1>7, ConcatProperties

(* The file that a task leads to.                                          *)
LEMMA KmodEntryType ==
  ASSUME tasks \in Seq(TaskType), KmodReady, HasFile
  PROVE  Rel \in Path /\ KmodDst \in Path /\ Entry("kmod", KmodDst, Rel) \in EntryType
<1>1. Task1 \in TaskType
  BY SeqTypes DEF KmodReady, Task1
<1>2. Rel \in Path
  BY <1>1, KmodAssumption DEF HasFile, Rel, Found, TaskType
<1>3. KmodDst \in Path
  BY <1>2, KmodAssumption, ConcatProperties DEF KmodDst, Path
<1> QED BY <1>2, <1>3 DEF Entry, EntryType, Ops, HostOps

(* Each step of gather_archive_kmod_and_deps().                            *)
LEMMA KmodsType ==
  ASSUME ArchiveTypeOK, tasks \in Seq(TaskType), gk \in BOOLEAN,
         gather_archive_kmod_and_deps
  PROVE  ArchiveTypeOK' /\ tasks' \in Seq(TaskType) /\ gk' \in BOOLEAN
<1>1. ASSUME KmodReady PROVE Task1 \in TaskType /\ Tail(tasks) \in Seq(TaskType)
  BY <1>1, SeqTypes DEF KmodReady, Task1
<1>2. <<>> \in Seq(TaskType)
  BY EmptySeq
<1>3. CASE KmodSkip
  BY <1>1, <1>3 DEF KmodSkip, archiveVars, ArchiveTypeOK
<1>4. CASE KmodUnknown
  BY <1>2, <1>4 DEF KmodUnknown, KmodNotFound, Fail, ArchiveTypeOK, Phases
<1>5. ASSUME KmodReady, HasFile PROVE Rel \in Path /\ KmodDst \in Path
  BY <1>5, KmodEntryType
<1>6. CASE KmodMissing
  <2>1. KmodDst \in Path /\ Tail(tasks) \in Seq(TaskType)
    BY <1>1, <1>5, <1>6 DEF KmodMissing
  <2>2. seen' \subseteq Path /\ filtered' \subseteq seen' /\ missing' \subseteq seen'
    BY <1>6, <2>1 DEF KmodMissing, ArchiveTypeOK
  <2>3. tasks' \in Seq(TaskType) /\ phase' \in Phases
    BY <1>2, <1>6, <2>1 DEF KmodMissing, KmodNotFound, Fail, ArchiveTypeOK, Phases
  <2>4. out' = out /\ cur' = cur /\ here' = here /\ wi' = wi /\ gk' = gk
    BY <1>6 DEF KmodMissing
  <2> QED BY <2>2, <2>3, <2>4 DEF ArchiveTypeOK
<1>7. CASE KmodBegin
  <2>1. KmodDst \in Path /\ Rel \in Path /\ Tail(tasks) \in Seq(TaskType)
        /\ Task1 \in TaskType
    BY <1>1, <1>5, <1>7 DEF KmodBegin
  <2>2. Entry("kmod", KmodDst, Rel) \in EntryType
    BY <1>7, KmodEntryType DEF KmodBegin
  <2>3. /\ cur' \in EntryType /\ here' \in Path /\ wi' \in Nat
        /\ (cur.dst # <<>> => wi > 0)'
    BY <1>7, <2>2, BeginType DEF KmodBegin
  <2>4. seen' \subseteq Path /\ filtered' \subseteq seen' /\ missing' \subseteq seen'
    BY <1>7, <2>1 DEF KmodBegin, ArchiveTypeOK
  <2>5. out' = out /\ phase' = phase /\ gk' = gk
    BY <1>7 DEF KmodBegin
  <2>6. tasks' \in Seq(TaskType)
    <3>1. CASE Task1.t = "root"
      <4>1. Task1.name \in DOMAIN Kmod /\ Task1.try \in BOOLEAN
        BY <1>7, <2>1, <3>1 DEF KmodBegin, HasFile, Named, Found, TaskType
      <4>2. HardTasks(Kmod[Task1.name], Task1.try) \o SoftTasks(Kmod[Task1.name])
              \in Seq(TaskType)
        BY <4>1, DepsType, ConcatProperties
      <4> QED BY <1>7, <2>1, <3>1, <4>2, ConcatProperties DEF KmodBegin
    <3>2. CASE Task1.t # "root"
      BY <1>2, <1>7, <2>1, <3>2, ConcatProperties DEF KmodBegin
    <3> QED BY <3>1, <3>2
  <2> QED BY <2>3, <2>4, <2>5, <2>6 DEF ArchiveTypeOK, EntryType
<1>8. CASE KmodArchive
  BY <1>8, FinishType DEF KmodArchive, kmodVars, Types, Ops
<1> QED BY <1>3, <1>4, <1>6, <1>7, <1>8 DEF gather_archive_kmod_and_deps

(* Literal paths that main() and manifest_autorun() archive.               *)
LEMMA LiteralPaths ==
  /\ <<"rapido.conf">> \in Path /\ <<"rapido.rc">> \in Path
  /\ <<"lib64">> \in Path /\ <<"bin">> \in Path /\ <<"sbin">> \in Path
  /\ <<"lib">> \in Path /\ <<"lib", "modules">> \in Path
  /\ SbinModprobe \in Path /\ <<"TRAILER!!!">> \in Path /\ AutorunDir \in Path
BY NameAssumption DEF Path, SbinModprobe, AutorunDir

(* The line being read, and the readers once it has been consumed.         *)
LEMMA ReadingType ==
  ASSUME fests \in Seq(Seq(LineType)), Reading
  PROVE  /\ L \in LineType /\ Depth \in 1..Len(fests)
         /\ Tail(fests[Depth]) \in Seq(LineType)
         /\ Consume => fests' \in Seq(Seq(LineType))
<1>1. fests # <<>> /\ fests[Depth] # <<>>
  BY DEF Reading
<1>2. Depth \in 1..Len(fests) /\ fests[Depth] \in Seq(LineType)
  BY <1>1, EmptySeq, SeqTypes DEF Depth
<1>3. L \in LineType /\ Tail(fests[Depth]) \in Seq(LineType)
  BY <1>1, <1>2, SeqTypes DEF L
<1>4. [fests EXCEPT ![Depth] = Tail(@)] \in Seq(Seq(LineType))
  BY <1>2, <1>3, ExceptSeq
<1> QED BY <1>2, <1>3, <1>4 DEF Consume

(* The name of an autorun script in the archive.                           *)
LEMMA ScriptType ==
  ASSUME fests \in Seq(Seq(LineType)), LineAutorun
  PROVE  AutorunName[idx][Base(L.srcs[1])] \in Name
<1>1. L.srcs \in Seq(Path) /\ L.srcs # <<>> /\ L.srcs[1] # <<>>
  BY ReadingType DEF LineAutorun, LineType
<1>2. L.srcs[1] \in Seq(Name)
  BY <1>1, SeqTypes DEF Path
<1>3. Base(L.srcs[1]) \in Name
  BY <1>1, <1>2, SeqTypes DEF Base
<1> QED BY <1>3, AutorunAssumption DEF LineAutorun

(* Each manifest line.                                                     *)
LEMMA LinesType ==
  ASSUME TypeOK, LineStep
  PROVE  TypeOK'
<1> USE DEF TypeOK
<1>1. CASE LineInclude
  <2>1. CASE L.name \in DOMAIN incs /\ Depth < MaxOpen
    <3>1. [fests EXCEPT ![Depth] = Tail(@)] \in Seq(Seq(LineType))
      BY <1>1, ReadingType, ExceptSeq DEF LineInclude
    <3>2. incs[L.name] \in Seq(LineType)
      BY <2>1
    <3>3. Append([fests EXCEPT ![Depth] = Tail(@)], incs[L.name]) \in Seq(Seq(LineType))
      BY <3>1, <3>2, AppendProperties
    <3>4. fests' = Append([fests EXCEPT ![Depth] = Tail(@)], incs[L.name])
      BY <1>1, <2>1 DEF LineInclude
    <3> QED BY <1>1, <2>1, <3>3, <3>4 DEF LineInclude, ArchiveTypeOK, elfVars, kmodVars
  <2>2. CASE ~(L.name \in DOMAIN incs /\ Depth < MaxOpen)
    BY <1>1, <2>2 DEF LineInclude, Fail, ArchiveTypeOK, Phases, elfVars, kmodVars
  <2> QED BY <2>1, <2>2
<1>2. CASE LineFilter
  <2>1. L.dst \in Path /\ fests' \in Seq(Seq(LineType))
    BY <1>2, ReadingType DEF LineFilter, LineType
  <2>2. seen' \subseteq Path /\ filtered' \subseteq seen' /\ missing' \subseteq seen'
    BY <1>2, <2>1 DEF LineFilter, ArchiveTypeOK
  <2> QED BY <1>2, <2>1, <2>2 DEF LineFilter, ArchiveTypeOK, elfVars, kmodVars
<1>3. CASE LineEntry
  <2>1. L \in LineType /\ fests' \in Seq(Seq(LineType))
    BY <1>3, ReadingType DEF LineEntry
  <2>2. L.k \in {"dir", "slink", "file"}
    BY <1>3 DEF LineEntry
  <2>3. Entry(L.k, L.dst, L.src) \in EntryType
    BY <2>1, <2>2 DEF Entry, EntryType, LineType, Ops, HostOps
  <2>4. \/ Begin(Entry(L.k, L.dst, L.src), seen, FALSE) /\ phase' = phase
        \/ UNCHANGED <<cur, here, wi>> /\ phase' \in {phase, "failed"}
    BY <1>3 DEF LineEntry, Fail
  <2>5. ArchiveTypeOK'
    <3>1. CASE Begin(Entry(L.k, L.dst, L.src), seen, FALSE) /\ phase' = phase
      BY <1>3, <2>3, <3>1, BeginType DEF LineEntry, ArchiveTypeOK, EntryType
    <3>2. CASE UNCHANGED <<cur, here, wi>> /\ phase' \in {phase, "failed"}
      BY <1>3, <3>2 DEF LineEntry, ArchiveTypeOK, Phases
    <3> QED BY <2>4, <3>1, <3>2
  <2> QED BY <1>3, <2>1, <2>5 DEF LineEntry, elfVars, kmodVars
<1>4. CASE LineArchive
  <2>1. PICK op \in {"dir", "slink", "file"} :
          Finish(CASE op = "dir" -> "dir" [] op = "slink" -> "lnk"
                   [] op = "file" -> "reg", "line")
    BY <1>4 DEF LineArchive
  <2>2. ArchiveTypeOK'
    BY <2>1, FinishType DEF Types
  <2> QED BY <1>4, <2>2 DEF LineArchive, elfVars, kmodVars, cutVars
<1>5. CASE LineBin
  <2> DEFINE e == Ent(IF L.k = "bin" THEN "Name" ELSE "NameTry", L.src, L.sep, <<>>)
  <2>1. L \in LineType /\ fests' \in Seq(Seq(LineType)) /\ <<>> \in Seq(Path) /\ elfs' = <<e>>
    BY <1>5, ReadingType, EmptySeq DEF LineBin
  <2>2. e \in EntType
    BY <2>1 DEF Ent, EntType, LineType
  <2> HIDE DEF e
  <2>3. elfs' \in Seq(EntType)
    BY <2>1, <2>2, Singleton
  <2> QED BY <1>5, <2>1, <2>3 DEF LineBin, ArchiveTypeOK, archiveVars, kmodVars
<1>6. CASE LineKmod
  <2>1. L.name \in STRING /\ fests' \in Seq(Seq(LineType))
    BY <1>6, ReadingType DEF LineKmod, LineType
  <2>2. <<L.name>> \in Seq(STRING)
    BY <2>1, Singleton
  <2>3. tasks' \in Seq(TaskType) /\ gk' \in BOOLEAN
    BY <1>6, <2>2, CallType DEF LineKmod
  <2>4. kwant' \subseteq STRING
    BY <1>6, <2>1 DEF LineKmod
  <2> QED BY <1>6, <2>1, <2>3, <2>4 DEF LineKmod, ArchiveTypeOK, archiveVars, elfVars
<1>7. CASE LineTree
  <2>1. L \in LineType /\ fests' \in Seq(Seq(LineType))
    BY <1>7, ReadingType DEF LineTree
  <2>2. Item(L.src, L.dst, FALSE) \in ItemType
    BY <2>1 DEF Item, ItemType, LineType
  <2>3. items' \in Seq(ItemType)
    BY <1>7, <2>2, Singleton DEF LineTree
  <2> QED BY <1>7, <2>1, <2>3 DEF LineTree, ArchiveTypeOK, ItemType, archiveVars, elfVars, kmodVars
<1>8. CASE LineAutorun
  <2>1. /\ L \in LineType /\ Depth \in 1..Len(fests)
        /\ Tail(fests[Depth]) \in Seq(LineType)
    BY <1>8, ReadingType DEF LineAutorun
  <2>2. L.srcs \in Seq(Path) /\ L.srcs # <<>>
    BY <1>8, <2>1 DEF LineAutorun, LineType
  <2>3. Tail(L.srcs) \in Seq(Path)
    BY <2>2, SeqTypes
  <2>4. AutorunName[idx][Base(L.srcs[1])] \in Name
    BY <1>8, ScriptType
  <2> DEFINE p == Append(AutorunDir, AutorunName[idx][Base(L.srcs[1])])
             dir == [path |-> AutorunDir, type |-> "dir", via |-> "main"]
             script == [path |-> p, type |-> "reg", via |-> "autorun"]
  <2>6. dir \in OutType /\ script \in OutType
    BY <2>4, LiteralPaths, ParentAppend DEF OutType, Types
  <2>7. out \in Seq(OutType)
    BY DEF ArchiveTypeOK, OutType
  <2> HIDE DEF dir, script
  <2>8. out' \in {Append(Append(out, dir), script), Append(out, script), Append(out, dir), out}
    BY <1>8 DEF LineAutorun, dir, script
  <2>9. Append(out, dir) \in Seq(OutType)
    BY <2>6, <2>7, AppendProperties
  <2>10. out' \in Seq(OutType)
    <3>1. /\ Append(Append(out, dir), script) \in Seq(OutType)
          /\ Append(out, script) \in Seq(OutType)
      BY <2>6, <2>7, <2>9, AppendProperties
    <3> QED BY <2>7, <2>8, <2>9, <3>1
  <2>11. seen' \subseteq Path /\ filtered' \subseteq seen' /\ missing' \subseteq seen'
    BY <1>8, LiteralPaths DEF LineAutorun, ArchiveTypeOK
  <2>12. [L EXCEPT !.srcs = Tail(@)] \in LineType
    BY <2>1, <2>3 DEF LineType
  <2>13. <<[L EXCEPT !.srcs = Tail(@)]>> \o Tail(fests[Depth]) \in Seq(LineType)
    BY <2>1, <2>12, Singleton, ConcatProperties
  <2>14. fests' \in Seq(Seq(LineType))
    <3> DEFINE e == IF Len(L.srcs) = 1 THEN Tail(fests[Depth])
                    ELSE <<[L EXCEPT !.srcs = Tail(@)]>> \o Tail(fests[Depth])
    <3>1. e \in Seq(LineType)
      BY <2>1, <2>13
    <3>2. fests' = [fests EXCEPT ![Depth] = e]
      BY <1>8 DEF LineAutorun
    <3> HIDE DEF e
    <3> QED BY <2>1, <3>1, <3>2, ExceptSeq
  <2>15. phase' \in {phase, "failed"} /\ idx' \in {idx, idx + 1}
    BY <1>8 DEF LineAutorun, Fail
  <2>16. UNCHANGED <<cur, here, wi, elfs, libs, items, tasks, gk, incs, kwant>>
    BY <1>8 DEF LineAutorun, elfVars, kmodVars
  <2>17. ArchiveTypeOK'
    BY <2>10, <2>11, <2>15, <2>16 DEF ArchiveTypeOK, OutType, Phases
  <2> QED BY <2>14, <2>15, <2>16, <2>17
<1> QED BY <1>1, <1>2, <1>3, <1>4, <1>5, <1>6, <1>7, <1>8 DEF LineStep

(* An archive entry that main() writes itself.                             *)
LEMMA MainWriteType ==
  ASSUME ArchiveTypeOK, NEW p \in Path, NEW t \in Types,
         Write(p, t, "main") \/ UNCHANGED out, phase' \in Phases,
         UNCHANGED <<seen, cur, here, wi, filtered, missing>>
  PROVE  ArchiveTypeOK'
<1>1. out \in Seq(OutType)
  BY DEF ArchiveTypeOK, OutType
<1>2. out' \in Seq(OutType)
  BY <1>1, WriteType
<1> QED BY <1>2 DEF ArchiveTypeOK, OutType

(* Each statement of main().                                               *)
LEMMA MainType ==
  ASSUME TypeOK, MainStep
  PROVE  TypeOK'
<1> USE DEF TypeOK
<1>1. CASE MainConf
  <2>1. ArchiveTypeOK'
    BY <1>1, LiteralPaths, MainWriteType DEF MainConf, Types, Phases
  <2> QED BY <1>1, <2>1 DEF MainConf, elfVars, kmodVars, cutVars
<1>2. CASE MainRc
  <2>1. ArchiveTypeOK'
    BY <1>2, LiteralPaths, MainWriteType DEF MainRc, Types, Phases
  <2> QED BY <1>2, <2>1, CoreAssumption DEF MainRc, kmodVars, cutVars
<1>3. CASE MainKmods
  <2>1. tasks' \in Seq(TaskType) /\ gk' \in BOOLEAN
    BY <1>3, ConfAssumption, CallType DEF MainKmods
  <2>2. ArchiveTypeOK'
    BY <1>3 DEF MainKmods, ArchiveTypeOK, Phases
  <2>3. \A i \in DOMAIN ConfKmods : ConfKmods[i] \in STRING
    BY ConfAssumption, ElementOfSeq, LenProperties
  <2>4. kwant' \subseteq STRING
    BY <1>3, <2>3 DEF MainKmods
  <2> QED BY <1>3, <2>1, <2>2, <2>4 DEF MainKmods, elfVars
<1>4. ASSUME NEW from, NEW to \in Phases, NEW p \in Path, Link(from, to, p)
      PROVE  TypeOK'
  <2>1. ArchiveTypeOK'
    BY <1>4, MainWriteType DEF Link, Types
  <2> QED BY <1>4, <2>1 DEF Link, elfVars, kmodVars, cutVars
<1>5. CASE Link("lib64", "bin", <<"lib64">>) \/ Link("bin", "sbin", <<"bin">>)
  BY <1>4, <1>5, LiteralPaths DEF Phases
<1>6. CASE MainSbin
  <2>1. CASE <<"sbin">> \in seen /\ <<"usr", "sbin", "modprobe">> \notin seen
    BY <1>6, <2>1 DEF MainSbin, ArchiveTypeOK, Phases, elfVars, kmodVars, cutVars
  <2>2. CASE ~(<<"sbin">> \in seen /\ <<"usr", "sbin", "modprobe">> \notin seen)
    BY <1>4, <1>6, <2>2, LiteralPaths DEF MainSbin, Phases
  <2> QED BY <2>1, <2>2
<1>7. CASE MainKmodsLink
  <2>1. ArchiveTypeOK'
    BY <1>7, LiteralPaths, MainWriteType DEF MainKmodsLink, KmodsLink, Types, Phases
  <2> QED BY <1>7, <2>1 DEF MainKmodsLink, elfVars, kmodVars, cutVars
<1>8. CASE MainTrailer
  <2>1. ArchiveTypeOK'
    BY <1>8, LiteralPaths, MainWriteType DEF MainTrailer, Types, Phases
  <2> QED BY <1>8, <2>1 DEF MainTrailer, elfVars, kmodVars, cutVars
<1> QED BY <1>1, <1>2, <1>3, <1>5, <1>6, <1>7, <1>8 DEF MainStep

(* The state rapido-cut starts in.                                         *)
LEMMA TypeInit == Init => TypeOK
<1> SUFFICES ASSUME Init PROVE TypeOK
  OBVIOUS
<1>1. <<>> \in Path /\ <<>> \in Seq(OutType) /\ <<>> \in Seq(ItemType)
      /\ <<>> \in Seq(TaskType) /\ <<>> \in Seq(EntType)
  BY EmptySeq DEF Path
<1>2. ArchiveTypeOK
  BY <1>1, NoEntryType
  DEF Init, ArchiveTypeOK, OutType, EntryType, NoEntry, Entry, Phases
<1> QED BY <1>1, <1>2, InputAssumption DEF Init, TypeOK, ItemType

(* Every step keeps the types.                                             *)
LEMMA TypeNext == TypeOK /\ [Next]_vars => TypeOK'
<1> SUFFICES ASSUME TypeOK, [Next]_vars PROVE TypeOK'
  OBVIOUS
<1>1. items \in Seq(ItemType) /\ ArchiveTypeOK
  BY DEF TypeOK, ItemType
<1>2. CASE MainStep
  BY <1>2, MainType
<1>3. CASE ReadEof
  <2>1. fests' \in Seq(Seq(LineType))
    BY <1>3, SeqTypes DEF ReadEof, Depth, TypeOK
  <2> QED BY <1>3, <2>1
      DEF ReadEof, TypeOK, ArchiveTypeOK, archiveVars, elfVars, kmodVars
<1>4. CASE LineStep
  BY <1>4, LinesType
<1>5. CASE gather_archive_dirs /\ UNCHANGED <<elfVars, items, kmodVars, cutVars>>
  BY <1>1, <1>5, DirsType DEF TypeOK, elfVars, kmodVars, cutVars
<1>6. CASE gather_archive_elfs /\ UNCHANGED <<items, kmodVars, cutVars>>
  BY <1>1, <1>6, ElfsType, ElfsStackType DEF TypeOK, kmodVars, cutVars
<1>7. CASE gather_archive_data /\ UNCHANGED <<elfVars, kmodVars, cutVars>>
  BY <1>1, <1>7, DataType DEF TypeOK, ItemType, elfVars, kmodVars, cutVars
<1>8. CASE gather_archive_kmod_and_deps /\ UNCHANGED <<elfVars, items, cutVars>>
  BY <1>1, <1>8, KmodsType DEF TypeOK, elfVars, cutVars
<1>9. CASE Aborted
  BY <1>9 DEF Aborted, Abort, Fail, TypeOK, ArchiveTypeOK, Phases, elfVars, kmodVars, cutVars
<1>10. CASE UNCHANGED vars
  BY <1>10 DEF vars, TypeOK, ArchiveTypeOK, archiveVars, elfVars, kmodVars, cutVars
<1> QED
  BY <1>2, <1>3, <1>4, <1>5, <1>6, <1>7, <1>8, <1>9, <1>10 DEF Next, Step

(* rapido-cut never leaves its types, whatever the host and the manifest.  *)
THEOREM TypeCorrect == Spec => []TypeOK
BY TypeInit, TypeNext, PTL DEF Spec

-----------------------------------------------------------------------------
(* The paths of an archive.                                                *)
Paths(o) == {o[k].path : k \in DOMAIN o}

(* One more entry.                                                         *)
LEMMA AppendEntry ==
  ASSUME NEW q \in Seq(OutType), NEW e \in OutType
  PROVE  /\ Append(q, e) \in Seq(OutType)
         /\ DOMAIN Append(q, e) = DOMAIN q \union {Len(q) + 1}
         /\ Len(q) + 1 \notin DOMAIN q /\ Append(q, e)[Len(q) + 1] = e
         /\ \A k \in DOMAIN q : Append(q, e)[k] = q[k]
         /\ Paths(Append(q, e)) = Paths(q) \union {e.path}
<1> DEFINE r == Append(q, e)
<1>1. Len(q) \in Nat /\ DOMAIN q = 1..Len(q)
  BY LenProperties
<1>2. /\ r \in Seq(OutType) /\ DOMAIN r = 1..(Len(q) + 1) /\ r[Len(q) + 1] = e
      /\ \A k \in 1..Len(q) : r[k] = q[k]
  <2>1. r \in Seq(OutType) /\ Len(r) = Len(q) + 1
    BY AppendProperties
  <2> QED BY <1>1, <2>1, AppendProperties, LenProperties
<1>3. Len(q) + 1 \notin DOMAIN q /\ DOMAIN r = DOMAIN q \union {Len(q) + 1}
  BY <1>1, <1>2
<1> DEFINE n == Len(q) + 1
<1> HIDE DEF r, n
<1>4. /\ DOMAIN r = DOMAIN q \union {n} /\ n \notin DOMAIN q /\ r[n] = e
      /\ \A k \in DOMAIN q : r[k] = q[k]
  BY <1>1, <1>2, <1>3 DEF n
<1>5. Paths(r) = Paths(q) \union {e.path}
  BY <1>4 DEF Paths
<1> QED BY <1>2, <1>4, <1>5 DEF r, n

(* What is on a stack to which a list was added.                           *)
LEMMA PushFacts ==
  ASSUME NEW S, NEW s \in Seq(S), NEW t \in Seq(S)
  PROVE  /\ s \o t \in Seq(S)
         /\ \A i \in DOMAIN s : i \in DOMAIN (s \o t) /\ (s \o t)[i] = s[i]
         /\ \A i \in DOMAIN t : Len(s) + i \in DOMAIN (s \o t) /\ (s \o t)[Len(s) + i] = t[i]
         /\ \A i \in DOMAIN (s \o t) :
              \/ i \in DOMAIN s /\ (s \o t)[i] = s[i]
              \/ i - Len(s) \in DOMAIN t /\ (s \o t)[i] = t[i - Len(s)]
<1> DEFINE q == s \o t
<1>1. /\ q \in Seq(S) /\ Len(q) = Len(s) + Len(t)
      /\ \A i \in 1..(Len(s) + Len(t)) :
           q[i] = IF i <= Len(s) THEN s[i] ELSE t[i - Len(s)]
  BY ConcatProperties
<1>2. /\ Len(s) \in Nat /\ DOMAIN s = 1..Len(s) /\ Len(t) \in Nat /\ DOMAIN t = 1..Len(t)
  BY LenProperties
<1> HIDE DEF q
<1>3. DOMAIN q = 1..(Len(s) + Len(t))
  BY <1>1, LenProperties
<1>4. \A i \in DOMAIN s : i \in DOMAIN q /\ q[i] = s[i]
  BY <1>1, <1>2, <1>3
<1>5. \A i \in DOMAIN t : Len(s) + i \in DOMAIN q /\ q[Len(s) + i] = t[i]
  BY <1>1, <1>2, <1>3
<1>6. \A i \in DOMAIN q : \/ i \in DOMAIN s /\ q[i] = s[i]
                          \/ i - Len(s) \in DOMAIN t /\ q[i] = t[i - Len(s)]
  BY <1>1, <1>2, <1>3
<1> QED
  BY <1>1, <1>4, <1>5, <1>6 DEF q

-----------------------------------------------------------------------------
(* Archives that grow.                                                    *)

(* Archive q is archive o with entries added by routines not in V.         *)
Grown(o, q, V) ==
  /\ \A k \in DOMAIN o : k \in DOMAIN q /\ q[k] = o[k]
  /\ \A k \in DOMAIN q : k \in DOMAIN o \/ q[k].via \notin V
GrownBut(V) == Grown(out, out', V)

(* Writing one entry, or none.                                             *)
LEMMA GrownAppend ==
  ASSUME NEW o, NEW q \in Seq(OutType), NEW e \in OutType, NEW V, Grown(o, q, V), e.via \notin V
  PROVE  Grown(o, Append(q, e), V) /\ Append(q, e) \in Seq(OutType)
<1> DEFINE r == Append(q, e)
           n == Len(q) + 1
<1>1. /\ DOMAIN r = DOMAIN q \union {n} /\ r[n] = e /\ r \in Seq(OutType)
      /\ n \notin DOMAIN q /\ \A k \in DOMAIN q : r[k] = q[k]
  BY AppendEntry
<1> HIDE DEF r, n
<1>2. Grown(o, r, V)
  BY <1>1 DEF Grown
<1> QED
  BY <1>1, <1>2 DEF r

LEMMA GrownSelf ==
  ASSUME NEW o, NEW V
  PROVE  Grown(o, o, V)
BY DEF Grown

LEMMA GrownOne ==
  ASSUME out \in Seq(OutType), NEW e \in OutType, out' = Append(out, e), NEW V, e.via \notin V
  PROVE  GrownBut(V)
BY GrownSelf, GrownAppend DEF GrownBut

LEMMA GrownNone ==
  ASSUME UNCHANGED out, NEW V
  PROVE  GrownBut(V)
BY GrownSelf DEF GrownBut

(* Completing an entry.                                                    *)
LEMMA FinishGrown ==
  ASSUME ArchiveTypeOK, NEW t \in Types, NEW via \in Ops \union {"line"}, Finish(t, via),
         NEW V, via \notin V
  PROVE  GrownBut(V) /\ seen \subseteq seen' /\ cur' = NoEntry
<1> DEFINE e == [path |-> cur.dst, type |-> t, via |-> via]
<1>1. out \in Seq(OutType) /\ e \in OutType /\ out' = Append(out, e) /\ e.via \notin V
  BY DEF Finish, Write, ArchiveTypeOK, OutType
<1> HIDE DEF e
<1>2. GrownBut(V)
  BY <1>1, GrownOne
<1> QED
  BY <1>2 DEF Finish

(* manifest_autorun(): it may write two entries.                           *)
LEMMA AutorunGrown ==
  ASSUME TypeOK, LineAutorun, NEW V, "main" \notin V, "autorun" \notin V
  PROVE  GrownBut(V)
<1> DEFINE dir == [path |-> AutorunDir, type |-> "dir", via |-> "main"]
           p == Append(AutorunDir, AutorunName[idx][Base(L.srcs[1])])
           script == [path |-> p, type |-> "reg", via |-> "autorun"]
           start == IF idx = 0 THEN Append(out, dir) ELSE out
<1>1. out \in Seq(OutType) /\ AutorunDir \in Path /\ p \in Path
  BY ScriptType, LiteralPaths, ParentAppend DEF TypeOK, ArchiveTypeOK, OutType
<1>2. dir \in OutType /\ script \in OutType /\ dir.via \notin V /\ script.via \notin V
  BY <1>1 DEF OutType, Types
<1>3. out' = Append(start, script) \/ out' = start
  BY DEF LineAutorun
<1> HIDE DEF dir, script
<1>4. start \in Seq(OutType) /\ Grown(out, start, V)
  BY <1>1, <1>2, GrownSelf, GrownAppend
<1> HIDE DEF start
<1> QED
  BY <1>2, <1>3, <1>4, GrownAppend DEF GrownBut

(* A write of main().                                                      *)
LEMMA MainGrown ==
  ASSUME ArchiveTypeOK, NEW p \in Path, NEW t \in Types, Write(p, t, "main") \/ UNCHANGED out,
         NEW V, "main" \notin V
  PROVE  GrownBut(V)
<1>1. CASE Write(p, t, "main")
  <2> DEFINE e == [path |-> p, type |-> t, via |-> "main"]
  <2>1. out \in Seq(OutType) /\ e \in OutType /\ out' = Append(out, e) /\ e.via \notin V
    BY <1>1 DEF Write, ArchiveTypeOK, OutType
  <2> HIDE DEF e
  <2> QED
    BY <2>1, GrownOne
<1> QED
  BY <1>1, GrownNone

-----------------------------------------------------------------------------
(* What paths_seen holds is archived, was kept out of the archive, or is   *)
(* the entry in progress of a routine that marks it first.                 *)
Covered == Archived \union filtered \union missing
SeenInv ==
  \A p \in seen : \/ p \in Covered
                  \/ cur.op \in {"tree", "child", "kmod"} /\ p = cur.dst

(* A step that marks no other path, and keeps none out again.              *)
Marks ==
  /\ Archived \subseteq Archived' /\ Barred \subseteq Barred'
  /\ \A p \in seen' : \/ p \in seen \/ p \in Covered'
                      \/ cur'.op \in {"tree", "child", "kmod"} /\ p = cur'.dst
  /\ cur' = cur \/ cur.op \notin {"tree", "child", "kmod"} \/ cur.dst \in Covered'

LEMMA MarksWrite ==
  ASSUME ArchiveTypeOK, NEW e \in OutType, out' = Append(out, e),
         seen' = seen \/ seen' = seen \union {e.path}, UNCHANGED <<filtered, missing>>,
         cur' = cur \/ cur.op \notin {"tree", "child", "kmod"} \/ cur.dst = e.path
  PROVE  Marks
<1>1. out \in Seq(OutType)
  BY DEF ArchiveTypeOK, OutType
<1>2. Paths(out') = Paths(out) \union {e.path}
  BY <1>1, AppendEntry
<1>3. Archived = Paths(out) /\ Archived' = Paths(out')
  BY DEF Archived, Paths
<1>4. Archived' = Archived \union {e.path} /\ Barred' = Barred /\ Archived' \subseteq Covered'
  BY <1>2, <1>3 DEF Barred, Covered
<1> QED
  BY <1>4 DEF Marks

LEMMA MarksNone ==
  ASSUME out' = out, filtered \subseteq filtered', missing \subseteq missing',
         seen' \subseteq seen \union filtered' \union missing',
         cur' = cur \/ cur.op \notin {"tree", "child", "kmod"}
  PROVE  Marks
BY DEF Marks, Archived, Barred, Covered

LEMMA MarksFinish ==
  ASSUME ArchiveTypeOK, NEW t \in Types, NEW via \in Ops \union {"line"}, Finish(t, via)
  PROVE  Marks
<1> DEFINE e == [path |-> cur.dst, type |-> t, via |-> via]
<1>1. e \in OutType /\ e.path = cur.dst
  BY DEF ArchiveTypeOK, OutType
<1>2. out' = Append(out, e) /\ seen' = seen \union {cur.dst} /\ UNCHANGED <<filtered, missing>>
  BY DEF Finish, Write
<1> HIDE DEF e
<1> QED
  BY <1>1, <1>2, MarksWrite

LEMMA MarksMain ==
  ASSUME ArchiveTypeOK, NEW p \in Path, NEW t \in Types,
         Write(p, t, "main") \/ UNCHANGED out, UNCHANGED <<seen, cur, filtered, missing>>
  PROVE  Marks
<1>1. CASE Write(p, t, "main")
  <2> DEFINE e == [path |-> p, type |-> t, via |-> "main"]
  <2>1. e \in OutType /\ out' = Append(out, e)
    BY <1>1 DEF Write, OutType
  <2> HIDE DEF e
  <2> QED
    BY <2>1, MarksWrite
<1> QED
  BY <1>1, MarksNone

(* manifest_autorun() marks the directory that it archives.                *)
LEMMA MarksAutorun ==
  ASSUME TypeOK, LineAutorun
  PROVE  Marks
<1> DEFINE dir == [path |-> AutorunDir, type |-> "dir", via |-> "main"]
           p == Append(AutorunDir, AutorunName[idx][Base(L.srcs[1])])
           script == [path |-> p, type |-> "reg", via |-> "autorun"]
           start == IF idx = 0 THEN Append(out, dir) ELSE out
<1>1. out \in Seq(OutType) /\ AutorunDir \in Path /\ p \in Path
  BY ScriptType, LiteralPaths, ParentAppend DEF TypeOK, ArchiveTypeOK, OutType
<1>2. dir \in OutType /\ script \in OutType /\ dir.path = AutorunDir
  BY <1>1 DEF OutType, Types
<1>3. out' = Append(start, script) \/ out' = start
  BY DEF LineAutorun
<1> HIDE DEF dir, script
<1>4. /\ start \in Seq(OutType) /\ Paths(out) \subseteq Paths(start)
      /\ idx = 0 => AutorunDir \in Paths(start)
  BY <1>1, <1>2, AppendEntry
<1> HIDE DEF start
<1>5. Paths(start) \subseteq Paths(out')
  BY <1>2, <1>3, <1>4, AppendEntry
<1>6. Archived = Paths(out) /\ Archived' = Paths(out')
  BY DEF Archived, Paths
<1>7. /\ seen' = (IF idx = 0 THEN seen \union {AutorunDir} ELSE seen)
      /\ UNCHANGED <<cur, filtered, missing>>
  BY DEF LineAutorun
<1> QED
  BY <1>4, <1>5, <1>6, <1>7 DEF Marks, Barred, Covered

LEMMA MarksNext ==
  ASSUME TypeOK, [Next]_vars
  PROVE  Marks
<1>1. ArchiveTypeOK
  BY DEF TypeOK
<1>2. ASSUME cur = NoEntry PROVE cur.op \notin {"tree", "child", "kmod"}
  BY <1>2 DEF NoEntry, Entry
<1>3. CASE ReadEof \/ Aborted \/ UNCHANGED vars
  <2>1. UNCHANGED <<out, seen, cur, filtered, missing>>
    BY <1>3 DEF ReadEof, Aborted, Abort, vars, archiveVars
  <2> QED
    BY <2>1, MarksNone
<1>4. CASE MainStep
  <2>1. ASSUME NEW p \in Path, NEW t \in {"reg", "lnk", "trailer"},
               Write(p, t, "main") \/ UNCHANGED out, UNCHANGED <<seen, cur, filtered, missing>>
        PROVE  Marks
    BY <1>1, <2>1, MarksMain DEF Types
  <2>2. ASSUME NEW from, NEW to, NEW p \in Path, Link(from, to, p) PROVE Marks
    BY <2>1, <2>2 DEF Link
  <2>3. CASE MainConf \/ MainRc \/ MainTrailer
    BY <2>1, <2>3, LiteralPaths DEF MainConf, MainRc, MainTrailer
  <2>4. CASE UNCHANGED <<out, seen, cur, filtered, missing>>
    BY <2>4, MarksNone
  <2>5. CASE MainKmodsLink
    <3>1. KmodsLink \in Path
      BY LiteralPaths DEF KmodsLink
    <3> QED
      BY <2>1, <2>5, <3>1 DEF MainKmodsLink
  <2> QED
    BY <1>4, <2>2, <2>3, <2>4, <2>5, LiteralPaths DEF MainStep, MainKmods, MainSbin
<1>5. CASE LineStep
  <2>1. ASSUME Reading PROVE cur = NoEntry
    BY <2>1 DEF Reading, Idle
  <2>2. CASE LineArchive
    <3>1. \E t \in Types : Finish(t, "line")
      BY <2>2 DEF LineArchive, Types
    <3> QED
      BY <1>1, <3>1, MarksFinish
  <2>3. CASE LineInclude \/ LineFilter \/ LineEntry \/ LineBin \/ LineKmod \/ LineTree
    <3>1. /\ Reading /\ out' = out /\ filtered \subseteq filtered' /\ missing \subseteq missing'
          /\ seen' \subseteq seen \union filtered' \union missing'
      BY <2>3 DEF LineInclude, LineFilter, LineEntry, LineBin, LineKmod, LineTree, archiveVars
    <3> QED
      BY <1>2, <2>1, <3>1, MarksNone
  <2> QED
    BY <1>5, <2>2, <2>3, MarksAutorun DEF LineStep
<1>6. CASE gather_archive_dirs
  <2>1. CASE DirArchive
    <3> DEFINE e == [path |-> here', type |-> "dir", via |-> "walk"]
    <3>1. here' \in Path
      BY <1>1, <1>6, DirsType DEF ArchiveTypeOK
    <3>2. /\ e \in OutType /\ e.path = here' /\ out' = Append(out, e) /\ seen' = seen \union {here'}
          /\ UNCHANGED <<cur, filtered, missing>>
      BY <2>1, <3>1 DEF DirArchive, Write, OutType, Types
    <3> HIDE DEF e
    <3> QED
      BY <1>1, <3>2, MarksWrite
  <2> QED
    BY <1>6, <2>1, MarksNone DEF gather_archive_dirs, DirUp, DirInvalid, DirSeen
<1>7. CASE gather_archive_elfs
  <2>1. ASSUME ElfWalked
        PROVE  cur.op \in Ops \union {"line"} /\ cur.op \notin {"tree", "child", "kmod"}
    BY <2>1 DEF ElfWalked, Walked, ElfOps, Ops
  <2>2. CASE \E t \in Types : ElfWalked /\ Finish(t, cur.op)
    BY <1>1, <2>1, <2>2, MarksFinish
  <2>3. CASE ElfLink \/ ElfFile \/ ElfDir \/ ElfOther
    BY <2>2, <2>3 DEF ElfLink, ElfFile, ElfDir, ElfOther, Types
  <2>4. CASE ElfTryMissing \/ ElfMissing \/ ElfSeen \/ ElfBegin \/ ElfLinkInvalid \/ ElfLinkDangling
    <3>1. UNCHANGED <<out, seen, filtered, missing>>
      BY <2>4 DEF ElfTryMissing, ElfMissing, ElfSeen, ElfBegin, ElfLinkInvalid, ElfLinkDangling,
                  archiveVars
    <3>2. cur' = cur \/ cur = NoEntry \/ ElfWalked
      BY <2>4 DEF ElfTryMissing, ElfMissing, ElfSeen, ElfBegin, ElfLinkInvalid, ElfLinkDangling,
                  archiveVars, ElfReady
    <3> QED
      BY <1>2, <2>1, <3>1, <3>2, MarksNone
  <2> QED
    BY <1>7, <2>3, <2>4 DEF gather_archive_elfs
<1>8. CASE gather_archive_data
  <2>1. CASE DataDir \/ DataLeaf
    <3>1. cur.op \in {"tree", "child"}
      BY <2>1 DEF DataDir, DataLeaf, DataWalked, Walked
    <3>2. cur.src \in DOMAIN Host
      BY <1>1, <3>1 DEF ArchiveTypeOK, HostOps
    <3>3. \E t \in Types : Finish(t, cur.op)
      BY <2>1, <3>2, HostAssumption DEF DataDir, DataLeaf, Types
    <3> QED
      BY <1>1, <3>1, <3>3, MarksFinish DEF Ops
  <2>2. CASE DataMissing \/ DataSeen
    BY <2>2, MarksNone DEF DataMissing, DataSeen, archiveVars
  <2>3. CASE DataBegin
    <3>1. /\ cur = NoEntry /\ seen' = seen \union {TopItem.dst} /\ UNCHANGED <<out, filtered, missing>>
          /\ cur' = Entry(IF TopItem.child THEN "child" ELSE "tree", TopItem.dst, TopItem.src)
      BY <2>3 DEF DataBegin, DataReady, Begin
    <3>2. cur'.op \in {"tree", "child", "kmod"} /\ cur'.dst = TopItem.dst
      BY <3>1 DEF Entry
    <3> QED
      BY <1>2, <3>1, <3>2 DEF Marks, Archived, Barred
  <2> QED
    BY <1>8, <2>1, <2>2, <2>3 DEF gather_archive_data
<1>9. CASE gather_archive_kmod_and_deps
  <2>1. CASE KmodArchive
    BY <1>1, <2>1, MarksFinish DEF KmodArchive, Types, Ops
  <2>2. CASE KmodSkip \/ KmodUnknown \/ KmodMissing
    <3>1. /\ UNCHANGED <<out, cur>> /\ filtered \subseteq filtered' /\ missing \subseteq missing'
          /\ seen' \subseteq seen \union filtered' \union missing'
      BY <2>2 DEF KmodSkip, KmodUnknown, KmodMissing, archiveVars
    <3> QED
      BY <3>1, MarksNone
  <2>3. CASE KmodBegin
    <3>1. /\ cur = NoEntry /\ seen' = seen \union {KmodDst} /\ UNCHANGED <<out, filtered, missing>>
          /\ cur' = Entry("kmod", KmodDst, Rel)
      BY <2>3 DEF KmodBegin, KmodReady, Begin
    <3>2. cur'.op \in {"tree", "child", "kmod"} /\ cur'.dst = KmodDst
      BY <3>1 DEF Entry
    <3> QED
      BY <1>2, <3>1, <3>2 DEF Marks, Archived, Barred
  <2> QED
    BY <1>9, <2>1, <2>2, <2>3 DEF gather_archive_kmod_and_deps
<1> QED
  BY <1>3, <1>4, <1>5, <1>6, <1>7, <1>8, <1>9 DEF Next, Step

LEMMA SeenInit == Init => SeenInv
BY DEF Init, SeenInv

LEMMA SeenNext == TypeOK /\ SeenInv /\ [Next]_vars => SeenInv'
<1> SUFFICES ASSUME TypeOK, SeenInv, [Next]_vars PROVE SeenInv'
  OBVIOUS
<1>1. Marks
  BY MarksNext
<1>2. Covered \subseteq Covered'
  BY <1>1 DEF Marks, Covered, Barred
<1> QED
  BY <1>1, <1>2 DEF SeenInv, Marks
=============================================================================
