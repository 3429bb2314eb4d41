-------------------------------- MODULE Cpio ---------------------------------
(***************************************************************************)
(* The newc writer of the cpio crate: where archive_path(),                *)
(* archive_symlink(), archive_file() and archive_trailer() put headers,    *)
(* names and data.  Only lengths and offsets matter here: a name is its    *)
(* length, and the file is the sequence of the headers written to it.      *)
(***************************************************************************)
EXTENDS Integers, Sequences

CONSTANTS
  BitAnd(_, _),  \* bitwise "&"
  MaxOff,        \* u64::MAX: offsets into the output file stay below it
  MaxU32,        \* u32::MAX
  Aligns,        \* values given to data_align
  NamesizeMax    \* namesize_max

NEWC_HDR_LEN == 110
PATH_MAX == 4096
TRAILER_LEN == 10      \* "TRAILER!!!"
BLOCKLEN == 512        \* dracut-cpio: GNU cpio's block length

(* What the layout needs of "&" with a mask of alignment - 1: for a power  *)
(* of two it takes the remainder.                                          *)
Powers == {1, 2, 4, 8, 16, 32, 64, 128, 256, 512, 1024, 2048, PATH_MAX}
ASSUME MaskAssumption ==
  \A x \in 0..MaxOff :
    /\ \A a \in Powers : BitAnd(x, a - 1) = x % a
    /\ \A a \in Aligns \ {0} :
         /\ BitAnd(x, a - 1) \in 0..(a - 1)
         /\ a % 4 = 0 => BitAnd(x, a - 1) % 4 = x % 4
ASSUME PropsAssumption ==
  /\ Aligns \subseteq Nat /\ MaxU32 \in Nat /\ MaxU32 >= PATH_MAX
  /\ MaxOff \in Nat /\ NamesizeMax \in 0..PATH_MAX

VARIABLES
  base,      \* props.initial_data_off
  align,     \* props.data_align
  off,       \* state.off
  ino,       \* state.ino
  file       \* the headers in the output file

cpioVars == <<base, align, off, ino, file>>

(* A header: its offset in the file, whether it starts an archive, its     *)
(* entry's kind, inode, name length, namesize and filesize fields, and the *)
(* offset of the data that follows the name.                               *)
HeaderType ==
  [at : Nat, start : BOOLEAN, kind : {"path", "link", "file", "trailer"},
   ino : 0..MaxU32, name : Nat, namesize : Nat, len : 0..MaxU32, data : Nat,
   align : Nat]

archive_padlen(o, a) == (a - BitAnd(o, a - 1)) % a

-----------------------------------------------------------------------------
(* Layout of one entry: name and terminator, then extra zeros counted in   *)
(* namesize or padding that is not, then data and its padding.             *)
NameEnd(n) == off + NEWC_HDR_LEN + n + 1
DataStart(n, extra) ==
  NameEnd(n) + (IF extra > 0 THEN extra ELSE archive_padlen(NameEnd(n), 4))
EntryEndUnpadded(n, extra, len) == DataStart(n, extra) + len
EntryEnd(n, extra, len) ==
  LET end == DataStart(n, extra) + len
  IN  IF len > 0 THEN end + archive_padlen(end, 4) ELSE end

Header(kind, i, n, extra, len) ==
  [at |-> base + off, start |-> off = 0, kind |-> kind, ino |-> i, name |-> n,
   namesize |-> n + 1 + extra, len |-> len,
   data |-> base + DataStart(n, extra), align |-> align]

(* Bound: the entry, its padding included, ends below MaxOff.              *)
RoomFor(n, extra, len) ==
  /\ base + NameEnd(n) <= MaxOff
  /\ base + NameEnd(n) + extra + len + 6 <= MaxOff

Put(kind, n, extra, len) ==
  /\ RoomFor(n, extra, len)
  /\ file' = Append(file, Header(kind, ino, n, extra, len))
  /\ off' = EntryEnd(n, extra, len)
  /\ ino' = (ino + 1) % (MaxU32 + 1)
  /\ UNCHANGED <<base, align>>

(* path_trim_prefixes() refuses what would not fit in PATH_MAX.            *)
NameFits(n) == n + 1 < PATH_MAX

(* ArchiveMd::from() refuses what newc's 32-bit fields cannot hold.        *)
LenFits(len) == len <= MaxU32

archive_path(n) == NameFits(n) /\ Put("path", n, 0, 0)

archive_symlink(n, tgt) == NameFits(n) /\ tgt < PATH_MAX /\ Put("link", n, 0, tgt)

(* Zeros that move the data to a multiple of data_align, unless namesize   *)
(* would exceed its maximum.                                               *)
AlignPadLocal(n) == archive_padlen(NameEnd(n), align)
AlignPad(n) == archive_padlen(base + NameEnd(n), align)
data_align_seek_unbounded(n, len) ==
  IF align > 0 /\ len > align THEN AlignPad(n) ELSE 0
data_align_seek(n, len) ==
  IF align > 0 /\ len > align /\ AlignPad(n) + n + 1 <= NamesizeMax
  THEN AlignPad(n) ELSE 0

(* assert_eq!(archive_padlen(state.off + seek_len as u64, 4), 0)           *)
AssertHolds(n, len) ==
  LET extra == data_align_seek(n, len)
  IN  extra > 0 => archive_padlen(NameEnd(n) + extra, 4) = 0

archive_file(n, len) ==
  /\ NameFits(n) /\ AssertHolds(n, len)
  /\ Put("file", n, data_align_seek(n, len), len)

archive_trailer ==
  /\ RoomFor(TRAILER_LEN, 0, 0)
  /\ file' = Append(file, Header("trailer", 0, TRAILER_LEN, 0, 0))
  /\ off' = EntryEnd(TRAILER_LEN, 0, 0)
  /\ UNCHANGED <<base, align, ino>>

-----------------------------------------------------------------------------
(* ArchiveWalker::next(): where it looks for the header after h.           *)
WalkNext(h) ==
  h.at + NEWC_HDR_LEN + h.namesize
  + archive_padlen(NEWC_HDR_LEN + h.namesize, 4)
  + h.len + archive_padlen(h.len, 4)
=============================================================================
