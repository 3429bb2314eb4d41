----------------------------- MODULE CpioProofs ------------------------------
(***************************************************************************)
(* The layout of the archives dracut-cpio writes, for names, targets and   *)
(* files of any length and any alignment: the walker meets every header,   *)
(* no accepted run on a file that ends on a 4-byte boundary reaches the    *)
(* failing assertion, and archives are separated as documented.            *)
(***************************************************************************)
EXTENDS DracutCpio, SequenceTheorems, TLAPS

-----------------------------------------------------------------------------
(* Arithmetic of padding.                                                  *)

(* archive_padlen(x, 4) is what takes x to the next multiple of four.      *)
LEMMA Pad4 ==
  ASSUME NEW x \in 0..MaxOff
  PROVE  archive_padlen(x, 4) = (4 - (x % 4)) % 4
<1>1. BitAnd(x, 4 - 1) = x % 4
  BY MaskAssumption DEF Powers
<1> QED
  BY <1>1 DEF archive_padlen

(* The same for dracut-cpio's blocks.                                      *)
LEMMA PadBlock ==
  ASSUME NEW x \in 0..MaxOff
  PROVE  archive_padlen(x, BLOCKLEN) = (512 - (x % 512)) % 512
<1>1. BitAnd(x, 512 - 1) = x % 512
  BY MaskAssumption DEF Powers
<1> QED
  BY <1>1 DEF archive_padlen, BLOCKLEN

LEMMA Mod4 ==
  ASSUME NEW x \in Nat
  PROVE  /\ (4 - (x % 4)) % 4 \in 0..3
         /\ (x + ((4 - (x % 4)) % 4)) % 4 = 0
         /\ x % 4 = 0 => (4 - (x % 4)) % 4 = 0
         /\ (4 - (x % 4)) % 4 = 0 => x % 4 = 0
  BY SMT

LEMMA Mod4Shift ==
  ASSUME NEW x \in Nat, NEW y \in Nat, x % 4 = 0
  PROVE  (x + y) % 4 = y % 4
  BY SMT

LEMMA Mod512 ==
  ASSUME NEW x \in Nat
  PROVE  /\ (512 - (x % 512)) % 512 \in 0..511
         /\ (x + ((512 - (x % 512)) % 512)) % 512 = 0
  BY SMT

LEMMA SmallMod ==
  ASSUME NEW a \in Nat \ {0}, NEW b \in 0..(a - 1)
  PROVE  (a - b) % a = IF b = 0 THEN 0 ELSE a - b
  BY SMT

-----------------------------------------------------------------------------
(* One entry.                                                              *)

(* An entry that starts on a 4-byte boundary of its archive ends on one,   *)
(* and the walker's seek from its header lands exactly there.              *)
LEMMA Layout ==
  ASSUME base \in Nat, off \in Nat, off % 4 = 0,
         NEW k, NEW i, NEW n \in Nat, NEW extra \in Nat, NEW len \in Nat,
         extra > 0 => archive_padlen(NameEnd(n) + extra, 4) = 0,
         RoomFor(n, extra, len)
  PROVE  /\ EntryEnd(n, extra, len) \in Nat
         /\ EntryEnd(n, extra, len) > 0
         /\ EntryEnd(n, extra, len) % 4 = 0
         /\ base + EntryEnd(n, extra, len) <= MaxOff
         /\ DataStart(n, extra) \in Nat
         /\ WalkNext(Header(k, i, n, extra, len)) = base + EntryEnd(n, extra, len)
<1> DEFINE s == 111 + n + extra
           sp == archive_padlen(s, 4)
           lp == archive_padlen(len, 4)
           ne == NameEnd(n)
           ds == DataStart(n, extra)
           ee == EntryEnd(n, extra, len)
           h == Header(k, i, n, extra, len)
<1>1. ne \in Nat /\ ne = off + (111 + n) /\ s \in Nat /\ ne + extra = off + s
  BY DEF NameEnd, NEWC_HDR_LEN
<1>2. /\ MaxOff \in Nat /\ base + ne <= MaxOff
      /\ base + ne + extra + len + 6 <= MaxOff
  BY PropsAssumption DEF RoomFor
<1>3. ne \in 0..MaxOff /\ ne + extra \in 0..MaxOff /\ s \in 0..MaxOff
      /\ len \in 0..MaxOff
  BY <1>1, <1>2
<1>4. (ne + extra) % 4 = s % 4
  BY <1>1, Mod4Shift
<1>5. archive_padlen(ne + extra, 4) = sp
  BY <1>3, <1>4, Pad4
<1>6. ds = ne + extra + sp
  <2>1. CASE extra > 0
    <3>1. ds = ne + extra
      BY <2>1 DEF DataStart
    <3>2. sp = 0
      BY <2>1, <1>5
    <3> QED BY <1>1, <3>1, <3>2
  <2>2. CASE extra = 0
    BY <1>1, <1>5, <2>2 DEF DataStart
  <2> QED BY <2>1, <2>2
<1>7. sp \in 0..3 /\ (s + sp) % 4 = 0
  BY <1>1, <1>3, Pad4, Mod4
<1> HIDE DEF s, sp, lp, ne, ds, ee, h
<1>8. ds \in Nat /\ ds % 4 = 0 /\ ds = off + (s + sp)
      /\ ds >= 111 /\ base + ds + len + 3 <= MaxOff
  <2>1. ds = off + (s + sp)
    BY <1>1, <1>6, <1>7
  <2>2. ds % 4 = (s + sp) % 4
    BY <2>1, <1>1, <1>7, Mod4Shift
  <2> QED BY <2>1, <2>2, <1>1, <1>2, <1>7
<1>9. ds + len \in 0..MaxOff /\ (ds + len) % 4 = len % 4
  BY <1>2, <1>8, Mod4Shift
<1>10. archive_padlen(ds + len, 4) = lp
  BY <1>3, <1>9, Pad4 DEF lp
<1>11. lp \in 0..3 /\ (len + lp) % 4 = 0
       /\ (len = 0 => lp = 0)
  BY <1>3, Pad4, Mod4 DEF lp
<1>12. ee = ds + (len + lp)
  <2>1. CASE len > 0
    BY <1>8, <1>10, <1>11, <2>1 DEF EntryEnd, ee, ds
  <2>2. CASE len = 0
    BY <1>8, <1>11, <2>2 DEF EntryEnd, ee, ds
  <2> QED BY <2>1, <2>2
<1>13. ee % 4 = 0
  <2>1. ee % 4 = (len + lp) % 4
    BY <1>8, <1>11, <1>12, Mod4Shift
  <2> QED BY <2>1, <1>11
<1>14. WalkNext(h) = base + off + s + sp + len + lp
  <2>1. h.at = base + off /\ h.namesize = n + 1 + extra /\ h.len = len
    BY DEF Header, h
  <2>2. NEWC_HDR_LEN + h.namesize = s
    BY <2>1 DEF NEWC_HDR_LEN, s
  <2>3. WalkNext(h) = h.at + NEWC_HDR_LEN + h.namesize + sp
                      + len + lp
    BY <2>1, <2>2 DEF WalkNext, sp, lp
  <2> QED BY <2>1, <2>2, <2>3, <1>1, <1>7, <1>11 DEF NEWC_HDR_LEN
<1>15. WalkNext(h) = base + ee
  BY <1>1, <1>7, <1>8, <1>11, <1>12, <1>14
<1> QED
  <2>1. ee \in Nat /\ ee > 0 /\ base + ee <= MaxOff
    BY <1>2, <1>8, <1>11, <1>12
  <2> QED BY <2>1, <1>8, <1>13, <1>15 DEF ee, ds, h

(* The zeros that align file data never take a name past PATH_MAX.         *)
LEMMA SeekBound ==
  ASSUME TypeOK, NEW n \in Nat, NEW len \in Nat, NameFits(n),
         base + NameEnd(n) <= MaxOff
  PROVE  /\ data_align_seek(n, len) \in Nat
         /\ n + 1 + data_align_seek(n, len) <= PATH_MAX
<1> DEFINE x == base + NameEnd(n)
           b == BitAnd(x, align - 1)
<1>1. x \in 0..MaxOff
  BY PropsAssumption DEF TypeOK, NameEnd, NEWC_HDR_LEN
<1>2. CASE align > 0 /\ len > align /\ AlignPad(n) + n + 1 <= NamesizeMax
  <2>1. align \in Aligns \ {0} /\ align \in Nat \ {0}
    BY <1>2, PropsAssumption DEF TypeOK
  <2>2. b \in 0..(align - 1)
    BY <1>1, <2>1, MaskAssumption
  <2> HIDE DEF x, b
  <2>3. AlignPad(n) = (align - b) % align
    BY DEF AlignPad, archive_padlen, x, b
  <2>4. AlignPad(n) \in Nat
    BY <2>1, <2>2, <2>3, SmallMod
  <2>5. data_align_seek(n, len) = AlignPad(n)
    BY <1>2 DEF data_align_seek
  <2>6. NamesizeMax \in Nat /\ NamesizeMax <= 4096
    BY PropsAssumption DEF PATH_MAX
  <2>7. ASSUME NEW p \in Nat, p + n + 1 <= NamesizeMax PROVE n + 1 + p <= 4096
    BY <2>6, <2>7
  <2> QED BY <1>2, <2>4, <2>5, <2>7 DEF PATH_MAX
<1>3. CASE ~(align > 0 /\ len > align /\ AlignPad(n) + n + 1 <= NamesizeMax)
  <2>1. data_align_seek(n, len) = 0
    BY <1>3 DEF data_align_seek
  <2> QED BY <2>1 DEF NameFits, PATH_MAX
<1> QED
  BY <1>2, <1>3

(* When the file and the alignment are multiples of four, so is the end of *)
(* the zeros: archive_file()'s assertion holds.                            *)
LEMMA AssertionHolds ==
  ASSUME TypeOK, NEW n \in Nat, NEW len \in Nat, NameFits(n),
         base % 4 = 0, AlignOK(align, base),
         RoomFor(n, data_align_seek(n, len), len)
  PROVE  AssertHolds(n, len)
<1> DEFINE ne == NameEnd(n)
           x == base + ne
           b == BitAnd(x, align - 1)
           extra == data_align_seek(n, len)
<1> SUFFICES ASSUME extra > 0 PROVE archive_padlen(ne + extra, 4) = 0
  BY DEF AssertHolds
<1>1. ne \in Nat /\ x \in 0..MaxOff /\ base \in Nat
  BY PropsAssumption DEF TypeOK, NameEnd, NEWC_HDR_LEN, RoomFor
<1>2. extra = AlignPad(n) /\ align > 0
  BY DEF data_align_seek
<1>3. align \in Aligns \ {0} /\ align \in Nat \ {0}
  BY <1>2, PropsAssumption DEF TypeOK
<1>4. align % 4 = 0
  BY <1>1, <1>2, <1>3, Mod4Shift DEF AlignOK
<1>5. b \in 0..(align - 1) /\ b % 4 = x % 4
  BY <1>1, <1>3, <1>4, MaskAssumption
<1>6. ne + extra \in 0..MaxOff
  <2>1. base + NameEnd(n) <= MaxOff /\ base + NameEnd(n) + extra + len + 6 <= MaxOff
    BY DEF RoomFor
  <2>2. extra \in Nat
    BY <2>1, SeekBound
  <2> HIDE DEF extra
  <2> QED BY <1>1, <2>1, <2>2, PropsAssumption
<1> HIDE DEF ne, x, b, extra
<1>7. extra = (align - b) % align
  BY <1>2 DEF AlignPad, archive_padlen, x, b, ne
<1>8. extra = align - b
  BY <1>3, <1>5, <1>7, SmallMod
<1>9. x % 4 = ne % 4
  BY <1>1, Mod4Shift DEF x
<1>10. (ne + extra) % 4 = 0
  BY <1>1, <1>3, <1>4, <1>5, <1>8, <1>9
<1> QED
  BY <1>6, <1>10, Pad4, Mod4

-----------------------------------------------------------------------------
(* The invariant.                                                          *)

LastHdr == file[Len(file)]

(* Entries start on 4-byte boundaries of the archive, the run in progress  *)
(* passed the alignment check, and the walker's seek from the last header  *)
(* of an archive in progress lands where the next one will be written.     *)
WriterInv ==
  /\ off % 4 = 0
  /\ st # "idle" => AlignOK(align, base)
  /\ st = "open" /\ off > 0 => file # <<>> /\ base + off = WalkNext(LastHdr)

(* Where the archives in the file start and end, when all are finished.    *)
ChainInv ==
  /\ whole /\ st = "idle" => size % 4 = 0
  /\ whole /\ st = "idle" /\ file # <<>> =>
       LastHdr.kind = "trailer" /\ (size - file[1].at) % 512 = 0
  /\ whole /\ st = "open" => base % 4 = 0
  /\ whole /\ st = "open" /\ file # <<>> =>
       (base - file[1].at) % 512 = 0 /\ (LastHdr.kind = "trailer" <=> off = 0)

Inv ==
  /\ TypeOK /\ NoPanic /\ WalkFollows /\ NamesizeBounded /\ Separated
  /\ WriterInv /\ ChainInv

LEMMA InitInv == Init => Inv
<1> SUFFICES ASSUME Init PROVE Inv
  OBVIOUS
<1>1. size \in Nat /\ MaxU32 \in Nat
  BY InputAssumption, PropsAssumption DEF Init
<1>2. file = <<>> /\ file \in Seq(HeaderType) /\ Len(file) = 0 /\ DOMAIN file = {}
  BY DEF Init
<1>3. TypeOK
  BY <1>1, <1>2 DEF Init, TypeOK
<1>4. NoPanic /\ WriterInv /\ ChainInv
  <2>1. whole => size % 4 = 0
    BY Zenon DEF Init
  <2>2. st = "idle" /\ off = 0 /\ file = <<>>
    BY DEF Init
  <2>3. WriterInv
    BY <2>2 DEF WriterInv
  <2> QED BY <2>1, <2>2, <2>3 DEF NoPanic, ChainInv
<1>5. WalkFollows /\ NamesizeBounded /\ Separated
  BY <1>2 DEF WalkFollows, NamesizeBounded, Separated
<1> QED
  BY <1>3, <1>4, <1>5 DEF Inv

(* Appending a header: what there is to show for each kind of entry.       *)
LEMMA AppendHeader ==
  ASSUME Inv, st = "open", NEW h \in HeaderType, file' = Append(file, h),
         h.at = base + off, h.start = (off = 0), h.namesize <= PATH_MAX
  PROVE  /\ file' \in Seq(HeaderType) /\ file' # <<>>
         /\ file'[Len(file')] = h
         /\ file'[1].at = IF file = <<>> THEN base + off ELSE file[1].at
         /\ WalkFollows' /\ NamesizeBounded'
         /\ whole' = whole => Separated'
<1> DEFINE l == Len(file)
<1>1. file \in Seq(HeaderType) /\ l \in Nat /\ DOMAIN file = 1..l
      /\ base \in Nat /\ off \in Nat
  BY DEF Inv, TypeOK
<1>2. /\ file' \in Seq(HeaderType) /\ Len(file') = l + 1 /\ DOMAIN file' = 1..(l + 1)
      /\ \A i \in 1..l : file'[i] = file[i]
      /\ file'[l + 1] = h
  BY <1>1
<1>3. file = <<>> <=> l = 0
  BY <1>1, EmptySeq
<1>4. file'[1].at = IF file = <<>> THEN base + off ELSE file[1].at
  BY <1>1, <1>2, <1>3
<1>5. WalkFollows'
  <2> SUFFICES ASSUME NEW i \in 1..l, ~file'[i + 1].start
               PROVE  file'[i + 1].at = WalkNext(file'[i])
    BY <1>2 DEF WalkFollows, WalkNext
  <2>1. CASE i < l
    BY <1>1, <1>2, <2>1 DEF Inv, WalkFollows
  <2>2. CASE i = l
    <3>1. off > 0
      <4>1. file'[i + 1] = h
        BY <1>2, <2>2
      <4>2. ~h.start
        BY <4>1
      <4>3. off # 0
        BY <4>2, Zenon
      <4> QED BY <1>1, <4>3
    <3>2. base + off = WalkNext(file[l])
      BY <3>1 DEF Inv, WriterInv, LastHdr
    <3>3. file'[i + 1] = h /\ file'[i] = file[l]
      BY <1>1, <1>2, <2>2
    <3>4. h.at = WalkNext(file[l])
      BY <3>2
    <3> QED BY <3>3, <3>4
  <2> HIDE DEF l
  <2>3. i < l \/ i = l
    BY <1>1
  <2> QED BY <2>1, <2>2, <2>3
<1>6. NamesizeBounded'
  BY <1>1, <1>2 DEF Inv, NamesizeBounded
<1>7. ASSUME whole' = whole PROVE Separated'
  <2> SUFFICES ASSUME whole, NEW i \in 1..(l + 1)
      PROVE /\ file'[i].at % 4 = 0
            /\ i > 1 => (file'[i].start <=> file'[i - 1].kind = "trailer")
            /\ file'[i].start => (file'[i].at - file'[1].at) % BLOCKLEN = 0
    BY <1>2, <1>7 DEF Separated
  <2>1. CASE i \in 1..l
    <3>1. file # <<>> /\ 1 \in 1..l /\ (i > 1 => i - 1 \in 1..l)
      BY <1>1, <1>3, <2>1
    <3> QED BY <1>1, <1>2, <2>1, <3>1 DEF Inv, Separated
  <2>2. CASE i = l + 1
    <3>1. file'[i] = h
      BY <1>2, <2>2
    <3>2. base % 4 = 0 /\ off % 4 = 0
      BY DEF Inv, ChainInv, WriterInv
    <3>3. h.at % 4 = 0
      BY <1>1, <3>2, Mod4Shift
    <3>4. CASE l = 0
      <4>1. i = 1 /\ file'[1].at = h.at /\ h.at \in Nat
        BY <1>1, <1>3, <1>4, <2>2, <3>4
      <4>2. (file'[i].at - file'[1].at) % BLOCKLEN = 0
        BY <3>1, <4>1 DEF BLOCKLEN
      <4> QED BY <3>1, <3>3, <4>1, <4>2
    <3>5. CASE l > 0
      <4>1. file # <<>> /\ file'[i - 1] = LastHdr /\ file'[1].at = file[1].at
        <5>1. file # <<>> /\ l \in 1..l /\ i - 1 = l
          BY <1>1, <1>3, <2>2, <3>5
        <5>2. file'[l] = file[l]
          BY <1>2, <5>1
        <5> QED BY <1>4, <5>1, <5>2 DEF LastHdr
      <4>2. (base - file[1].at) % 512 = 0 /\ (LastHdr.kind = "trailer" <=> off = 0)
        BY <4>1 DEF Inv, ChainInv
      <4>3. h.start => (h.at - file[1].at) % 512 = 0
        <5>1. h.start => off = 0
          BY Zenon
        <5>2. off = 0 => h.at = base
          BY <1>1
        <5> QED BY <4>2, <5>1, <5>2
      <4> QED BY <3>1, <3>3, <4>1, <4>2, <4>3 DEF BLOCKLEN
    <3> QED BY <1>1, <3>4, <3>5
  <2> QED BY <1>1, <2>1, <2>2
<1> QED
  BY <1>1, <1>2, <1>3, <1>4, <1>5, <1>6, <1>7

-----------------------------------------------------------------------------
(* The steps.                                                              *)

(* Opening the output file and archive_loop()'s check.                     *)
LEMMA OpenInv ==
  ASSUME Inv, NEW trunc \in BOOLEAN, NEW a \in Aligns, Open(trunc, a)
  PROVE  Inv'
<1>1. /\ st = "idle" /\ base' = (IF trunc THEN 0 ELSE size) /\ size' = base'
      /\ file' = (IF trunc THEN <<>> ELSE file) /\ whole' = (trunc \/ whole)
      /\ runs' = runs + 1
  BY DEF Open
<1>2. \/ AlignOK(a, base') /\ align' = a /\ off' = 0 /\ ino' = 0 /\ st' = "open"
      \/ UNCHANGED <<align, off, ino, st>>
  BY DEF Open
<1>3. base \in Nat /\ size \in Nat /\ file \in Seq(HeaderType) /\ base' \in Nat
      /\ MaxU32 \in Nat
  BY <1>1, PropsAssumption DEF Inv, TypeOK
<1>4. \/ file' = file /\ whole' = whole /\ base' = size
      \/ file' = <<>> /\ whole' /\ base' = 0
  <2>1. CASE trunc
    BY <1>1, <2>1
  <2>2. CASE ~trunc
    <3>1. whole' = whole
      BY <1>1, <2>2 DEF Inv, TypeOK
    <3> QED BY <1>1, <2>2, <3>1
  <2> QED BY <2>1, <2>2
<1>5. TypeOK'
  <2>1. file' \in Seq(HeaderType)
    <3>1. <<>> \in Seq(HeaderType)
      OBVIOUS
    <3> QED BY <1>3, <1>4, <3>1
  <2>2. whole' \in BOOLEAN /\ runs' \in Nat
    BY <1>1 DEF Inv, TypeOK
  <2>3. /\ align' \in Aligns \union {0} /\ off' \in Nat /\ ino' \in 0..MaxU32
        /\ st' \in {"idle", "open", "panicked"}
    BY <1>2, <1>3 DEF Inv, TypeOK
  <2> QED BY <1>1, <1>3, <2>1, <2>2, <2>3 DEF TypeOK
<1>6. (st' = "idle" /\ off' = off) \/ (st' = "open" /\ off' = 0 /\ AlignOK(align', base'))
  BY <1>1, <1>2
<1>7. NoPanic' /\ WriterInv'
  BY <1>6 DEF NoPanic, WriterInv, Inv
<1>8. WalkFollows' /\ NamesizeBounded' /\ Separated'
  <2>1. CASE file' = <<>>
    BY <2>1 DEF WalkFollows, NamesizeBounded, Separated
  <2>2. CASE file' = file /\ whole' = whole
    BY <2>2 DEF WalkFollows, NamesizeBounded, Separated, WalkNext, Inv
  <2> QED BY <1>4, <2>1, <2>2
<1>9. ChainInv'
  <2>1. CASE file' = <<>> /\ base' = 0
    <3>1. base' = 0 /\ size' = 0
      BY <1>1, <2>1
    <3>2. 0 % 4 = 0
      OBVIOUS
    <3> QED BY <2>1, <3>1, <3>2 DEF ChainInv
  <2>2. CASE file' = file /\ whole' = whole /\ base' = size
    <3>1. LastHdr' = LastHdr /\ size' = size
      BY <1>1, <2>2 DEF LastHdr
    <3>2. whole => size % 4 = 0
      BY <1>1 DEF Inv, ChainInv
    <3>3. whole /\ file # <<>> =>
            LastHdr.kind = "trailer" /\ (size - file[1].at) % 512 = 0
      BY <1>1 DEF Inv, ChainInv
    <3> HIDE DEF LastHdr
    <3> QED BY <1>6, <2>2, <3>1, <3>2, <3>3 DEF ChainInv
  <2> QED BY <1>4, <2>1, <2>2
<1> QED
  BY <1>5, <1>7, <1>8, <1>9 DEF Inv

(* One entry of any kind.                                                  *)
LEMMA PutInv ==
  ASSUME Inv, st = "open", UNCHANGED <<size, st, whole, runs>>,
         NEW kind \in {"path", "link", "file"}, NEW n \in Nat, NEW extra \in Nat,
         NEW len \in 0..MaxU32, n + 1 + extra <= PATH_MAX,
         extra > 0 => archive_padlen(NameEnd(n) + extra, 4) = 0,
         Put(kind, n, extra, len)
  PROVE  Inv'
<1> DEFINE h == Header(kind, ino, n, extra, len)
           ee == EntryEnd(n, extra, len)
<1>1. /\ base \in Nat /\ off \in Nat /\ off % 4 = 0 /\ ino \in 0..MaxU32
      /\ align \in Aligns \union {0} /\ align \in Nat /\ MaxU32 \in Nat /\ len \in Nat
  BY PropsAssumption DEF Inv, TypeOK, WriterInv
<1>2. /\ RoomFor(n, extra, len) /\ file' = Append(file, h) /\ off' = ee
      /\ ino' = (ino + 1) % (MaxU32 + 1) /\ base' = base /\ align' = align
  BY DEF Put
<1>3. /\ ee \in Nat /\ ee > 0 /\ ee % 4 = 0 /\ DataStart(n, extra) \in Nat
      /\ WalkNext(h) = base + ee
  BY <1>1, <1>2, Layout
<1>4. h \in HeaderType /\ h.at = base + off /\ h.start = (off = 0)
      /\ h.namesize <= PATH_MAX /\ h.kind # "trailer"
  BY <1>1, <1>3 DEF Header, HeaderType
<1> HIDE DEF h, ee
<1>5. /\ file' \in Seq(HeaderType) /\ file' # <<>> /\ file'[Len(file')] = h
      /\ file'[1].at = IF file = <<>> THEN base + off ELSE file[1].at
      /\ WalkFollows' /\ NamesizeBounded' /\ Separated'
  BY <1>2, <1>4, AppendHeader
<1>6. TypeOK'
  <2>1. ino' \in 0..MaxU32
    BY <1>1, <1>2
  <2> QED BY <1>1, <1>2, <1>3, <1>5, <2>1 DEF Inv, TypeOK
<1>7. NoPanic' /\ WriterInv'
  <2>1. WalkNext(file'[Len(file')]) = base + off'
    BY <1>2, <1>3, <1>5
  <2>2. AlignOK(align, base)
    BY DEF Inv, WriterInv
  <2> QED BY <1>2, <1>3, <1>5, <2>1, <2>2 DEF NoPanic, WriterInv, LastHdr, AlignOK, WalkNext
<1>8. ChainInv'
  <2>1. whole => base % 4 = 0
    BY DEF Inv, ChainInv
  <2>2. whole => (base - file'[1].at) % 512 = 0
    <3>1. CASE file = <<>>
      <4>1. off = 0
        BY <1>1, <3>1 DEF Inv, WriterInv
      <4>2. base - file'[1].at = 0
        BY <1>1, <1>5, <3>1, <4>1
      <4> QED BY <4>2
    <3>2. CASE file # <<>>
      BY <1>5, <3>2 DEF Inv, ChainInv
    <3> QED BY <3>1, <3>2
  <2> QED BY <1>2, <1>3, <1>4, <1>5, <2>1, <2>2 DEF ChainInv, LastHdr
<1> QED
  BY <1>5, <1>6, <1>7, <1>8 DEF Inv

(* archive_path(), archive_symlink() and archive_file().                   *)
LEMMA EntryInv == ASSUME Inv, Entry PROVE Inv'
<1>1. st = "open" /\ UNCHANGED <<size, st, whole, runs>>
  BY DEF Entry, ArchivePath, ArchiveSymlink, ArchiveFile
<1>2. NameLens \subseteq Nat /\ DataLens \subseteq Nat /\ TgtLens \subseteq Nat
      /\ MaxU32 \in Nat /\ MaxU32 >= 4096
  BY InputAssumption, PropsAssumption DEF PATH_MAX
<1>3. CASE ArchivePath
  <2>1. PICK n \in NameLens : NameFits(n) /\ Put("path", n, 0, 0)
    BY <1>3 DEF ArchivePath, archive_path
  <2>2. n \in Nat /\ n + 1 + 0 <= PATH_MAX /\ 0 \in 0..MaxU32
    BY <1>2, <2>1 DEF NameFits, PATH_MAX
  <2> QED BY <1>1, <2>1, <2>2, PutInv
<1>4. CASE ArchiveSymlink
  <2>1. PICK n \in NameLens, t \in TgtLens :
          NameFits(n) /\ t < PATH_MAX /\ Put("link", n, 0, t)
    BY <1>4 DEF ArchiveSymlink, archive_symlink
  <2>2. n \in Nat /\ n + 1 + 0 <= PATH_MAX /\ t \in 0..MaxU32
    BY <1>2, <2>1 DEF NameFits, PATH_MAX
  <2> QED BY <1>1, <2>1, <2>2, PutInv
<1>5. CASE ArchiveFile
  <2>1. PICK n \in NameLens, l \in DataLens : LenFits(l) /\ archive_file(n, l)
    BY <1>5 DEF ArchiveFile
  <2> DEFINE extra == data_align_seek(n, l)
  <2>2. /\ NameFits(n) /\ AssertHolds(n, l) /\ Put("file", n, extra, l)
        /\ n \in Nat /\ l \in Nat /\ l \in 0..MaxU32
    BY <1>2, <2>1 DEF archive_file, LenFits
  <2>3. base + NameEnd(n) <= MaxOff
    BY <2>2 DEF Put, RoomFor
  <2>4. extra \in Nat /\ n + 1 + extra <= PATH_MAX
    BY <2>2, <2>3, SeekBound DEF Inv
  <2>5. extra > 0 => archive_padlen(NameEnd(n) + extra, 4) = 0
    BY <2>2 DEF AssertHolds
  <2> HIDE DEF extra
  <2> QED BY <1>1, <2>2, <2>4, <2>5, PutInv
<1> QED
  BY <1>3, <1>4, <1>5 DEF Entry

(* The assertion fails only when the archive starts off a 4-byte boundary. *)
LEMMA PanicInv == ASSUME Inv, ArchivePanic PROVE Inv'
<1>1. st = "open" /\ st' = "panicked" /\ UNCHANGED <<cpioVars, size, whole, runs>>
  BY DEF ArchivePanic
<1>2. PICK n \in NameLens, l \in DataLens :
        NameFits(n) /\ ~AssertHolds(n, l) /\ RoomFor(n, data_align_seek(n, l), l)
  BY DEF ArchivePanic
<1>3. n \in Nat /\ l \in Nat
  BY InputAssumption
<1>4. base % 4 # 0
  BY <1>1, <1>2, <1>3, AssertionHolds DEF Inv, WriterInv
<1>5. NoPanic' /\ WriterInv' /\ ChainInv'
  BY <1>1, <1>4 DEF Inv, NoPanic, WriterInv, ChainInv, cpioVars, AlignOK
<1>6. TypeOK' /\ WalkFollows' /\ NamesizeBounded' /\ Separated'
  BY <1>1 DEF Inv, TypeOK, WalkFollows, NamesizeBounded, Separated, cpioVars, WalkNext
<1> QED
  BY <1>5, <1>6 DEF Inv

(* A failed run: nothing is claimed of the file until it is truncated.     *)
LEMMA ErrorInv == ASSUME Inv, Error PROVE Inv'
<1>1. /\ st = "open" /\ st' = "idle" /\ whole' = FALSE
      /\ UNCHANGED <<base, align, off, ino, file, runs>>
  BY DEF Error, cpioVars
<1>2. size' \in Nat
  <2>1. PICK n \in Leftovers : size' = base + off + n
    BY DEF Error
  <2>2. n \in Nat /\ base \in Nat /\ off \in Nat
    BY InputAssumption DEF Inv, TypeOK
  <2> QED BY <2>1, <2>2
<1>3. TypeOK'
  BY <1>1, <1>2 DEF Inv, TypeOK
<1>4. NoPanic' /\ WriterInv' /\ ChainInv' /\ Separated'
  BY <1>1 DEF Inv, NoPanic, WriterInv, ChainInv, Separated
<1>5. WalkFollows' /\ NamesizeBounded'
  BY <1>1 DEF Inv, WalkFollows, NamesizeBounded, WalkNext
<1> QED
  BY <1>3, <1>4, <1>5 DEF Inv

(* Trailer and block padding.                                              *)
LEMMA FinishInv == ASSUME Inv, Finish PROVE Inv'
<1> DEFINE h == Header("trailer", 0, TRAILER_LEN, 0, 0)
           ee == EntryEnd(TRAILER_LEN, 0, 0)
           bp == archive_padlen(ee, BLOCKLEN)
<1>1. /\ st = "open" /\ RoomFor(TRAILER_LEN, 0, 0) /\ file' = Append(file, h)
      /\ off' = ee /\ base' = base /\ align' = align /\ ino' = ino
      /\ size' = base + ee + bp /\ st' = "idle" /\ whole' = whole /\ runs' = runs
  BY DEF Finish, archive_trailer
<1>2. /\ base \in Nat /\ off \in Nat /\ off % 4 = 0 /\ MaxOff \in Nat
      /\ align \in Aligns \union {0} /\ align \in Nat /\ MaxU32 \in Nat
  BY PropsAssumption DEF Inv, TypeOK, WriterInv
<1>3. /\ ee \in Nat /\ ee > 0 /\ ee % 4 = 0 /\ base + ee <= MaxOff
      /\ DataStart(TRAILER_LEN, 0) \in Nat
  BY <1>1, <1>2, Layout DEF TRAILER_LEN
<1>4. h \in HeaderType /\ h.at = base + off /\ h.start = (off = 0)
      /\ h.namesize <= PATH_MAX /\ h.kind = "trailer"
  BY <1>2, <1>3 DEF Header, HeaderType, TRAILER_LEN, PATH_MAX
<1>5. bp \in 0..511 /\ (ee + bp) % 512 = 0
  <2>1. ee \in 0..MaxOff
    BY <1>2, <1>3
  <2>2. bp = (512 - (ee % 512)) % 512
    BY <2>1, PadBlock
  <2> QED BY <1>3, <2>2, Mod512
<1> HIDE DEF h, ee, bp
<1>6. /\ file' \in Seq(HeaderType) /\ file' # <<>> /\ file'[Len(file')] = h
      /\ file'[1].at = IF file = <<>> THEN base + off ELSE file[1].at
      /\ WalkFollows' /\ NamesizeBounded' /\ Separated'
  BY <1>1, <1>4, AppendHeader
<1>7. TypeOK'
  BY <1>1, <1>2, <1>3, <1>5, <1>6 DEF Inv, TypeOK
<1>8. NoPanic' /\ WriterInv'
  BY <1>1, <1>3 DEF NoPanic, WriterInv
<1>9. ChainInv'
  <2> SUFFICES ASSUME whole
               PROVE  size' % 4 = 0 /\ (size' - file'[1].at) % 512 = 0
    BY <1>1, <1>4, <1>6 DEF ChainInv, LastHdr
  <2>1. base % 4 = 0
    BY <1>1 DEF Inv, ChainInv
  <2>2. size' \in Nat /\ size' = base + (ee + bp) /\ ee + bp \in Nat
    BY <1>1, <1>2, <1>3, <1>5
  <2>3. size' % 4 = 0
    <3>1. (ee + bp) % 4 = 0
      BY <1>3, <1>5, <2>2
    <3> QED BY <1>2, <2>1, <2>2, <3>1, Mod4Shift
  <2>4. file'[1].at \in Nat /\ (base - file'[1].at) % 512 = 0
    <3>1. CASE file = <<>>
      <4>1. off = 0
        BY <1>1, <1>2, <3>1 DEF Inv, WriterInv
      <4>2. file'[1].at = base /\ base - base = 0
        BY <1>2, <1>6, <3>1, <4>1
      <4> QED BY <1>2, <4>2
    <3>2. CASE file # <<>>
      <4>1. file'[1].at = file[1].at
        BY <1>6, <3>2
      <4>2. (base - file[1].at) % 512 = 0
        BY <1>1, <3>2 DEF Inv, ChainInv
      <4>3. file[1] \in HeaderType
        BY <3>2, EmptySeq DEF Inv, TypeOK
      <4> QED BY <4>1, <4>2, <4>3 DEF HeaderType
    <3> QED BY <3>1, <3>2
  <2>5. (size' - file'[1].at) % 512 = 0
    BY <1>2, <1>5, <2>2, <2>4
  <2> QED BY <2>3, <2>5
<1> QED
  BY <1>6, <1>7, <1>8, <1>9 DEF Inv

LEMMA NextInv == Inv /\ [Next]_vars => Inv'
<1> SUFFICES ASSUME Inv, [Next]_vars PROVE Inv'
  OBVIOUS
<1>1. CASE UNCHANGED vars
  BY <1>1 DEF vars, cpioVars, Inv, TypeOK, NoPanic, WalkFollows, NamesizeBounded,
     Separated, WriterInv, ChainInv, LastHdr, AlignOK, WalkNext
<1>2. CASE Next
  BY <1>2, OpenInv, EntryInv, PanicInv, ErrorInv, FinishInv DEF Next
<1> QED
  BY <1>1, <1>2

(* The invariant holds of every behaviour of dracut-cpio.                  *)
THEOREM LayoutInvariant == Spec => []Inv
  BY InitInv, NextInv, PTL DEF Spec

(* From any header ArchiveWalker::next() seeks exactly to the next one.    *)
THEOREM WalkerFollows == Spec => []WalkFollows
<1>1. Inv => WalkFollows
  BY DEF Inv
<1> QED
  BY <1>1, LayoutInvariant, PTL

(* No run that archive_loop() accepts, on a file that ends on a 4-byte     *)
(* boundary, reaches the failing assertion in archive_file().              *)
THEOREM PanicFree == Spec => []NoPanic
<1>1. Inv => NoPanic
  BY DEF Inv
<1> QED
  BY <1>1, LayoutInvariant, PTL

(* Archives in a file without failed runs start on block boundaries after  *)
(* a trailer, and every header lies on a 4-byte boundary.                  *)
THEOREM ArchivesSeparated == Spec => []Separated
<1>1. Inv => Separated
  BY DEF Inv
<1> QED
  BY <1>1, LayoutInvariant, PTL

(* Alignment zeros never take a namesize past the kernel's PATH_MAX.       *)
THEOREM NamesBounded == Spec => []NamesizeBounded
<1>1. Inv => NamesizeBounded
  BY DEF Inv
<1> QED
  BY <1>1, LayoutInvariant, PTL

(* Each variable holds what the code's type for it holds: in particular    *)
(* the inode counter wraps within 32 bits, and no header field overflows.  *)
THEOREM TypesHold == Spec => []TypeOK
<1>1. Inv => TypeOK
  BY DEF Inv
<1> QED
  BY <1>1, LayoutInvariant, PTL

-----------------------------------------------------------------------------
(* Data alignment, for alignments that are powers of two: archive_padlen() *)
(* masks with alignment - 1, so for others it aligns to nothing.           *)

(* Two ways to say how far it is to the next multiple.                     *)
LEMMA NextMultiple ==
  ASSUME NEW a \in Powers, NEW e \in Nat
  PROVE  /\ ((e + a - 1) \div a) * a - e = (a - (e % a)) % a
         /\ (e + ((a - (e % a)) % a)) % a = 0
         /\ (a - (e % a)) % a \in Nat
  BY SMTT(60) DEF Powers, PATH_MAX

(* Without zeros in the name the padding to four bytes keeps the data on a *)
(* multiple: the alignment is one, two, or a multiple of four, and then    *)
(* the archive starts on one as well.                                      *)
LEMMA PadKeeps ==
  ASSUME NEW a \in Powers, NEW b \in Nat, NEW n \in Nat, (b + a) % 4 = 0,
         (b + n) % a = 0
  PROVE  (b + n + ((4 - (n % 4)) % 4)) % a = 0
<1>1. CASE a = 1
  BY <1>1
<1>2. CASE a = 2
  <2>1. b % 2 = 0 /\ (b + n) % 2 = 0
    BY <1>2
  <2>2. ((4 - (n % 4)) % 4) % 2 = 0 /\ (4 - (n % 4)) % 4 \in Nat
    BY <2>1
  <2> QED
    BY <1>2, <2>1, <2>2
<1>3. CASE a # 1 /\ a # 2
  <2>1. a % 4 = 0
    BY <1>3 DEF Powers, PATH_MAX
  <2>2. b % 4 = 0
    BY <1>3 DEF Powers, PATH_MAX
  <2>3. (b + n) % 4 = 0
    BY <1>3 DEF Powers, PATH_MAX
  <2>4. n % 4 = 0
    BY <2>2, <2>3
  <2>5. (4 - (n % 4)) % 4 = 0
    BY <2>4
  <2> QED
    BY <2>5
<1> QED
  BY <1>1, <1>2, <1>3

(* archive_file() puts the data where data_align asks.                     *)
LEMMA FilePlaced ==
  ASSUME Aligns \subseteq Powers \union {0}, Inv, st = "open",
         NEW n \in Nat, NEW len \in Nat, NEW i,
         RoomFor(n, data_align_seek(n, len), len)
  PROVE  Placed(Header("file", i, n, data_align_seek(n, len), len))
<1> DEFINE extra == data_align_seek(n, len)
           h == Header("file", i, n, extra, len)
           e == base + NameEnd(n)
           next == ((e + align - 1) \div align) * align
<1>1. /\ h.at + NEWC_HDR_LEN + h.name + 1 = e /\ h.align = align /\ h.len = len
      /\ h.name = n /\ h.data = base + DataStart(n, extra)
      /\ e \in Nat /\ NameEnd(n) \in Nat /\ base \in Nat /\ off \in Nat
      /\ MaxOff \in Nat /\ e <= MaxOff
  BY PropsAssumption DEF Inv, TypeOK, Header, NameEnd, NEWC_HDR_LEN, RoomFor
<1> SUFFICES ASSUME align > 0, len > align, n + 1 + next - e <= NamesizeMax
             PROVE  (base + DataStart(n, extra)) % align = 0
  BY <1>1 DEF Placed
<1>2. align \in Powers /\ align \in Nat \ {0} /\ (base + align) % 4 = 0
  <2>1. align \in Aligns /\ align \in Nat \ {0}
    BY PropsAssumption DEF Inv, TypeOK
  <2>2. AlignOK(align, base)
    BY DEF Inv, WriterInv
  <2> QED
    BY <2>1, <2>2 DEF AlignOK
<1>3. AlignPad(n) = (align - (e % align)) % align
  <2>1. BitAnd(e, align - 1) = e % align
    BY <1>1, <1>2, MaskAssumption
  <2> QED
    BY <2>1 DEF AlignPad, archive_padlen
<1>4. /\ next - e = AlignPad(n) /\ (e + AlignPad(n)) % align = 0
      /\ AlignPad(n) \in Nat
  <2> HIDE DEF e
  <2>1. /\ next - e = (align - (e % align)) % align
        /\ (e + ((align - (e % align)) % align)) % align = 0
        /\ (align - (e % align)) % align \in Nat
    BY <1>1, <1>2, NextMultiple, Zenon
  <2> QED
    BY <1>3, <2>1, Zenon
<1>5. extra = AlignPad(n)
  <2>1. next \in Int
    BY <1>1, <1>2
  <2> HIDE DEF next, e
  <2>2. AlignPad(n) + n + 1 <= NamesizeMax
    BY <1>1, <1>4, <2>1, PropsAssumption
  <2> QED
    BY <2>2 DEF data_align_seek
<1> HIDE DEF extra, e, next, h
<1>6. CASE AlignPad(n) > 0
  <2>1. base + DataStart(n, extra) = e + AlignPad(n)
    BY <1>1, <1>4, <1>5, <1>6 DEF DataStart, e
  <2> QED
    BY <1>4, <2>1
<1>7. CASE AlignPad(n) = 0
  <2>1. NameEnd(n) \in 0..MaxOff
    BY <1>1 DEF e
  <2>2. DataStart(n, extra) = NameEnd(n) + ((4 - (NameEnd(n) % 4)) % 4)
    BY <1>5, <1>7, <2>1, Pad4 DEF DataStart
  <2>3. (base + NameEnd(n)) % align = 0
    BY <1>1, <1>4, <1>7 DEF e
  <2>4. (base + NameEnd(n) + ((4 - (NameEnd(n) % 4)) % 4)) % align = 0
    <3> DEFINE m == NameEnd(n)
    <3>1. base \in Nat /\ m \in Nat /\ align \in Powers /\ (base + align) % 4 = 0
          /\ (base + m) % align = 0
      BY <1>1, <1>2, <2>3
    <3> HIDE DEF m
    <3>2. (base + m + ((4 - (m % 4)) % 4)) % align = 0
      BY ONLY <3>1, PadKeeps, Zenon
    <3> QED
      BY <3>2 DEF m
  <2> QED
    BY <1>1, <2>2, <2>4, Mod4
<1> QED
  BY <1>4, <1>6, <1>7

(* Only archive_file() adds the header of a file.                          *)
LEMMA AlignedNext ==
  ASSUME Aligns \subseteq Powers \union {0}, Inv, DataAligned, [Next]_vars
  PROVE  DataAligned'
<1>1. file \in Seq(HeaderType)
  BY DEF Inv, TypeOK
<1>2. ASSUME NEW h, Placed(h), file' = Append(file, h) PROVE DataAligned'
  <2>1. /\ DOMAIN file' = 1..(Len(file) + 1) /\ file'[Len(file) + 1] = h
        /\ Len(file) \in Nat /\ \A i \in 1..Len(file) : file'[i] = file[i]
    BY <1>1, <1>2
  <2>2. ASSUME NEW i \in DOMAIN file' PROVE Placed(file'[i])
    <3>1. CASE i = Len(file) + 1
      BY <1>2, <2>1, <3>1
    <3>2. CASE i \in 1..Len(file)
      BY <1>1, <2>1, <3>2 DEF DataAligned
    <3> QED
      BY <2>1, <3>1, <3>2
  <2> QED
    BY <2>2 DEF DataAligned
<1>3. ASSUME NEW kind, NEW i, NEW n, NEW extra, NEW len, kind # "file"
      PROVE  Placed(Header(kind, i, n, extra, len))
  BY <1>3 DEF Placed, Header
<1>4. CASE file' = file
  BY <1>4 DEF DataAligned
<1>5. ASSUME NEW trunc \in BOOLEAN, NEW a \in Aligns, Open(trunc, a) PROVE DataAligned'
  <2>1. file' = <<>> \/ file' = file
    BY <1>5 DEF Open
  <2>2. CASE file' = <<>>
    BY <2>2 DEF DataAligned
  <2> QED
    BY <1>4, <2>1, <2>2
<1>6. CASE Entry
  <2>1. CASE ArchivePath
    BY <1>2, <1>3, <2>1 DEF ArchivePath, archive_path, Put
  <2>2. CASE ArchiveSymlink
    BY <1>2, <1>3, <2>2 DEF ArchiveSymlink, archive_symlink, Put
  <2>3. CASE ArchiveFile
    <3>1. PICK n \in NameLens, l \in DataLens :
            Put("file", n, data_align_seek(n, l), l)
      BY <2>3 DEF ArchiveFile, archive_file
    <3>2. n \in Nat /\ l \in Nat /\ st = "open"
      BY <2>3, InputAssumption DEF ArchiveFile
    <3>3. /\ RoomFor(n, data_align_seek(n, l), l)
          /\ file' = Append(file, Header("file", ino, n, data_align_seek(n, l), l))
      BY <3>1 DEF Put
    <3> QED
      BY <1>2, <3>2, <3>3, FilePlaced
  <2> QED
    BY <1>6, <2>1, <2>2, <2>3 DEF Entry
<1>7. CASE ArchivePanic \/ Error \/ UNCHANGED vars
  BY <1>4, <1>7 DEF ArchivePanic, Error, vars, cpioVars
<1>8. CASE Finish
  BY <1>2, <1>3, <1>8 DEF Finish, archive_trailer
<1> QED
  BY <1>5, <1>6, <1>7, <1>8 DEF Next

(* The data of a file longer than data_align, a power of two, starts at a  *)
(* multiple of it in the output file, if the name has room for the zeros.  *)
THEOREM DataPlaced ==
  ASSUME Aligns \subseteq Powers \union {0}
  PROVE  Spec => []DataAligned
<1>1. Init => DataAligned
  BY DEF Init, DataAligned
<1>2. Inv /\ DataAligned /\ [Next]_vars => DataAligned'
  BY AlignedNext
<1> QED
  BY <1>1, <1>2, LayoutInvariant, PTL DEF Spec
=============================================================================
