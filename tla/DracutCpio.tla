----------------------------- MODULE DracutCpio ------------------------------
(***************************************************************************)
(* dracut-cpio: successive invocations that truncate the output file or    *)
(* append another archive to it.  rapido-cut drives the same writer, always*)
(* from an empty file and without the block padding.                       *)
(***************************************************************************)
EXTENDS Cpio

CONSTANTS
  InitSizes,     \* lengths the output file may have before the first call
  NameLens,      \* lengths of archived paths, prefixes trimmed
  DataLens,      \* file lengths, as stat reports them
  TgtLens,       \* symlink target lengths
  Leftovers,     \* bytes of an entry that a failed run leaves in the file
  MaxRuns,       \* bound: invocations
  MaxHeaders     \* bound: headers in the output file

ASSUME InputAssumption ==
  /\ InitSizes \subseteq 0..MaxOff /\ DataLens \subseteq Nat
  /\ NameLens \subseteq Nat \ {0} /\ TgtLens \subseteq Nat
  /\ Leftovers \subseteq Nat /\ MaxRuns \in Nat /\ MaxHeaders \in Nat

VARIABLES
  size,          \* length of the output file between runs
  st,            \* no run in progress, a run in progress, or an assertion hit
  whole,         \* history: nothing but finished archives in the file
  runs           \* invocations so far

vars == <<cpioVars, size, st, whole, runs>>

Init ==
  /\ size \in InitSizes /\ whole = (size % 4 = 0)
  /\ file = <<>> /\ st = "idle" /\ runs = 0
  /\ base = 0 /\ align = 0 /\ off = 0 /\ ino = 0

(* main(): open, truncate or seek to the end; archive_loop()'s check.      *)
AlignUnchecked(a, b) == TRUE
AlignOK(a, b) == a > 0 => (b + a) % 4 = 0

Open(trunc, a) ==
  /\ st = "idle" /\ runs < MaxRuns
  /\ runs' = runs + 1
  /\ base' = IF trunc THEN 0 ELSE size
  /\ size' = base'
  /\ file' = IF trunc THEN <<>> ELSE file
  /\ whole' = (trunc \/ whole)
  /\ IF AlignOK(a, base')
     THEN align' = a /\ off' = 0 /\ ino' = 0 /\ st' = "open"
     ELSE UNCHANGED <<align, off, ino, st>>

(* One path of the list on standard input.                                 *)
ArchivePath == st = "open" /\ \E n \in NameLens : archive_path(n)
ArchiveSymlink ==
  st = "open" /\ \E n \in NameLens, t \in TgtLens : archive_symlink(n, t)
ArchiveFileAnyLen ==
  st = "open" /\ \E n \in NameLens, l \in DataLens : archive_file(n, l)
ArchiveFile ==
  /\ st = "open"
  /\ \E n \in NameLens, l \in DataLens : LenFits(l) /\ archive_file(n, l)

(* The assertion in archive_file() fails: header and name have been written.*)
ArchivePanic ==
  /\ st = "open"
  /\ \E n \in NameLens, l \in DataLens :
       /\ LenFits(l) /\ NameFits(n) /\ ~AssertHolds(n, l)
       /\ RoomFor(n, data_align_seek(n, l), l)
  /\ st' = "panicked"
  /\ UNCHANGED <<cpioVars, size, whole, runs>>

(* Any error return: a name or target too long, a file too large for newc  *)
(* or one that changed size while it was copied, a failed stat or write.   *)
Error ==
  /\ st = "open"
  /\ \E n \in Leftovers : size' = base + off + n /\ size' <= MaxOff
  /\ st' = "idle"
  /\ whole' = FALSE
  /\ UNCHANGED <<cpioVars, runs>>

(* End of the list: trailer and block padding.                             *)
FinishUnpadded ==
  /\ st = "open"
  /\ archive_trailer
  /\ size' = base + off' /\ size' <= MaxOff
  /\ st' = "idle"
  /\ UNCHANGED <<whole, runs>>
Finish ==
  /\ st = "open"
  /\ archive_trailer
  /\ size' = base + off' + archive_padlen(off', BLOCKLEN)
  /\ size' <= MaxOff
  /\ st' = "idle"
  /\ UNCHANGED <<whole, runs>>

Entry ==
  /\ Len(file) < MaxHeaders
  /\ ArchivePath \/ ArchiveSymlink \/ ArchiveFile
  /\ UNCHANGED <<size, st, whole, runs>>

Next ==
  \/ \E trunc \in BOOLEAN, a \in Aligns : Open(trunc, a)
  \/ Entry \/ ArchivePanic \/ Error \/ Finish

Spec == Init /\ [][Next]_vars

-----------------------------------------------------------------------------
(* Each variable holds what the code's type for it holds.                  *)
TypeOK ==
  /\ base \in Nat /\ align \in Aligns \union {0} /\ off \in Nat /\ ino \in 0..MaxU32
  /\ file \in Seq(HeaderType) /\ size \in Nat
  /\ st \in {"idle", "open", "panicked"} /\ whole \in BOOLEAN /\ runs \in Nat

(* "must satisfy both data_align and cpio 4-byte padding alignment": a run *)
(* that archive_loop() accepts never reaches the failing assertion in      *)
(* archive_file(), when the file it appends to ends on a 4-byte boundary.  *)
NoPanic == st = "panicked" => base % 4 # 0

(* The walker follows the writer: from any header it seeks exactly to the  *)
(* next one, although the writer pads by file offset and counts alignment  *)
(* zeros as part of the name, and the walker pads by length.               *)
WalkFollows ==
  \A i \in 1..(Len(file) - 1) :
    ~file[i + 1].start => file[i + 1].at = WalkNext(file[i])

(* "multiple archives will be separated by a TRAILER and 512-byte padding",*)
(* and every header lies on the 4-byte boundary the format asks for.       *)
Separated ==
  whole => \A i \in DOMAIN file :
    /\ file[i].at % 4 = 0
    /\ i > 1 => (file[i].start <=> file[i - 1].kind = "trailer")
    /\ file[i].start => (file[i].at - file[1].at) % BLOCKLEN = 0

(* "ensure that it doesn't exceed this size. The linux kernel will ignore  *)
(* files where namesize is larger than PATH_MAX": the zeros injected for   *)
(* data alignment never make a file disappear from the VM.                 *)
NamesizeBounded == \A i \in DOMAIN file : file[i].namesize <= PATH_MAX

(* "align file data segments to this offset": the data of a file longer    *)
(* than data_align starts at a multiple of it in the output file, appended *)
(* archives included, if the name has room for the zeros this takes.       *)
Placed(h) ==
  LET end == h.at + NEWC_HDR_LEN + h.name + 1
      next == ((end + h.align - 1) \div h.align) * h.align
  IN  h.kind = "file" /\ h.align > 0 /\ h.len > h.align
      /\ h.name + 1 + next - end <= NamesizeMax => h.data % h.align = 0
DataAligned == \A i \in DOMAIN file : Placed(file[i])
=============================================================================
