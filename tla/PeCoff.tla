------------------------------- MODULE PeCoff -------------------------------
(***************************************************************************)
(* MeasureBootPeCoff.c: a PE/COFF image is loaded, validated and hashed as *)
(* its Authenticode digest demands: everything but the checksum, the entry *)
(* of the certificate table and that table itself.                         *)
(*                                                                         *)
(* An image is what its headers say, and may be larger than a UINT32 can   *)
(* tell.  Positions and sizes are those of the code; UINT32 values wrap    *)
(* around behind Max32.  The hash is the sequence of the ranges given to   *)
(* it.                                                                     *)
(***************************************************************************)
EXTENDS Integers, Sequences, FiniteSets

CONSTANTS Images,  \* the images, with the faults of their runs
          Max32    \* the largest UINT32

UInt32 == 0 .. Max32
Wrap(n) == n % (Max32 + 1)

\* The sizes of the headers: DOS header, signature and file header, the union of
\* all headers, an entry of the section table, of a data directory and of the
\* debug directory, the TE header.
DosSize == 64
FileHeaderEnd == 24
UnionSize == 264
SectionSize == 40
DirectorySize == 8
DebugSize == 28
TeSize == 40

\* EFI_IMAGE_NUMBER_OF_DIRECTORY_ENTRIES, _DIRECTORY_ENTRY_SECURITY and _DEBUG.
MaxDirectories == 16
Security == 4
Debug == 6

Section == [va : UInt32, vsize : UInt32, ptr : UInt32, raw : UInt32]
Directory == [va : UInt32, size : UInt32]

\* load: what LoadPeImage meets.  pe: e_lfanew, or 0 without a DOS header.
\* sections: the section headers in their place, read from memory behind the
\* end of the file if they lie there.  low: what is in the place that is left
\* of theirs in a UINT32, where the two differ.  stripped, base: StrippedSize
\* and BaseOfCode of a TE image, whose directories are relocation and debug.
Image ==
  {m \in
     [load : {"good", "missing", "short"}, size : Nat, pe : UInt32,
      format : {"PE32", "PE32+", "TE", "other"}, machine : BOOLEAN,
      dirs : UInt32, optSize : UInt32, imageSize : UInt32, headers : UInt32,
      security : Directory, debug : Directory, reloc : Directory,
      sections : Seq(Section), low : Seq(Section), stripped : UInt32, base : UInt32,
      faults : SUBSET {"memory", "digest"}] :
   Len(m.low) = Len(m.sections)}

ASSUME Max32Assumption == Max32 \in Nat /\ Max32 > 2 * UnionSize
ASSUME ImagesAssumption == Images \subseteq Image

VARIABLES
  image,   \* the file
  pc,      \* the next step
  i,       \* Index
  found,   \* DebugDirectoryEntryFileOffset
  table,   \* SectionHeader, the table of sections by their place in the file
  hashed,  \* the ranges given to EVP_DigestUpdate, as <<first, behind last>>
  sum,     \* SumOfBytesHashed
  digest,  \* whether the digest was written to hash
  status   \* what the caller gets, "" before

vars == <<image, pc, i, found, table, hashed, sum, digest, status>>

Start ==
  /\ pc = "load" /\ i = 1 /\ found = 0 /\ table = <<>> /\ hashed = <<>> /\ sum = 0
  /\ digest = FALSE /\ status = ""

Init == image \in Images /\ Start

Goto(label) == pc' = label /\ i' = 1 /\ UNCHANGED <<image, found, table, hashed, sum, digest, status>>

Return(s) ==
  /\ pc' = "returned" /\ status' = s
  /\ UNCHANGED <<image, i, found, table, hashed, sum, digest>>

\* Finish, in front of the initialisation of ctx: what is freed is whatever the
\* variable holds.
Crash == pc' = "crashed" /\ UNCHANGED <<image, i, found, table, hashed, sum, digest, status>>
Refuse == Return("unsupported") \/ Crash

\* Tcg2DxeImageRead gives all n bytes.  A position below 0 is one of 2^64 - 1.
Reads(at, n) == at >= 0 /\ at + n <= image.size

N == Len(image.sections)
IsTe == image.format = "TE"
WithoutDirectories == IF image.format = "PE32" THEN 96 ELSE 112

\* The place of the section table, by SizeOfOptionalHeader, and that place in
\* the UINT32 of PeCoffLoaderGetPeHeader.
TableAt == IF IsTe THEN TeSize ELSE image.pe + FileHeaderEnd + image.optSize
SectionTable == Wrap(TableAt)

\* The SizeOfHeaders of the context.
Headers == IF IsTe THEN TeSize + image.base - image.stripped ELSE image.headers

-----------------------------------------------------------------------------
(* LoadPeImage *)

LoadFails ==
  pc = "load" /\ (image.load # "good" \/ "memory" \in image.faults) /\ Return("not loaded")

Load == pc = "load" /\ image.load = "good" /\ Goto("headers")

-----------------------------------------------------------------------------
(* PeCoffLoaderGetPeHeader *)

\* Data of a directory ends in the file.
SecurityInside ==
  Security < image.dirs /\ image.security.size # 0 =>
    /\ Max32 - image.security.va >= image.security.size
    /\ Reads(image.security.va + image.security.size - 1, 1)

DirectoriesValid ==
  /\ image.dirs <= MaxDirectories
  /\ Wrap(image.optSize - WithoutDirectories) = image.dirs * DirectorySize

TableValid ==
  /\ image.imageSize > SectionTable
  /\ (image.imageSize - SectionTable) \div SectionSize > N

\* [fault] The headers may not end where the file ends.
HeaderSizeStrict ==
  /\ image.headers > SectionTable /\ image.headers < image.imageSize
  /\ (image.headers - SectionTable) \div SectionSize >= N
  /\ Reads(image.headers, 1)

HeaderSizeValid ==
  /\ image.headers > SectionTable /\ image.headers < image.imageSize
  /\ (image.headers - SectionTable) \div SectionSize >= N
  /\ Reads(image.headers - 1, 1)

\* The same for PE32 and PE32+.
OptionalHeaderValid == DirectoriesValid /\ TableValid /\ HeaderSizeValid /\ SecurityInside

TeHeaderValid ==
  /\ TeSize < image.stripped /\ image.base > image.stripped
  /\ Reads(Headers - 1, 1)
  /\ \A d \in {image.reloc, image.debug} : d.size # 0 => d.va # 0

HeadersValid ==
  /\ Reads(0, DosSize) /\ Reads(image.pe, UnionSize)
  /\ \/ IsTe /\ TeHeaderValid
     \/ image.format \in {"PE32", "PE32+"} /\ OptionalHeaderValid
  /\ image.machine

GetPeHeader ==
  /\ pc = "headers"
  /\ \/ HeadersValid /\ Goto("sections")
     \/ ~HeadersValid /\ Refuse

\* A section as the TE header shifts it.
TeShift == Wrap(image.stripped - TeSize)
Adjusted(s) == IF IsTe THEN [s EXCEPT !.va = Wrap(s.va - TeShift), !.ptr = Wrap(s.ptr - TeShift)] ELSE s

\* The k-th section header that is checked.
Checked(k) == IF TableAt > Max32 THEN image.low[k] ELSE image.sections[k]
CheckedReads(k) == Reads(SectionTable + (k - 1) * SectionSize, SectionSize)

\* [fault] The end of the section is not looked at.
SectionInsideStart(s) == s.raw > 0 => s.va >= Headers /\ s.ptr >= Headers /\ Reads(s.ptr, 1)

SectionInside(s) ==
  s.raw > 0 => /\ s.va >= Headers /\ s.ptr >= Headers
               /\ Max32 - s.ptr >= s.raw /\ Reads(s.ptr + s.raw - 1, 1)

CheckSection ==
  /\ pc = "sections" /\ i <= N
  /\ LET valid == CheckedReads(i) /\ SectionInside(Adjusted(Checked(i)))
     IN  \/ valid /\ i' = i + 1 /\ UNCHANGED <<image, pc, found, table, hashed, sum, digest, status>>
         \/ ~valid /\ Refuse

SectionsChecked ==
  /\ pc = "sections" /\ i > N
  /\ Goto(IF IsTe \/ image.dirs > Debug THEN "search" ELSE "measure")

-----------------------------------------------------------------------------
(* PeCoffLoaderGetImageInfo: the debug directory.  Nothing it finds is used, *)
(* but an image is refused when it cannot be read.                           *)

Covers(s) == image.debug.va >= s.va /\ image.debug.va < Wrap(s.va + s.vsize)

\* From here on the section headers are read in their place.
SectionHeaderReads(k) == Reads(TableAt + (k - 1) * SectionSize, SectionSize)

\* A TE image goes on with its last section.
SearchDebug ==
  /\ pc = "search" /\ i <= N /\ SectionHeaderReads(i)
  /\ LET s == image.sections[i]
     IN  \/ /\ Covers(s)
            /\ found' = image.debug.va - s.va + s.ptr - (IF IsTe THEN TeShift ELSE 0)
            /\ i' = IF IsTe /\ i < N THEN N ELSE N + 1
         \/ ~Covers(s) /\ i' = i + 1 /\ found' = found
  /\ UNCHANGED <<image, pc, table, hashed, sum, digest, status>>

SearchFails == pc = "search" /\ i <= N /\ ~SectionHeaderReads(i) /\ Refuse

Searched == pc = "search" /\ i > N /\ Goto(IF found = 0 THEN "measure" ELSE "debug")

\* An entry of the directory; i is its position, from 1.  The search ends with
\* the first CodeView entry, which any of them may be.
ReadDebugEntry ==
  /\ pc = "debug"
  /\ LET more == i <= image.debug.size
         read == Reads(found + i - 1, DebugSize)
     IN  \/ ~more /\ Goto("measure")
         \/ more /\ ~read /\ Refuse
         \/ more /\ read /\ Goto("measure")
         \/ /\ more /\ read
            /\ i' = i + DebugSize
            /\ UNCHANGED <<image, pc, found, table, hashed, sum, digest, status>>

-----------------------------------------------------------------------------
(* MeasurePeImage *)

Measure ==
  /\ pc = "measure"
  /\ IF IsTe THEN Refuse ELSE Goto("context")

\* A context that cannot be made is no error: status is the one of
\* PeCoffLoaderGetImageInfo.
NoContext == pc = "context" /\ "digest" \in image.faults /\ Return("success")

\* EVP_DigestUpdate returns 0 when it fails, which is EFI_SUCCESS: the range is
\* lost.  An empty range adds nothing to the hash.
Nothing == <<0, 0>>

Hash(ranges) ==
  \E lost \in IF "digest" \in image.faults THEN SUBSET DOMAIN ranges ELSE {{}} :
    /\ \A k \in DOMAIN ranges \ lost : ranges[k][1] <= ranges[k][2]
    /\ hashed' = hashed \o [k \in DOMAIN ranges |-> IF k \in lost THEN Nothing ELSE ranges[k]]

\* Reading beyond the file may end the process, and that of a range whose length
\* wraps around does.
Beyond(r) == r[2] < r[1] \/ r[2] > image.size
Overruns(ranges) == (\E k \in DOMAIN ranges : Beyond(ranges[k])) /\ Crash

CheckSum == image.pe + FileHeaderEnd + 64
SecurityEntry == image.pe + FileHeaderEnd + WithoutDirectories + Security * DirectorySize
HasSecurity == image.dirs > Security

HeaderRanges ==
  IF HasSecurity
  THEN <<<<0, CheckSum>>, <<CheckSum + 4, SecurityEntry>>, <<SecurityEntry + DirectorySize, image.headers>>>>
  ELSE <<<<0, CheckSum>>, <<CheckSum + 4, image.headers>>>>

\* Steps 3 to 10.
HashHeaders ==
  /\ pc = "context"
  /\ Hash(HeaderRanges)
  /\ sum' = image.headers /\ pc' = "sort" /\ i' = 1
  /\ UNCHANGED <<image, found, table, digest, status>>

HeadersOverrun == pc = "context" /\ Overruns(HeaderRanges)

NoTable == pc = "sort" /\ i = 1 /\ "memory" \in image.faults /\ Return("out of resources")

\* [fault] The table is sorted downwards.
InsertedDownwards(t, s) ==
  LET k == Cardinality({j \in DOMAIN t : t[j].ptr > s.ptr})
  IN  SubSeq(t, 1, k) \o <<s>> \o SubSeq(t, k + 1, Len(t))

\* Step 12: the section goes behind those that are not beyond it.
Inserted(t, s) ==
  LET k == Cardinality({j \in DOMAIN t : t[j].ptr <= s.ptr})
  IN  SubSeq(t, 1, k) \o <<s>> \o SubSeq(t, k + 1, Len(t))

\* Nothing keeps the table that is copied inside the file.
TableOverruns == pc = "sort" /\ i <= N /\ ~SectionHeaderReads(i) /\ Crash

SortSection ==
  /\ pc = "sort" /\ i <= N
  /\ table' = Inserted(table, image.sections[i]) /\ i' = i + 1
  /\ UNCHANGED <<image, pc, found, hashed, sum, digest, status>>

Sorted == pc = "sort" /\ i > N /\ Goto("hash")

DataOf(s) == <<<<s.ptr, s.ptr + s.raw>>>>

\* Steps 13 to 15.  A section without data is skipped.
SectionOverruns == pc = "hash" /\ i <= N /\ table[i].raw # 0 /\ Overruns(DataOf(table[i]))

HashSection ==
  /\ pc = "hash" /\ i <= N
  /\ LET s == table[i]
     IN  /\ IF s.raw = 0 THEN UNCHANGED hashed ELSE Hash(DataOf(s))
         /\ sum' = sum + s.raw
  /\ i' = i + 1
  /\ UNCHANGED <<image, pc, found, table, digest, status>>

CertSize == IF HasSecurity THEN image.security.size ELSE 0

Rest == image.size - CertSize - sum

\* Step 16.
HashTail ==
  /\ pc = "hash" /\ i > N
  /\ \/ image.size > sum /\ Rest < 0 /\ Return("unsupported")
     \/ /\ image.size <= sum \/ Rest >= 0
        /\ IF image.size > sum THEN Hash(<<<<sum, sum + Rest>>>>) ELSE UNCHANGED hashed
        /\ pc' = "final"
        /\ UNCHANGED <<image, i, found, table, sum, digest, status>>

\* Step 17.
Finalize ==
  /\ pc = "final"
  /\ \/ digest' = TRUE
     \/ "digest" \in image.faults /\ digest' = FALSE
  /\ pc' = "returned" /\ status' = "success"
  /\ UNCHANGED <<image, i, found, table, hashed, sum>>

-----------------------------------------------------------------------------

LoadPeImage == LoadFails \/ Load
GetImageInfo ==
  \/ GetPeHeader \/ CheckSection \/ SectionsChecked \/ SearchDebug \/ SearchFails \/ Searched
  \/ ReadDebugEntry
HashImage ==
  \/ Measure \/ NoContext \/ HashHeaders \/ NoTable \/ SortSection \/ Sorted
  \/ HashSection \/ HashTail \/ Finalize
  \/ HeadersOverrun \/ TableOverruns \/ SectionOverruns

Program == LoadPeImage \/ GetImageInfo \/ HashImage

Terminated == pc \in {"returned", "crashed"} /\ UNCHANGED vars

Next == Program \/ Terminated

Spec == Init /\ [][Next]_vars
=============================================================================
