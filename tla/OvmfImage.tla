----------------------------- MODULE OvmfImage -----------------------------
(***************************************************************************)
(* SecMain.c and LzmaDecompress.c as calculate_pcr0 uses them: the volume  *)
(* FVMAIN_COMPACT is cut out of OVMF.fd, its first compressed section is   *)
(* found and decompressed, and the two volumes in it are measured.         *)
(*                                                                         *)
(* The volume is what its headers say: image.files and image.sections give *)
(* the headers by their position in FVMAIN_COMPACT, a position without one *)
(* is erased flash.  Sizes are in bytes.  A read behind a buffer either    *)
(* ends the process or gives any value.                                    *)
(***************************************************************************)
EXTENDS Integers, Sequences, FiniteSets

CONSTANTS OvmfImages,  \* the firmware images, with the faults of their runs
          Scratch,     \* SCRATCH_BUFFER_REQUEST_SIZE
          Max32        \* MAX_UINT32

\* The header of a volume up to FvLength and up to HeaderLength, the header of a
\* file, of a section, of a section defined by a GUID, and LZMA_HEADER_SIZE.
LengthEnd == 40
FvSize == 50
FileSize == 24
CommonSize == 4
GuidSize == 24
LzmaHeader == 13

\* Where the volumes are in the extracted data: PEIFV, and DXEFV behind it.
PeiStart == 128
DxeGap == 144

\* The largest values fields of 16 and of 24 bits hold.
Max16 == 65535
Max24 == 16777215

Erased == [type |-> "pad", size |-> Max24]

File == [type : {"volume", "other", "pad"}, size : 0 .. Max24]

\* lzma: whether the GUID is the one of the LZMA decoder.  offset: DataOffset.
\* decoded: the size in the header of the data.  probs: what LzmaDecode asks the
\* allocator for.  result: what LzmaDecode makes of the data, "early" when an
\* end mark precedes the declared size.
SectionHeader ==
  [type : {"guid", "other", "pad"}, size : 0 .. Max24, lzma : BOOLEAN, offset : 0 .. Max16,
   decoded : Nat, probs : Nat, result : {"ok", "early", "corrupt"}]

\* size: of the file, -1 when it cannot be read.  start: FvLength of the variable
\* store.  length, header, signature: the header of FVMAIN_COMPACT.  pei, dxe:
\* FvLength of the volumes extracted.
ImageHeader ==
  [size : Nat \cup {-1}, start : Nat, length : Nat, header : Nat, signature : BOOLEAN,
   pei : Nat, dxe : Nat, faults : SUBSET {"memory", "dump"}]

ASSUME ScratchAssumption == Scratch \in Nat /\ Max32 \in Nat
ASSUME OvmfImagesAssumption ==
  \A m \in OvmfImages :
    /\ [f \in DOMAIN m \ {"files", "sections"} |-> m[f]] \in ImageHeader
    /\ \A p \in DOMAIN m.files : p \in Nat /\ m.files[p] \in File
    /\ \A p \in DOMAIN m.sections : p \in Nat /\ m.sections[p] \in SectionHeader

VARIABLES
  image,    \* OVMF.fd
  step,     \* the next step
  file,     \* EndOfFile, the end of the last file
  first,    \* the file found: where it starts
  section,  \* EndOfSection, then the position of FoundSection
  data,     \* the extracted volume: its size and how many bytes were decoded
  pei,      \* pei_hdr->FvLength
  hashed,   \* the ranges of the extracted volume that were measured
  status    \* what calculate_pcr0 returns, 1 before

ovmfVars == <<image, step, file, first, section, data, pei, hashed, status>>

OvmfInit ==
  /\ image \in OvmfImages
  /\ step = "read" /\ file = 0 /\ first = 0 /\ section = 0 /\ data = [size |-> 0, decoded |-> 0]
  /\ pei = 0 /\ hashed = <<>> /\ status = 1

GoOn(label) == step' = label /\ UNCHANGED <<image, file, first, section, data, pei, hashed, status>>
Return(r) == step' = "returned" /\ status' = r /\ UNCHANGED <<image, file, first, section, data, pei, hashed>>
Fail == Return(-1)
Abort == GoOn("crashed")

\* What the program meets behind a buffer: it ends, or what it reads is refused
\* (that it is a firmware volume by chance is left out).
Stray == Abort \/ Fail

\* Any allocation may be the one that fails.
MemoryFails == "memory" \in image.faults

-----------------------------------------------------------------------------
(* calculate_pcr0: the volume FVMAIN_COMPACT *)

ReadImage ==
  /\ step = "read"
  /\ IF image.size = -1 THEN Fail ELSE GoOn("cut")

VolumeInside == image.start + image.length <= image.size

\* Both headers are read, and the memory is allocated, in front of the test of
\* the bounds.
HeadersInside == image.start + LengthEnd <= image.size

CutVolume ==
  /\ step = "cut"
  /\ \/ ~HeadersInside /\ Stray
     \/ HeadersInside /\ (~VolumeInside \/ MemoryFails) /\ Fail
     \/ HeadersInside /\ VolumeInside /\ GoOn("volume")

-----------------------------------------------------------------------------
(* FindFfsFileAndSection *)

Volume ==
  /\ step = "volume"
  /\ IF image.length < FvSize THEN Stray
     ELSE IF ~image.signature THEN Fail
     ELSE /\ step' = "files" /\ file' = image.header
          /\ UNCHANGED <<image, first, section, data, pei, hashed, status>>

\* The volume is copied to an address with the alignment of the file system.
AlignedTo(n, p) == ((p + n - 1) \div n) * n

FileAt(p) == IF p \in DOMAIN image.files THEN image.files[p] ELSE Erased

\* [fault] An empty file does not end the search.
NextFileAnySize ==
  /\ step = "files"
  /\ LET at == AlignedTo(8, file)
         f == FileAt(at)
     IN  \/ at + f.size > image.length /\ Fail
         \/ /\ at + f.size <= image.length
            /\ file' = at + f.size
            /\ IF f.type = "volume"
               THEN step' = "sections" /\ first' = at /\ section' = at + FileSize
               ELSE UNCHANGED <<step, first, section>>
            /\ UNCHANGED <<image, data, pei, hashed, status>>

\* A header behind the end of the volume is read, but cannot pass: the file it
\* claims ends beyond the volume.
NextFile ==
  /\ step = "files"
  /\ LET at == AlignedTo(8, file)
         f == FileAt(at)
         ends == at + f.size <= image.length
     IN  \/ (at > image.length \/ f.size < FileSize + CommonSize \/ ~ends) /\ Fail
         \/ at \in image.length - FileSize + 1 .. image.length /\ Abort
         \/ /\ f.size >= FileSize + CommonSize /\ ends
            /\ file' = at + f.size
            /\ IF f.type = "volume"
               THEN step' = "sections" /\ first' = at /\ section' = at + FileSize
               ELSE UNCHANGED <<step, first, section>>
            /\ UNCHANGED <<image, data, pei, hashed, status>>

SectionAt(p) ==
  IF p \in DOMAIN image.sections THEN image.sections[p]
  ELSE [type |-> "pad", size |-> Max24, lzma |-> FALSE, offset |-> 0, decoded |-> 0, probs |-> 0,
        result |-> "corrupt"]

\* [fault] The end of a section is not compared with the end of the file.
SectionBeyond(at) == at < file /\ SectionAt(at).size >= CommonSize

SectionFits(at) ==
  /\ at < file
  /\ SectionAt(at).size >= CommonSize
  /\ at + SectionAt(at).size <= file

\* FindFfsSectionInstance, with the instance 0.  At the end of the file the
\* search goes on with the next file.
NextSection ==
  /\ step = "sections"
  /\ IF section = file THEN GoOn("files")
     ELSE LET at == AlignedTo(4, section)
          IN  IF ~SectionFits(at) THEN Fail
              ELSE /\ IF SectionAt(at).type = "guid"
                      THEN step' = "extract" /\ section' = at
                      ELSE step' = step /\ section' = at + SectionAt(at).size
                   /\ UNCHANGED <<image, file, first, data, pei, hashed, status>>

-----------------------------------------------------------------------------
(* extract_lzma_fvmain_new and the calls of the decoder *)

Found == SectionAt(section)

\* The size of the encoded data is an UINT32: an offset beyond the section wraps
\* around to a size of almost 4 GB, which passes the assertion.
SourceSize == Found.size - Found.offset
Wraps == SourceSize < 0

\* The header of the section may be read behind the volume, and so may data
\* whose offset is behind the section.
GetInfo ==
  /\ step = "extract"
  /\ \/ (section + GuidSize > image.length \/ (Found.lzma /\ Wraps)) /\ Stray
     \/ /\ section + GuidSize <= image.length
        /\ IF ~Found.lzma THEN Fail
           ELSE IF SourceSize \in 0 .. LzmaHeader - 1 THEN Abort
           ELSE IF Found.decoded > Max32 THEN Fail
           ELSE GoOn("decode")
     \/ section + GuidSize <= image.length /\ Found.lzma /\ MemoryFails /\ Abort

\* SzAlloc takes the memory from the scratch buffer and aborts when it does not
\* suffice.
SzAlloc(n) == n <= Scratch

DecodedLengths ==
  IF Found.result = "ok" \/ Found.decoded = 0 THEN {Found.decoded}
  ELSE {0, PeiStart + LengthEnd, Found.decoded - 1} \cap 0 .. Found.decoded - 1

\* The result of LzmaDecode is only printed, and an early end mark is none.
Decompress ==
  /\ step = "decode"
  /\ IF ~SzAlloc(Found.probs) THEN Abort
     ELSE \E n \in DecodedLengths :
            /\ data' = [size |-> Found.decoded, decoded |-> n]
            /\ step' = "pei"
            /\ UNCHANGED <<image, file, first, section, pei, hashed, status>>

-----------------------------------------------------------------------------
(* calculate_pcr0: PEIFV and DXEFV.  The lengths in their headers are used as *)
(* they are.                                                                  *)

\* FvLength of a volume that starts at a position of the extracted data: what is
\* in its header if there is one and it was decoded, else whatever is there.
LengthAt(at) ==
  IF at + LengthEnd <= data.decoded /\ at = PeiStart THEN {image.pei}
  ELSE IF at + LengthEnd <= data.decoded /\ at = DxeGap + image.pei THEN {image.dxe}
  ELSE {0, image.dxe, data.size, Max32}

\* hash_and_dump of a volume, whose dump may be refused.
Hash(at, n, label) ==
  \/ (at + LengthEnd > data.size \/ at + n > data.size) /\ Abort
  \/ /\ "dump" \in image.faults /\ Fail
  \/ /\ "dump" \notin image.faults
     /\ hashed' = Append(hashed, <<at, at + n>>)
     /\ pei' = IF step = "pei" THEN n ELSE pei
     /\ step' = label
     /\ UNCHANGED <<image, file, first, section, data, status>>

MeasurePei == step = "pei" /\ \E n \in LengthAt(PeiStart) : Hash(PeiStart, n, "dxe")

\* [fault] DXEFV is looked for right behind PEIFV.
MeasureDxeAdjacent ==
  /\ step = "dxe"
  /\ \E n \in LengthAt(PeiStart + pei) : Hash(PeiStart + pei, n, "separator")

MeasureDxe == step = "dxe" /\ \E n \in LengthAt(DxeGap + pei) : Hash(DxeGap + pei, n, "separator")

MeasureSeparator ==
  /\ step = "separator"
  /\ \/ Return(0)
     \/ MemoryFails /\ Fail

-----------------------------------------------------------------------------

FindSection == Volume \/ NextFile \/ NextSection
Extract == GetInfo \/ Decompress
Program == ReadImage \/ CutVolume \/ FindSection \/ Extract \/ MeasurePei \/ MeasureDxe \/ MeasureSeparator

OvmfEnded == step \in {"returned", "crashed"} /\ UNCHANGED ovmfVars

OvmfNext == Program \/ OvmfEnded

OvmfSpec == OvmfInit /\ [][OvmfNext]_ovmfVars

\* The program is sequential and does not wait for anything.
OvmfFairSpec == OvmfSpec /\ WF_ovmfVars(Program)
=============================================================================
