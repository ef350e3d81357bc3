--------------------------- MODULE OvmfReference ---------------------------
(***************************************************************************)
(* What of a firmware image is measured, for an image as the build of OVMF *)
(* makes it and for any other.                                             *)
(***************************************************************************)
EXTENDS OvmfImage, FiniteSetsExt

\* The state.  What is found, extracted and measured exists only from the step
\* on that makes it.
OvmfTypeOK ==
  /\ file \in Nat /\ first \in Nat /\ section \in 0 .. image.length /\ pei \in Nat
  /\ data \in [size : Nat, decoded : Nat] /\ data.decoded <= data.size /\ data.size <= Max32
  /\ hashed \in Seq(Nat \X Nat) /\ Len(hashed) <= 2
  /\ status \in {-1, 0, 1}
  /\ step \in {"read", "cut", "volume", "files", "sections", "extract", "decode", "pei", "dxe",
             "separator", "returned", "crashed"}

-----------------------------------------------------------------------------

FilePositions == DOMAIN image.files
FileEnd(p) == p + image.files[p].size

SectionsOf(p) == {q \in DOMAIN image.sections : q >= p + FileSize /\ q < FileEnd(p)}
SectionEnd(q) == q + image.sections[q].size

\* Every file starts where the one in front of it ends, and so do its sections,
\* the last of which ends the file.
Tidy ==
  /\ image.signature
  /\ \A p \in FilePositions :
       /\ p = AlignedTo(8, image.header) \/ \E q \in FilePositions : p = AlignedTo(8, FileEnd(q))
       /\ image.files[p].size >= FileSize + CommonSize /\ FileEnd(p) <= image.length
       /\ image.files[p].type = "volume" =>
            /\ \A q \in SectionsOf(p) :
                 /\ q = p + FileSize \/ \E s \in SectionsOf(p) : q = AlignedTo(4, SectionEnd(s))
                 /\ image.sections[q].size >= CommonSize /\ SectionEnd(q) <= FileEnd(p)
            /\ \E s \in SectionsOf(p) : SectionEnd(s) = FileEnd(p)

Compressed(p) == {q \in SectionsOf(p) : image.sections[q].type = "guid"}
Candidates == {p \in FilePositions : image.files[p].type = "volume" /\ Compressed(p) # {}}

\* An image as the build of OVMF makes it: the first compressed section is the
\* one of the two volumes, and they fill what it is decompressed to.
AsBuilt ==
  /\ image.size >= image.start + image.length /\ image.length >= FvSize
  /\ Tidy /\ Candidates # {}
  /\ LET q == Min(Compressed(Min(Candidates)))
         s == image.sections[q]
     IN  /\ s.lzma /\ s.offset + LzmaHeader <= s.size /\ s.offset >= GuidSize
         /\ s.result = "ok" /\ s.probs <= Scratch /\ s.decoded <= Max32
         /\ image.pei >= LengthEnd /\ image.dxe >= LengthEnd
         /\ s.decoded = DxeGap + image.pei + image.dxe

\* The section taken is the first compressed one of the first file that has one
\* (SecMain.c:226-266, 143-176), whatever files and sections precede it.
FoundIsFirst ==
  step = "extract" /\ Tidy => /\ Candidates # {} /\ first = Min(Candidates)
                            /\ section = Min(Compressed(first))

\* It lies in its file, and the file in the volume, in front of which the header
\* is, for sizes of any sort (SecMain.c:150-167, 228-246).
FoundInside ==
  step \in {"extract", "decode", "pei", "dxe", "separator"} =>
    /\ image.header <= first /\ first + FileSize <= section
    /\ section + Found.size <= file /\ file <= image.length
    /\ image.start + image.length <= image.size

\* A PCR 0 is computed of the two volumes of the image and of nothing else, if
\* the image is as built; the code itself trusts both lengths and ignores a
\* failed decompression (pcrs.c:119-144, SecMain.c:321-327).
MeasuredIsFirmware ==
  status = 0 /\ AsBuilt =>
    hashed = <<<<PeiStart, PeiStart + image.pei>>,
               <<data.size - image.dxe, data.size>>>>

\* Such an image is measured (SecMain.c:199-336, LzmaDecompress.c:40-230).
RefusedForReason == step = "crashed" \/ status = -1 => ~AsBuilt \/ image.faults # {}

\* A firmware as its build makes it gets the PCR 0 of its first compressed
\* section, and is not refused (SecMain.c:143-336, pcrs.c:119-144).
FirmwareMeasured == OvmfTypeOK /\ FoundIsFirst /\ MeasuredIsFirmware /\ RefusedForReason

\* The two searches end for sizes of any sort, also when they run to the end of
\* the volume (SecMain.c:143-176, 226-264).
SearchesEnd == <>(step \in {"returned", "crashed"})
=============================================================================
