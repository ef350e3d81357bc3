------------------------------ MODULE KernelImage ------------------------------
(***************************************************************************)
(* The measurement of a kernel, as calculate_pcr4 and calculate_rtmr1 make *)
(* it: the image is loaded, its setup header is configured, the result is  *)
(* measured.  The fields are written at fixed places of the file, whatever *)
(* the PE/COFF headers have there.                                         *)
(***************************************************************************)
EXTENDS PeReference, KernelConfig

CONSTANT Kernels  \* the images with their configuration files

ASSUME KernelsAssumption == Kernels \subseteq [image : Image, file : Seq(Line) \cup {None, Absent}]

\* A UINT32 has four bytes.
ASSUME WidthAssumption == Max32 = Values[4] - 1

allVars == <<vars, kvars>>

\* The buffer that is configured is the image that was loaded.
KernelInit ==
  /\ \E k \in Kernels : image = k.image /\ file = k.file /\ size = k.image.size
  /\ Start /\ ConfigStart

-----------------------------------------------------------------------------
(* The headers the fields are written over *)

Touched(first, end) == (first .. end - 1) \cap Written # {}

\* The byte j, from the lowest, of a number n at a place, and the number of two
\* and of four such bytes.
NewByte(bytes, n, at, j) == IF at + j \in Written THEN bytes[at + j] ELSE (n \div Values[j]) % Byte
NewHalf(bytes, n, at, j) == NewByte(bytes, n, at, j) + Byte * NewByte(bytes, n, at, j + 1)
NewWord(bytes, n, at) ==
  IF Touched(at, at + 4) THEN NewHalf(bytes, n, at, 0) + Values[2] * NewHalf(bytes, n, at, 2) ELSE n

NewDirectory(bytes, d, at) == [va |-> NewWord(bytes, d.va, at), size |-> NewWord(bytes, d.size, at + 4)]

NewSection(bytes, s, at) ==
  [vsize |-> NewWord(bytes, s.vsize, at + 8), va |-> NewWord(bytes, s.va, at + 12),
   raw |-> NewWord(bytes, s.raw, at + 16), ptr |-> NewWord(bytes, s.ptr, at + 20)]

NewTable(bytes, t, at) == [k \in DOMAIN t |-> NewSection(bytes, t[k], at + (k - 1) * SectionSize)]

\* The section headers, at their place and at what a UINT32 leaves of it, and
\* the fields of the optional header that are looked at.
WithTables(bytes) ==
  [image EXCEPT !.sections = NewTable(bytes, @, TableAt), !.low = NewTable(bytes, @, SectionTable)]

OptionalAt == image.pe + FileHeaderEnd
DirectoryAt(n) == OptionalAt + WithoutDirectories + n * DirectorySize

Overwritten(bytes) ==
  IF IsTe THEN WithTables(bytes)
  ELSE [WithTables(bytes) EXCEPT
          !.imageSize = NewWord(bytes, @, OptionalAt + 56),
          !.headers = NewWord(bytes, @, OptionalAt + 60),
          !.dirs = NewWord(bytes, @, OptionalAt + WithoutDirectories - 4),
          !.security = NewDirectory(bytes, @, DirectoryAt(Security)),
          !.debug = NewDirectory(bytes, @, DirectoryAt(Debug))]

\* What tells what the other headers are and where: the signature, the file
\* header and the magic number, or the header of a TE image.
Identity == IF IsTe THEN image.pe + TeSize ELSE image.pe + FileHeaderEnd + 2

\* The images the written one may be: where its identity is written over, any
\* of the same file.
Rewritten(bytes) ==
  IF Touched(image.pe, Identity)
  THEN {m \in Images : /\ m.size = image.size /\ m.pe = image.pe
                       /\ m.load = image.load /\ m.faults = image.faults}
  ELSE {Overwritten(bytes)}

-----------------------------------------------------------------------------

Configuring == pc = "headers" /\ step \notin {"measure", "failed", "crashed"}

\* MeasurePeImage is called when the fields are written.
Measuring == pc \notin {"load", "returned", "crashed"} /\ step = "measure"

Configure == Configuring /\ (NoFile \/ ConfigLoad \/ ConfigFails) /\ UNCHANGED vars

PrepareImage ==
  /\ Configuring /\ Prepare
  /\ image' \in Rewritten(Patch)
  /\ UNCHANGED <<pc, i, found, table, hashed, sum, digest, status>>

\* The callers return, or the process has ended in free.
ConfigureFails ==
  /\ pc = "headers" /\ step \in {"failed", "crashed"}
  /\ pc' = "returned"
  /\ UNCHANGED <<image, i, found, table, hashed, sum, digest, status, kvars>>

MeasureKernel == Measuring /\ (GetImageInfo \/ HashImage) /\ UNCHANGED kvars

KernelProgram ==
  \/ LoadPeImage /\ UNCHANGED kvars
  \/ Configure \/ PrepareImage \/ ConfigureFails \/ MeasureKernel

KernelNext == KernelProgram \/ (Terminated /\ UNCHANGED kvars)

KernelSpec == KernelInit /\ [][KernelNext]_allVars

-----------------------------------------------------------------------------

\* The value the file gives a field: that of the last line naming it, cut to
\* its width, and 0 without one.
Named(f) == {k \in DOMAIN file : file[k].var = f}
Configured(f) ==
  IF Named(f) = {} THEN 0
  ELSE Strtol(file[CHOOSE k \in Named(f) : \A l \in Named(f) : l <= k].val) % Values[Width[f]]

\* The number the bytes of the field make.
InImage(f) ==
  FoldLeft(LAMBDA n, k : n * Byte + patch[At[f] + Width[f] - k], 0,
           [k \in 1 .. Width[f] |-> k])

\* What the digest covers, and what it leaves out: the checksum, the entry of
\* the certificate table and the table at the end.
HashedAt(p) == \E k \in DOMAIN hashed : hashed[k][1] <= p /\ p < hashed[k][2]
ExcludedAt(p) == \/ p \in CheckSum .. CheckSum + 3
                 \/ HasSecurity /\ p \in SecurityEntry .. SecurityEntry + DirectorySize - 1
                 \/ p >= image.size - CertSize

\* A configured kernel is measured with the fields of its file: a digest covers
\* every field, also one that has become a part of the headers, and the image
\* holds the last value the file names for it, also behind numbers that do not
\* fit (kernel_config.c:50-79, 131, 155-168, pcrs.c:382-400).
MeasuredAsConfigured ==
  status = "success" /\ digest /\ file # None =>
    /\ DOMAIN patch = Written
    /\ \A f \in Field : InImage(f) = Configured(f)
    /\ Tidy /\ "digest" \notin image.faults =>
         \A p \in Written : HashedAt(p) \/ ExcludedAt(p)

\* Nothing is written outside the image (kernel_config.c:149).
PatchInside == DOMAIN patch \subseteq 0 .. image.size - 1

\* A digest is returned only for a file all of whose lines were understood, and
\* a run ends without one only for a reason in the file or in the image's size
\* (kernel_config.c:109-133, 149-152).
Misread == file = Absent \/ (file # None /\ \E k \in DOMAIN file : file[k].var = "unknown" \/ file[k].lead)

ConfigRefusedForReason ==
  /\ step \in {"failed", "crashed"} => Misread \/ image.size < HeaderSize
  /\ digest => ~Misread

\* A kernel whose headers are as a linker makes them, also behind the fields
\* that were written over them, with a configuration that can be read, is
\* measured, and the program keeps to its state on the way
\* (MeasureBootPeCoff.c:138-598, kernel_config.c:109-168).
KernelRefusedForReason == TypeOK /\ RefusedForReason /\ ConfigRefusedForReason
=============================================================================
