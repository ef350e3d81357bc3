---------------------------- MODULE MrtdReference ----------------------------
(***************************************************************************)
(* What measure_ovmf and measure_cfv are for: the digest is that of the    *)
(* calls QEMU makes to the TDX module for the image, or of the             *)
(* configuration volume, and an image that cannot be built has none.       *)
(***************************************************************************)
EXTENDS Mrtd, SequencesExt

Range1(m) == 0 .. m - 1

\* The chunks of memory of a section.
Memory(sec) == {sec.addr + c : c \in Range1(sec.mem)}

\* An image the TDX module lets QEMU build: its sections are sane, lie in
\* different pages, and only what was added is extended, with data of the
\* image.
Buildable(m) ==
  LET secs == m.sections
  IN  /\ m.footer \in {"table", "plain"} /\ m.descriptor = "valid"
      /\ m.held >= Len(secs)
      /\ m.footer = "table" => \E e \in DOMAIN m.table :
           /\ m.table[e] = "metadata"
           /\ \A f \in 1 .. e - 1 : m.table[f] # "zero"
      /\ \A t \in DOMAIN secs :
           /\ Sane(secs[t])
           /\ secs[t].extend => ~secs[t].aug /\ secs[t].off + secs[t].mem <= m.size
           /\ \A u \in DOMAIN secs : u # t => Memory(secs[t]) \cap Memory(secs[u]) = {}

-----------------------------------------------------------------------------
(* The order of the calls, for each version of QEMU *)

PagesOf(sec) == [p \in 1 .. sec.mem \div ChunksPerPage |-> (p - 1) * ChunksPerPage]

Add(sec, p) == IF sec.aug THEN <<>> ELSE <<[call |-> "add", at |-> sec.addr + p]>>

Extend(sec, p) ==
  IF sec.extend
  THEN [c \in 1 .. ChunksPerPage |->
          [call |-> "extend", at |-> sec.addr + p + c - 1, data |-> sec.off + p + c - 1]]
  ELSE <<>>

ForEach(seq, Op(_)) == FlattenSeq([e \in DOMAIN seq |-> Op(seq[e])])

\* Page by page.
Interleaved(sec) == ForEach(PagesOf(sec), LAMBDA p : Add(sec, p) \o Extend(sec, p))

\* All pages of the section, then the contents.
Separate(sec) ==
  ForEach(PagesOf(sec), LAMBDA p : Add(sec, p)) \o ForEach(PagesOf(sec), LAMBDA p : Extend(sec, p))

ReferenceCalls(m, v) ==
  IF v = "9.2.0" THEN ForEach(m.sections, Interleaved) ELSE ForEach(m.sections, Separate)

-----------------------------------------------------------------------------
(* The TDX module *)

PageAt(c) == c - (c % ChunksPerPage)

MeasuresTd == job = "measure_ovmf" /\ Buildable(img)

\* For an image that QEMU can build the digest context is the measurement of
\* the TDX module, for any other it is that of a domain nobody has built.
Td == INSTANCE TdxModule WITH
  Chunk <- UNION {UNION {Memory(m.sections[t]) : t \in DOMAIN m.sections} : m \in Images},
  PageOf <- PageAt,
  Data <- UNION {Range1(m.size) : m \in Images},
  transcript <- IF MeasuresTd THEN ctx ELSE <<>>,
  final <- MeasuresTd /\ digest # Garbage

\* measure_ovmf implements the calls of the TDX module: a page is added once,
\* a chunk is extended once and not before its page, for both versions.
ImplementsTdxModule == Td!TdSpec

-----------------------------------------------------------------------------

\* Every variable keeps its range; loop variables stay inside the image's
\* table, sections and pages (mrtd.c:162, 243, 285, 296).
TypeOK ==
  /\ img \in Images /\ job \in Job /\ version \in Version
  /\ short \in BOOLEAN /\ pc \in Label /\ found \in BOOLEAN
  /\ entry \in 1 .. Len(img.table) + 1
  /\ s \in 1 .. Len(img.sections) + 1
  /\ pc \in {"add", "page", "chunk"} => page \in 0 .. Pages
  /\ chunk \in Range1(ChunksPerPage)
  /\ ctx \in Seq(Call) /\ digest \in Seq(Call) \cup {Garbage}
  /\ ret \in {-1, 0, 1}

\* The digest of an image that QEMU can build is that of all calls in the
\* order of the QEMU version, and the program arrives at it (mrtd.c:243-344).
MrtdIsReference ==
  MeasuresTd /\ ~short /\ version # "other" /\ pc \in {"done", "crashed"} =>
    ret = 0 /\ digest = ReferenceCalls(img, version)

\* The configuration volume is the first one of the sections the header counts,
\* with its size in the file, however many stand before it (mrtd.c:389-413).
\* Where the header counts more than the metadata holds it may be none of the
\* image's.
VolumeIsFirst ==
  job = "measure_cfv" /\ digest # Garbage =>
    \E t \in DOMAIN img.sections :
      /\ img.sections[t].type = Tdvf
      /\ \A u \in 1 .. t - 1 : img.sections[u].type # Tdvf
      /\ digest = <<VolumeCall(img.sections[t])>>

\* Both functions compute what they are for: the digest of the domain, and that
\* of its configuration volume (mrtd.c:222-430).
DigestIsReference == MrtdIsReference /\ VolumeIsFirst

\* Every chunk that is extended is one of the image, also for sections whose
\* sizes and offsets do not fit it, and sections that are none of the image's.
\* Of a volume that is hashed beyond the image the end does not fit 32 bits:
\* that is the one hole in the checks (mrtd.c:106, 402).
HashesInsideImage ==
  /\ \A j \in DOMAIN ctx : ctx[j].call = "extend" => ctx[j].data < img.size
  /\ digest # Garbage =>
       \A j \in DOMAIN digest :
         /\ digest[j].call = "volume"
         /\ digest[j].at + digest[j].data > img.size
         => digest[j].at + digest[j].data >= Wrap

\* Positions stay in what they are positions of: the loop variables in the
\* metadata, what is hashed in the image (mrtd.c:106, 243-311, 402).
PositionsInside == TypeOK /\ HashesInsideImage

\* A loop of length zero in the OVMF table is the only reason not to end.
LoopFree == \A e \in DOMAIN img.table : img.table[e] # "zero"

\* The search, the sections, the pages and the chunks come to an end
\* (mrtd.c:162-177).
Terminates == LoopFree => <>(pc \in {"done", "crashed"})

-----------------------------------------------------------------------------

\* mrs.c:75, "The MRTD contains the digest of the OVMF": a measure_ovmf that
\* returns success has written the digest, if memory suffices.  Images and versions that are refused
\* behind the descriptor return the 0 of get_ovmf_metadata_offset.
SuccessHasDigest == job = "measure_ovmf" /\ ~short /\ ret = 0 => digest # Garbage
=============================================================================
