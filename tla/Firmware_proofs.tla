--------------------------- MODULE Firmware_proofs ---------------------------
(***************************************************************************)
(* Proofs about the measurement of a firmware image, by both calculators   *)
(* that take one.                                                          *)
(*                                                                         *)
(* calculate-tdx-mrs, for all images, both versions of QEMU and every size *)
(* of a page: its positions stay inside what they are positions of, it     *)
(* makes the calls of the TDX module in an order that the module allows,   *)
(* and its digest is the reference.                                        *)
(*                                                                         *)
(* calculate-srtm-pcrs, the search of SecMain.c and what is measured       *)
(* behind it, for every set of images: with headers of any sort what is    *)
(* found lies in the volume, and of an image as built the firmware is      *)
(* measured.                                                               *)
(***************************************************************************)
EXTENDS FirmwareMrs, OvmfReference, SequenceLemmas, TLAPS

-----------------------------------------------------------------------------
(* The inductive invariant *)

InSection == {"add", "page", "chunk"}

\* Within a section the loops have passed its checks.
SectionInv ==
  /\ pc \in InSection => s <= Len(img.sections) /\ Sane(Current) /\ version # "other"
  /\ pc = "add" => version = "8.2.2"
  /\ pc = "chunk" => page < Pages /\ Current.extend

\* There is a digest only at the end, and no volume is hashed by measure_ovmf.
DigestInv ==
  /\ pc # "done" => digest = Garbage
  /\ \A j \in DOMAIN ctx : ctx[j].call # "volume"

PositionInv == TypeOK /\ HashesInsideImage /\ SectionInv /\ DigestInv

PagesIn(sec) == sec.mem \div ChunksPerPage

\* The pages of the section at s that are added if it is not augmented, and its
\* chunks that are extended if it is.
AddBound ==
  IF pc \in {"page", "chunk"}
  THEN IF version = "8.2.2" THEN Pages ELSE IF pc = "chunk" THEN page + 1 ELSE page
  ELSE IF pc = "add" THEN page ELSE 0

ExtendBound ==
  IF pc = "chunk" THEN page * ChunksPerPage + chunk
  ELSE IF pc = "page" THEN page * ChunksPerPage ELSE 0

\* Nothing but that has been added or extended in the section at s.
AddedBefore(at) ==
  \E t \in DOMAIN img.sections : \E p \in Range1(PagesIn(img.sections[t])) :
    /\ at = img.sections[t].addr + p * ChunksPerPage
    /\ t <= s
    /\ t = s => p < AddBound

ExtendedBefore(at) ==
  \E t \in DOMAIN img.sections : \E c \in Range1(img.sections[t].mem) :
    /\ at = img.sections[t].addr + c
    /\ t <= s
    /\ t = s => c < ExtendBound

CallsInv ==
  pc \notin {"done", "crashed"} => \A j \in DOMAIN ctx :
    /\ ctx[j].call = "add" => AddedBefore(ctx[j].at)
    /\ ctx[j].call = "extend" => ExtendedBefore(ctx[j].at)

\* The page at p of the section at s has been added.
PageAdded(p) ==
  \E j \in DOMAIN ctx : ctx[j] = [call |-> "add", at |-> Current.addr + p * ChunksPerPage]

PagesInv == pc \in InSection /\ ~Current.aug => \A p \in Range1(AddBound) : PageAdded(p)

TdInv == PositionInv /\ CallsInv /\ PagesInv

-----------------------------------------------------------------------------
(* Pages and chunks *)

LEMMA DivMod ==
  ASSUME NEW C \in Nat \ {0}, NEW m \in Nat
  PROVE  m \div C \in Nat /\ m % C \in 0 .. C - 1 /\ m = C * (m \div C) + (m % C) BY SMT

LEMMA SmallMod ==
  ASSUME NEW C \in Nat \ {0}, NEW m \in Nat, m < C
  PROVE  m % C = m BY SMT

LEMMA TimesMonotonic ==
  ASSUME NEW C \in Nat, NEW a \in Int, NEW b \in Int, a <= b
  PROVE  a * C <= b * C BY SMT

LEMMA TimesInjective ==
  ASSUME NEW C \in Nat \ {0}, NEW a \in Nat, NEW b \in Nat, a * C = b * C
  PROVE  a = b BY SMT

LEMMA PageInside ==
  ASSUME NEW C \in Nat \ {0}, NEW m \in Nat, NEW p \in Nat, p < m \div C
  PROVE  p * C \in Nat /\ p * C + C <= m
  <1> DEFINE q == m \div C
  <1>1. q \in Nat /\ m % C \in Nat /\ m = C * q + (m % C) BY DivMod
  <1> HIDE DEF q
  <1>2. p + 1 <= q BY <1>1, SMT DEF q
  <1>3. (p + 1) * C <= q * C BY <1>1, <1>2, TimesMonotonic
  <1> QED BY <1>1, <1>3, SMT

LEMMA Remainder ==
  ASSUME NEW C \in Nat \ {0}, NEW q \in Nat, NEW r \in 0 .. C - 1
  PROVE  (q * C + r) % C = r BY SMT

-----------------------------------------------------------------------------
(* Positions *)

LEMMA ImageOf ==
  ASSUME TypeOK
  PROVE  /\ img.size \in Nat /\ img.sections \in Seq(Section) /\ Len(img.sections) \in Nat
         /\ Len(img.table) \in Nat /\ s \in Nat \ {0}
         /\ ChunksPerPage \in Nat \ {0}
  <1>1. img \in Image BY ImagesAssumption DEF TypeOK
  <1>2. img.size \in Nat /\ img.sections \in Seq(Section)
        /\ img.table \in Seq({"other", "zero", "metadata"}) BY <1>1 DEF Image
  <1>3. s \in 1 .. Len(img.sections) + 1 BY DEF TypeOK
  <1> QED BY <1>2, <1>3, GeometryAssumption

LEMMA SectionOf ==
  ASSUME TypeOK, NEW t \in DOMAIN img.sections
  PROVE  /\ img.sections[t].off \in Nat /\ img.sections[t].raw \in Nat
         /\ img.sections[t].addr \in Nat /\ img.sections[t].mem \in Nat
         /\ img.sections[t].type \in Nat
         /\ PagesIn(img.sections[t]) \in Nat
  <1>1. img.sections[t] \in Section BY ImageOf
  <1> QED BY <1>1, ImageOf, DivMod DEF Section, PagesIn

LEMMA CurrentOf ==
  ASSUME TypeOK, s <= Len(img.sections)
  PROVE  /\ s \in DOMAIN img.sections
         /\ Current.off \in Nat /\ Current.raw \in Nat /\ Current.addr \in Nat /\ Current.mem \in Nat
         /\ Pages \in Nat
  <1>1. s \in DOMAIN img.sections BY ImageOf
  <1> QED BY <1>1, SectionOf DEF Current, Pages, PagesIn

\* A function returns.
LEMMA DoneStep ==
  ASSUME PositionInv, NEW r \in {-1, 0}, NEW v \in Seq(Call) \cup {Garbage}, Done(r, v),
         v # Garbage =>
           \A j \in DOMAIN v :
             v[j].call = "volume" /\ v[j].at + v[j].data > img.size => v[j].at + v[j].data >= Wrap
  PROVE  PositionInv'
  <1>1. /\ pc' = "done" /\ ret' = r /\ digest' = v
        /\ UNCHANGED <<img, job, version, short, entry, found, s, page, chunk, ctx>>
    BY DEF Done, arguments
  <1>2. TypeOK' BY <1>1 DEF PositionInv, TypeOK, Label
  <1>3. HashesInsideImage' BY <1>1 DEF PositionInv, HashesInsideImage
  <1>4. SectionInv' /\ DigestInv' BY <1>1 DEF PositionInv, SectionInv, DigestInv, InSection
  <1> QED BY <1>2, <1>3, <1>4 DEF PositionInv

LEMMA UndoneStep ==
  ASSUME PositionInv, Refuse \/ GiveUp, pc # "done"
  PROVE  PositionInv'
  <1>1. digest = Garbage BY DEF PositionInv, DigestInv
  <1> QED BY <1>1, DoneStep DEF Refuse, GiveUp

LEMMA CrashStep ==
  ASSUME PositionInv, Crash, pc # "done"
  PROVE  PositionInv'
  <1>1. /\ pc' = "crashed"
        /\ UNCHANGED <<img, job, version, short, entry, found, s, page, chunk, ctx, digest, ret>>
    BY DEF Crash, arguments
  <1>2. TypeOK' BY <1>1 DEF PositionInv, TypeOK, Label
  <1> QED BY <1>1, <1>2 DEF PositionInv, HashesInsideImage, SectionInv, DigestInv, InSection

LEMMA GotoStep ==
  ASSUME PositionInv, NEW label \in {"table", "descriptor", "context", "section", "volume"},
         pc # "done", pc' = label, found' \in BOOLEAN, entry' \in 1 .. Len(img.table) + 1,
         s' \in 1 .. Len(img.sections) + 1,
         UNCHANGED <<img, job, version, short, page, chunk, ctx, digest, ret>>
  PROVE  PositionInv'
  <1>1. TypeOK' BY DEF PositionInv, TypeOK, Label
  <1> QED BY <1>1 DEF PositionInv, HashesInsideImage, SectionInv, DigestInv, InSection

LEMMA LocateStep == ASSUME PositionInv, Locate PROVE PositionInv'
  <1>1. entry \in 1 .. Len(img.table) + 1 /\ found \in BOOLEAN /\ Len(img.table) \in Nat
        /\ s \in 1 .. Len(img.sections) + 1 BY ImageOf DEF PositionInv, TypeOK
  <1>2. CASE ReadFooter
    BY <1>1, <1>2, UndoneStep, CrashStep, GotoStep DEF ReadFooter, Goto, arguments
  <1>3. CASE SearchTable
    <2>1. entry <= Len(img.table) => entry + 1 \in 1 .. Len(img.table) + 1 BY <1>1, SMT
    <2>2. /\ pc = "table" /\ pc' \in {"table", "descriptor"} /\ found' \in BOOLEAN
          /\ entry' \in 1 .. Len(img.table) + 1
          /\ UNCHANGED <<img, job, version, short, s, page, chunk, ctx, digest, ret>>
      BY <1>1, <1>3, <2>1 DEF SearchTable, arguments
    <2> QED BY <1>1, <2>2, GotoStep
  <1>4. CASE SearchFailed BY <1>1, <1>4, GotoStep DEF SearchFailed, Goto, arguments
  <1>5. CASE ReadDescriptor
    BY <1>1, <1>5, UndoneStep, CrashStep, GotoStep DEF ReadDescriptor, Goto, arguments
  <1>6. CASE Context BY <1>1, <1>6, UndoneStep, GotoStep DEF Context, Goto, arguments
  <1>7. CASE ReadForeignSection BY <1>7, CrashStep DEF ReadForeignSection
  <1> QED BY <1>2, <1>3, <1>4, <1>5, <1>6, <1>7 DEF Locate

\* A step of the loops over the pages of a section.
LEMMA LoopStep ==
  ASSUME PositionInv, pc # "done", s <= Len(img.sections), Sane(Current), version # "other",
         pc' \in InSection, page' \in 0 .. Pages, chunk' \in Range1(ChunksPerPage),
         pc' = "add" => version = "8.2.2",
         pc' = "chunk" => page' < Pages /\ Current.extend,
         ctx' \in Seq(Call),
         \A j \in DOMAIN ctx' : ctx'[j].call # "volume" /\ (ctx'[j].call = "extend" => ctx'[j].data < img.size),
         UNCHANGED <<img, job, version, short, entry, found, s, digest, ret>>
  PROVE  PositionInv'
  <1>1. TypeOK' BY DEF PositionInv, TypeOK, Label, InSection, Pages, Current
  <1>2. HashesInsideImage' BY DEF PositionInv, HashesInsideImage
  <1>3. SectionInv' BY DEF SectionInv, Current, Pages, Sane, Aligned
  <1>4. DigestInv' BY DEF PositionInv, DigestInv, InSection
  <1> QED BY <1>1, <1>2, <1>3, <1>4 DEF PositionInv

\* A call enters the digest context.
LEMMA CallAppended ==
  ASSUME PositionInv, NEW c \in Call, c.call # "volume", c.call = "extend" => c.data < img.size,
         ctx' = Append(ctx, c)
  PROVE  /\ ctx' \in Seq(Call)
         /\ \A j \in DOMAIN ctx' :
              ctx'[j].call # "volume" /\ (ctx'[j].call = "extend" => ctx'[j].data < img.size)
  <1>1. ctx \in Seq(Call) BY DEF PositionInv, TypeOK
  <1>2. /\ ctx' \in Seq(Call) /\ Len(ctx') = Len(ctx) + 1
        /\ \A j \in 1 .. Len(ctx) : ctx'[j] = ctx[j]
        /\ ctx'[Len(ctx) + 1] = c BY <1>1, AppendProperties
  <1>3. \A j \in 1 .. Len(ctx) :
          ctx[j].call # "volume" /\ (ctx[j].call = "extend" => ctx[j].data < img.size)
    BY <1>1 DEF PositionInv, HashesInsideImage, DigestInv
  <1>4. \A j \in DOMAIN ctx' : j \in 1 .. Len(ctx) \/ j = Len(ctx) + 1 BY <1>1, <1>2
  <1> QED BY <1>2, <1>3, <1>4

\* The state within a section.
LEMMA InTheSection ==
  ASSUME PositionInv, pc \in InSection
  PROVE  /\ s <= Len(img.sections) /\ Sane(Current) /\ version \in {"9.2.0", "8.2.2"}
         /\ page \in 0 .. Pages /\ page \in Nat /\ Pages \in Nat
         /\ chunk \in Range1(ChunksPerPage) /\ chunk \in Nat
         /\ ctx \in Seq(Call)
         /\ \A j \in DOMAIN ctx :
              ctx[j].call # "volume" /\ (ctx[j].call = "extend" => ctx[j].data < img.size)
         /\ PageAddress \in Nat /\ DataOffset \in Nat
         /\ Current.addr \in Nat /\ Current.off \in Nat /\ page * ChunksPerPage \in Nat
  <1>1. s <= Len(img.sections) /\ Sane(Current) /\ version \in {"9.2.0", "8.2.2"}
    BY DEF PositionInv, SectionInv, TypeOK, Version
  <1>2. Pages \in Nat /\ Current.addr \in Nat /\ Current.off \in Nat
    BY <1>1, CurrentOf DEF PositionInv
  <1>3. page \in 0 .. Pages /\ chunk \in Range1(ChunksPerPage) /\ ctx \in Seq(Call)
    BY DEF PositionInv, TypeOK, InSection
  <1>4. page \in Nat /\ chunk \in Nat /\ ChunksPerPage \in Nat
    BY <1>2, <1>3, GeometryAssumption DEF Range1
  <1>5. page * ChunksPerPage \in Nat BY <1>4, SMT
  <1>6. PageAddress \in Nat /\ DataOffset \in Nat
    BY <1>2, <1>4, <1>5, SMT DEF PageAddress, DataOffset
  <1> QED BY <1>1, <1>2, <1>3, <1>4, <1>5, <1>6 DEF PositionInv, HashesInsideImage, DigestInv

LEMMA LeaveSectionStep ==
  ASSUME PositionInv, pc \in InSection, LeaveSection
  PROVE  PositionInv'
  <1>1. s + 1 \in 1 .. Len(img.sections) + 1
    <2>1. TypeOK BY DEF PositionInv
    <2>2. Len(img.sections) \in Nat /\ s \in Nat \ {0} BY <2>1, ImageOf
    <2>3. s <= Len(img.sections) BY InTheSection
    <2> QED BY <2>2, <2>3
  <1>2. entry \in 1 .. Len(img.table) + 1 /\ found \in BOOLEAN BY DEF PositionInv, TypeOK
  <1> QED BY <1>1, <1>2, GotoStep DEF LeaveSection, InSection, arguments

LEMMA EnterSectionStep == ASSUME PositionInv, EnterSection PROVE PositionInv'
  <1>1. pc = "section" /\ s <= Len(img.sections) BY DEF EnterSection
  <1>2. CASE Sane(Current) /\ version # "other"
    <2>1. /\ pc' = (IF version = "9.2.0" THEN "page" ELSE "add") /\ page' = 0
          /\ UNCHANGED <<img, job, version, short, entry, found, s, chunk, ctx, digest, ret>>
      BY <1>1, <1>2 DEF EnterSection, arguments
    <2>2. 0 \in 0 .. Pages /\ chunk \in Range1(ChunksPerPage) /\ ctx \in Seq(Call)
      BY <1>1, CurrentOf DEF PositionInv, TypeOK
    <2>3. \A j \in DOMAIN ctx :
            ctx[j].call # "volume" /\ (ctx[j].call = "extend" => ctx[j].data < img.size)
      BY DEF PositionInv, HashesInsideImage, DigestInv
    <2>4. pc' \in InSection /\ pc' # "chunk" /\ (pc' = "add" => version = "8.2.2")
      BY <1>2, <2>1 DEF InSection, PositionInv, TypeOK, Version
    <2> QED BY <1>1, <1>2, <2>1, <2>2, <2>3, <2>4, LoopStep
  <1>3. CASE ~(Sane(Current) /\ version # "other")
    BY <1>1, <1>3, UndoneStep DEF EnterSection
  <1> QED BY <1>2, <1>3

LEMMA AddPageStep == ASSUME PositionInv, AddPage PROVE PositionInv'
  <1>1. /\ pc = "add" /\ pc \in InSection /\ pc' = "add" /\ page < Pages /\ page' = page + 1
        /\ ctx' = Append(ctx, MemPageAdd)
        /\ UNCHANGED <<img, job, version, short, entry, found, s, chunk, digest, ret>>
    BY DEF AddPage, InSection, arguments
  <1>2. page' \in 0 .. Pages BY <1>1, InTheSection, SMT
  <1>3. MemPageAdd \in Call /\ MemPageAdd.call = "add"
    BY <1>1, InTheSection DEF MemPageAdd, Call
  <1>4. version = "8.2.2" BY <1>1 DEF PositionInv, SectionInv
  <1> QED BY <1>1, <1>2, <1>3, <1>4, InTheSection, CallAppended, LoopStep

LEMMA PagesAddedStep == ASSUME PositionInv, PagesAdded PROVE PositionInv'
  <1>1. pc = "add" /\ pc \in InSection BY DEF PagesAdded, InSection
  <1>2. CASE Current.extend
    <2>1. /\ pc' = "page" /\ pc' \in InSection /\ page' = 0
          /\ UNCHANGED <<img, job, version, short, entry, found, s, chunk, ctx, digest, ret>>
      BY <1>2 DEF PagesAdded, InSection, arguments
    <2>2. page' \in 0 .. Pages BY <1>1, <2>1, InTheSection
    <2> QED BY <1>1, <2>1, <2>2, InTheSection, LoopStep
  <1>3. CASE ~Current.extend BY <1>1, <1>3, LeaveSectionStep DEF PagesAdded
  <1> QED BY <1>2, <1>3

LEMMA StartPageStep == ASSUME PositionInv, StartPage PROVE PositionInv'
  <1>1. /\ pc = "page" /\ pc \in InSection /\ pc' \in InSection /\ pc' # "add" /\ page < Pages
        /\ pc' = "chunk" => Current.extend
        /\ page' = (IF pc' = "chunk" THEN page ELSE page + 1) /\ chunk' = 0
        /\ UNCHANGED <<img, job, version, short, entry, found, s, digest, ret>>
    BY DEF StartPage, InSection, arguments
  <1>2. page' \in 0 .. Pages /\ (pc' = "chunk" => page' < Pages) BY <1>1, InTheSection, SMT
  <1>3. chunk' \in Range1(ChunksPerPage) BY <1>1, GeometryAssumption, SMT DEF Range1
  <1>4. /\ ctx' \in Seq(Call)
        /\ \A j \in DOMAIN ctx' :
             ctx'[j].call # "volume" /\ (ctx'[j].call = "extend" => ctx'[j].data < img.size)
    <2>1. MemPageAdd \in Call /\ MemPageAdd.call = "add"
      BY <1>1, InTheSection DEF MemPageAdd, Call
    <2> QED BY <1>1, <2>1, InTheSection, CallAppended DEF StartPage
  <1> QED BY <1>1, <1>2, <1>3, <1>4, InTheSection, LoopStep

LEMMA ExtendChunkStep == ASSUME PositionInv, ExtendChunk PROVE PositionInv'
  <1>1. pc = "chunk" /\ pc \in InSection /\ page < Pages /\ Current.extend
    BY DEF ExtendChunk, InSection, PositionInv, SectionInv
  <1>2. CASE InsideImage
    <2> DEFINE c == [call |-> "extend", at |-> PageAddress + chunk, data |-> DataOffset]
    <2>1. /\ ctx' = Append(ctx, c) /\ pc' \in InSection /\ pc' # "add"
          /\ \/ pc' = "page" /\ page' = page + 1 /\ chunk' = chunk
             \/ /\ chunk + 1 # ChunksPerPage /\ pc' = "chunk" /\ page' = page /\ chunk' = chunk + 1
          /\ UNCHANGED <<img, job, version, short, entry, found, s, digest, ret>>
      BY <1>1, <1>2 DEF ExtendChunk, InSection, arguments
    <2>2. c \in Call /\ c.call = "extend" BY <1>1, InTheSection DEF Call
    <2>3. c.data < img.size
      BY <1>1, <1>2, InTheSection, ImageOf DEF InsideImage, PositionInv
    <2>4. /\ ctx' \in Seq(Call)
          /\ \A j \in DOMAIN ctx' :
               ctx'[j].call # "volume" /\ (ctx'[j].call = "extend" => ctx'[j].data < img.size)
      <3> HIDE DEF c
      <3> QED BY <2>1, <2>2, <2>3, CallAppended
    <2> HIDE DEF c
    <2>5. page' \in 0 .. Pages /\ (pc' = "chunk" => page' < Pages)
      BY <1>1, <2>1, InTheSection
    <2>6. chunk' \in Range1(ChunksPerPage)
      BY <1>1, <2>1, InTheSection, GeometryAssumption, SMT DEF Range1
    <2> QED BY <1>1, <2>1, <2>4, <2>5, <2>6, InTheSection, LoopStep
  <1>3. CASE ~InsideImage BY <1>1, <1>3, UndoneStep DEF ExtendChunk
  <1> QED BY <1>2, <1>3

LEMMA MeasureOvmfStep == ASSUME PositionInv, MeasureOvmf PROVE PositionInv'
  <1>1. CASE PagesDone BY <1>1, LeaveSectionStep DEF PagesDone, InSection
  <1>2. CASE Finalize BY <1>2, DoneStep DEF Finalize, PositionInv, TypeOK, DigestInv
  <1> QED
    BY <1>1, <1>2, EnterSectionStep, AddPageStep, PagesAddedStep, StartPageStep, ExtendChunkStep
    DEF MeasureOvmf

\* Of a volume that passes the check and is not in the image the end does not
\* fit 32 bits.
LEMMA VolumeWraps ==
  ASSUME TypeOK, s <= Len(img.sections), VolumeFits, Current.off + Current.raw > img.size
  PROVE  Current.off + Current.raw >= Wrap
  <1>1. /\ Current.off \in Nat /\ Current.raw \in Nat /\ img.size \in Nat /\ Wrap \in Nat \ {0}
    BY CurrentOf, ImageOf, GeometryAssumption
  <1> DEFINE end == Current.off + Current.raw
  <1>2. end \in Nat /\ end > img.size /\ end % Wrap <= img.size BY <1>1 DEF VolumeFits
  <1> HIDE DEF end
  <1>3. end < Wrap => end % Wrap = end BY <1>1, <1>2, SmallMod
  <1>4. end >= Wrap BY <1>1, <1>2, <1>3, SMT
  <1> QED BY <1>4 DEF end

LEMMA MeasureCfvStep == ASSUME PositionInv, MeasureCfv PROVE PositionInv'
  <1>1. entry \in 1 .. Len(img.table) + 1 /\ found \in BOOLEAN /\ Len(img.sections) \in Nat /\ s \in Nat
    BY ImageOf DEF PositionInv, TypeOK
  <1>2. CASE SkipSection
    <2>1. s + 1 \in 1 .. Len(img.sections) + 1 BY <1>1, <1>2, SMT DEF SkipSection
    <2> QED BY <1>1, <1>2, <2>1, GotoStep DEF SkipSection, arguments
  <1>3. CASE HashVolume
    <2>1. pc = "volume" /\ s <= Len(img.sections) /\ VolumeFits BY <1>3 DEF HashVolume
    <2>2. CASE Done(0, <<VolumeCall(Current)>>)
      <3>1. VolumeCall(Current) \in Call
        BY <2>1, CurrentOf DEF Call, PositionInv, VolumeCall
      <3>2. VolumeCall(Current).at + VolumeCall(Current).data > img.size =>
              VolumeCall(Current).at + VolumeCall(Current).data >= Wrap
        BY <2>1, VolumeWraps DEF PositionInv, VolumeCall
      <3>3. /\ <<VolumeCall(Current)>> \in Seq(Call)
            /\ \A j \in DOMAIN <<VolumeCall(Current)>> : <<VolumeCall(Current)>>[j] = VolumeCall(Current)
        BY <3>1
      <3> QED BY <2>1, <2>2, <3>2, <3>3, DoneStep
    <2>3. CASE Crash BY <2>1, <2>3, CrashStep
    <2> QED BY <1>3, <2>2, <2>3 DEF HashVolume
  <1>4. CASE NoVolume BY <1>4, UndoneStep DEF NoVolume
  <1>5. CASE OutOfMemory BY <1>5, CrashStep DEF OutOfMemory
  <1> QED BY <1>2, <1>3, <1>4, <1>5 DEF MeasureCfv

LEMMA PositionUnchanged == ASSUME PositionInv, UNCHANGED vars PROVE PositionInv'
  BY DEF vars, arguments, PositionInv, TypeOK, HashesInsideImage, SectionInv, DigestInv, Pages, Current,
         Sane, Aligned, InSection

LEMMA PositionInit == ASSUME Init PROVE PositionInv
  <1>1. img \in Images /\ job \in Job /\ short \in BOOLEAN /\ pc = "footer" /\ entry = 1
        /\ found = FALSE /\ s = 1 /\ page = 0 /\ chunk = 0 /\ ctx = <<>> /\ digest = Garbage /\ ret = 1
        /\ version \in Version BY DEF Init, Version
  <1>2. img \in Image BY <1>1, ImagesAssumption
  <1>3. Len(img.table) \in Nat /\ Len(img.sections) \in Nat BY <1>2 DEF Image
  <1>4. 1 \in 1 .. Len(img.table) + 1 /\ 1 \in 1 .. Len(img.sections) + 1 BY <1>3, SMT
  <1>5. 0 \in Range1(ChunksPerPage) BY GeometryAssumption, SMT DEF Range1
  <1>6. ctx \in Seq(Call) /\ DOMAIN ctx = {} BY <1>1
  <1>7. TypeOK BY <1>1, <1>4, <1>5, <1>6 DEF TypeOK, Label
  <1> QED BY <1>1, <1>6, <1>7 DEF PositionInv, HashesInsideImage, SectionInv, DigestInv, InSection

LEMMA PositionNext == ASSUME PositionInv, [Next]_vars PROVE PositionInv'
  BY LocateStep, MeasureOvmfStep, MeasureCfvStep, PositionUnchanged DEF Next, Terminated

\* The handlers change the variables of the measurement only by its steps.
LEMMA HandlersMeasure ==
  /\ HandlersInit => Init
  /\ [HandlersNext]_allVars => [Next]_vars
  BY DEF HandlersInit, HandlersNext, CreateHob, HashHob, MeasureImage, Terminated, Next, allVars

\* The loops of the measurement stay inside the table and the metadata of the
\* image and inside the pages of a section.  Whatever offsets and sizes its
\* metadata has, every chunk that is extended is one of the image, and of a
\* volume only one whose end does not fit 32 bits is hashed beyond it
\* (mrtd.c:106, 243-311, 402).
THEOREM InsideTheImage == HandlersSpec => []PositionsInside
  <1>1. HandlersInit => PositionInv BY HandlersMeasure, PositionInit
  <1>2. PositionInv /\ [HandlersNext]_allVars => PositionInv'
    BY HandlersMeasure, PositionNext
  <1>3. PositionInv => PositionsInside BY DEF PositionInv, PositionsInside
  <1> QED BY <1>1, <1>2, <1>3, PTL DEF HandlersSpec

-----------------------------------------------------------------------------
(* What is added and extended *)

Live == pc \notin {"done", "crashed"}

LEMMA BoundsAreInt == PositionInv => AddBound \in Int /\ ExtendBound \in Int
  <1> SUFFICES ASSUME PositionInv PROVE AddBound \in Int /\ ExtendBound \in Int OBVIOUS
  <1>1. CASE pc \in InSection
    BY <1>1, InTheSection, GeometryAssumption, SMT DEF AddBound, ExtendBound
  <1>2. CASE pc \notin InSection BY <1>2 DEF AddBound, ExtendBound, InSection
  <1> QED BY <1>1, <1>2

\* What was before is before still when the loops have gone on.
LEMMA BeforeKept ==
  ASSUME PositionInv, PositionInv', img' = img,
         s' = s + 1 \/ (s' = s /\ AddBound <= AddBound' /\ ExtendBound <= ExtendBound'),
         NEW at
  PROVE  /\ AddedBefore(at) => AddedBefore(at)'
         /\ ExtendedBefore(at) => ExtendedBefore(at)'
  <1>1. AddBound \in Int /\ ExtendBound \in Int /\ AddBound' \in Int /\ ExtendBound' \in Int
    <2>1. (PositionInv => AddBound \in Int /\ ExtendBound \in Int)' BY BoundsAreInt, PTL
    <2> QED BY <2>1, BoundsAreInt
  <1>2. s \in Nat BY ImageOf DEF PositionInv
  <1>3. ASSUME AddedBefore(at) PROVE AddedBefore(at)'
    <2>1. PICK t \in DOMAIN img.sections : \E p \in Range1(PagesIn(img.sections[t])) :
            /\ at = img.sections[t].addr + p * ChunksPerPage /\ t <= s
            /\ t = s => p < AddBound BY <1>3 DEF AddedBefore
    <2>2. PICK p \in Range1(PagesIn(img.sections[t])) :
            /\ at = img.sections[t].addr + p * ChunksPerPage /\ t <= s
            /\ t = s => p < AddBound BY <2>1
    <2>3. p \in Int /\ t \in Nat BY ImageOf DEF PositionInv, Range1
    <2>4. t <= s' BY <1>2, <2>2, <2>3
    <2>5. t = s' => p < AddBound' BY <1>1, <1>2, <2>2, <2>3
    <2> QED BY <2>2, <2>4, <2>5 DEF AddedBefore, PagesIn
  <1>4. ASSUME ExtendedBefore(at) PROVE ExtendedBefore(at)'
    <2>1. PICK t \in DOMAIN img.sections : \E c \in Range1(img.sections[t].mem) :
            /\ at = img.sections[t].addr + c /\ t <= s
            /\ t = s => c < ExtendBound BY <1>4 DEF ExtendedBefore
    <2>2. PICK c \in Range1(img.sections[t].mem) :
            /\ at = img.sections[t].addr + c /\ t <= s
            /\ t = s => c < ExtendBound BY <2>1
    <2>3. c \in Int /\ t \in Nat BY ImageOf DEF PositionInv, Range1
    <2>4. t <= s' BY <1>2, <2>2, <2>3
    <2>5. t = s' => c < ExtendBound' BY <1>1, <1>2, <2>2, <2>3
    <2> QED BY <2>2, <2>4, <2>5 DEF ExtendedBefore
  <1> QED BY <1>3, <1>4

LEMMA CallsKept ==
  ASSUME PositionInv, PositionInv', CallsInv, Live, img' = img, ctx' = ctx,
         s' = s + 1 \/ (s' = s /\ AddBound <= AddBound' /\ ExtendBound <= ExtendBound')
  PROVE  CallsInv' BY BeforeKept DEF CallsInv, Live

LEMMA CallsAppended ==
  ASSUME PositionInv, PositionInv', CallsInv, Live, img' = img, s' = s,
         AddBound <= AddBound', ExtendBound <= ExtendBound',
         NEW c, ctx' = Append(ctx, c),
         c.call = "add" => AddedBefore(c.at)', c.call = "extend" => ExtendedBefore(c.at)'
  PROVE  CallsInv'
  <1>1. ctx \in Seq(Call) /\ ctx' \in Seq(Call) BY DEF PositionInv, TypeOK
  <1>2. /\ Len(ctx') = Len(ctx) + 1
        /\ \A j \in 1 .. Len(ctx) : ctx'[j] = ctx[j]
        /\ ctx'[Len(ctx) + 1] = c BY <1>1, AppendProperties
  <1>3. \A j \in DOMAIN ctx' : j \in 1 .. Len(ctx) \/ j = Len(ctx) + 1 BY <1>1, <1>2
  <1>4. \A j \in 1 .. Len(ctx) :
          /\ ctx[j].call = "add" => AddedBefore(ctx[j].at)
          /\ ctx[j].call = "extend" => ExtendedBefore(ctx[j].at) BY <1>1 DEF CallsInv, Live
  <1> QED BY <1>2, <1>3, <1>4, BeforeKept DEF CallsInv

\* A page that was added is added still.
LEMMA PagesKept ==
  ASSUME ctx \in Seq(Call), img' = img, s' = s,
         ctx' = ctx \/ \E c \in Call : ctx' = Append(ctx, c),
         NEW p, PageAdded(p)
  PROVE  PageAdded(p)'
  <1>1. PICK j \in DOMAIN ctx : ctx[j] = [call |-> "add", at |-> Current.addr + p * ChunksPerPage]
    BY DEF PageAdded
  <1>2. j \in DOMAIN ctx' /\ ctx'[j] = ctx[j] BY <1>1, AppendProperties
  <1> QED BY <1>1, <1>2 DEF PageAdded, Current

LEMMA PageAppended ==
  ASSUME ctx \in Seq(Call), MemPageAdd \in Call, img' = img, s' = s, ctx' = Append(ctx, MemPageAdd),
         NEW p, p = page
  PROVE  PageAdded(p)'
  <1>1. Len(ctx) + 1 \in DOMAIN ctx' /\ ctx'[Len(ctx) + 1] = MemPageAdd BY AppendProperties
  <1> QED BY <1>1 DEF PageAdded, Current, MemPageAdd, PageAddress

LEMMA EndStep == ASSUME pc' \in {"done", "crashed"} PROVE CallsInv' /\ PagesInv'
  BY DEF CallsInv, PagesInv, InSection

LEMMA OutsideStep ==
  ASSUME TdInv, PositionInv', Live, pc \notin InSection, pc' \notin InSection,
         img' = img, ctx' = ctx, s' \in {s, s + 1}
  PROVE  CallsInv' /\ PagesInv'
  <1>1. AddBound = 0 /\ AddBound' = 0 /\ ExtendBound = 0 /\ ExtendBound' = 0
    BY DEF AddBound, ExtendBound, InSection
  <1>2. CallsInv' BY <1>1, CallsKept DEF TdInv
  <1> QED BY <1>2 DEF PagesInv

LEMMA LocateCalls == ASSUME TdInv, PositionInv', Locate PROVE CallsInv' /\ PagesInv'
  <1>1. pc \notin InSection /\ Live
    BY DEF Locate, ReadFooter, SearchTable, SearchFailed, ReadDescriptor, Context, ReadForeignSection,
       InSection, Live
  <1>2. \/ pc' \in {"done", "crashed"}
        \/ pc' \notin InSection /\ img' = img /\ ctx' = ctx /\ s' = s
    BY DEF Locate, ReadFooter, SearchTable, SearchFailed, ReadDescriptor, Context, ReadForeignSection,
       InSection, arguments, Goto, Refuse, GiveUp, Done, Crash
  <1> QED BY <1>1, <1>2, EndStep, OutsideStep

LEMMA MeasureCfvCalls == ASSUME TdInv, PositionInv', MeasureCfv PROVE CallsInv' /\ PagesInv'
  <1>1. pc = "volume" BY DEF MeasureCfv, SkipSection, HashVolume, NoVolume, OutOfMemory
  <1>2. \/ pc' \in {"done", "crashed"}
        \/ pc' = "volume" /\ img' = img /\ ctx' = ctx /\ s' = s + 1
    BY <1>1
    DEF MeasureCfv, SkipSection, HashVolume, NoVolume, OutOfMemory, arguments, GiveUp, Done, Crash
  <1> QED BY <1>1, <1>2, EndStep, OutsideStep DEF InSection, Live

LEMMA LeaveSectionCalls ==
  ASSUME TdInv, PositionInv', pc \in InSection, LeaveSection
  PROVE  CallsInv' /\ PagesInv'
  <1>1. CallsInv' BY CallsKept DEF TdInv, LeaveSection, arguments, Live, InSection
  <1> QED BY <1>1 DEF PagesInv, LeaveSection, InSection

\* A step of the loops that makes no call: it must not go behind a page that is
\* not added.
LEMMA QuietStep ==
  ASSUME TdInv, PositionInv', Live, img' = img, ctx' = ctx, s' = s,
         AddBound <= AddBound', ExtendBound <= ExtendBound',
         ~Current.aug => (pc \in InSection /\ AddBound' = AddBound) \/ AddBound' = 0
  PROVE  CallsInv' /\ PagesInv'
  <1>1. CallsInv' BY CallsKept DEF TdInv
  <1>2. PagesInv'
    <2> SUFFICES ASSUME ~Current.aug, NEW p \in Range1(AddBound') PROVE PageAdded(p)'
      BY DEF PagesInv, Current
    <2>1. CASE pc \in InSection /\ AddBound' = AddBound
      BY <2>1, PagesKept DEF TdInv, PagesInv, PositionInv, TypeOK
    <2>2. CASE AddBound' = 0 BY <2>2, SMT DEF Range1
    <2> QED BY <2>1, <2>2
  <1> QED BY <1>1, <1>2

\* A step that adds the page the loop is at.
LEMMA AddingStep ==
  ASSUME TdInv, PositionInv', pc \in InSection, page < Pages, ~Current.aug,
         img' = img, s' = s, ctx' = Append(ctx, MemPageAdd),
         AddBound = page, AddBound' = page + 1, ExtendBound <= ExtendBound'
  PROVE  CallsInv' /\ PagesInv'
  <1>1. PositionInv /\ CallsInv /\ PagesInv /\ Live BY DEF TdInv, InSection, Live
  <1>2. page \in Nat /\ Pages \in Nat /\ MemPageAdd \in Call /\ ctx \in Seq(Call) /\ s \in DOMAIN img.sections
    BY <1>1, InTheSection, CurrentOf DEF MemPageAdd, Call, PositionInv
  <1>3. PICK at : at = PageAddress OBVIOUS
  <1>4. AddedBefore(at)'
    <2>1. page \in Range1(PagesIn(img.sections[s])) /\ page < AddBound' /\ s <= s
      <3>1. PagesIn(img.sections[s]) = Pages BY DEF PagesIn, Pages, Current
      <3>2. s \in Nat BY <1>2, ImageOf DEF PositionInv, TdInv
      <3> QED BY <1>2, <3>1, <3>2, SMT DEF Range1
    <2>2. at = img.sections[s].addr + page * ChunksPerPage BY <1>3 DEF PageAddress, Current
    <2> QED BY <1>2, <2>1, <2>2 DEF AddedBefore, PagesIn
  <1>5. AddBound <= AddBound' BY <1>2, SMT
  <1>6. CallsInv' BY <1>1, <1>3, <1>4, <1>5, CallsAppended DEF MemPageAdd
  <1>7. PagesInv'
    <2> SUFFICES ASSUME NEW p \in Range1(AddBound') PROVE PageAdded(p)' BY DEF PagesInv
    <2>1. p \in Range1(AddBound) \/ p = page BY <1>2, SMT DEF Range1
    <2>2. CASE p \in Range1(AddBound) BY <1>1, <1>2, <2>2, PagesKept DEF PagesInv
    <2>3. CASE p = page BY <1>2, <2>3, PageAppended
    <2> QED BY <2>1, <2>2, <2>3
  <1> QED BY <1>6, <1>7

LEMMA EnterSectionCalls == ASSUME TdInv, PositionInv', EnterSection PROVE CallsInv' /\ PagesInv'
  <1>1. pc = "section" /\ Live BY DEF EnterSection, Live
  <1>2. CASE Sane(Current) /\ version # "other"
    <2>1. pc' = (IF version = "9.2.0" THEN "page" ELSE "add") /\ page' = 0 /\ version' = version
          /\ img' = img /\ ctx' = ctx /\ s' = s BY <1>2 DEF EnterSection, arguments
    <2>2. AddBound = 0 /\ ExtendBound = 0 BY <1>1 DEF AddBound, ExtendBound
    <2>3. AddBound' = 0 BY <2>1 DEF AddBound
    <2>4. ExtendBound' = 0 BY <2>1, GeometryAssumption, SMT DEF ExtendBound
    <2> QED BY <1>1, <2>1, <2>2, <2>3, <2>4, QuietStep
  <1>3. CASE ~(Sane(Current) /\ version # "other")
    BY <1>3, EndStep DEF EnterSection, GiveUp, Done
  <1> QED BY <1>2, <1>3

LEMMA AddPageCalls == ASSUME TdInv, PositionInv', AddPage PROVE CallsInv' /\ PagesInv'
  <1>1. /\ pc = "add" /\ pc \in InSection /\ pc' = "add" /\ page < Pages /\ page' = page + 1
        /\ ~Current.aug /\ ctx' = Append(ctx, MemPageAdd) /\ img' = img /\ s' = s
    BY DEF AddPage, InSection, arguments
  <1>2. AddBound = page /\ AddBound' = page + 1 /\ ExtendBound = 0 /\ ExtendBound' = 0
    BY <1>1 DEF AddBound, ExtendBound
  <1> QED BY <1>1, <1>2, AddingStep

LEMMA PagesAddedCalls == ASSUME TdInv, PositionInv', PagesAdded PROVE CallsInv' /\ PagesInv'
  <1>1. pc = "add" /\ pc \in InSection /\ version = "8.2.2" /\ (Current.aug \/ page = Pages)
    BY DEF PagesAdded, InSection, TdInv, PositionInv, SectionInv
  <1>2. CASE Current.extend
    <2>1. pc' = "page" /\ page' = 0 /\ version' = version /\ img' = img /\ ctx' = ctx /\ s' = s
      BY <1>2 DEF PagesAdded, arguments
    <2>2. AddBound = page /\ ExtendBound = 0 BY <1>1 DEF AddBound, ExtendBound
    <2>3. AddBound' = Pages BY <1>1, <2>1 DEF AddBound, Pages, Current
    <2>4. ExtendBound' = 0 BY <2>1, GeometryAssumption, SMT DEF ExtendBound
    <2>5. AddBound <= AddBound' /\ (~Current.aug => AddBound' = AddBound)
      BY <1>1, <2>2, <2>3, InTheSection DEF TdInv
    <2> QED BY <1>1, <2>1, <2>2, <2>4, <2>5, QuietStep DEF Live
  <1>3. CASE ~Current.extend BY <1>1, <1>3, LeaveSectionCalls DEF PagesAdded
  <1> QED BY <1>2, <1>3

LEMMA StartPageCalls == ASSUME TdInv, PositionInv', StartPage PROVE CallsInv' /\ PagesInv'
  <1>1. /\ pc = "page" /\ pc \in InSection /\ Live /\ page < Pages /\ version' = version
        /\ img' = img /\ s' = s /\ chunk' = 0
        /\ \/ pc' = "chunk" /\ page' = page
           \/ pc' = "page" /\ page' = page + 1
        /\ ctx' = (IF version = "9.2.0" /\ ~Current.aug THEN Append(ctx, MemPageAdd) ELSE ctx)
    BY DEF StartPage, InSection, Live, arguments
  <1>2. /\ version \in {"9.2.0", "8.2.2"} /\ page \in Nat /\ Pages \in Nat
        /\ page * ChunksPerPage \in Nat /\ ChunksPerPage \in Nat
    BY <1>1, InTheSection, GeometryAssumption DEF TdInv
  <1>3. ExtendBound <= ExtendBound'
    <2>1. ExtendBound = page * ChunksPerPage BY <1>1 DEF ExtendBound
    <2>2. CASE pc' = "chunk" /\ page' = page
      <3>1. ExtendBound' = page * ChunksPerPage + 0 BY <1>1, <2>2 DEF ExtendBound
      <3> QED BY <1>2, <2>1, <3>1, SMT
    <2>3. CASE pc' = "page" /\ page' = page + 1
      <3>1. ExtendBound' = (page + 1) * ChunksPerPage BY <2>3 DEF ExtendBound
      <3> QED BY <1>2, <2>1, <3>1, SMT
    <2> QED BY <1>1, <2>2, <2>3
  <1>4. version = "9.2.0" => AddBound = page /\ AddBound' = page + 1 BY <1>1 DEF AddBound
  <1>5. version = "8.2.2" => AddBound = Pages /\ AddBound' = Pages
    BY <1>1 DEF AddBound, Pages, Current
  <1>6. CASE version = "9.2.0" /\ ~Current.aug BY <1>1, <1>3, <1>4, <1>6, AddingStep
  <1>7. CASE ~(version = "9.2.0" /\ ~Current.aug)
    <2>1. AddBound <= AddBound' BY <1>2, <1>4, <1>5
    <2> QED BY <1>1, <1>2, <1>3, <1>5, <1>7, <2>1, QuietStep
  <1> QED BY <1>6, <1>7

LEMMA ExtendChunkCalls == ASSUME TdInv, PositionInv', ExtendChunk PROVE CallsInv' /\ PagesInv'
  <1>1. pc = "chunk" /\ pc \in InSection /\ Live /\ page < Pages
    BY DEF ExtendChunk, InSection, Live, TdInv, PositionInv, SectionInv
  <1>2. /\ version \in {"9.2.0", "8.2.2"} /\ page \in Nat /\ Pages \in Nat /\ Current.mem \in Nat
        /\ page * ChunksPerPage \in Nat /\ ChunksPerPage \in Nat \ {0} /\ s \in DOMAIN img.sections
        /\ chunk \in Nat /\ chunk \in Range1(ChunksPerPage) /\ ctx \in Seq(Call) /\ s \in Nat
        /\ PageAddress \in Nat /\ DataOffset \in Nat /\ Current.addr \in Nat
    BY <1>1, InTheSection, CurrentOf, ImageOf, GeometryAssumption DEF TdInv, PositionInv
  <1>3. CASE InsideImage
    <2> DEFINE c == [call |-> "extend", at |-> PageAddress + chunk, data |-> DataOffset]
    <2>1. /\ ctx' = Append(ctx, c) /\ version' = version /\ img' = img /\ s' = s
          /\ \/ chunk + 1 = ChunksPerPage /\ pc' = "page" /\ page' = page + 1
             \/ pc' = "chunk" /\ page' = page /\ chunk' = chunk + 1
      BY <1>1, <1>3 DEF ExtendChunk, arguments
    <2>2. AddBound' = AddBound BY <1>1, <1>2, <2>1 DEF AddBound, Pages, Current
    <2>3. ExtendBound = page * ChunksPerPage + chunk BY <1>1 DEF ExtendBound
    <2>4. ExtendBound' = ExtendBound + 1
      <3>1. CASE chunk + 1 = ChunksPerPage /\ pc' = "page" /\ page' = page + 1
        <4>1. ExtendBound' = (page + 1) * ChunksPerPage BY <3>1 DEF ExtendBound
        <4> QED BY <1>2, <2>3, <3>1, <4>1, SMT
      <3>2. CASE pc' = "chunk" /\ page' = page /\ chunk' = chunk + 1
        <4>1. ExtendBound' = page * ChunksPerPage + (chunk + 1)
          BY <2>1, <3>2 DEF ExtendBound
        <4> QED BY <1>2, <2>3, <4>1, SMT
      <3> QED BY <2>1, <3>1, <3>2
    <2>5. c.at = Current.addr + ExtendBound BY <1>2, <2>3, SMT DEF PageAddress
    <2>6. ExtendBound \in Range1(Current.mem)
      <3>1. page * ChunksPerPage + ChunksPerPage <= Current.mem
        BY <1>1, <1>2, PageInside DEF Pages
      <3> QED BY <1>2, <2>3, <3>1, SMT DEF Range1
    <2>7. c \in Call /\ c.call = "extend" BY <1>2 DEF Call
    <2> HIDE DEF c
    <2>8. PICK at : at = c.at OBVIOUS
    <2>9. PICK e : e = ExtendBound OBVIOUS
    <2>10. ExtendedBefore(at)'
      <3>1. e < ExtendBound' /\ e \in Range1(img.sections[s].mem)
        BY <2>4, <2>6, <2>9, SMT DEF Current, Range1
      <3>2. at = img.sections[s].addr + e /\ s <= s BY <1>2, <2>5, <2>8, <2>9 DEF Current
      <3> QED BY <1>2, <2>1, <3>1, <3>2 DEF ExtendedBefore
    <2>11. ExtendBound <= ExtendBound' /\ AddBound <= AddBound'
      BY <2>2, <2>4, <2>6, BoundsAreInt DEF Range1, TdInv
    <2>12. CallsInv' BY <1>1, <2>1, <2>7, <2>8, <2>10, <2>11, CallsAppended DEF TdInv
    <2>13. PagesInv'
      <3> SUFFICES ASSUME ~Current.aug, NEW p \in Range1(AddBound) PROVE PageAdded(p)'
        BY <2>1, <2>2 DEF PagesInv, Current
      <3>1. PageAdded(p) BY <1>1 DEF TdInv, PagesInv
      <3> QED BY <1>2, <2>1, <2>7, <3>1, PagesKept
    <2> QED BY <2>12, <2>13
  <1>4. CASE ~InsideImage BY <1>1, <1>4, EndStep DEF ExtendChunk, GiveUp, Done
  <1> QED BY <1>3, <1>4

LEMMA MeasureOvmfCalls == ASSUME TdInv, PositionInv', MeasureOvmf PROVE CallsInv' /\ PagesInv'
  <1>1. CASE PagesDone BY <1>1, LeaveSectionCalls DEF PagesDone, InSection
  <1>2. CASE Finalize BY <1>2, EndStep DEF Finalize, Done
  <1> QED
    BY <1>1, <1>2, EnterSectionCalls, AddPageCalls, PagesAddedCalls, StartPageCalls, ExtendChunkCalls
    DEF MeasureOvmf

LEMMA BeforeUnchanged ==
  ASSUME UNCHANGED vars, NEW at
  PROVE  AddedBefore(at)' = AddedBefore(at) /\ ExtendedBefore(at)' = ExtendedBefore(at)
  BY DEF AddedBefore, ExtendedBefore, AddBound, ExtendBound, PagesIn, Pages, Current, vars, arguments

LEMMA TdUnchanged == ASSUME TdInv, UNCHANGED vars PROVE CallsInv' /\ PagesInv'
  <1>1. CallsInv' BY BeforeUnchanged DEF TdInv, CallsInv, vars
  <1>2. AddBound' = AddBound /\ \A p : PageAdded(p)' = PageAdded(p)
    BY DEF AddBound, Pages, Current, PageAdded, vars, arguments
  <1>3. PagesInv' BY <1>2 DEF TdInv, PagesInv, vars, arguments, Current
  <1> QED BY <1>1, <1>3

LEMMA TdInit == ASSUME Init PROVE TdInv
  <1>1. pc = "footer" /\ ctx = <<>> BY DEF Init
  <1>2. DOMAIN ctx = {} BY <1>1
  <1> QED BY <1>1, <1>2, PositionInit DEF TdInv, CallsInv, PagesInv, InSection

LEMMA TdNextStep == ASSUME TdInv, [Next]_vars PROVE TdInv'
  <1>1. PositionInv' BY PositionNext DEF TdInv
  <1>2. CallsInv' /\ PagesInv'
    BY <1>1, LocateCalls, MeasureOvmfCalls, MeasureCfvCalls, TdUnchanged DEF Next, Terminated
  <1> QED BY <1>1, <1>2 DEF TdInv

-----------------------------------------------------------------------------
(* The calls are calls of the TDX module *)

LEMMA PageAligned ==
  ASSUME PositionInv, pc \in InSection, page < Pages, NEW r \in Range1(ChunksPerPage)
  PROVE  PageAt(PageAddress + r) = PageAddress /\ PageAddress + r \in Memory(Current)
  <1>1. /\ Current.addr \in Nat /\ Current.mem \in Nat /\ page \in Nat /\ ChunksPerPage \in Nat \ {0}
        /\ Current.addr % ChunksPerPage = 0 /\ r \in 0 .. ChunksPerPage - 1 /\ r \in Nat
        /\ page * ChunksPerPage \in Nat
    BY InTheSection, CurrentOf, GeometryAssumption DEF PositionInv, Sane, Aligned, Range1
  <1> DEFINE k == Current.addr \div ChunksPerPage
  <1>2. k \in Nat /\ Current.addr = ChunksPerPage * k + (Current.addr % ChunksPerPage)
    BY <1>1, DivMod
  <1> HIDE DEF k
  <1>3. Current.addr = ChunksPerPage * k BY <1>1, <1>2, SMT
  <1>4. PageAddress + r = (k + page) * ChunksPerPage + r
    BY <1>1, <1>2, <1>3, SMT DEF PageAddress
  <1>5. (PageAddress + r) % ChunksPerPage = r
    <2>1. k + page \in Nat BY <1>1, <1>2, SMT
    <2>2. ((k + page) * ChunksPerPage + r) % ChunksPerPage = r BY <1>1, <2>1, Remainder
    <2> QED BY <1>4, <2>2
  <1>6. PageAt(PageAddress + r) = PageAddress BY <1>1, <1>5, SMT DEF PageAt, PageAddress
  <1>7. page * ChunksPerPage + ChunksPerPage <= Current.mem BY <1>1, PageInside DEF Pages
  <1>8. page * ChunksPerPage + r \in Range1(Current.mem) BY <1>1, <1>7, SMT DEF Range1
  <1>9. PageAddress + r = Current.addr + (page * ChunksPerPage + r)
    BY <1>1, SMT DEF PageAddress
  <1> QED BY <1>6, <1>8, <1>9 DEF Memory

\* Different sections lie in different pages.
LEMMA SectionsApart ==
  ASSUME Buildable(img), NEW t \in DOMAIN img.sections, NEW u \in DOMAIN img.sections,
         NEW c, c \in Memory(img.sections[t]), c \in Memory(img.sections[u])
  PROVE  t = u BY DEF Buildable

LEMMA NotAdded ==
  ASSUME PositionInv, pc \in InSection, Buildable(img), page < Pages, AddBound <= page
  PROVE  ~AddedBefore(PageAddress)
  <1> SUFFICES ASSUME AddedBefore(PageAddress) PROVE FALSE OBVIOUS
  <1>1. PICK t \in DOMAIN img.sections : \E p \in Range1(PagesIn(img.sections[t])) :
          /\ PageAddress = img.sections[t].addr + p * ChunksPerPage
          /\ t = s => p < AddBound BY DEF AddedBefore
  <1>2. PICK p \in Range1(PagesIn(img.sections[t])) :
          /\ PageAddress = img.sections[t].addr + p * ChunksPerPage
          /\ t = s => p < AddBound BY <1>1
  <1>3. /\ ChunksPerPage \in Nat \ {0} /\ img.sections[t].addr \in Nat /\ img.sections[t].mem \in Nat
        /\ PagesIn(img.sections[t]) \in Nat BY GeometryAssumption, SectionOf DEF PositionInv
  <1>4. p \in Nat /\ p < img.sections[t].mem \div ChunksPerPage BY <1>3 DEF Range1, PagesIn
  <1>5. p * ChunksPerPage \in Nat /\ p * ChunksPerPage + ChunksPerPage <= img.sections[t].mem
    BY <1>3, <1>4, PageInside
  <1>6. PageAddress \in Memory(img.sections[t])
    <2>1. p * ChunksPerPage \in Range1(img.sections[t].mem) BY <1>3, <1>5, SMT DEF Range1
    <2> QED BY <1>2, <2>1 DEF Memory
  <1>7. PageAddress \in Memory(Current)
    <2>1. 0 \in Range1(ChunksPerPage) /\ PageAddress + 0 = PageAddress
      BY GeometryAssumption, InTheSection, SMT DEF Range1
    <2>2. PageAddress + 0 \in Memory(Current) BY <2>1, PageAligned
    <2> QED BY <2>1, <2>2
  <1>8. s \in DOMAIN img.sections BY InTheSection, CurrentOf DEF PositionInv
  <1>9. t = s BY <1>6, <1>7, <1>8, SectionsApart DEF Current
  <1>10. PageAddress = Current.addr + p * ChunksPerPage /\ p < AddBound
    BY <1>2, <1>9 DEF Current
  <1>11. page * ChunksPerPage = p * ChunksPerPage
    BY <1>5, <1>10, InTheSection DEF PageAddress
  <1>12. page \in Nat /\ AddBound \in Int BY InTheSection, BoundsAreInt
  <1>13. page = p BY <1>3, <1>4, <1>11, <1>12, TimesInjective
  <1> QED BY <1>10, <1>12, <1>13

LEMMA NotExtended ==
  ASSUME PositionInv, pc = "chunk", Buildable(img)
  PROVE  ~ExtendedBefore(PageAddress + chunk)
  <1> SUFFICES ASSUME ExtendedBefore(PageAddress + chunk) PROVE FALSE OBVIOUS
  <1>1. PICK t \in DOMAIN img.sections : \E c \in Range1(img.sections[t].mem) :
          /\ PageAddress + chunk = img.sections[t].addr + c
          /\ t = s => c < ExtendBound BY DEF ExtendedBefore
  <1>2. PICK c \in Range1(img.sections[t].mem) :
          /\ PageAddress + chunk = img.sections[t].addr + c
          /\ t = s => c < ExtendBound BY <1>1
  <1>3. pc \in InSection /\ page < Pages BY DEF InSection, PositionInv, SectionInv
  <1>4. PageAddress + chunk \in Memory(img.sections[t]) BY <1>2 DEF Memory
  <1>5. PageAddress + chunk \in Memory(Current) BY <1>3, PageAligned, InTheSection
  <1>6. s \in DOMAIN img.sections BY <1>3, InTheSection, CurrentOf DEF PositionInv
  <1>7. t = s BY <1>4, <1>5, <1>6, SectionsApart DEF Current
  <1>8. PageAddress + chunk = Current.addr + c /\ c < page * ChunksPerPage + chunk
    BY <1>2, <1>7 DEF Current, ExtendBound
  <1>9. c \in Int BY DEF Range1
  <1> QED BY <1>3, <1>8, <1>9, InTheSection, SMT DEF PageAddress

LEMMA ChunkOfImage ==
  ASSUME TypeOK, s \in DOMAIN img.sections, NEW c \in Memory(Current)
  PROVE  c \in UNION {UNION {Memory(m.sections[t]) : t \in DOMAIN m.sections} : m \in Images}
  BY DEF TypeOK, Current

\* measure_ovmf does not come to the search for the volume.
VolumeInv == pc = "volume" => job # "measure_ovmf"

LEMMA VolumeInit == Init => VolumeInv
  BY DEF Init, VolumeInv

LEMMA VolumeNext == VolumeInv /\ [Next]_vars => VolumeInv'
  <1>1. ASSUME VolumeInv, Locate PROVE VolumeInv'
    BY <1>1 DEF VolumeInv, Locate, ReadFooter, SearchTable, SearchFailed, ReadDescriptor, Context,
       ReadForeignSection, Goto, Refuse, GiveUp, Done, Crash, arguments
  <1>2. ASSUME MeasureOvmf PROVE VolumeInv'
    BY <1>2 DEF VolumeInv, MeasureOvmf, EnterSection, AddPage, PagesAdded, StartPage, PagesDone, ExtendChunk,
           Finalize, LeaveSection, GiveUp, Done, arguments
  <1>3. ASSUME VolumeInv, MeasureCfv PROVE VolumeInv'
    BY <1>3 DEF VolumeInv, MeasureCfv, SkipSection, HashVolume, NoVolume, OutOfMemory, GiveUp, Done, Crash,
           arguments
  <1> QED BY <1>1, <1>2, <1>3 DEF Next, Terminated, VolumeInv, vars, arguments

\* What the digest is that of a domain that can be built does not change.
LEMMA MeasuresKept ==
  ASSUME img' = img, job' = job
  PROVE  MeasuresTd' = MeasuresTd
  BY DEF MeasuresTd, Buildable, Sane, Aligned, Memory, Range1

LEMMA TdQuiet ==
  ASSUME img' = img, job' = job, ~MeasuresTd \/ (ctx' = ctx /\ digest' = digest)
  PROVE  UNCHANGED Td!tdVars BY MeasuresKept DEF Td!tdVars

LEMMA TdAdds ==
  ASSUME TdInv, MeasuresTd, pc \in InSection, page < Pages, AddBound = page,
         img' = img, job' = job, digest' = digest, ctx' = Append(ctx, MemPageAdd)
  PROVE  Td!TdNext
  <1>1. PositionInv /\ Buildable(img) /\ MeasuresTd' = MeasuresTd /\ digest = Garbage
    BY MeasuresKept DEF TdInv, MeasuresTd, PositionInv, DigestInv, InSection
  <1>2. page \in Nat /\ PageAddress \in Nat /\ s \in DOMAIN img.sections
    BY <1>1, InTheSection, CurrentOf DEF PositionInv
  <1>3. AddBound <= page BY <1>2, SMT
  <1>4. ~AddedBefore(PageAddress) BY <1>1, <1>3, NotAdded
  <1>5. \A j \in DOMAIN ctx : ctx[j].call = "add" => AddedBefore(ctx[j].at)
    BY DEF TdInv, CallsInv, InSection
  <1>6. PageAddress \notin Td!Added BY <1>4, <1>5 DEF Td!Added, Td!Calls
  <1>7. PageAt(PageAddress) = PageAddress /\ PageAddress \in Memory(Current)
    <2>1. 0 \in Range1(ChunksPerPage) /\ PageAddress + 0 = PageAddress
      BY <1>2, GeometryAssumption, SMT DEF Range1
    <2>2. PageAt(PageAddress + 0) = PageAddress /\ PageAddress + 0 \in Memory(Current)
      BY <1>1, <2>1, PageAligned
    <2> QED BY <2>1, <2>2
  <1>8. Td!TdhMemPageAdd(PageAt(PageAddress))
    BY <1>1, <1>6, <1>7 DEF Td!TdhMemPageAdd, Td!Record, MemPageAdd
  <1> QED BY <1>1, <1>2, <1>7, <1>8, ChunkOfImage DEF Td!TdNext, PositionInv

LEMMA TdExtends ==
  ASSUME TdInv, MeasuresTd, ExtendChunk, InsideImage
  PROVE  Td!TdNext
  <1> DEFINE at == PageAddress + chunk
  <1>1. /\ pc = "chunk" /\ pc \in InSection /\ img' = img /\ job' = job /\ digest' = digest
        /\ ctx' = Append(ctx, [call |-> "extend", at |-> at, data |-> DataOffset])
    BY DEF ExtendChunk, arguments, InSection
  <1>2. PositionInv /\ Buildable(img) /\ MeasuresTd' = MeasuresTd /\ digest = Garbage
        /\ page < Pages /\ Current.extend
    BY <1>1, MeasuresKept DEF TdInv, MeasuresTd, PositionInv, DigestInv, SectionInv
  <1>3. /\ page \in Nat /\ PageAddress \in Nat /\ s \in DOMAIN img.sections /\ Pages \in Nat
        /\ version \in {"9.2.0", "8.2.2"} /\ chunk \in Range1(ChunksPerPage) /\ DataOffset \in Nat
    BY <1>1, <1>2, InTheSection, CurrentOf DEF PositionInv
  <1>4. at \notin Td!Extended
    <2>1. ~ExtendedBefore(at) BY <1>1, <1>2, NotExtended
    <2>2. \A j \in DOMAIN ctx : ctx[j].call = "extend" => ExtendedBefore(ctx[j].at)
      BY <1>1 DEF TdInv, CallsInv, InSection
    <2> HIDE DEF at
    <2> QED BY <2>1, <2>2 DEF Td!Extended, Td!Calls
  <1>5. PageAt(at) = PageAddress /\ at \in Memory(Current) BY <1>1, <1>2, <1>3, PageAligned
  <1>6. PageAt(at) \in Td!Added
    <2>1. ~Current.aug BY <1>2, <1>3 DEF Buildable, Current
    <2>2. page \in Range1(AddBound) BY <1>1, <1>2, <1>3, SMT DEF AddBound, Range1
    <2>3. PageAdded(page) BY <1>1, <2>1, <2>2 DEF TdInv, PagesInv
    <2>4. PICK j \in DOMAIN ctx : ctx[j] = [call |-> "add", at |-> PageAddress]
      BY <2>3 DEF PageAdded, PageAddress
    <2>5. ctx[j].call = "add" /\ ctx[j].at = PageAddress BY <2>4
    <2> HIDE DEF at
    <2> QED BY <1>2, <1>5, <2>5 DEF Td!Added, Td!Calls, MeasuresTd
  <1>7. DataOffset \in UNION {Range1(m.size) : m \in Images}
    <2>1. DataOffset \in Range1(img.size)
      BY <1>2, <1>3, ImageOf, SMT DEF InsideImage, PositionInv, Range1
    <2> QED BY <1>2, <2>1 DEF PositionInv, TypeOK
  <1>8. Td!TdhMrExtend(at, DataOffset)
    BY <1>1, <1>2, <1>4, <1>6 DEF Td!TdhMrExtend, Td!Record
  <1>9. at \in UNION {UNION {Memory(m.sections[t]) : t \in DOMAIN m.sections} : m \in Images}
    BY <1>2, <1>3, <1>5, ChunkOfImage DEF PositionInv
  <1> HIDE DEF at
  <1> QED BY <1>7, <1>8, <1>9 DEF Td!TdNext

\* Every step is one of the TDX module or none of its business.
LEMMA TdStep ==
  ASSUME TdInv, VolumeInv, [Next]_vars
  PROVE  Td!TdNext \/ UNCHANGED Td!tdVars
  <1>1. CASE Locate \/ Terminated \/ UNCHANGED vars
    BY <1>1, TdQuiet
    DEF Locate, ReadFooter, SearchTable, SearchFailed, ReadDescriptor, Context, ReadForeignSection,
        Goto, Refuse, GiveUp, Done, Crash, arguments, Terminated, vars
  <1>2. CASE MeasureCfv
    <2>1. ~MeasuresTd
      BY <1>2 DEF MeasuresTd, VolumeInv, MeasureCfv, SkipSection, HashVolume, NoVolume, OutOfMemory
    <2>2. img' = img /\ job' = job
      BY <1>2 DEF MeasureCfv, SkipSection, HashVolume, NoVolume, OutOfMemory, GiveUp, Done, Crash, arguments
    <2> QED BY <2>1, <2>2, TdQuiet
  <1>3. CASE MeasureOvmf
    <2>1. img' = img /\ job' = job
      BY <1>3 DEF MeasureOvmf, EnterSection, AddPage, PagesAdded, StartPage, PagesDone, ExtendChunk,
           Finalize, LeaveSection, GiveUp, Done, arguments
    <2>2. CASE ~MeasuresTd BY <2>1, <2>2, TdQuiet
    <2>3. CASE MeasuresTd
      <3>1. CASE EnterSection \/ PagesAdded \/ PagesDone
        BY <2>1, <3>1, TdQuiet DEF EnterSection, PagesAdded, PagesDone, LeaveSection, GiveUp, Done
      <3>2. CASE AddPage
        <4>1. pc = "add" /\ pc \in InSection /\ page < Pages /\ ctx' = Append(ctx, MemPageAdd)
              /\ digest' = digest BY <3>2 DEF AddPage, InSection
        <4>2. AddBound = page BY <4>1 DEF AddBound
        <4> QED BY <2>1, <2>3, <4>1, <4>2, TdAdds
      <3>3. CASE StartPage
        <4>1. pc = "page" /\ pc \in InSection /\ page < Pages /\ digest' = digest
          BY <3>3 DEF StartPage, InSection
        <4>2. CASE version = "9.2.0" /\ ~Current.aug
          <5>1. ctx' = Append(ctx, MemPageAdd) BY <3>3, <4>2 DEF StartPage
          <5>2. AddBound = page BY <4>1, <4>2 DEF AddBound
          <5> QED BY <2>1, <2>3, <4>1, <5>1, <5>2, TdAdds
        <4>3. CASE ~(version = "9.2.0" /\ ~Current.aug)
          BY <2>1, <3>3, <4>3, TdQuiet DEF StartPage
        <4> QED BY <4>2, <4>3
      <3>4. CASE ExtendChunk
        BY <2>1, <2>3, <3>4, TdExtends, TdQuiet DEF ExtendChunk, GiveUp, Done
      <3>5. CASE Finalize
        <4>1. pc = "section" /\ ctx' = ctx /\ digest' = ctx BY <3>5 DEF Finalize, Done
        <4>2. digest = Garbage /\ ctx # Garbage
          BY <4>1, GeometryAssumption DEF TdInv, PositionInv, DigestInv, TypeOK
        <4>3. MeasuresTd' BY <2>1, <2>3, MeasuresKept
        <4> QED BY <2>3, <4>1, <4>2, <4>3 DEF Td!TdNext, Td!TdhMrFinalize
      <3> QED BY <1>3, <3>1, <3>2, <3>3, <3>4, <3>5 DEF MeasureOvmf
    <2> QED BY <2>2, <2>3
  <1> QED BY <1>1, <1>2, <1>3 DEF Next

\* The calls that measure_ovmf hashes for an image that can be built are calls
\* the TDX module accepts from QEMU: no page is added twice, no chunk is extended
\* twice or before its page, in either order of the two versions
\* (mrtd.c:243-344).
THEOREM ImplementsModule == HandlersSpec => ImplementsTdxModule
  <1>1. HandlersInit => TdInv /\ VolumeInv BY HandlersMeasure, TdInit, VolumeInit
  <1>2. TdInv /\ VolumeInv /\ [HandlersNext]_allVars => TdInv' /\ VolumeInv'
    BY HandlersMeasure, TdNextStep, VolumeNext
  <1>3. HandlersInit => Td!TdInit
    <2>1. Init => ctx = <<>> /\ digest = Garbage BY DEF Init
    <2> QED BY <2>1, HandlersMeasure DEF Td!TdInit
  <1>4. TdInv /\ VolumeInv /\ [HandlersNext]_allVars => [Td!TdNext]_(Td!tdVars)
    BY HandlersMeasure, TdStep
  <1> QED BY <1>1, <1>2, <1>3, <1>4, PTL DEF HandlersSpec, ImplementsTdxModule, Td!TdSpec

-----------------------------------------------------------------------------
(* The digest is the reference *)

\* The calls for the pages of a section: those that add, those that extend, and
\* both page by page.
AddsOf(sec) == [p \in 1 .. PagesIn(sec) |-> Add(sec, (p - 1) * ChunksPerPage)]

ExtendsOf(sec) == [p \in 1 .. PagesIn(sec) |-> Extend(sec, (p - 1) * ChunksPerPage)]

BothOf(sec) ==
  [p \in 1 .. PagesIn(sec) |->
     Add(sec, (p - 1) * ChunksPerPage) \o Extend(sec, (p - 1) * ChunksPerPage)]

\* The calls for the sections of an image.
CallsOf(m, v) ==
  [t \in DOMAIN m.sections |->
     IF v = "9.2.0" THEN Interleaved(m.sections[t]) ELSE Separate(m.sections[t])]

ChunksOf(sec, p, n) ==
  [c \in 1 .. n |-> [call |-> "extend", at |-> sec.addr + p + c - 1, data |-> sec.off + p + c - 1]]

\* What the section at s has contributed up to the page, and up to the chunk.
PagesSoFar ==
  IF version = "9.2.0" THEN Upto(BothOf(Current), page)
  ELSE FlattenSeq(AddsOf(Current)) \o Upto(ExtendsOf(Current), page)

PageSoFar ==
  (IF version = "9.2.0" THEN Add(Current, page * ChunksPerPage) ELSE <<>>)
    \o ChunksOf(Current, page * ChunksPerPage, chunk)

SectionsSoFar == Upto(CallsOf(img, version), s - 1)

Building == MeasuresTd /\ ~short /\ version # "other"

\* The search has not missed the metadata, and nothing has been hashed.
LocateInv ==
  /\ pc = "footer" => entry = 1
  /\ pc = "table" => img.footer = "table" /\ \A f \in 1 .. entry - 1 : img.table[f] # "metadata"
  /\ pc = "descriptor" => found
  /\ pc \in {"footer", "table", "descriptor", "context"} => ctx = <<>> /\ s = 1

\* The context holds the reference up to the place where the loops are.
ProgressInv ==
  /\ pc = "section" => ctx = SectionsSoFar
  /\ pc = "add" => ctx = SectionsSoFar \o Upto(AddsOf(Current), page)
  /\ pc = "add" /\ Current.aug => page = 0
  /\ pc = "page" => ctx = SectionsSoFar \o PagesSoFar
  /\ pc = "chunk" => ctx = (SectionsSoFar \o PagesSoFar) \o PageSoFar

EndInv == pc # "crashed" /\ (pc = "done" => ret = 0 /\ digest = ReferenceCalls(img, version))

ReferenceInv == Building => LocateInv /\ ProgressInv /\ EndInv

\* The calls for a page.
LEMMA AddExtendType ==
  ASSUME NEW sec \in Section, NEW p \in Nat
  PROVE  Add(sec, p) \in Seq(Call) /\ Extend(sec, p) \in Seq(Call)
  <1>1. sec.addr + p \in Nat /\ sec.off \in Nat /\ sec.addr \in Nat BY DEF Section
  <1>2. [call |-> "add", at |-> sec.addr + p] \in Call BY <1>1 DEF Call
  <1>3. Add(sec, p) \in Seq(Call) BY <1>2 DEF Add
  <1>4. ASSUME NEW c \in 1 .. ChunksPerPage
        PROVE  [call |-> "extend", at |-> sec.addr + p + c - 1, data |-> sec.off + p + c - 1] \in Call
    <2>1. sec.addr + p + c - 1 \in Nat /\ sec.off + p + c - 1 \in Nat
      BY <1>1, GeometryAssumption
    <2> QED BY <2>1 DEF Call
  <1>5. Extend(sec, p) \in Seq(Call) BY <1>4, GeometryAssumption DEF Extend
  <1> QED BY <1>3, <1>5

LEMMA SectionIs ==
  ASSUME TypeOK, NEW t \in DOMAIN img.sections
  PROVE  img.sections[t] \in Section /\ PagesIn(img.sections[t]) \in Nat
  BY ImageOf, SectionOf

\* The calls for the pages are sequences of sequences.
LEMMA PagesType ==
  ASSUME NEW sec \in Section, PagesIn(sec) \in Nat
  PROVE  /\ AddsOf(sec) \in Seq(Seq(Call)) /\ Len(AddsOf(sec)) = PagesIn(sec)
         /\ ExtendsOf(sec) \in Seq(Seq(Call)) /\ Len(ExtendsOf(sec)) = PagesIn(sec)
         /\ BothOf(sec) \in Seq(Seq(Call)) /\ Len(BothOf(sec)) = PagesIn(sec)
  <1>1. ASSUME NEW p \in 1 .. PagesIn(sec)
        PROVE  /\ Add(sec, (p - 1) * ChunksPerPage) \in Seq(Call)
               /\ Extend(sec, (p - 1) * ChunksPerPage) \in Seq(Call)
    <2>1. p - 1 \in Nat /\ ChunksPerPage \in Nat BY GeometryAssumption
    <2>2. (p - 1) * ChunksPerPage \in Nat BY <2>1, SMT
    <2> QED BY <2>2, AddExtendType
  <1>2. ASSUME NEW p \in 1 .. PagesIn(sec)
        PROVE  Add(sec, (p - 1) * ChunksPerPage) \o Extend(sec, (p - 1) * ChunksPerPage) \in Seq(Call)
    BY <1>1, ConcatProperties
  <1>3. AddsOf(sec) \in [1 .. PagesIn(sec) -> Seq(Call)] BY <1>1, Zenon DEF AddsOf
  <1>4. ExtendsOf(sec) \in [1 .. PagesIn(sec) -> Seq(Call)] BY <1>1, Zenon DEF ExtendsOf
  <1>5. BothOf(sec) \in [1 .. PagesIn(sec) -> Seq(Call)] BY <1>2, Zenon DEF BothOf
  <1> DEFINE T == Seq(Call)
  <1> HIDE DEF T
  <1>6. AddsOf(sec) \in Seq(T) /\ Len(AddsOf(sec)) = PagesIn(sec)
    BY <1>3, FunctionIsSeq DEF T
  <1>7. ExtendsOf(sec) \in Seq(T) /\ Len(ExtendsOf(sec)) = PagesIn(sec)
    BY <1>4, FunctionIsSeq DEF T
  <1>8. BothOf(sec) \in Seq(T) /\ Len(BothOf(sec)) = PagesIn(sec)
    BY <1>5, FunctionIsSeq DEF T
  <1> QED BY <1>6, <1>7, <1>8 DEF T

\* The reference for a section, page by page.
LEMMA CallsOfSection ==
  ASSUME NEW sec \in Section, PagesIn(sec) \in Nat
  PROVE  /\ Interleaved(sec) = FlattenSeq(BothOf(sec))
         /\ Separate(sec) = FlattenSeq(AddsOf(sec)) \o FlattenSeq(ExtendsOf(sec))
         /\ Interleaved(sec) \in Seq(Call) /\ Separate(sec) \in Seq(Call)
  <1>1. DOMAIN PagesOf(sec) = 1 .. PagesIn(sec)
        /\ \A p \in 1 .. PagesIn(sec) : PagesOf(sec)[p] = (p - 1) * ChunksPerPage
    BY DEF PagesOf, PagesIn
  <1>2. [p \in DOMAIN PagesOf(sec) |-> Add(sec, PagesOf(sec)[p])] = AddsOf(sec)
    BY <1>1, Zenon DEF AddsOf
  <1>3. [p \in DOMAIN PagesOf(sec) |-> Extend(sec, PagesOf(sec)[p])] = ExtendsOf(sec)
    BY <1>1, Zenon DEF ExtendsOf
  <1>4. [p \in DOMAIN PagesOf(sec) |-> Add(sec, PagesOf(sec)[p]) \o Extend(sec, PagesOf(sec)[p])]
          = BothOf(sec) BY <1>1, Zenon DEF BothOf
  <1>5. Interleaved(sec) = FlattenSeq(BothOf(sec)) BY <1>4 DEF Interleaved, ForEach
  <1>6. Separate(sec) = FlattenSeq(AddsOf(sec)) \o FlattenSeq(ExtendsOf(sec))
    BY <1>2, <1>3 DEF Separate, ForEach
  <1> QED BY <1>5, <1>6, PagesType, FlattenType, ConcatProperties

\* The reference for an image, section by section.
LEMMA CallsOfImage ==
  ASSUME TypeOK
  PROVE  /\ CallsOf(img, version) \in Seq(Seq(Call))
         /\ Len(CallsOf(img, version)) = Len(img.sections)
         /\ FlattenSeq(CallsOf(img, version)) = ReferenceCalls(img, version)
  <1>1. \A t \in DOMAIN img.sections :
          Interleaved(img.sections[t]) \in Seq(Call) /\ Separate(img.sections[t]) \in Seq(Call)
    BY SectionIs, CallsOfSection
  <1>2. CallsOf(img, version) \in Seq(Seq(Call)) /\ Len(CallsOf(img, version)) = Len(img.sections)
    BY <1>1, ImageOf DEF CallsOf
  <1>3. FlattenSeq(CallsOf(img, version)) = ReferenceCalls(img, version)
    <2>1. CASE version = "9.2.0" BY <2>1 DEF CallsOf, ReferenceCalls, ForEach
    <2>2. CASE version # "9.2.0" BY <2>2 DEF CallsOf, ReferenceCalls, ForEach
    <2> QED BY <2>1, <2>2
  <1> QED BY <1>2, <1>3

\* The next page of a section.
LEMMA NextPage ==
  ASSUME NEW sec \in Section, PagesIn(sec) \in Nat, NEW p \in 0 .. PagesIn(sec) - 1
  PROVE  LET add == Add(sec, p * ChunksPerPage)
             extend == Extend(sec, p * ChunksPerPage)
         IN  /\ add \in Seq(Call) /\ extend \in Seq(Call)
             /\ Upto(AddsOf(sec), p) \in Seq(Call)
             /\ Upto(AddsOf(sec), p + 1) = Upto(AddsOf(sec), p) \o add
             /\ Upto(ExtendsOf(sec), p) \in Seq(Call)
             /\ Upto(ExtendsOf(sec), p + 1) = Upto(ExtendsOf(sec), p) \o extend
             /\ Upto(BothOf(sec), p) \in Seq(Call)
             /\ Upto(BothOf(sec), p + 1) = Upto(BothOf(sec), p) \o (add \o extend)
  <1>1. p + 1 \in 1 .. PagesIn(sec) /\ p + 1 - 1 = p /\ p \in Nat /\ ChunksPerPage \in Nat
    BY GeometryAssumption
  <1>2. p * ChunksPerPage \in Nat BY <1>1, SMT
  <1> DEFINE add == Add(sec, p * ChunksPerPage)
             extend == Extend(sec, p * ChunksPerPage)
  <1>3. /\ AddsOf(sec)[p + 1] = add /\ ExtendsOf(sec)[p + 1] = extend
        /\ BothOf(sec)[p + 1] = add \o extend BY <1>1 DEF AddsOf, ExtendsOf, BothOf
  <1>4. add \in Seq(Call) /\ extend \in Seq(Call) BY <1>2, AddExtendType
  <1> HIDE DEF add, extend
  <1>5. /\ Upto(AddsOf(sec), p) \in Seq(Call) /\ Upto(AddsOf(sec), p + 1) = Upto(AddsOf(sec), p) \o add
    BY <1>3, PagesType, UptoNext
  <1>6. /\ Upto(ExtendsOf(sec), p) \in Seq(Call)
        /\ Upto(ExtendsOf(sec), p + 1) = Upto(ExtendsOf(sec), p) \o extend
    BY <1>3, PagesType, UptoNext
  <1>7. /\ Upto(BothOf(sec), p) \in Seq(Call)
        /\ Upto(BothOf(sec), p + 1) = Upto(BothOf(sec), p) \o (add \o extend)
    BY <1>3, PagesType, UptoNext
  <1> QED BY <1>4, <1>5, <1>6, <1>7 DEF add, extend

\* A section that is not added, or not extended, contributes no such calls.
LEMMA NoCalls ==
  ASSUME NEW sec \in Section, PagesIn(sec) \in Nat
  PROVE  /\ sec.aug => FlattenSeq(AddsOf(sec)) = <<>>
         /\ ~sec.extend => FlattenSeq(ExtendsOf(sec)) = <<>>
  <1>1. sec.aug => AddsOf(sec) \in [1 .. PagesIn(sec) -> {<<>>}] BY DEF AddsOf, Add
  <1>2. ~sec.extend => ExtendsOf(sec) \in [1 .. PagesIn(sec) -> {<<>>}]
    BY DEF ExtendsOf, Extend
  <1> QED BY <1>1, <1>2, FlattenEmpty

\* The next chunk of a page.
LEMMA NextChunk ==
  ASSUME NEW sec \in Section, NEW p \in Nat, NEW n \in Nat
  PROVE  LET c == [call |-> "extend", at |-> sec.addr + p + n, data |-> sec.off + p + n]
         IN  /\ ChunksOf(sec, p, n) \in Seq(Call) /\ c \in Call
             /\ ChunksOf(sec, p, n + 1) = Append(ChunksOf(sec, p, n), c)
             /\ ChunksOf(sec, p, 0) = <<>>
             /\ sec.extend => ChunksOf(sec, p, ChunksPerPage) = Extend(sec, p)
  <1> DEFINE e(j) == [call |-> "extend", at |-> sec.addr + p + j - 1, data |-> sec.off + p + j - 1]
  <1>1. sec.addr \in Nat /\ sec.off \in Nat BY DEF Section
  <1>2. ASSUME NEW j \in Nat \ {0} PROVE e(j) \in Call
    <2>1. sec.addr + p + j - 1 \in Nat /\ sec.off + p + j - 1 \in Nat BY <1>1
    <2> QED BY <2>1 DEF Call
  <1>3. ChunksOf(sec, p, n) \in Seq(Call)
    <2>1. \A j \in 1 .. n : e(j) \in Call BY <1>2
    <2> QED BY <2>1 DEF ChunksOf
  <1> DEFINE c == [call |-> "extend", at |-> sec.addr + p + n, data |-> sec.off + p + n]
  <1>4. c = e(n + 1) /\ c \in Call
    <2>1. sec.addr + p + (n + 1) - 1 = sec.addr + p + n /\ sec.off + p + (n + 1) - 1 = sec.off + p + n
      BY <1>1
    <2>2. c = e(n + 1) BY <2>1
    <2>3. n + 1 \in Nat \ {0} OBVIOUS
    <2> HIDE DEF c, e
    <2> QED BY <1>2, <2>2, <2>3
  <1>5. ChunksOf(sec, p, n + 1) = Append(ChunksOf(sec, p, n), c)
    <2>1. Len(ChunksOf(sec, p, n)) = n /\ \A j \in 1 .. n : ChunksOf(sec, p, n)[j] = e(j)
      BY DEF ChunksOf
    <2>2. /\ ChunksOf(sec, p, n + 1) = [j \in 1 .. n + 1 |-> e(j)] BY DEF ChunksOf
    <2>3. Append(ChunksOf(sec, p, n), c)
            = [j \in 1 .. n + 1 |-> IF j \in 1 .. n THEN ChunksOf(sec, p, n)[j] ELSE c]
      <3> HIDE DEF c, e
      <3> QED BY <1>3, <1>4, <2>1
    <2>4. \A j \in 1 .. n + 1 : (IF j \in 1 .. n THEN ChunksOf(sec, p, n)[j] ELSE c) = e(j)
      <3> HIDE DEF c, e
      <3>1. \A j \in 1 .. n + 1 : j \in 1 .. n \/ j = n + 1 OBVIOUS
      <3> QED BY <1>4, <2>1, <3>1
    <2> HIDE DEF c, e
    <2> QED BY <2>2, <2>3, <2>4
  <1>6. ChunksOf(sec, p, 0) = <<>> BY DEF ChunksOf
  <1>7. sec.extend => ChunksOf(sec, p, ChunksPerPage) = Extend(sec, p)
    BY DEF ChunksOf, Extend
  <1> QED BY <1>3, <1>4, <1>5, <1>6, <1>7

-----------------------------------------------------------------------------
(* One lemma for each action *)

PartsInv == LocateInv /\ ProgressInv /\ EndInv

LEMMA ReferenceLocate ==
  ASSUME PositionInv, Building, PartsInv, Locate
  PROVE  PartsInv'
  <1>1. /\ img.footer \in {"table", "plain"} /\ img.descriptor = "valid" /\ job = "measure_ovmf" /\ ~short
        /\ img.footer = "table" => \E e \in DOMAIN img.table :
             img.table[e] = "metadata" /\ \A f \in 1 .. e - 1 : img.table[f] # "zero"
    BY DEF Building, MeasuresTd, Buildable
  <1>2. entry \in Nat \ {0} /\ Len(img.table) \in Nat /\ DOMAIN img.table = 1 .. Len(img.table)
    BY ImageOf, ImagesAssumption DEF PositionInv, TypeOK, Image
  <1>3. CASE ReadFooter
    <2>1. /\ pc = "footer" /\ UNCHANGED <<img, entry, s, ctx, digest, ret>>
          /\ \/ pc' = "table" /\ img.footer = "table"
             \/ pc' = "descriptor" /\ found' = TRUE
      BY <1>1, <1>3 DEF ReadFooter, Goto, arguments
    <2>2. ctx = <<>> /\ s = 1 BY <2>1 DEF PartsInv, LocateInv
    <2>3. entry = 1 BY <2>1 DEF PartsInv, LocateInv
    <2>4. pc' = "table" => \A f \in 1 .. entry' - 1 : img'.table[f] # "metadata"
      BY <2>1, <2>3
    <2> QED BY <2>1, <2>2, <2>4 DEF PartsInv, LocateInv, ProgressInv, EndInv
  <1>4. CASE SearchTable
    <2>1. pc = "table" /\ img.footer = "table" /\ entry <= Len(img.table)
          /\ \A f \in 1 .. entry - 1 : img.table[f] # "metadata"
      BY <1>4 DEF SearchTable, PartsInv, LocateInv
    <2>2. UNCHANGED <<img, s, ctx, digest, ret>> BY <1>4 DEF SearchTable, arguments
    <2>3. CASE img.table[entry] = "metadata"
      <3>1. pc' = "descriptor" /\ found' = TRUE BY <1>4, <2>3 DEF SearchTable
      <3> QED BY <2>1, <2>2, <3>1 DEF PartsInv, LocateInv, ProgressInv, EndInv
    <2>4. CASE img.table[entry] # "metadata"
      <3>1. PICK e \in 1 .. Len(img.table) :
              img.table[e] = "metadata" /\ \A f \in 1 .. e - 1 : img.table[f] # "zero"
        BY <1>1, <1>2, <2>1
      <3>2. pc' = "table" /\ entry' \in {entry, entry + 1}
        BY <1>4, <2>1, <2>4 DEF SearchTable
      <3>a. PICK n : n = entry' OBVIOUS
      <3>3. \A f \in 1 .. n - 1 : img.table[f] # "metadata"
        <4>1. n \in Int /\ n <= entry + 1 BY <1>2, <3>2, <3>a
        <4>2. \A f \in 1 .. n - 1 : f \in 1 .. entry - 1 \/ f = entry BY <1>2, <4>1
        <4> QED BY <2>1, <2>4, <4>2
      <3> QED BY <2>1, <2>2, <3>2, <3>a, <3>3 DEF PartsInv, LocateInv, ProgressInv, EndInv
    <2> QED BY <2>3, <2>4
  <1>5. CASE SearchFailed
    <2>1. PICK e \in 1 .. Len(img.table) : img.table[e] = "metadata"
      BY <1>1, <1>2, <1>5 DEF SearchFailed, PartsInv, LocateInv
    <2>2. entry > Len(img.table) /\ \A f \in 1 .. entry - 1 : img.table[f] # "metadata"
      BY <1>5 DEF SearchFailed, PartsInv, LocateInv
    <2> QED BY <1>2, <2>1, <2>2
  <1>6. CASE ReadDescriptor
    <2>1. found /\ pc' = "context" /\ UNCHANGED <<img, s, ctx, digest, ret>>
      BY <1>1, <1>6 DEF ReadDescriptor, Refuse, Crash, Goto, PartsInv, LocateInv, arguments
    <2>2. ctx = <<>> /\ s = 1 BY <1>6 DEF ReadDescriptor, PartsInv, LocateInv
    <2> QED BY <2>1, <2>2 DEF PartsInv, LocateInv, ProgressInv, EndInv
  <1>7. CASE Context
    <2>1. pc' = "section" /\ UNCHANGED <<img, version, s, ctx, digest, ret>>
      BY <1>1, <1>7 DEF Context, Goto, GiveUp, arguments
    <2>2. ctx' = <<>> /\ s' = 1 BY <1>7, <2>1 DEF Context, PartsInv, LocateInv
    <2>3. SectionsSoFar' = <<>> BY <2>1, <2>2, UptoStart DEF SectionsSoFar
    <2> QED BY <2>1, <2>2, <2>3 DEF PartsInv, LocateInv, ProgressInv, EndInv
  <1>8. CASE ReadForeignSection
    <2>1. img.held >= Len(img.sections) /\ s <= Len(img.sections) /\ s > img.held
      BY <1>8 DEF ReadForeignSection, Building, MeasuresTd, Buildable
    <2>2. s \in Nat /\ img.held \in Nat /\ Len(img.sections) \in Nat
      BY ImagesAssumption, ImageOf DEF PositionInv, TypeOK, Image
    <2> QED BY <2>1, <2>2, SMT
  <1> QED BY <1>3, <1>4, <1>5, <1>6, <1>7, <1>8 DEF Locate

\* The section at s of an image that can be built.
LEMMA BuildableSection ==
  ASSUME TypeOK, Building, s <= Len(img.sections)
  PROVE  /\ Sane(Current) /\ Current \in Section /\ PagesIn(Current) \in Nat /\ Pages = PagesIn(Current)
         /\ Current.extend => ~Current.aug /\ Current.off + Current.mem <= img.size
         /\ SectionsSoFar \in Seq(Call)
         /\ Upto(CallsOf(img, version), s)
              = SectionsSoFar \o (IF version = "9.2.0" THEN Interleaved(Current) ELSE Separate(Current))
  <1>1. s \in DOMAIN img.sections /\ s - 1 \in 0 .. Len(img.sections) - 1 /\ s - 1 + 1 = s
    BY ImageOf
  <1>2. Current \in Section /\ PagesIn(Current) \in Nat /\ Pages = PagesIn(Current)
    BY <1>1, SectionIs DEF Current, Pages, PagesIn
  <1>3. Sane(Current) /\ (Current.extend => ~Current.aug /\ Current.off + Current.mem <= img.size)
    BY <1>1 DEF Building, MeasuresTd, Buildable, Current
  <1>4. CallsOf(img, version)[s] = IF version = "9.2.0" THEN Interleaved(Current) ELSE Separate(Current)
    BY <1>1 DEF CallsOf, Current
  <1>5. /\ Upto(CallsOf(img, version), s - 1 + 1)
             = Upto(CallsOf(img, version), s - 1) \o CallsOf(img, version)[s - 1 + 1]
        /\ Upto(CallsOf(img, version), s - 1) \in Seq(Call) BY <1>1, CallsOfImage, UptoNext
  <1> QED BY <1>1, <1>2, <1>3, <1>4, <1>5 DEF SectionsSoFar

\* The next section.
LEMMA ReferenceLeave ==
  ASSUME PositionInv, Building, PartsInv, pc \in InSection, LeaveSection,
         ctx = SectionsSoFar \o (IF version = "9.2.0" THEN Interleaved(Current) ELSE Separate(Current))
  PROVE  PartsInv'
  <1>1. pc' = "section" /\ s' = s + 1 /\ UNCHANGED <<img, version, ctx, digest, ret>>
    BY DEF LeaveSection, arguments
  <1>2. s <= Len(img.sections) /\ s \in Nat /\ s + 1 - 1 = s
    BY InTheSection, ImageOf DEF PositionInv
  <1>3. ctx' = Upto(CallsOf(img, version), s)
    BY <1>1, <1>2, BuildableSection DEF PositionInv
  <1>4. SectionsSoFar' = Upto(CallsOf(img, version), s) BY <1>1, <1>2 DEF SectionsSoFar
  <1> QED BY <1>1, <1>3, <1>4 DEF PartsInv, LocateInv, ProgressInv, EndInv

LEMMA ReferenceEnter ==
  ASSUME PositionInv, Building, PartsInv, EnterSection
  PROVE  PartsInv'
  <1>1. pc = "section" /\ s <= Len(img.sections) /\ ctx = SectionsSoFar
    BY DEF EnterSection, PartsInv, ProgressInv
  <1>2. /\ Sane(Current) /\ Current \in Section /\ PagesIn(Current) \in Nat /\ version # "other"
        /\ SectionsSoFar \in Seq(Call) BY <1>1, BuildableSection DEF PositionInv, Building
  <1>3. /\ pc' = (IF version = "9.2.0" THEN "page" ELSE "add") /\ page' = 0
        /\ UNCHANGED <<img, version, s, ctx, digest, ret>>
    BY <1>1, <1>2 DEF EnterSection, arguments
  <1>4. Current' = Current /\ SectionsSoFar' = SectionsSoFar
    BY <1>3 DEF Current, SectionsSoFar
  <1>5. version = "9.2.0" => PagesSoFar' = <<>> BY <1>3, <1>4, UptoStart DEF PagesSoFar
  <1>6. Upto(AddsOf(Current'), page') = <<>> BY <1>3, UptoStart
  <1>7. ctx' = SectionsSoFar' \o <<>> BY <1>1, <1>2, <1>3, <1>4, ConcatEmpty
  <1> QED BY <1>3, <1>5, <1>6, <1>7 DEF PartsInv, LocateInv, ProgressInv, EndInv

LEMMA ReferenceAddPage ==
  ASSUME PositionInv, Building, PartsInv, AddPage
  PROVE  PartsInv'
  <1>1. pc = "add" /\ pc \in InSection /\ ~Current.aug /\ page < Pages
    BY DEF AddPage, InSection
  <1>2. /\ pc' = "add" /\ ctx' = Append(ctx, MemPageAdd) /\ page' = page + 1
        /\ UNCHANGED <<img, version, s, digest, ret>> BY DEF AddPage, arguments
  <1>3. /\ s <= Len(img.sections) /\ page \in Nat /\ Pages = PagesIn(Current) /\ Pages \in Nat
        /\ Current \in Section /\ SectionsSoFar \in Seq(Call) /\ page \in 0 .. PagesIn(Current) - 1
    BY <1>1, InTheSection, BuildableSection DEF PositionInv
  <1>4. Current' = Current /\ SectionsSoFar' = SectionsSoFar
    BY <1>2 DEF Current, SectionsSoFar
  <1>5. Add(Current, page * ChunksPerPage) = <<MemPageAdd>>
    BY <1>1 DEF Add, MemPageAdd, PageAddress
  <1> DEFINE adds == Upto(AddsOf(Current), page)
  <1>6. /\ adds \in Seq(Call) /\ Upto(AddsOf(Current), page + 1) = adds \o <<MemPageAdd>>
        /\ <<MemPageAdd>> \in Seq(Call) BY <1>3, <1>5, NextPage
  <1>7. ctx = SectionsSoFar \o adds BY <1>1 DEF PartsInv, ProgressInv
  <1>8. Append(SectionsSoFar \o adds, MemPageAdd) = SectionsSoFar \o (adds \o <<MemPageAdd>>)
    <2> HIDE DEF adds
    <2>1. MemPageAdd \in Call BY <1>6
    <2>2. Append(adds, MemPageAdd) = adds \o <<MemPageAdd>> BY <1>6, <2>1
    <2>3. Append(SectionsSoFar \o adds, MemPageAdd) = SectionsSoFar \o Append(adds, MemPageAdd)
      <3> HIDE DEF SectionsSoFar, MemPageAdd
      <3>1. SectionsSoFar \in Seq(Call) /\ adds \in Seq(Call) BY <1>3, <1>6
      <3> QED BY <3>1, <2>1
    <2> QED BY <2>2, <2>3
  <1>9. ctx' = SectionsSoFar' \o Upto(AddsOf(Current'), page')
    BY <1>2, <1>4, <1>6, <1>7, <1>8
  <1> QED BY <1>1, <1>2, <1>4, <1>9 DEF PartsInv, LocateInv, ProgressInv, EndInv

LEMMA ReferencePagesAdded ==
  ASSUME PositionInv, Building, PartsInv, PagesAdded
  PROVE  PartsInv'
  <1>1. /\ pc = "add" /\ pc \in InSection /\ version = "8.2.2"
        /\ Current.aug \/ page = Pages
        /\ ctx = SectionsSoFar \o Upto(AddsOf(Current), page)
        /\ Current.aug => page = 0
    BY DEF PagesAdded, InSection, PositionInv, SectionInv, PartsInv, ProgressInv
  <1>2. /\ s <= Len(img.sections) /\ Pages = PagesIn(Current) /\ PagesIn(Current) \in Nat
        /\ Current \in Section /\ SectionsSoFar \in Seq(Call)
    BY <1>1, InTheSection, BuildableSection DEF PositionInv
  <1>3. /\ AddsOf(Current) \in Seq(Seq(Call)) /\ Len(AddsOf(Current)) = PagesIn(Current)
        /\ FlattenSeq(AddsOf(Current)) \in Seq(Call) BY <1>2, PagesType, FlattenType
  <1>4. Upto(AddsOf(Current), page) = FlattenSeq(AddsOf(Current))
    <2>1. CASE page = Pages BY <1>2, <1>3, <2>1, UptoEnd
    <2>2. CASE Current.aug BY <1>1, <1>2, <2>2, NoCalls, UptoStart
    <2> QED BY <1>1, <2>1, <2>2
  <1>5. CASE Current.extend
    <2>1. pc' = "page" /\ page' = 0 /\ UNCHANGED <<img, version, s, ctx, digest, ret>>
      BY <1>5 DEF PagesAdded, arguments
    <2>2. Current' = Current /\ SectionsSoFar' = SectionsSoFar
      BY <2>1 DEF Current, SectionsSoFar
    <2>3. PagesSoFar' = FlattenSeq(AddsOf(Current)) \o <<>>
      BY <1>1, <2>1, <2>2, UptoStart DEF PagesSoFar
    <2>4. ctx' = SectionsSoFar' \o PagesSoFar'
      BY <1>1, <1>3, <1>4, <2>1, <2>2, <2>3, ConcatEmpty
    <2> QED BY <2>1, <2>4 DEF PartsInv, LocateInv, ProgressInv, EndInv
  <1>6. CASE ~Current.extend
    <2>1. LeaveSection BY <1>6 DEF PagesAdded
    <2>2. Separate(Current) = FlattenSeq(AddsOf(Current)) \o <<>>
      BY <1>2, <1>6, CallsOfSection, NoCalls
    <2>3. ctx = SectionsSoFar \o Separate(Current) BY <1>1, <1>3, <1>4, <2>2, ConcatEmpty
    <2> QED BY <1>1, <2>1, <2>3, ReferenceLeave
  <1> QED BY <1>5, <1>6

LEMMA ReferenceStartPage ==
  ASSUME PositionInv, Building, PartsInv, StartPage
  PROVE  PartsInv'
  <1>1. pc = "page" /\ pc \in InSection /\ page < Pages /\ ctx = SectionsSoFar \o PagesSoFar
    BY DEF StartPage, InSection, PartsInv, ProgressInv
  <1>2. /\ s <= Len(img.sections) /\ Pages = PagesIn(Current) /\ Pages \in Nat /\ page \in Nat
        /\ Current \in Section /\ SectionsSoFar \in Seq(Call) /\ page \in 0 .. PagesIn(Current) - 1
        /\ version \in {"9.2.0", "8.2.2"} /\ page * ChunksPerPage \in Nat
    BY <1>1, InTheSection, BuildableSection DEF PositionInv
  <1>3. UNCHANGED <<img, version, s, digest, ret>> /\ chunk' = 0 BY DEF StartPage, arguments
  <1>4. Current' = Current /\ SectionsSoFar' = SectionsSoFar
    BY <1>3 DEF Current, SectionsSoFar
  <1> DEFINE add == Add(Current, page * ChunksPerPage)
             extend == Extend(Current, page * ChunksPerPage)
             more == IF version = "9.2.0" THEN add ELSE <<>>
  <1>5. /\ add \in Seq(Call) /\ extend \in Seq(Call)
        /\ Upto(BothOf(Current), page) \in Seq(Call)
        /\ Upto(BothOf(Current), page + 1) = Upto(BothOf(Current), page) \o (add \o extend)
        /\ Upto(ExtendsOf(Current), page) \in Seq(Call)
        /\ Upto(ExtendsOf(Current), page + 1) = Upto(ExtendsOf(Current), page) \o extend
        /\ FlattenSeq(AddsOf(Current)) \in Seq(Call)
    BY <1>2, NextPage, PagesType, FlattenType
  <1>6. PagesSoFar \in Seq(Call) /\ more \in Seq(Call)
    BY <1>5, ConcatProperties DEF PagesSoFar
  <1>7. ctx' = ctx \o more
    <2>1. ctx \in Seq(Call) BY DEF PositionInv, TypeOK
    <2>2. CASE version = "9.2.0" /\ ~Current.aug
      <3>1. add = <<MemPageAdd>> BY <2>2 DEF Add, MemPageAdd, PageAddress
      <3>2. ctx' = Append(ctx, MemPageAdd) BY <2>2 DEF StartPage
      <3>3. MemPageAdd \in Call
        <4>1. PageAddress \in Nat BY <1>1, InTheSection
        <4> QED BY <4>1 DEF MemPageAdd, Call
      <3>4. Append(ctx, MemPageAdd) = ctx \o <<MemPageAdd>>
        <4> HIDE DEF MemPageAdd
        <4> QED BY <2>1, <3>3
      <3> QED BY <2>2, <3>1, <3>2, <3>4
    <2>3. CASE ~(version = "9.2.0" /\ ~Current.aug)
      <3>1. ctx' = ctx /\ more = <<>> BY <2>3 DEF StartPage, Add
      <3> QED BY <2>1, <3>1, ConcatEmpty
    <2> QED BY <2>2, <2>3
  <1>8. ctx' = (SectionsSoFar \o PagesSoFar) \o more BY <1>1, <1>7
  <1> HIDE DEF add, extend, more
  <1>9. CASE Current.extend
    <2>1. pc' = "chunk" /\ page' = page BY <1>9 DEF StartPage
    <2>2. ChunksOf(Current, page * ChunksPerPage, 0) = <<>> BY DEF ChunksOf
    <2>3. PageSoFar' = more \o <<>> BY <1>3, <1>4, <2>1, <2>2 DEF PageSoFar, more, add
    <2>4. PageSoFar' = more /\ PagesSoFar' = PagesSoFar
      BY <1>3, <1>4, <1>6, <2>1, <2>3, ConcatEmpty DEF PagesSoFar
    <2> QED BY <1>4, <1>8, <2>1, <2>4 DEF PartsInv, LocateInv, ProgressInv, EndInv
  <1>10. CASE ~Current.extend
    <2>1. pc' = "page" /\ page' = page + 1 BY <1>10 DEF StartPage
    <2>2. extend = <<>> BY <1>10 DEF extend, Extend
    <2>3. PagesSoFar' = PagesSoFar \o more
      <3>1. CASE version = "9.2.0"
        <4>1. PagesSoFar' = Upto(BothOf(Current), page + 1) /\ more = add
          BY <1>3, <1>4, <2>1, <3>1 DEF PagesSoFar, more
        <4> QED BY <1>5, <2>2, <3>1, <4>1, ConcatEmpty DEF PagesSoFar
      <3>2. CASE version # "9.2.0"
        <4>1. PagesSoFar' = FlattenSeq(AddsOf(Current)) \o Upto(ExtendsOf(Current), page + 1) /\ more = <<>>
          BY <1>3, <1>4, <2>1, <3>2 DEF PagesSoFar, more
        <4>2. PagesSoFar' = PagesSoFar BY <1>5, <2>2, <3>2, <4>1, ConcatEmpty DEF PagesSoFar
        <4> QED BY <1>6, <4>1, <4>2, ConcatEmpty
      <3> QED BY <3>1, <3>2
    <2>4. (SectionsSoFar \o PagesSoFar) \o more = SectionsSoFar \o (PagesSoFar \o more)
      <3>1. SectionsSoFar \in Seq(Call) BY <1>2
      <3> QED BY <1>6, <3>1
    <2>5. ctx' = SectionsSoFar' \o PagesSoFar' BY <1>4, <1>8, <2>3, <2>4
    <2> QED BY <1>3, <2>1, <2>5 DEF PartsInv, LocateInv, ProgressInv, EndInv
  <1> QED BY <1>9, <1>10

LEMMA ReferencePagesDone ==
  ASSUME PositionInv, Building, PartsInv, PagesDone
  PROVE  PartsInv'
  <1>1. pc = "page" /\ pc \in InSection /\ page = Pages /\ LeaveSection /\ ctx = SectionsSoFar \o PagesSoFar
    BY DEF PagesDone, InSection, PartsInv, ProgressInv
  <1>2. /\ Pages = PagesIn(Current) /\ PagesIn(Current) \in Nat /\ Current \in Section
    BY <1>1, InTheSection, BuildableSection DEF PositionInv
  <1>3. /\ Upto(BothOf(Current), page) = FlattenSeq(BothOf(Current))
        /\ Upto(ExtendsOf(Current), page) = FlattenSeq(ExtendsOf(Current))
    BY <1>1, <1>2, PagesType, UptoEnd
  <1>4. PagesSoFar = IF version = "9.2.0" THEN Interleaved(Current) ELSE Separate(Current)
    BY <1>2, <1>3, CallsOfSection DEF PagesSoFar
  <1> QED BY <1>1, <1>4, ReferenceLeave

LEMMA ReferenceExtendChunk ==
  ASSUME PositionInv, Building, PartsInv, ExtendChunk
  PROVE  PartsInv'
  <1>1. /\ pc = "chunk" /\ pc \in InSection /\ page < Pages /\ Current.extend
        /\ ctx = (SectionsSoFar \o PagesSoFar) \o PageSoFar
    BY DEF ExtendChunk, InSection, PartsInv, ProgressInv, PositionInv, SectionInv
  <1>2. /\ s <= Len(img.sections) /\ Pages = PagesIn(Current) /\ Pages \in Nat /\ page \in Nat
        /\ Current \in Section /\ SectionsSoFar \in Seq(Call) /\ page \in 0 .. PagesIn(Current) - 1
        /\ version \in {"9.2.0", "8.2.2"} /\ page * ChunksPerPage \in Nat
        /\ chunk \in Nat /\ chunk < ChunksPerPage /\ Current.off + Current.mem <= img.size
    <2>1. s <= Len(img.sections) /\ page \in Nat /\ Pages \in Nat /\ page * ChunksPerPage \in Nat
          /\ version \in {"9.2.0", "8.2.2"} /\ chunk \in Nat /\ chunk \in Range1(ChunksPerPage)
      BY <1>1, InTheSection
    <2>2. Pages = PagesIn(Current) /\ Current \in Section /\ SectionsSoFar \in Seq(Call)
          /\ Current.off + Current.mem <= img.size
      BY <1>1, <2>1, BuildableSection DEF PositionInv
    <2>3. page \in 0 .. PagesIn(Current) - 1 BY <1>1, <2>1, <2>2
    <2>4. chunk < ChunksPerPage BY <2>1, GeometryAssumption DEF Range1
    <2> QED BY <2>1, <2>2, <2>3, <2>4
  <1>3. InsideImage
    <2>1. page * ChunksPerPage + ChunksPerPage <= Current.mem
      BY <1>1, <1>2, PageInside, SectionOf, GeometryAssumption DEF Section, Pages
    <2>2. Current.off \in Nat /\ Current.mem \in Nat /\ img.size \in Nat /\ ChunksPerPage \in Nat
      BY <1>2, ImageOf DEF Section, PositionInv
    <2> QED BY <1>2, <2>1, <2>2, SMT DEF InsideImage, DataOffset
  <1> DEFINE c == [call |-> "extend", at |-> PageAddress + chunk, data |-> DataOffset]
             p == page * ChunksPerPage
             add == Add(Current, p)
             extend == Extend(Current, p)
             more == IF version = "9.2.0" THEN add ELSE <<>>
             chunks == ChunksOf(Current, p, chunk)
  <1>4. /\ ctx' = Append(ctx, c) /\ UNCHANGED <<img, version, s, digest, ret>>
        /\ IF chunk + 1 = ChunksPerPage
           THEN pc' = "page" /\ page' = page + 1
           ELSE pc' = "chunk" /\ page' = page /\ chunk' = chunk + 1
    BY <1>1, <1>3 DEF ExtendChunk, arguments
  <1>5. Current' = Current /\ SectionsSoFar' = SectionsSoFar
    BY <1>4 DEF Current, SectionsSoFar
  <1>6. /\ add \in Seq(Call) /\ extend \in Seq(Call)
        /\ Upto(BothOf(Current), page) \in Seq(Call)
        /\ Upto(BothOf(Current), page + 1) = Upto(BothOf(Current), page) \o (add \o extend)
        /\ Upto(ExtendsOf(Current), page) \in Seq(Call)
        /\ Upto(ExtendsOf(Current), page + 1) = Upto(ExtendsOf(Current), page) \o extend
        /\ FlattenSeq(AddsOf(Current)) \in Seq(Call)
    BY <1>2, NextPage, PagesType, FlattenType
  <1>7. PagesSoFar \in Seq(Call) /\ more \in Seq(Call)
    BY <1>6, ConcatProperties DEF PagesSoFar
  <1>8. /\ chunks \in Seq(Call) /\ c \in Call
        /\ ChunksOf(Current, p, chunk + 1) = Append(chunks, c)
        /\ ChunksOf(Current, p, ChunksPerPage) = extend
    BY <1>1, <1>2, NextChunk DEF PageAddress, DataOffset
  <1>9. PageSoFar = more \o chunks BY DEF PageSoFar
  <1>10. ctx' = (SectionsSoFar \o PagesSoFar) \o (more \o ChunksOf(Current, p, chunk + 1))
    <2> HIDE DEF c, p, more, chunks
    <2> DEFINE before == SectionsSoFar \o PagesSoFar
    <2>0. more \in Seq(Call) /\ chunks \in Seq(Call) /\ c \in Call BY <1>7, <1>8
    <2>1. before \in Seq(Call) /\ more \o chunks \in Seq(Call)
      BY <1>2, <1>7, <2>0, ConcatProperties
    <2> HIDE DEF before
    <2>2. Append(before \o (more \o chunks), c) = before \o Append(more \o chunks, c)
      <3> DEFINE local == more \o chunks
      <3>1. local \in Seq(Call) BY <2>1
      <3> HIDE DEF local
      <3>2. before \in Seq(Call) /\ c \in Call BY <2>0, <2>1
      <3>3. Append(before \o local, c) = before \o Append(local, c) BY <3>1, <3>2
      <3> QED BY <3>3 DEF local
    <2>3. Append(more \o chunks, c) = more \o Append(chunks, c) BY <2>0
    <2> QED BY <1>1, <1>4, <1>8, <1>9, <2>2, <2>3 DEF before
  <1>11. CASE chunk + 1 # ChunksPerPage
    <2>1. pc' = "chunk" /\ page' = page /\ chunk' = chunk + 1 BY <1>4, <1>11
    <2>2. PageSoFar' = more \o ChunksOf(Current, p, chunk + 1) /\ PagesSoFar' = PagesSoFar
      BY <1>4, <1>5, <2>1 DEF PageSoFar, PagesSoFar
    <2> QED BY <1>4, <1>5, <1>10, <2>1, <2>2 DEF PartsInv, LocateInv, ProgressInv, EndInv
  <1>12. CASE chunk + 1 = ChunksPerPage
    <2>1. pc' = "page" /\ page' = page + 1 BY <1>4, <1>12
    <2>2. ctx' = (SectionsSoFar \o PagesSoFar) \o (more \o extend) BY <1>8, <1>10, <1>12
    <2> HIDE DEF add, extend
    <2>3. PagesSoFar' = PagesSoFar \o (more \o extend)
      <3>1. CASE version = "9.2.0"
        <4>1. PagesSoFar' = Upto(BothOf(Current), page + 1) /\ PagesSoFar = Upto(BothOf(Current), page)
          BY <1>4, <1>5, <2>1, <3>1 DEF PagesSoFar
        <4> QED BY <1>6, <3>1, <4>1
      <3>2. CASE version # "9.2.0"
        <4>1. /\ PagesSoFar' = FlattenSeq(AddsOf(Current)) \o Upto(ExtendsOf(Current), page + 1)
              /\ PagesSoFar = FlattenSeq(AddsOf(Current)) \o Upto(ExtendsOf(Current), page)
          BY <1>4, <1>5, <2>1, <3>2 DEF PagesSoFar
        <4>2. more \o extend = extend BY <1>6, <3>2, ConcatEmpty
        <4> DEFINE a == FlattenSeq(AddsOf(Current))
                   b == Upto(ExtendsOf(Current), page)
        <4>3. a \in Seq(Call) /\ b \in Seq(Call) BY <1>6
        <4>4. (a \o b) \o extend = a \o (b \o extend)
          <5>1. extend \in Seq(Call) BY <1>6
          <5> HIDE DEF a, b
          <5> QED BY <4>3, <5>1
        <4> QED BY <1>6, <4>1, <4>2, <4>4
      <3> QED BY <3>1, <3>2
    <2>4. ctx' = SectionsSoFar' \o PagesSoFar'
      <3> DEFINE rest == more \o extend
      <3>1. rest \in Seq(Call) BY <1>6, <1>7, ConcatProperties
      <3> HIDE DEF rest, more
      <3>2. (SectionsSoFar \o PagesSoFar) \o rest = SectionsSoFar \o (PagesSoFar \o rest)
        <4>1. SectionsSoFar \in Seq(Call) BY <1>2
        <4> QED BY <1>7, <3>1, <4>1
      <3> QED BY <1>5, <2>2, <2>3, <3>2 DEF rest
    <2> QED BY <1>4, <2>1, <2>4 DEF PartsInv, LocateInv, ProgressInv, EndInv
  <1> QED BY <1>11, <1>12

LEMMA ReferenceFinalize ==
  ASSUME PositionInv, Building, PartsInv, Finalize
  PROVE  PartsInv'
  <1>1. pc = "section" /\ s > Len(img.sections) /\ ctx = SectionsSoFar
    BY DEF Finalize, PartsInv, ProgressInv
  <1>2. s - 1 = Len(img.sections) BY <1>1, ImageOf DEF PositionInv, TypeOK
  <1>3. ctx = ReferenceCalls(img, version)
    BY <1>1, <1>2, CallsOfImage, UptoEnd DEF SectionsSoFar, PositionInv
  <1>4. pc' = "done" /\ ret' = 0 /\ digest' = ctx /\ UNCHANGED <<img, version>>
    BY DEF Finalize, Done, arguments
  <1> QED BY <1>3, <1>4 DEF PartsInv, LocateInv, ProgressInv, EndInv

LEMMA ReferenceNext ==
  ASSUME PositionInv, VolumeInv, ReferenceInv, [Next]_vars
  PROVE  ReferenceInv'
  <1>1. UNCHANGED <<img, job, version, short>>
    BY DEF Next, Locate, MeasureOvmf, MeasureCfv, Terminated, ReadFooter, SearchTable, SearchFailed, ReadDescriptor,
       Context, ReadForeignSection, EnterSection, AddPage, PagesAdded, StartPage, PagesDone,
       ExtendChunk, Finalize, SkipSection, HashVolume, NoVolume, OutOfMemory, LeaveSection, Refuse,
       GiveUp, Done, Crash, Goto, arguments, vars
  <1>2. Building' = Building BY <1>1, MeasuresKept DEF Building
  <1> SUFFICES ASSUME Building PROVE PartsInv' BY <1>2 DEF ReferenceInv, PartsInv
  <1>3. PartsInv BY DEF ReferenceInv, PartsInv
  <1>4. CASE Locate BY <1>3, <1>4, ReferenceLocate
  <1>5. CASE MeasureOvmf
    BY <1>3, <1>5, ReferenceEnter, ReferenceAddPage, ReferencePagesAdded, ReferenceStartPage, ReferencePagesDone,
       ReferenceExtendChunk, ReferenceFinalize DEF MeasureOvmf
  <1>6. CASE MeasureCfv
    <2>1. pc = "volume"
      BY <1>6 DEF MeasureCfv, SkipSection, HashVolume, NoVolume, OutOfMemory
    <2> QED BY <2>1 DEF VolumeInv, Building, MeasuresTd
  <1>7. CASE UNCHANGED vars
    BY <1>3, <1>7 DEF vars, PartsInv, LocateInv, ProgressInv, EndInv, SectionsSoFar, PagesSoFar, PageSoFar, Current
  <1> QED BY <1>4, <1>5, <1>6, <1>7 DEF Next, Terminated

LEMMA ReferenceInit == Init => ReferenceInv
  BY DEF Init, ReferenceInv, LocateInv, ProgressInv, EndInv

\* measure_cfv goes through the sections from the first on.
FirstVolumeInv ==
  job = "measure_cfv" =>
    /\ pc \in {"footer", "table", "descriptor", "volume", "done", "crashed"}
    /\ pc \in {"footer", "table", "descriptor"} => s = 1
    /\ pc = "volume" => \A u \in 1 .. s - 1 : img.sections[u].type # Tdvf

LEMMA FirstVolumeNext ==
  ASSUME PositionInv, FirstVolumeInv, VolumeIsFirst, [Next]_vars
  PROVE  FirstVolumeInv' /\ VolumeIsFirst'
  <1> DEFINE Kept == UNCHANGED <<img, job>> /\ UNCHANGED <<digest, s>>
  <1>1. CASE Locate
    <2>1. Kept
      BY <1>1 DEF Locate, ReadFooter, SearchTable, SearchFailed, ReadDescriptor, Context,
         ReadForeignSection, Refuse, GiveUp, Done, Crash, Goto, arguments
    <2>2. job = "measure_cfv" =>
            /\ pc' \in {"footer", "table", "descriptor", "volume"} => s = 1
            /\ pc # "context"
            /\ pc' \in {"footer", "table", "descriptor", "volume", "done", "crashed"}
      BY <1>1 DEF FirstVolumeInv, Locate, ReadFooter, SearchTable, SearchFailed, ReadDescriptor,
         Context, ReadForeignSection, Refuse, GiveUp, Done, Crash, Goto, arguments
    <2> QED BY <2>1, <2>2 DEF FirstVolumeInv, VolumeIsFirst
  <1>2. CASE MeasureOvmf
    <2>1. pc \in InSection \cup {"section"} /\ job' = job
      BY <1>2 DEF MeasureOvmf, EnterSection, AddPage, PagesAdded, StartPage, PagesDone, ExtendChunk, Finalize,
         LeaveSection, GiveUp, Done, Goto, arguments, InSection
    <2>2. job' # "measure_cfv" BY <2>1 DEF FirstVolumeInv, InSection
    <2> QED BY <2>2 DEF FirstVolumeInv, VolumeIsFirst
  <1>3. CASE SkipSection
    <2>1. /\ pc = "volume" /\ pc' = "volume" /\ s' = s + 1 /\ UNCHANGED <<img, job, digest>>
          /\ img.sections[s].type # Tdvf BY <1>3 DEF SkipSection, Current, arguments
    <2>2. s \in Nat BY ImageOf DEF PositionInv
    <2>3. \A u \in 1 .. s + 1 - 1 : u \in 1 .. s - 1 \/ u = s BY <2>2
    <2>4. job = "measure_cfv" => \A u \in 1 .. s + 1 - 1 : img.sections[u].type # Tdvf
      BY <2>1, <2>3 DEF FirstVolumeInv
    <2>5. VolumeIsFirst' BY <2>1 DEF VolumeIsFirst
    <2>6. s' - 1 = s + 1 - 1 BY <2>1, <2>2
    <2>7. job' = "measure_cfv" => \A u \in 1 .. s' - 1 : img'.sections[u].type # Tdvf
      BY <2>1, <2>4, <2>6, Zenon
    <2>8. FirstVolumeInv' BY <2>1, <2>7, Zenon DEF FirstVolumeInv
    <2> QED BY <2>5, <2>8
  <1>4. CASE HashVolume
    <2>1. pc = "volume" /\ pc' \in {"done", "crashed"} /\ UNCHANGED <<img, job>>
          /\ s <= Len(img.sections) /\ img.sections[s].type = Tdvf
      BY <1>4 DEF HashVolume, GiveUp, Crash, Done, Current, arguments
    <2>2. digest' # digest => digest' = <<VolumeCall(img.sections[s])>>
      BY <1>4 DEF HashVolume, Crash, Done, Current
    <2>3. s \in DOMAIN img.sections BY <2>1, CurrentOf DEF PositionInv
    <2>4. CASE digest' = digest BY <2>1, <2>4 DEF FirstVolumeInv, VolumeIsFirst
    <2>5. CASE digest' # digest
      <3>1. job = "measure_cfv" => \A u \in 1 .. s - 1 : img.sections[u].type # Tdvf
        BY <2>1 DEF FirstVolumeInv
      <3>2. job' = "measure_cfv" => \E t \in DOMAIN img.sections :
              /\ img.sections[t].type = Tdvf
              /\ \A u \in 1 .. t - 1 : img.sections[u].type # Tdvf
              /\ digest' = <<VolumeCall(img.sections[t])>> BY <2>1, <2>2, <2>3, <2>5, <3>1
      <3>3. VolumeIsFirst' BY <2>1, <3>2 DEF VolumeIsFirst, VolumeCall
      <3> QED BY <2>1, <3>3 DEF FirstVolumeInv
    <2> QED BY <2>4, <2>5
  <1>5. CASE NoVolume \/ OutOfMemory
    <2>1. pc' \in {"done", "crashed"} /\ Kept
      BY <1>5 DEF NoVolume, OutOfMemory, GiveUp, Crash, Done, arguments
    <2> QED BY <2>1 DEF FirstVolumeInv, VolumeIsFirst
  <1>6. CASE UNCHANGED vars BY <1>6 DEF vars, FirstVolumeInv, VolumeIsFirst
  <1> QED BY <1>1, <1>2, <1>3, <1>4, <1>5, <1>6 DEF Next, MeasureCfv, Terminated

\* The digest of an image that QEMU can build is that of all its calls in the
\* order of its version, for every number of sections, pages and chunks, and
\* that of the configuration volume is of the first one (mrtd.c:222-430).
THEOREM DigestCorrect == HandlersSpec => []DigestIsReference
  <1> DEFINE I == PositionInv /\ VolumeInv /\ ReferenceInv /\ FirstVolumeInv /\ VolumeIsFirst
  <1>1. HandlersInit => I
    <2>1. Init => FirstVolumeInv /\ VolumeIsFirst BY DEF Init, FirstVolumeInv, VolumeIsFirst
    <2> QED BY <2>1, HandlersMeasure, PositionInit, VolumeInit, ReferenceInit
  <1>2. I /\ [HandlersNext]_allVars => I'
    BY HandlersMeasure, PositionNext, VolumeNext, ReferenceNext, FirstVolumeNext
  <1>3. I => DigestIsReference
    BY DEF ReferenceInv, Building, EndInv, DigestIsReference, MrtdIsReference
  <1> QED BY <1>1, <1>2, <1>3, PTL DEF HandlersSpec

-----------------------------------------------------------------------------
(* The hand-off blocks                                                     *)

\* Where descriptor k lies; the place of one too many is the end of the list.
PlaceOf(k) == HandoffSize + DescriptorSize * (k - 1)

\* The first n descriptors lie behind the table, and nothing else does.
Laid(blocks, n) ==
  /\ DOMAIN blocks = {0} \cup {PlaceOf(k) : k \in 1 .. n}
  /\ blocks[0] = Handoff
  /\ \A k \in 1 .. n : blocks[PlaceOf(k)] = Descriptor(k)

HobInv ==
  /\ hobStep \in {"none", "create", "add", "print", "hash", "done"}
  /\ resource \in 1 .. Resources + 1
  /\ hobStep = "create" => dest = <<>> /\ resource = 1
  /\ hobStep = "add" => offset = PlaceOf(resource) /\ Laid(dest, resource - 1)
  /\ hobStep \in {"print", "hash", "done"} => Laid(dest, Resources)
  /\ hobStep = "print" => offset = 0 \/ \E k \in 1 .. Resources + 1 : offset = PlaceOf(k)
  /\ hashedHob # <<>> => Laid(hashedHob, Resources)

\* The tables of td_hob.c:52-92, in numbers.
LEMMA HobTables ==
  /\ Resources = 9 /\ TdHobSize = 488 /\ PlaceOf(Resources + 1) = TdHobSize
  /\ PhysicalStart[1] = 0 /\ PhysicalStart[2] = 2048 /\ PhysicalStart[3] = 2054
  /\ PhysicalStart[4] = 2057 /\ PhysicalStart[5] = 2059 /\ PhysicalStart[6] = 2061
  /\ PhysicalStart[7] = 2065 /\ PhysicalStart[8] = 2080 /\ PhysicalStart[9] = 1048576
  /\ ResourceLength[1] = 2048 /\ ResourceLength[2] = 6 /\ ResourceLength[3] = 3
  /\ ResourceLength[4] = 2 /\ ResourceLength[5] = 2 /\ ResourceLength[6] = 4
  /\ ResourceLength[7] = 15 /\ ResourceLength[8] = 522208 /\ ResourceLength[9] = 524288
  /\ ResourceType[4] = "system"
  BY DEF Resources, PhysicalStart, ResourceLength, ResourceType, TdHobSize, HandoffSize, DescriptorSize,
         PlaceOf

\* A block written behind the others is one more in its place.
LEMMA LaidNext ==
  ASSUME NEW n \in 0 .. 8, Laid(dest, n)
  PROVE  Laid(Placed(Descriptor(n + 1), PlaceOf(n + 1)), n + 1)
  <1>1. \A k \in 1 .. n : PlaceOf(k) # PlaceOf(n + 1) /\ PlaceOf(k) \in DOMAIN dest
    BY DEF Laid, PlaceOf, HandoffSize, DescriptorSize
  <1>2. PlaceOf(n + 1) # 0 BY DEF PlaceOf, HandoffSize, DescriptorSize
  <1>3. 1 .. n + 1 = 1 .. n \cup {n + 1} OBVIOUS
  <1>4. DOMAIN Placed(Descriptor(n + 1), PlaceOf(n + 1)) = {0} \cup {PlaceOf(k) : k \in 1 .. n + 1}
    BY <1>3, Zenon DEF Placed, Laid
  <1>5. Placed(Descriptor(n + 1), PlaceOf(n + 1))[0] = Handoff
    BY <1>2, Zenon DEF Placed, Laid
  <1>6. \A k \in 1 .. n :
          Placed(Descriptor(n + 1), PlaceOf(n + 1))[PlaceOf(k)] = Descriptor(k)
    BY <1>1, Zenon DEF Placed, Laid
  <1>7. Placed(Descriptor(n + 1), PlaceOf(n + 1))[PlaceOf(n + 1)] = Descriptor(n + 1)
    BY Zenon DEF Placed
  <1>8. \A k \in 1 .. n + 1 :
          Placed(Descriptor(n + 1), PlaceOf(n + 1))[PlaceOf(k)] = Descriptor(k)
    BY <1>3, <1>6, <1>7, Zenon
  <1> QED BY <1>4, <1>5, <1>8, Zenon DEF Laid

LEMMA HobStart == HandlersInit => HobInv
  BY HobTables DEF HandlersInit, HobInit, HobInv

LEMMA HobNextInv == HobInv /\ [HandlersNext]_allVars => HobInv'
  <1> SUFFICES ASSUME HobInv, [HandlersNext]_allVars PROVE HobInv' OBVIOUS
  <1>0. Resources = 9 /\ TdHobSize = 488 /\ PlaceOf(10) = 488 BY HobTables
  <1>1. CASE CreateHandoff /\ UNCHANGED hashedHob
    <2>1. dest = <<>> /\ DOMAIN dest = {} /\ resource = 1 BY <1>1 DEF CreateHandoff, HobInv
    <2>2. dest' = [p \in {0} |-> Handoff] BY <1>1, <2>1 DEF CreateHandoff, Placed
    <2>3. Laid(dest', 0) BY <2>2 DEF Laid
    <2>4. offset' = PlaceOf(1)
      BY <1>1 DEF CreateHandoff, PlaceOf, HandoffSize, DescriptorSize
    <2> QED BY <1>0, <1>1, <2>1, <2>3, <2>4 DEF CreateHandoff, HobInv
  <1>2. CASE AddDescriptor /\ UNCHANGED hashedHob
    <2>1. resource \in 1 .. 9 /\ offset = PlaceOf(resource) /\ Laid(dest, resource - 1)
      BY <1>0, <1>2 DEF AddDescriptor, HobInv
    <2> DEFINE n == resource - 1
    <2>2. n \in 0 .. 8 /\ n + 1 = resource /\ resource' - 1 = resource
      BY <1>2, <2>1 DEF AddDescriptor
    <2>3. Laid(Placed(Descriptor(n + 1), PlaceOf(n + 1)), n + 1) BY <2>1, <2>2, LaidNext
    <2>4. dest' = Placed(Descriptor(resource), PlaceOf(resource))
      BY <1>2, <2>1 DEF AddDescriptor
    <2>5. Laid(dest', resource' - 1) BY <2>2, <2>3, <2>4
    <2>6. offset' = PlaceOf(resource')
      BY <1>2, <2>1 DEF AddDescriptor, PlaceOf, HandoffSize, DescriptorSize
    <2> QED BY <1>0, <1>2, <2>1, <2>5, <2>6 DEF AddDescriptor, HobInv
  <1>3. CASE DescriptorsDone /\ UNCHANGED hashedHob
    <2>1. resource = 10 /\ resource - 1 = 9 /\ Laid(dest, resource - 1)
      BY <1>0, <1>3 DEF DescriptorsDone, HobInv
    <2> QED BY <1>0, <1>3, <2>1 DEF DescriptorsDone, HobInv
  <1>4. CASE PrintBlock /\ UNCHANGED hashedHob
    <2>1. Laid(dest, 9) /\ offset < 488 BY <1>0, <1>4 DEF PrintBlock, HobInv
    <2>2. CASE offset = 0
      <3>1. offset' = PlaceOf(1)
        BY <1>4, <2>1, <2>2 DEF PrintBlock, Laid, Handoff, PlaceOf, HandoffSize, DescriptorSize
      <3> QED BY <1>0, <1>4, <3>1 DEF PrintBlock, HobInv
    <2>3. CASE \E k \in 1 .. 10 : offset = PlaceOf(k)
      <3>1. PICK k \in 1 .. 10 : offset = PlaceOf(k) BY <2>3
      <3>2. k \in 1 .. 9 BY <1>0, <2>1, <3>1
      <3>3. dest[offset].length = DescriptorSize BY <2>1, <3>1, <3>2 DEF Laid, Descriptor
      <3>4. offset' = PlaceOf(k + 1)
        BY <1>4, <3>1, <3>2, <3>3 DEF PrintBlock, PlaceOf, HandoffSize, DescriptorSize
      <3> QED BY <1>0, <1>4, <3>2, <3>4 DEF PrintBlock, HobInv
    <2> QED BY <1>0, <1>4, <2>2, <2>3 DEF PrintBlock, HobInv
  <1>5. CASE PrintDone /\ UNCHANGED hashedHob BY <1>0, <1>5 DEF PrintDone, HobInv
  <1>6. CASE HashHob BY <1>0, <1>6 DEF HashHob, HobInv
  <1>7. CASE UNCHANGED <<hobVars, hashedHob>> BY <1>0, <1>7 DEF hobVars, HobInv
  <1> QED BY <1>1, <1>2, <1>3, <1>4, <1>5, <1>6, <1>7
          DEF HandlersNext, CreateHob, HobNext, MeasureImage, allVars

\* The list of all descriptors is whole.
LEMMA LaidIsWhole ==
  ASSUME Laid(hashedHob, 9)
  PROVE  /\ UNION {BytesOf(hashedHob, p) : p \in DOMAIN hashedHob} = 0 .. TdHobSize - 1
         /\ \A p, q \in DOMAIN hashedHob : p < q => p + hashedHob[p].length <= q
  <1>1. /\ BytesOf(hashedHob, 0) = 0 .. 55 /\ hashedHob[0].length = 56
        /\ \A k \in 1 .. 9 : /\ PlaceOf(k) = 48 * k + 8
                             /\ hashedHob[PlaceOf(k)].length = 48
                             /\ BytesOf(hashedHob, PlaceOf(k)) = 48 * k + 8 .. 48 * k + 55
    BY DEF Laid, BytesOf, Handoff, Descriptor, PlaceOf, HandoffSize, DescriptorSize
  <1>2. DOMAIN hashedHob = {0} \cup {PlaceOf(k) : k \in 1 .. 9} BY DEF Laid
  <1>3. \A b \in 0 .. 487 : b \in 0 .. 55 \/ \E k \in 1 .. 9 : b \in 48 * k + 8 .. 48 * k + 55
    <2> TAKE b \in 0 .. 487
    <2> SUFFICES ASSUME b >= 56 PROVE \E k \in 1 .. 9 : b \in 48 * k + 8 .. 48 * k + 55
      OBVIOUS
    <2> WITNESS (b - 8) \div 48 \in 1 .. 9
    <2> QED OBVIOUS
  <1>4. \A b : b \in UNION {BytesOf(hashedHob, p) : p \in DOMAIN hashedHob} <=>
                 b \in 0 .. 55 \/ \E k \in 1 .. 9 : b \in 48 * k + 8 .. 48 * k + 55
    <2>1. \A b : b \in UNION {BytesOf(hashedHob, p) : p \in DOMAIN hashedHob} <=>
                   b \in BytesOf(hashedHob, 0) \/ \E k \in 1 .. 9 : b \in BytesOf(hashedHob, PlaceOf(k))
      BY <1>2, Zenon
    <2>2. \A b : b \in BytesOf(hashedHob, 0) <=> b \in 0 .. 55 BY <1>1
    <2>3. \A b : \A k \in 1 .. 9 : b \in BytesOf(hashedHob, PlaceOf(k)) <=> b \in 48 * k + 8 .. 48 * k + 55
      BY <1>1, Zenon
    <2> QED BY <2>1, <2>2, <2>3, Zenon
  <1>5. \A b : b \in 0 .. 55 \/ (\E k \in 1 .. 9 : b \in 48 * k + 8 .. 48 * k + 55) => b \in 0 .. 487
    OBVIOUS
  <1>6. UNION {BytesOf(hashedHob, p) : p \in DOMAIN hashedHob} = 0 .. TdHobSize - 1
    BY <1>3, <1>4, <1>5, HobTables
  <1>7. \A p, q \in DOMAIN hashedHob : p < q => p + hashedHob[p].length <= q BY <1>1, <1>2
  <1> QED BY <1>6, <1>7

\* What the descriptors of the whole list tell.
LEMMA LaidTells ==
  ASSUME Laid(hashedHob, 9)
  PROVE  Descriptors = {Descriptor(k) : k \in 1 .. 9}
  <1>1. \A k \in 1 .. 9 : Descriptor(k).type = "resource" /\ hashedHob[PlaceOf(k)] = Descriptor(k)
    BY DEF Laid, Descriptor
  <1>2. hashedHob[0].type = "handoff" /\ "handoff" # "resource" BY DEF Laid, Handoff
  <1>3. DOMAIN hashedHob = {0} \cup {PlaceOf(k) : k \in 1 .. 9} BY DEF Laid
  <1> QED BY <1>1, <1>2, <1>3, Zenon DEF Descriptors

\* The descriptors follow each other without gaps but for the one above 2 GiB.
LEMMA LaidTiles ==
  ASSUME Laid(hashedHob, 9)
  PROVE  HobTilesMemory
  <1>0. /\ hashedHob[0].end = <<2057, 496>> /\ TdHobSize = 488
        /\ Descriptors = {Descriptor(k) : k \in 1 .. 9}
    BY LaidTells, HobTables DEF Laid, Handoff, EndOfHobList
  <1>1. \A k \in 1 .. 9 :
          k = 1 \/ k = 2 \/ k = 3 \/ k = 4 \/ k = 5 \/ k = 6 \/ k = 7 \/ k = 8 \/ k = 9
    OBVIOUS
  <1>2. \A k \in 1 .. 9 : /\ Descriptor(k).start = PhysicalStart[k]
                          /\ Descriptor(k).pages = ResourceLength[k]
                          /\ Descriptor(k).resource = ResourceType[k]
                          /\ Descriptor(k) \in Descriptors
    <2>1. \A k \in 1 .. 9 : Descriptor(k) \in Descriptors BY <1>0
    <2> QED BY <2>1 DEF Descriptor
  <1>3. \A k \in 1 .. 8 : k # 8 => PhysicalStart[k] + ResourceLength[k] = PhysicalStart[k + 1]
    BY <1>1, HobTables
  <1>4. \A k, l \in 1 .. 9 : k # l => \/ PhysicalStart[k] + ResourceLength[k] <= PhysicalStart[l]
                                      \/ PhysicalStart[l] + ResourceLength[l] <= PhysicalStart[k]
    BY <1>1, HobTables
  <1>5. \A k \in 1 .. 9 : PhysicalStart[k] \in {0, 1048576} \/ k \in 2 .. 8
    BY <1>1, HobTables
  <1>6. \A k \in 1 .. 9 : PhysicalStart[k] + ResourceLength[k] \in {524288, 1572864} \/ k \in 1 .. 7
    BY <1>1, HobTables
  <1>7. ASSUME NEW r \in Descriptors
        PROVE  /\ r.start \in {0, 1048576} \/ \E q \in Descriptors : q.start + q.pages = r.start
               /\ r.start + r.pages \in {524288, 1572864} \/ \E q \in Descriptors : q.start = r.start + r.pages
    <2>1. PICK k \in 1 .. 9 : r = Descriptor(k) BY <1>0, <1>7
    <2>2. k \in 2 .. 8 => \E q \in Descriptors : q.start + q.pages = r.start
      <3> HAVE k \in 2 .. 8
      <3>1. k - 1 \in 1 .. 7 /\ k - 1 \in 1 .. 9 /\ k - 1 + 1 = k OBVIOUS
      <3>2. Descriptor(k - 1) \in Descriptors BY <1>2, <3>1
      <3> QED BY <1>2, <1>3, <2>1, <3>1, <3>2
    <2>3. k \in 1 .. 7 => \E q \in Descriptors : q.start = r.start + r.pages
      <3> HAVE k \in 1 .. 7
      <3>1. k + 1 \in 1 .. 9 /\ k \in 1 .. 8 /\ k # 8 OBVIOUS
      <3>2. Descriptor(k + 1) \in Descriptors BY <1>2, <3>1
      <3> QED BY <1>2, <1>3, <2>1, <3>1, <3>2
    <2>4. r.start = PhysicalStart[k] /\ r.pages = ResourceLength[k] BY <1>2, <2>1
    <2> QED BY <1>5, <1>6, <2>2, <2>3, <2>4
  <1>8. \A r, q \in Descriptors : r # q => r.start + r.pages <= q.start \/ q.start + q.pages <= r.start
    BY <1>0, <1>2, <1>4
  <1>9. /\ Descriptor(4) \in Descriptors /\ Descriptor(4).start = 2057
        /\ Descriptor(4).resource = "system" /\ Descriptor(4).pages = 2 BY <1>2, HobTables
  <1>10. \E r \in Descriptors : r.start = 2057 /\ r.resource = "system" /\ r.pages > 0
    BY <1>9
  <1> QED BY <1>0, <1>7, <1>8, <1>10 DEF HobTilesMemory

\* The hand-off blocks that are hashed into RTMR0 are written from the first
\* byte to the last, the walk that prints them meets every block at its start,
\* and they tell the memory of a domain without gaps (td_hob.c:29-155).
THEOREM HobIsSound == HandlersSpec => []HobSound
  <1>1. HobInv => HobSound
    <2> SUFFICES ASSUME HobInv PROVE HobSound OBVIOUS
    <2>0. Resources = 9 /\ TdHobSize = 488 /\ PlaceOf(10) = 488 BY HobTables
    <2>1. hashedHob # <<>> => Laid(hashedHob, 9) BY <2>0 DEF HobInv
    <2>2. HobTilesMemory BY <2>1, LaidTiles DEF HobTilesMemory
    <2>3. hobStep = "print" /\ offset < TdHobSize => offset \in DOMAIN dest
      <3> HAVE hobStep = "print" /\ offset < TdHobSize
      <3>1. DOMAIN dest = {0} \cup {PlaceOf(k) : k \in 1 .. 9} BY <2>0 DEF HobInv, Laid
      <3>2. offset = 0 \/ \E k \in 1 .. 10 : offset = PlaceOf(k) BY <2>0 DEF HobInv
      <3> QED BY <2>0, <3>1, <3>2
    <2>4. HobIsWhole BY <2>1, <2>3, LaidIsWhole DEF HobIsWhole
    <2> QED BY <2>2, <2>4 DEF HobSound
  <1> QED BY <1>1, HobStart, HobNextInv, PTL DEF HandlersSpec

-----------------------------------------------------------------------------
(* OVMF: the search, and what calculate_pcr0 measures *)

\* What the proof needs of an image.
Sized(m) ==
  /\ m.length \in Nat /\ m.header \in Nat
  /\ \A p \in DOMAIN m.files : m.files[p].size \in Nat
  /\ \A p \in DOMAIN m.sections : m.sections[p].size \in Nat

LEMMA ImagesSized == \A m \in OvmfImages : Sized(m)
  <1> SUFFICES ASSUME NEW m \in OvmfImages PROVE Sized(m) OBVIOUS
  <1> DEFINE h == [f \in DOMAIN m \ {"files", "sections"} |-> m[f]]
  <1>1. h \in ImageHeader /\ (\A p \in DOMAIN m.files : m.files[p] \in File)
        /\ \A p \in DOMAIN m.sections : m.sections[p] \in SectionHeader
    BY OvmfImagesAssumption
  <1>2. m.length \in Nat /\ m.header \in Nat
    <2>1. "length" \in DOMAIN h /\ h["length"] \in Nat /\ "header" \in DOMAIN h /\ h["header"] \in Nat
      <3> HIDE DEF h
      <3> QED BY <1>1 DEF ImageHeader
    <2>2. h["length"] = m.length /\ h["header"] = m.header BY <2>1
    <2> QED BY <2>1, <2>2
  <1> DEFINE Field == 0 .. Max24
  <1>n. \A n \in Field : n \in Nat BY SMT
  <1>3. \A u \in File : u.size \in Nat
    <2>1. \A u \in File : u.size \in Field BY DEF File
    <2> QED BY <1>n, <2>1
  <1>4. \A u \in SectionHeader : u.size \in Nat
    <2>1. \A u \in SectionHeader : u.size \in Field BY DEF SectionHeader
    <2> QED BY <1>n, <2>1
  <1> QED BY <1>1, <1>2, <1>3, <1>4 DEF Sized

LEMMA AlignedUp ==
  ASSUME NEW p \in Nat
  PROVE  /\ AlignedTo(8, p) \in Nat /\ AlignedTo(8, p) >= p
         /\ AlignedTo(4, p) \in Nat /\ AlignedTo(4, p) >= p BY SMT DEF AlignedTo

\* From the search on the volume lies in the image.  The search for a file is
\* behind the header of the volume, and the search for a section, as the section
\* itself, behind the header of a file that ends in the volume.
AfterSearch == {"extract", "decode", "pei", "dxe", "separator"}

FileFound == /\ image.header <= first /\ first + FileSize <= section
             /\ first \in Nat /\ section \in Nat /\ file <= image.length

SearchInv ==
  /\ Sized(image) /\ file \in Nat
  /\ step \in {"volume", "files", "sections"} \cup AfterSearch => image.start + image.length <= image.size
  /\ step \in {"files", "sections"} \cup AfterSearch => image.header <= file
  /\ step \in {"sections"} \cup AfterSearch => FileFound
  /\ step \in AfterSearch => section + Found.size <= file

LEMMA SearchInit == OvmfInit => SearchInv
  BY ImagesSized, SMT DEF OvmfInit, SearchInv, AfterSearch

\* A step that leaves the search alone.
LEMMA SearchKept ==
  ASSUME SearchInv, UNCHANGED <<image, file, first, section>>,
         \/ step' \in {"returned", "crashed", "cut"}
         \/ step \in AfterSearch /\ step' \in AfterSearch
         \/ step = "cut" /\ step' = "volume" /\ VolumeInside
         \/ step = "sections" /\ step' = "files"
         \/ step' = step
  PROVE  SearchInv'
  BY DEF SearchInv, FileFound, AfterSearch, Sized, Found, SectionAt, VolumeInside

LEMMA EndsKept == ASSUME SearchInv, Stray \/ Fail \/ Abort PROVE SearchInv'
  BY SearchKept DEF Stray, Fail, Abort, Return, GoOn

LEMMA VolumeStep == ASSUME SearchInv, Volume PROVE SearchInv'
  <1>1. CASE step = "volume" /\ step' = "files" /\ file' = image.header /\ UNCHANGED <<image, first, section>>
    <2>1. image.header \in Nat /\ image.header <= image.header BY SMT DEF SearchInv, Sized
    <2> QED BY <1>1, <2>1 DEF SearchInv, AfterSearch, Sized
  <1> QED BY <1>1, EndsKept DEF Volume

LEMMA NextFileStep == ASSUME SearchInv, NextFile PROVE SearchInv'
  <1> DEFINE at == AlignedTo(8, file)
             f == FileAt(at)
  <1>1. CASE /\ step = "files" /\ f.size >= FileSize + CommonSize /\ at + f.size <= image.length
             /\ file' = at + f.size /\ image' = image
             /\ \/ f.type = "volume" /\ step' = "sections" /\ first' = at /\ section' = at + FileSize
                \/ UNCHANGED <<step, first, section>>
    <2>1. at \in Nat /\ at >= file BY AlignedUp DEF SearchInv
    <2>2. f.size \in Nat BY SMT DEF FileAt, Erased, Max24, SearchInv, Sized
    <2>3. image.header \in Nat /\ file \in Nat /\ image.header <= file /\ Sized(image)
          /\ image.start + image.length <= image.size BY <1>1 DEF SearchInv, Sized
    <2> HIDE DEF at, f
    <2>4. file' \in Nat /\ image.header <= at /\ image.header <= file' /\ file' <= image.length
      BY <1>1, <2>1, <2>2, <2>3, SMT DEF FileSize, CommonSize
    <2>5. step' = "sections" => FileFound'
      <3> SUFFICES ASSUME step' = "sections" PROVE FileFound' OBVIOUS
      <3>1. first' = at /\ section' = at + FileSize BY <1>1
      <3> QED BY <1>1, <2>1, <2>4, <3>1, SMT DEF FileFound, FileSize
    <2> QED BY <1>1, <2>3, <2>4, <2>5 DEF SearchInv, AfterSearch, Sized
  <1>2. CASE Fail \/ Abort BY <1>2, EndsKept
  <1> QED BY <1>1, <1>2 DEF NextFile

LEMMA NextSectionStep == ASSUME SearchInv, NextSection PROVE SearchInv'
  <1> DEFINE at == AlignedTo(4, section)
  <1>1. CASE GoOn("files") BY <1>1, SearchKept DEF NextSection, GoOn
  <1>2. CASE Fail BY <1>2, EndsKept
  <1>3. CASE /\ step = "sections" /\ SectionFits(at) /\ UNCHANGED <<image, file, first>>
             /\ \/ step' = "extract" /\ section' = at
                \/ step' = step /\ section' = at + SectionAt(at).size
    <2>1. FileFound /\ section \in Nat /\ first \in Nat /\ file \in Nat /\ Sized(image)
          /\ image.header <= file /\ image.start + image.length <= image.size
      BY <1>3 DEF SearchInv, FileFound
    <2>2. at \in Nat /\ at >= section BY <2>1, AlignedUp
    <2>3. SectionAt(at).size \in Nat BY <2>1, SMT DEF SectionAt, Max24, Sized
    <2> HIDE DEF at
    <2>4. section' \in Nat /\ section' >= section BY <1>3, <2>1, <2>2, <2>3, SMT
    <2>5. FileFound' BY <1>3, <2>1, <2>4, SMT DEF FileFound, FileSize
    <2>6. step' = "extract" => section' + Found'.size <= file'
      BY <1>3 DEF SectionFits, Found, SectionAt
    <2> QED BY <1>3, <2>1, <2>5, <2>6 DEF SearchInv, AfterSearch, Sized
  <1> QED BY <1>1, <1>2, <1>3 DEF NextSection

LEMMA ExtractStep ==
  ASSUME SearchInv, Extract \/ MeasurePei \/ MeasureDxe \/ MeasureSeparator
  PROVE  SearchInv'
  <1>1. CASE Fail \/ Abort \/ Stray BY <1>1, EndsKept
  <1>2. CASE /\ step \in AfterSearch /\ step' \in AfterSearch \cup {"returned"}
             /\ UNCHANGED <<image, file, first, section>> BY <1>2, SearchKept
  <1> QED BY <1>1, <1>2 DEF Extract, GetInfo, Decompress, MeasurePei, MeasureDxe, MeasureSeparator,
          Hash, GoOn, Return, AfterSearch

LEMMA SearchStep == SearchInv /\ [OvmfNext]_ovmfVars => SearchInv'
  <1> SUFFICES ASSUME SearchInv, [OvmfNext]_ovmfVars PROVE SearchInv' OBVIOUS
  <1>1. CASE ReadImage \/ CutVolume
    BY <1>1, EndsKept, SearchKept DEF ReadImage, CutVolume, GoOn
  <1>2. CASE UNCHANGED ovmfVars BY <1>2, SearchKept DEF ovmfVars
  <1> QED BY <1>1, <1>2, VolumeStep, NextFileStep, NextSectionStep, ExtractStep
          DEF OvmfNext, Program, FindSection, OvmfEnded

LEMMA SearchInvImplies == SearchInv => FoundInside
  BY DEF SearchInv, FoundInside, FileFound, AfterSearch

\* Whatever the sizes in the headers of the volume, its files and sections, the
\* section that is decompressed lies in its file, the file in the volume and
\* that in the image (SecMain.c:150-167, 228-246).
THEOREM FoundInVolume == OvmfSpec => []FoundInside
  BY SearchInit, SearchStep, SearchInvImplies, PTL DEF OvmfSpec

-----------------------------------------------------------------------------
(* What is found is the first *)

\* The fields of an image and of its headers.
Typed(m) ==
  /\ m.size \in Nat \cup {-1} /\ m.start \in Nat /\ m.pei \in Nat /\ m.dxe \in Nat
  /\ \A p \in DOMAIN m.files : p \in Nat /\ m.files[p].size \in 0 .. Max24
  /\ \A q \in DOMAIN m.sections :
       q \in Nat /\ m.sections[q].size \in 0 .. Max24
       /\ m.sections[q].offset \in Nat /\ m.sections[q].decoded \in Nat

LEMMA ImagesTyped == \A m \in OvmfImages : Typed(m)
  <1> SUFFICES ASSUME NEW m \in OvmfImages PROVE Typed(m) OBVIOUS
  <1> DEFINE h == [f \in DOMAIN m \ {"files", "sections"} |-> m[f]]
  <1>1. h \in ImageHeader /\ (\A p \in DOMAIN m.files : p \in Nat /\ m.files[p] \in File)
        /\ \A q \in DOMAIN m.sections : q \in Nat /\ m.sections[q] \in SectionHeader
    BY OvmfImagesAssumption
  <1>2. m.size \in Nat \cup {-1} /\ m.start \in Nat /\ m.pei \in Nat /\ m.dxe \in Nat
    <2>1. /\ "size" \in DOMAIN h /\ h["size"] \in Nat \cup {-1} /\ "start" \in DOMAIN h /\ h["start"] \in Nat
          /\ "pei" \in DOMAIN h /\ h["pei"] \in Nat /\ "dxe" \in DOMAIN h /\ h["dxe"] \in Nat
      <3> HIDE DEF h
      <3> QED BY <1>1 DEF ImageHeader
    <2>2. h["size"] = m.size /\ h["start"] = m.start /\ h["pei"] = m.pei /\ h["dxe"] = m.dxe
      BY <2>1
    <2> QED BY <2>1, <2>2
  <1>3. \A u \in File : u.size \in 0 .. Max24 BY DEF File
  <1>4. \A u \in SectionHeader : u.size \in 0 .. Max24 /\ u.offset \in Nat /\ u.decoded \in Nat
    <2>1. \A u \in SectionHeader : u.size \in 0 .. Max24 /\ u.offset \in 0 .. Max16 /\ u.decoded \in Nat
      BY DEF SectionHeader
    <2>2. \A n \in 0 .. Max16 : n \in Nat BY SMT
    <2> QED BY <2>1, <2>2
  <1> QED BY <1>1, <1>2, <1>3, <1>4 DEF Typed

LEMMA ImageTyped == OvmfInit => Typed(image)
  BY ImagesTyped DEF OvmfInit

\* Positions of which each is the first or the one behind another, as those of
\* the files of a volume and of the sections of a file.
Chain(S, next, start) ==
  /\ S \in SUBSET Nat /\ start \in Nat
  /\ \A p \in S : next[p] \in Nat /\ next[p] > p
  /\ \A p \in S : p = start \/ \E q \in S : p = next[q]

\* None is in front of the first.
LEMMA ChainStart ==
  ASSUME NEW S, NEW next, NEW start, Chain(S, next, start)
  PROVE  \A p \in S : start <= p
  <1> DEFINE T == {p \in S : ~ (start <= p)}
  <1> SUFFICES ASSUME T # {} PROVE FALSE OBVIOUS
  <1>1. PICK m \in T : \A k \in T : m <= k
    <2>1. T \in SUBSET Nat BY DEF Chain
    <2> QED BY <2>1, LeastNat
  <1>2. m \in S /\ m \in Nat /\ start \in Nat /\ m < start BY <1>1 DEF Chain
  <1>3. PICK q \in S : m = next[q] BY <1>2 DEF Chain
  <1>4. q \in Nat /\ q < m BY <1>3 DEF Chain
  <1>5. q \in T BY <1>2, <1>4
  <1> QED BY <1>1, <1>2, <1>4, <1>5

\* After those in front of it come only the position itself and those behind it.
LEMMA ChainNext ==
  ASSUME NEW S, NEW next, NEW start, Chain(S, next, start), NEW a \in Nat, start <= a,
         \A p \in S : p < a => next[p] <= a
  PROVE  \A p \in S : p <= a \/ (a \in S /\ next[a] <= p)
  <1> DEFINE T == {p \in S : ~ (p <= a \/ (a \in S /\ next[a] <= p))}
  <1> SUFFICES ASSUME T # {} PROVE FALSE OBVIOUS
  <1>1. PICK m \in T : \A k \in T : m <= k
    <2>1. T \in SUBSET Nat BY DEF Chain
    <2> QED BY <2>1, LeastNat
  <1>2. m \in S /\ m \in Nat /\ start \in Nat /\ a < m BY <1>1 DEF Chain
  <1>3. PICK q \in S : m = next[q] BY <1>2 DEF Chain
  <1>4. q \in Nat /\ q < m BY <1>3 DEF Chain
  <1>5. q > a BY <1>1, <1>2, <1>3, <1>4
  <1>6. a \in S /\ next[a] <= q BY <1>1, <1>2, <1>4, <1>5
  <1>7. next[a] \in Nat BY <1>6 DEF Chain
  <1> QED BY <1>1, <1>2, <1>4, <1>6, <1>7

Behind(p) == AlignedTo(8, FileEnd(p))
After(q) == AlignedTo(4, SectionEnd(q))

LEMMA Alignment ==
  ASSUME NEW p \in Nat
  PROVE  /\ AlignedTo(8, AlignedTo(8, p)) = AlignedTo(8, p)
         /\ AlignedTo(4, AlignedTo(8, p) + FileSize) = AlignedTo(8, p) + FileSize
  <1>1. PICK k \in Nat : AlignedTo(8, p) = 8 * k
    <2>1. (p + 7) \div 8 \in Nat /\ AlignedTo(8, p) = ((p + 7) \div 8) * 8
      BY SMT DEF AlignedTo
    <2> QED BY <2>1, SMT
  <1> QED BY <1>1, SMT DEF AlignedTo, FileSize

LEMMA FilesChain ==
  ASSUME Tidy, Typed(image), image.header \in Nat
  PROVE  Chain(FilePositions, [p \in FilePositions |-> Behind(p)], AlignedTo(8, image.header))
  <1>1. FilePositions \in SUBSET Nat BY DEF Typed, FilePositions
  <1>2. AlignedTo(8, image.header) \in Nat BY AlignedUp
  <1>3. ASSUME NEW p \in FilePositions PROVE Behind(p) \in Nat /\ Behind(p) > p
    <2>1. p \in Nat /\ image.files[p].size \in Nat /\ image.files[p].size >= FileSize + CommonSize
      BY SMT DEF Tidy, Typed, FilePositions
    <2>2. FileEnd(p) \in Nat /\ FileEnd(p) > p
      BY <2>1, SMT DEF FileEnd, FileSize, CommonSize
    <2>3. AlignedTo(8, FileEnd(p)) \in Nat /\ AlignedTo(8, FileEnd(p)) >= FileEnd(p)
      BY <2>2, AlignedUp
    <2> QED BY <2>1, <2>2, <2>3 DEF Behind
  <1>4. \A p \in FilePositions :
          p = AlignedTo(8, image.header) \/ \E q \in FilePositions : p = Behind(q)
    BY DEF Tidy, Behind
  <1> QED BY <1>1, <1>2, <1>3, <1>4 DEF Chain

LEMMA SectionsChain ==
  ASSUME Tidy, Typed(image), NEW p \in FilePositions, image.files[p].type = "volume"
  PROVE  Chain(SectionsOf(p), [q \in SectionsOf(p) |-> After(q)], p + FileSize)
  <1>1. SectionsOf(p) \in SUBSET Nat /\ p + FileSize \in Nat
    BY DEF Typed, FilePositions, SectionsOf, FileSize
  <1>2. ASSUME NEW q \in SectionsOf(p) PROVE After(q) \in Nat /\ After(q) > q
    <2>1. q \in Nat /\ image.sections[q].size \in Nat /\ image.sections[q].size >= CommonSize
      BY SMT DEF Tidy, Typed, SectionsOf
    <2>2. SectionEnd(q) \in Nat /\ SectionEnd(q) > q BY <2>1, SMT DEF SectionEnd, CommonSize
    <2>3. AlignedTo(4, SectionEnd(q)) \in Nat /\ AlignedTo(4, SectionEnd(q)) >= SectionEnd(q)
      BY <2>2, AlignedUp
    <2> QED BY <2>1, <2>2, <2>3 DEF After
  <1>3. \A q \in SectionsOf(p) : q = p + FileSize \/ \E u \in SectionsOf(p) : q = After(u)
    BY DEF Tidy, After
  <1> QED BY <1>1, <1>2, <1>3 DEF Chain

\* The files in front of a position are passed, and are no candidates.
FilesPassed(a) ==
  /\ AlignedTo(8, image.header) <= a
  /\ \A p \in FilePositions : p < a => p \notin Candidates /\ Behind(p) <= a

\* So are the sections of the file the search is in.
SectionsPassed(a) ==
  /\ first + FileSize <= a
  /\ \A q \in SectionsOf(first) : q < a => q \notin Compressed(first) /\ After(q) <= a

\* The search for a section is at the end of the last one passed.
AtEndOf(u) ==
  /\ section = SectionEnd(u)
  /\ \A q \in SectionsOf(first) : q < AlignedTo(4, section) => q = u \/ (q < u /\ After(q) <= u)

InFile ==
  /\ first \in FilePositions /\ image.files[first].type = "volume" /\ file = FileEnd(first)
  /\ FilesPassed(first) /\ SectionsPassed(AlignedTo(4, section))
  /\ section = first + FileSize \/ \E u \in SectionsOf(first) : AtEndOf(u)

FirstFound ==
  /\ first \in Candidates /\ (\A p \in Candidates : first <= p)
  /\ section \in Compressed(first) /\ \A q \in Compressed(first) : section <= q

FirstInv ==
  Tidy =>
    /\ step = "files" => FilesPassed(AlignedTo(8, file))
    /\ step = "sections" => InFile
    /\ step \in AfterSearch => FirstFound

LEMMA LeastIsMin ==
  ASSUME NEW S \in SUBSET Nat, NEW m \in S, \A k \in S : m <= k
  PROVE  Min(S) = m
  <1>1. Min(S) \in S /\ \A k \in S : Min(S) <= k BY DEF Min
  <1>2. Min(S) \in Nat /\ m \in Nat /\ Min(S) <= m /\ m <= Min(S) BY <1>1
  <1> QED BY <1>2

LEMMA FoundMin == Typed(image) /\ FirstFound =>
    Candidates # {} /\ first = Min(Candidates) /\ section = Min(Compressed(first))
  <1> SUFFICES ASSUME Typed(image), FirstFound
               PROVE  Candidates # {} /\ first = Min(Candidates) /\ section = Min(Compressed(first))
    OBVIOUS
  <1>1. Candidates \in SUBSET Nat /\ Compressed(first) \in SUBSET Nat
    BY DEF Typed, Candidates, FilePositions, Compressed, SectionsOf
  <1> QED BY <1>1, LeastIsMin DEF FirstFound

\* Nothing of this depends on more of the state than the image and the places.
LEMMA ImageKept ==
  ASSUME image' = image
  PROVE  /\ Tidy' = Tidy /\ Candidates' = Candidates /\ FilePositions' = FilePositions
         /\ \A p : SectionsOf(p)' = SectionsOf(p) /\ Compressed(p)' = Compressed(p) /\ FileEnd(p)' = FileEnd(p)
                   /\ SectionEnd(p)' = SectionEnd(p) /\ Behind(p)' = Behind(p) /\ After(p)' = After(p)
                   /\ FilesPassed(p)' = FilesPassed(p) /\ FileAt(p)' = FileAt(p) /\ SectionAt(p)' = SectionAt(p)
  BY DEF Tidy, Candidates, FilePositions, SectionsOf, Compressed, FileEnd, SectionEnd, Behind, After, FilesPassed,
         FileAt, SectionAt

LEMMA FirstKept ==
  ASSUME FirstInv, UNCHANGED <<image, file, first, section>>,
         \/ step' \in {"returned", "crashed", "cut", "volume"}
         \/ step \in AfterSearch /\ step' \in AfterSearch
         \/ step' = step
  PROVE  FirstInv'
  <1>1. FirstFound' = FirstFound /\ InFile' = InFile
    BY ImageKept DEF FirstFound, InFile, FilesPassed, SectionsPassed, AtEndOf, Tidy, Candidates, FilePositions, SectionsOf,
       Compressed, FileEnd, SectionEnd, Behind, After
  <1>2. FilesPassed(AlignedTo(8, file))' = FilesPassed(AlignedTo(8, file)) /\ Tidy' = Tidy
    BY DEF FilesPassed, Tidy, Candidates, FilePositions, SectionsOf, Compressed, FileEnd, SectionEnd, Behind
  <1> QED BY <1>1, <1>2 DEF FirstInv, AfterSearch

LEMMA FilesBehind ==
  ASSUME Tidy, Typed(image), image.header \in Nat, NEW a \in Nat, FilesPassed(a)
  PROVE  \A p \in FilePositions : p <= a \/ (a \in FilePositions /\ Behind(a) <= p)
  <1> DEFINE next == [p \in FilePositions |-> Behind(p)]
  <1>1. Chain(FilePositions, next, AlignedTo(8, image.header)) BY FilesChain
  <1>2. \A p \in FilePositions : next[p] = Behind(p) OBVIOUS
  <1> HIDE DEF next
  <1>3. AlignedTo(8, image.header) <= a /\ \A p \in FilePositions : p < a => next[p] <= a
    BY <1>2 DEF FilesPassed
  <1>4. \A p \in FilePositions : p <= a \/ (a \in FilePositions /\ next[a] <= p)
    BY <1>1, <1>3, ChainNext
  <1> QED BY <1>2, <1>4

LEMMA SectionsBehind ==
  ASSUME Tidy, Typed(image), first \in FilePositions, image.files[first].type = "volume",
         NEW a \in Nat, SectionsPassed(a)
  PROVE  \A q \in SectionsOf(first) : q <= a \/ (a \in SectionsOf(first) /\ After(a) <= q)
  <1> DEFINE next == [q \in SectionsOf(first) |-> After(q)]
  <1>1. Chain(SectionsOf(first), next, first + FileSize) BY SectionsChain
  <1>2. \A q \in SectionsOf(first) : next[q] = After(q) OBVIOUS
  <1> HIDE DEF next
  <1>3. first + FileSize <= a /\ \A q \in SectionsOf(first) : q < a => next[q] <= a
    BY <1>2 DEF SectionsPassed
  <1>4. \A q \in SectionsOf(first) : q <= a \/ (a \in SectionsOf(first) /\ next[a] <= q)
    BY <1>1, <1>3, ChainNext
  <1> QED BY <1>2, <1>4

\* A section that fits into the file is one of it: erased flash claims more.
LEMMA FitsIsSection ==
  ASSUME InFile, Typed(image), section \in Nat, SectionFits(AlignedTo(4, section))
  PROVE  /\ AlignedTo(4, section) \in SectionsOf(first)
         /\ SectionAt(AlignedTo(4, section)) = image.sections[AlignedTo(4, section)]
  <1> DEFINE at == AlignedTo(4, section)
  <1>1. at \in Nat /\ first + FileSize <= at BY AlignedUp DEF InFile, SectionsPassed
  <1>2. first \in Nat /\ image.files[first].size \in 0 .. Max24 /\ file = first + image.files[first].size
    BY DEF InFile, Typed, FilePositions, FileEnd
  <1>3. at < file /\ at + SectionAt(at).size <= file BY DEF SectionFits
  <1> HIDE DEF at
  <1>4. SectionAt(at).size # Max24
    <2>1. Max24 \in Nat BY DEF Max24
    <2> QED BY <1>1, <1>2, <1>3, <2>1, SMT DEF FileSize
  <1>5. at \in DOMAIN image.sections BY <1>4 DEF SectionAt
  <1> QED BY <1>1, <1>3, <1>5 DEF InFile, SectionsOf, SectionAt, at

LEMMA FirstVolume ==
  ASSUME Tidy, Typed(image), image.header \in Nat, NextFile, file \in Nat, FilesPassed(AlignedTo(8, file)), step' = "sections"
  PROVE  InFile'
  <1> DEFINE at == AlignedTo(8, file)
  <1>1. /\ image' = image /\ first' = at /\ section' = at + FileSize /\ file' = at + FileAt(at).size
        /\ FileAt(at).type = "volume" BY DEF NextFile, Fail, Return, Abort, GoOn
  <1>2. at \in FilePositions /\ FileAt(at) = image.files[at]
    BY <1>1 DEF FileAt, Erased, FilePositions
  <1>3. AlignedTo(4, section') = first' + FileSize BY <1>1, Alignment
  <1>4. Chain(SectionsOf(at), [q \in SectionsOf(at) |-> After(q)], at + FileSize)
    BY <1>1, <1>2, SectionsChain
  <1>5. \A q \in SectionsOf(at) : at + FileSize <= q /\ q \in Nat /\ at + FileSize \in Nat
    BY <1>4, ChainStart DEF Chain
  <1> HIDE DEF at
  <1>6. SectionsOf(first)' = SectionsOf(at) BY <1>1 DEF SectionsOf, FileEnd
  <1>7. SectionsPassed(AlignedTo(4, section))'
    <2>1. SectionsPassed(AlignedTo(4, section))' <=>
            /\ first' + FileSize <= AlignedTo(4, section')
            /\ \A q \in SectionsOf(first)' :
                 q < AlignedTo(4, section') => q \notin Compressed(first)' /\ After(q)' <= AlignedTo(4, section')
      BY DEF SectionsPassed
    <2>2. at + FileSize <= at + FileSize BY <1>2, SMT DEF Typed, FilePositions, FileSize
    <2>3. \A q \in SectionsOf(at) : ~ (q < at + FileSize) BY <1>5
    <2> QED BY <1>1, <1>3, <1>6, <2>1, <2>2, <2>3
  <1>8. FilesPassed(first)' BY <1>1, ImageKept DEF FilesPassed, at
  <1>9. first' \in FilePositions' /\ image'.files[first'].type = "volume" /\ file' = FileEnd(first)'
    BY <1>1, <1>2 DEF FilePositions, FileEnd
  <1> QED BY <1>1, <1>7, <1>8, <1>9 DEF InFile

LEMMA OtherFilePassed ==
  ASSUME Tidy, Typed(image), image.header \in Nat, NextFile, file \in Nat, FilesPassed(AlignedTo(8, file)), step' = "files"
  PROVE  FilesPassed(AlignedTo(8, file))'
  <1> DEFINE at == AlignedTo(8, file)
             end == AlignedTo(8, file')
  <1>1. /\ image' = image /\ file' = at + FileAt(at).size
        /\ FileAt(at).type # "volume" BY DEF NextFile, Fail, Return, Abort, GoOn
  <1>2. FileAt(at).size \in Nat
    <2>1. Max24 \in Nat BY DEF Max24
    <2>2. Erased.size = Max24 /\ \A p \in DOMAIN image.files : image.files[p].size \in Nat
      BY <2>1 DEF Erased, Typed
    <2> QED BY <2>1, <2>2 DEF FileAt
  <1>3. at \in Nat /\ file' \in Nat /\ end \in Nat /\ end >= at
    <2>1. at \in Nat BY AlignedUp
    <2> HIDE DEF at
    <2>2. file' \in Nat /\ file' >= at BY <1>1, <1>2, <2>1
    <2> QED BY <2>1, <2>2, AlignedUp
  <1>4. \A p \in FilePositions : p <= at \/ (at \in FilePositions /\ Behind(at) <= p)
    BY <1>3, FilesBehind
  <1>5. at \in FilePositions => at \notin Candidates /\ Behind(at) = end
    BY <1>1 DEF FileAt, FilePositions, Candidates, Behind, FileEnd
  <1>6. AlignedTo(8, image.header) \in Nat /\ AlignedTo(8, image.header) <= end
    BY <1>3, AlignedUp DEF FilesPassed
  <1>7. \A p \in FilePositions : p \in Nat BY DEF Typed, FilePositions
  <1>8. ASSUME NEW p \in FilePositions, p < end PROVE p \notin Candidates /\ Behind(p) <= end
    <2> HIDE DEF at, end
    <2>1. CASE p < at
      <3>1. p \notin Candidates /\ Behind(p) <= at BY <2>1 DEF FilesPassed, at
      <3>2. Behind(p) \in Nat BY FilesChain DEF Chain
      <3> QED BY <1>3, <3>1, <3>2
    <2>2. CASE p = at BY <1>3, <1>5, <2>2
    <2>3. CASE p > at BY <1>3, <1>4, <1>5, <1>7, <1>8, <2>3
    <2> QED BY <1>3, <1>7, <2>1, <2>2, <2>3
  <1>9. FilesPassed(end) BY <1>6, <1>8 DEF FilesPassed
  <1> HIDE DEF at
  <1> QED BY <1>1, <1>9, ImageKept DEF FilesPassed

LEMMA FilePassed ==
  ASSUME Tidy, Typed(image), image.header \in Nat, InFile, section = file, section \in Nat
  PROVE  FilesPassed(AlignedTo(8, file))
  <1> DEFINE end == AlignedTo(8, file)
  <1>1. first \in FilePositions /\ first \in Nat /\ end = Behind(first) /\ end \in Nat /\ end > first
    <2>1. first \in FilePositions /\ first \in Nat /\ end = Behind(first)
      BY DEF InFile, Typed, FilePositions, Behind
    <2>2. Behind(first) \in Nat /\ Behind(first) > first BY <2>1, FilesChain DEF Chain
    <2> QED BY <2>1, <2>2
  <1> HIDE DEF end
  <1>2. \A p \in FilePositions : p <= first \/ Behind(first) <= p
    BY <1>1, FilesBehind DEF InFile
  <1>3. first \notin Candidates
    <2>1. ASSUME NEW q \in Compressed(first) PROVE FALSE
      <3>1. q \in SectionsOf(first) /\ q \in Nat /\ q < file
        BY DEF Compressed, SectionsOf, Typed, InFile
      <3>2. AlignedTo(4, section) \in Nat /\ AlignedTo(4, section) >= section BY AlignedUp
      <3>3. q < AlignedTo(4, section) BY <3>1, <3>2
      <3> QED BY <3>1, <3>3 DEF InFile, SectionsPassed
    <2> QED BY <2>1 DEF Candidates
  <1>4. AlignedTo(8, image.header) \in Nat /\ AlignedTo(8, image.header) <= end
    BY <1>1, AlignedUp DEF InFile, FilesPassed
  <1>5. ASSUME NEW p \in FilePositions, p < end PROVE p \notin Candidates /\ Behind(p) <= end
    <2>1. p \in Nat /\ Behind(p) \in Nat BY FilesChain DEF Chain
    <2>2. CASE p = first BY <1>1, <1>3, <2>2
    <2>3. CASE p < first BY <1>1, <2>1, <2>3 DEF InFile, FilesPassed
    <2> QED BY <1>1, <1>2, <1>5, <2>1, <2>2, <2>3
  <1> QED BY <1>4, <1>5 DEF FilesPassed, end

LEMMA CompressedFound ==
  ASSUME Tidy, Typed(image), image.header \in Nat, InFile, section \in Nat, NextSection, step' = "extract"
  PROVE  FirstFound'
  <1> DEFINE at == AlignedTo(4, section)
  <1>1. image' = image /\ first' = first /\ section' = at /\ SectionFits(at) /\ SectionAt(at).type = "guid"
    BY DEF NextSection, Fail, Return, GoOn
  <1>2. at \in SectionsOf(first) /\ SectionAt(at) = image.sections[at]
    BY <1>1, FitsIsSection
  <1>3. at \in Compressed(first) /\ first \in Candidates /\ at \in Nat
    BY <1>1, <1>2, AlignedUp DEF Compressed, Candidates, InFile
  <1> HIDE DEF at
  <1>4. \A q \in Compressed(first) : at <= q
    <2>1. \A q \in Compressed(first) : q \in SectionsOf(first) /\ q \in Nat
      BY DEF Compressed, SectionsOf, Typed
    <2>2. \A q \in Compressed(first) : ~ (q < at) BY <2>1 DEF InFile, SectionsPassed, at
    <2> QED BY <1>3, <2>1, <2>2
  <1>5. \A p \in Candidates : first <= p
    <2>1. \A p \in Candidates : p \in FilePositions /\ p \in Nat
      BY DEF Candidates, FilePositions, Typed
    <2>2. \A p \in Candidates : ~ (p < first) BY <2>1 DEF InFile, FilesPassed
    <2> QED BY <1>3, <2>1, <2>2
  <1>6. Candidates' = Candidates /\ Compressed(first)' = Compressed(first)
    BY <1>1 DEF Candidates, Compressed, SectionsOf, FilePositions, FileEnd
  <1> QED BY <1>1, <1>3, <1>4, <1>5, <1>6 DEF FirstFound

LEMMA OtherSectionPassed ==
  ASSUME Tidy, Typed(image), image.header \in Nat, InFile, section \in Nat, NextSection, step' = "sections"
  PROVE  InFile'
  <1> DEFINE at == AlignedTo(4, section)
             end == AlignedTo(4, section')
  <1>1. /\ image' = image /\ first' = first /\ file' = file /\ SectionFits(at)
        /\ SectionAt(at).type # "guid" /\ section' = at + SectionAt(at).size
    BY DEF NextSection, Fail, Return, GoOn
  <1>2. at \in SectionsOf(first) /\ SectionAt(at) = image.sections[at]
    BY <1>1, FitsIsSection
  <1>3. section' = SectionEnd(at) /\ end = After(at) /\ at \notin Compressed(first)
    BY <1>1, <1>2 DEF SectionEnd, After, Compressed
  <1>u. Chain(SectionsOf(first), [q \in SectionsOf(first) |-> After(q)], first + FileSize)
    BY SectionsChain DEF InFile
  <1>4. at \in Nat /\ end \in Nat /\ end > at
    <2>1. at \in Nat /\ After(at) \in Nat /\ After(at) > at BY <1>2, <1>u DEF Chain
    <2> QED BY <1>3, <2>1
  <1> HIDE DEF at, end
  <1>5. \A q \in SectionsOf(first) : q \in Nat /\ After(q) \in Nat /\ (q <= at \/ end <= q)
    <2>1. \A q \in SectionsOf(first) : q \in Nat /\ After(q) \in Nat BY <1>u DEF Chain
    <2>2. SectionsPassed(at) BY DEF InFile, at
    <2> QED BY <1>3, <1>4, <2>1, <2>2, SectionsBehind DEF InFile
  <1>6. \A q \in SectionsOf(first) : q < at => q \notin Compressed(first) /\ After(q) <= at
    BY DEF InFile, SectionsPassed, at
  <1>7. \A q \in SectionsOf(first) : q < end => q = at \/ (q < at /\ After(q) <= at)
    BY <1>4, <1>5, <1>6
  <1>8. \A q \in SectionsOf(first) : q < end => q \notin Compressed(first) /\ After(q) <= end
    BY <1>3, <1>4, <1>5, <1>6, <1>7
  <1>9. first + FileSize \in Nat /\ first + FileSize <= end
    <2>1. first + FileSize <= at /\ first + FileSize \in Nat
      BY <1>u DEF InFile, SectionsPassed, Chain, at
    <2> QED BY <1>4, <2>1
  <1>10. SectionsOf(first)' = SectionsOf(first) /\ Compressed(first)' = Compressed(first)
         /\ (\A q : After(q)' = After(q) /\ SectionEnd(q)' = SectionEnd(q)) /\ AlignedTo(4, section)' = end
    <2>1. SectionsOf(first)' = SectionsOf(first) BY <1>1 DEF SectionsOf, FileEnd
    <2>2. Compressed(first)' = Compressed(first) BY <1>1, <2>1 DEF Compressed
    <2>3. \A q : After(q)' = After(q) /\ SectionEnd(q)' = SectionEnd(q) BY <1>1, ImageKept
    <2> QED BY <2>1, <2>2, <2>3 DEF end
  <1>11. SectionsPassed(AlignedTo(4, section))'
    BY <1>1, <1>8, <1>9, <1>10 DEF SectionsPassed
  <1>12. ASSUME NEW u, u = at PROVE u \in SectionsOf(first)' /\ AtEndOf(u)'
    <2>1. section' = SectionEnd(u)' BY <1>3, <1>10, <1>12
    <2>2. \A q \in SectionsOf(first)' : q < AlignedTo(4, section)' => q = u \/ (q < u /\ After(q)' <= u)
      BY <1>7, <1>10, <1>12
    <2> QED BY <1>2, <1>10, <1>12, <2>1, <2>2 DEF AtEndOf
  <1>13. \E u \in SectionsOf(first)' : AtEndOf(u)' BY <1>12
  <1>14. /\ first' \in FilePositions' /\ image'.files[first'].type = "volume" /\ file' = FileEnd(first)'
         /\ FilesPassed(first)'
    BY <1>1 DEF InFile, FilePositions, FileEnd, FilesPassed, Candidates, Behind, Compressed, SectionsOf
  <1> QED BY <1>11, <1>13, <1>14 DEF InFile

LEMMA VolumeFirst == ASSUME FirstInv, SearchInv, Typed(image), Volume PROVE FirstInv'
  <1>1. CASE Fail \/ Abort BY <1>1, FirstKept DEF Fail, Abort, Return, GoOn
  <1>2. CASE step' = "files" /\ file' = image.header /\ image' = image
    <2>1. ASSUME Tidy PROVE FilesPassed(AlignedTo(8, image.header))
      <3>1. Chain(FilePositions, [p \in FilePositions |-> Behind(p)], AlignedTo(8, image.header))
        BY <2>1, FilesChain DEF SearchInv, Sized
      <3>2. AlignedTo(8, image.header) \in Nat /\ \A p \in FilePositions : p \in Nat
        BY <3>1 DEF Chain
      <3>3. \A p \in FilePositions : AlignedTo(8, image.header) <= p BY <3>1, ChainStart
      <3> QED BY <3>2, <3>3 DEF FilesPassed
    <2>2. FilesPassed(AlignedTo(8, file))' = FilesPassed(AlignedTo(8, image.header))
      BY <1>2, ImageKept DEF FilesPassed
    <2>3. Tidy' = Tidy BY <1>2, ImageKept
    <2> QED BY <1>2, <2>1, <2>2, <2>3 DEF FirstInv, AfterSearch
  <1> QED BY <1>1, <1>2 DEF Volume, Stray

LEMMA NextFileFirst == ASSUME FirstInv, SearchInv, Typed(image), NextFile PROVE FirstInv'
  <1>1. CASE Fail \/ Abort BY <1>1, FirstKept DEF Fail, Abort, Return, GoOn
  <1>2. CASE ~ (Fail \/ Abort)
    <2>1. step = "files" /\ image' = image /\ step' \in {"files", "sections"}
      BY <1>2 DEF NextFile
    <2>2. image.header \in Nat /\ file \in Nat BY DEF SearchInv, Sized
    <2>3. Tidy' = Tidy BY <2>1, ImageKept
    <2>4. ASSUME Tidy PROVE FilesPassed(AlignedTo(8, file)) BY <2>1, <2>4 DEF FirstInv
    <2> QED BY <2>1, <2>2, <2>3, <2>4, FirstVolume, OtherFilePassed DEF FirstInv, AfterSearch
  <1> QED BY <1>1, <1>2

LEMMA NextSectionFirst == ASSUME FirstInv, SearchInv, Typed(image), NextSection PROVE FirstInv'
  <1>1. CASE Fail BY <1>1, FirstKept DEF Fail, Return
  <1>2. CASE ~ Fail
    <2>1. step = "sections" /\ image' = image /\ step' \in {"files", "sections", "extract"}
          /\ (step' = "files" => section = file /\ file' = file)
      BY <1>2 DEF NextSection, GoOn
    <2>2. image.header \in Nat /\ file \in Nat /\ section \in Nat
      BY <2>1 DEF SearchInv, Sized, FileFound
    <2>3. Tidy' = Tidy BY <2>1, ImageKept
    <2>4. ASSUME Tidy PROVE InFile BY <2>1, <2>4 DEF FirstInv
    <2>5. ASSUME Tidy, step' = "files" PROVE FilesPassed(AlignedTo(8, file))'
      <3>1. FilesPassed(AlignedTo(8, file)) BY <2>1, <2>2, <2>4, <2>5, FilePassed
      <3> QED BY <2>1, <2>5, <3>1, ImageKept DEF FilesPassed
    <2> QED BY <2>1, <2>2, <2>3, <2>4, <2>5, CompressedFound, OtherSectionPassed DEF FirstInv, AfterSearch
  <1> QED BY <1>1, <1>2

LEMMA ExtractFirst ==
  ASSUME FirstInv, Extract \/ MeasurePei \/ MeasureDxe \/ MeasureSeparator
  PROVE  FirstInv'
  <1>1. CASE Fail \/ Abort \/ Stray BY <1>1, FirstKept DEF Fail, Abort, Stray, Return, GoOn
  <1>2. CASE /\ step \in AfterSearch /\ step' \in AfterSearch \cup {"returned"}
             /\ UNCHANGED <<image, file, first, section>> BY <1>2, FirstKept
  <1> QED BY <1>1, <1>2 DEF Extract, GetInfo, Decompress, MeasurePei, MeasureDxe, MeasureSeparator,
          Hash, GoOn, Return, AfterSearch

LEMMA FirstStep == ASSUME FirstInv, SearchInv, Typed(image), [OvmfNext]_ovmfVars PROVE FirstInv'
  <1>1. CASE ReadImage \/ CutVolume
    BY <1>1, FirstKept DEF ReadImage, CutVolume, GoOn, Stray, Fail, Abort, Return
  <1>2. CASE UNCHANGED ovmfVars BY <1>2, FirstKept DEF ovmfVars
  <1> QED BY <1>1, <1>2, VolumeFirst, NextFileFirst, NextSectionFirst, ExtractFirst
          DEF OvmfNext, Program, FindSection, OvmfEnded

LEMMA ImageStays == [OvmfNext]_ovmfVars => image' = image
  BY DEF OvmfNext, Program, ReadImage, CutVolume, FindSection, Volume, NextFile, NextSection, Extract, GetInfo, Decompress,
         MeasurePei, MeasureDxe, MeasureSeparator, Hash, GoOn, Return, Fail, Abort, Stray, OvmfEnded, ovmfVars

FoundInv == Typed(image) /\ SearchInv /\ FirstInv

LEMMA FoundInit == OvmfInit => FoundInv
  BY SearchInit, ImageTyped DEF OvmfInit, FoundInv, FirstInv, AfterSearch

LEMMA FoundStep == FoundInv /\ [OvmfNext]_ovmfVars => FoundInv'
  <1> SUFFICES ASSUME FoundInv, [OvmfNext]_ovmfVars PROVE FoundInv' OBVIOUS
  <1>1. Typed(image)' BY ImageStays DEF FoundInv, Typed
  <1> QED BY <1>1, SearchStep, FirstStep DEF FoundInv

\* The section found is the one that fulfils FoundIsFirst.
LEMMA FoundInvImplies == FoundInv => FoundIsFirst
  BY FoundMin DEF FoundInv, FirstInv, FoundIsFirst, AfterSearch

-----------------------------------------------------------------------------
(* What is measured of it, and what is refused *)

\* Nothing is measured in front of the step that measures PEIFV, and what is decoded
\* has a size of 32 bits.
TypeInv ==
  /\ OvmfTypeOK
  /\ step \notin {"dxe", "separator", "returned", "crashed"} => hashed = <<>>
  /\ step = "dxe" => Len(hashed) = 1
  /\ step = "decode" => Found.decoded <= Max32
  /\ step \in {"read", "cut", "volume", "files", "sections"} \cup AfterSearch => status = 1
  /\ status = 0 => step = "returned"

LEMMA TypeInit == OvmfInit => TypeInv
  <1> SUFFICES ASSUME OvmfInit PROVE TypeInv OBVIOUS
  <1>1. 0 \in 0 .. image.length /\ 0 <= Max32
    BY SearchInit, ScratchAssumption DEF SearchInv, Sized
  <1>2. <<>> \in Seq(Nat \X Nat) /\ Len(<<>>) <= 2 OBVIOUS
  <1>3. data \in [size : Nat, decoded : Nat] /\ data.decoded <= data.size /\ data.size <= Max32
    BY <1>1 DEF OvmfInit
  <1> QED BY <1>1, <1>2, <1>3 DEF OvmfInit, TypeInv, OvmfTypeOK, AfterSearch

\* A step that only moves on.
LEMMA TypeKept ==
  ASSUME TypeInv, image' = image, UNCHANGED <<file, first, section, data, pei, hashed>>,
         \/ step' = "crashed" /\ status' = status /\ status # 0
         \/ step' = "returned" /\ status' \in {-1, 0}
         \/ step' \in {"cut", "volume"} /\ step \in {"read", "cut"} /\ status' = status
         \/ step' = "files" /\ step \in {"volume", "sections"} /\ status' = status
         \/ step' = "decode" /\ step = "extract" /\ Found.decoded <= Max32 /\ status' = status
         \/ step' = step /\ status' = status
  PROVE  TypeInv' BY DEF TypeInv, OvmfTypeOK, AfterSearch, Found, SectionAt

LEMMA TypeEnds == ASSUME TypeInv, step # "returned", Stray \/ Fail \/ Abort PROVE TypeInv'
  BY TypeKept DEF TypeInv, Stray, Fail, Abort, Return, GoOn

LEMMA TypeSearch ==
  ASSUME TypeInv, SearchInv, Volume \/ NextFile \/ NextSection
  PROVE  TypeInv'
  <1>1. step # "returned" /\ step \in {"volume", "files", "sections"}
    BY DEF Volume, NextFile, NextSection
  <1>2. CASE Stray \/ Fail \/ Abort \/ (step = "sections" /\ GoOn("files"))
    BY <1>1, <1>2, TypeEnds, TypeKept DEF GoOn
  <1>3. CASE /\ image' = image /\ file' \in Nat /\ first' \in Nat /\ section' \in 0 .. image.length
             /\ step' \in {"files", "sections", "extract"} /\ UNCHANGED <<data, pei, hashed, status>>
    BY <1>1, <1>3 DEF TypeInv, OvmfTypeOK, AfterSearch
  <1>4. ASSUME Volume, ~ (Stray \/ Fail \/ Abort) PROVE TypeInv'
    <2>1. file' = image.header /\ image.header \in Nat BY <1>4 DEF Volume, SearchInv, Sized
    <2> QED BY <1>3, <1>4, <2>1 DEF Volume, TypeInv, OvmfTypeOK
  <1>5. ASSUME NextFile, ~ (Stray \/ Fail \/ Abort) PROVE TypeInv'
    <2> DEFINE at == AlignedTo(8, file)
               f == FileAt(at)
    <2>1. at \in Nat BY AlignedUp DEF SearchInv
    <2>2. f.size \in Nat BY SMT DEF FileAt, Erased, Max24, SearchInv, Sized
    <2>3. /\ f.size >= FileSize + CommonSize /\ at + f.size <= image.length /\ file' = at + f.size /\ image' = image
          /\ step' \in {"files", "sections"} /\ UNCHANGED <<data, pei, hashed, status>>
          /\ (first' = at /\ section' = at + FileSize) \/ UNCHANGED <<first, section>>
      BY <1>5 DEF NextFile
    <2> HIDE DEF at, f
    <2>4. file' \in Nat /\ at + FileSize \in 0 .. image.length
      BY <2>1, <2>2, <2>3, SMT DEF SearchInv, Sized, FileSize, CommonSize
    <2> QED BY <1>3, <2>1, <2>3, <2>4 DEF TypeInv, OvmfTypeOK
  <1>6. ASSUME NextSection, ~ (Stray \/ Fail \/ Abort), ~ GoOn("files") PROVE TypeInv'
    <2> DEFINE at == AlignedTo(4, section)
    <2>1. at \in Nat BY <1>6, AlignedUp DEF SearchInv, NextSection, FileFound
    <2>2. SectionAt(at).size \in Nat BY SMT DEF SectionAt, Max24, SearchInv, Sized
    <2>3. /\ SectionFits(at) /\ image' = image /\ UNCHANGED <<file, first, data, pei, hashed, status>>
          /\ step' \in {"sections", "extract"} /\ section' \in {at, at + SectionAt(at).size}
      BY <1>6 DEF NextSection
    <2>4. file <= image.length /\ file \in Nat /\ image.length \in Nat
      BY <1>6 DEF SearchInv, Sized, NextSection, FileFound
    <2> HIDE DEF at
    <2>5. section' \in 0 .. image.length BY <2>1, <2>2, <2>3, <2>4, SMT DEF SectionFits
    <2> QED BY <1>3, <2>3, <2>5 DEF TypeInv, OvmfTypeOK
  <1> QED BY <1>2, <1>4, <1>5, <1>6 DEF NextSection

LEMMA TypeExtract ==
  ASSUME TypeInv, FoundInv, Extract \/ MeasurePei \/ MeasureDxe \/ MeasureSeparator
  PROVE  TypeInv'
  <1>0. /\ data.size \in Nat /\ data.decoded \in Nat /\ pei \in Nat /\ hashed \in Seq(Nat \X Nat) /\ Len(hashed) <= 2
        /\ image.pei \in Nat /\ image.dxe \in Nat /\ Max32 \in Nat
    BY ScratchAssumption DEF TypeInv, OvmfTypeOK, FoundInv, Typed
  <1>1. CASE Stray \/ Fail \/ Abort \/ (step = "extract" /\ Found.decoded <= Max32 /\ GoOn("decode"))
            \/ (step = "separator" /\ Return(0))
    <2>1. step # "returned"
      BY DEF Extract, GetInfo, Decompress, MeasurePei, MeasureDxe, MeasureSeparator
    <2> QED BY <1>1, <2>1, TypeEnds, TypeKept DEF GoOn, Return
  <1>2. CASE Decompress
    <2>1. CASE Abort BY <1>1, <2>1
    <2>2. CASE ~ Abort
      <3>1. PICK n \in DecodedLengths : data' = [size |-> Found.decoded, decoded |-> n]
        BY <1>2, <2>2 DEF Decompress
      <3>2. Found.decoded \in Nat BY SMT DEF Found, SectionAt, FoundInv, Typed
      <3>3. n \in Nat /\ n <= Found.decoded BY <3>2, SMT DEF DecodedLengths
      <3>4. Found.decoded <= Max32 BY <1>2, <2>2 DEF Decompress, FoundInv, TypeInv
      <3> QED BY <1>0, <1>2, <2>2, <3>1, <3>2, <3>3, <3>4 DEF Decompress, TypeInv, OvmfTypeOK, AfterSearch
    <2> QED BY <2>1, <2>2
  <1>3. ASSUME NEW at \in Nat, NEW n \in Nat, NEW label \in {"dxe", "separator"}, Hash(at, n, label), ~ Fail, ~ Abort,
               (step = "pei" /\ label = "dxe") \/ (step = "dxe" /\ label = "separator")
        PROVE  TypeInv'
    <2>1. hashed' = Append(hashed, <<at, at + n>>) /\ pei' \in Nat /\ step' = label
          /\ UNCHANGED <<image, file, first, section, data, status>> BY <1>0, <1>3 DEF Hash
    <2>2. <<at, at + n>> \in Nat \X Nat OBVIOUS
    <2>3. Len(hashed) = IF step = "pei" THEN 0 ELSE 1 BY <1>3 DEF TypeInv
    <2>4. hashed' \in Seq(Nat \X Nat) /\ Len(hashed') = Len(hashed) + 1 BY <1>0, <2>1, <2>2
    <2>5. Len(hashed') <= 2 /\ (label = "dxe" => Len(hashed') = 1) BY <1>3, <2>3, <2>4
    <2> QED BY <1>3, <2>1, <2>4, <2>5 DEF TypeInv, OvmfTypeOK, AfterSearch
  <1>4. \A at : LengthAt(at) \subseteq Nat BY <1>0 DEF LengthAt
  <1>5. ASSUME MeasurePei, ~ Fail, ~ Abort PROVE TypeInv'
    <2>1. PeiStart \in Nat BY DEF PeiStart
    <2>2. PICK n \in LengthAt(PeiStart) : step = "pei" /\ Hash(PeiStart, n, "dxe")
      BY <1>5 DEF MeasurePei
    <2>3. n \in Nat BY <1>4, <2>2
    <2> QED BY <1>3, <1>5, <2>1, <2>2, <2>3
  <1>6. ASSUME MeasureDxe, ~ Fail, ~ Abort PROVE TypeInv'
    <2>1. DxeGap + pei \in Nat BY <1>0 DEF DxeGap
    <2> QED BY <1>3, <1>4, <1>6, <2>1 DEF MeasureDxe
  <1>7. CASE GetInfo
    <2>1. Found.decoded \in Nat BY SMT DEF Found, SectionAt, FoundInv, Typed
    <2>2. Found.decoded > Max32 \/ Found.decoded <= Max32 BY <1>0, <2>1
    <2> QED BY <1>1, <1>7, <2>2 DEF GetInfo
  <1> QED BY <1>1, <1>2, <1>5, <1>6, <1>7 DEF Extract, MeasureSeparator

LEMMA TypeStep == ASSUME TypeInv, FoundInv, [OvmfNext]_ovmfVars PROVE TypeInv'
  <1>1. CASE ReadImage \/ CutVolume
    BY <1>1, TypeEnds, TypeKept DEF ReadImage, CutVolume, GoOn
  <1>2. CASE UNCHANGED ovmfVars
    BY <1>2, TypeKept DEF ovmfVars, TypeInv, OvmfTypeOK, AfterSearch
  <1> QED BY <1>1, <1>2, TypeSearch, TypeExtract DEF OvmfNext, Program, FindSection, OvmfEnded, FoundInv

\* A file is at an aligned position.
LEMMA FirstAligned ==
  ASSUME Tidy, Typed(image), image.header \in Nat, NEW p \in FilePositions
  PROVE  p = AlignedTo(8, p)
  <1>1. PICK e \in Nat : p = AlignedTo(8, e)
    <2>1. \A q \in FilePositions : FileEnd(q) \in Nat
      BY SMT DEF Typed, FilePositions, FileEnd
    <2> QED BY <2>1 DEF Tidy
  <1> QED BY <1>1, Alignment

\* Of an image as built the search finds a file at every position it comes to.
LEMMA FilePresent ==
  ASSUME AsBuilt, FoundInv, step = "files"
  PROVE  /\ AlignedTo(8, file) \in FilePositions /\ AlignedTo(8, file) \in Nat
         /\ FileAt(AlignedTo(8, file)) = image.files[AlignedTo(8, file)]
  <1> DEFINE at == AlignedTo(8, file)
  <1>1. at \in Nat /\ FilesPassed(at) /\ Tidy /\ Typed(image) /\ image.header \in Nat
    BY AlignedUp DEF AsBuilt, FoundInv, FirstInv, SearchInv, Sized
  <1>2. PICK c \in Candidates : TRUE BY DEF AsBuilt
  <1>3. c \in FilePositions /\ c \in Nat /\ ~ (c < at)
    BY <1>1, <1>2 DEF Candidates, FilePositions, FilesPassed, Typed
  <1> HIDE DEF at
  <1>4. c <= at \/ at \in FilePositions BY <1>1, <1>3, FilesBehind
  <1>5. at \in FilePositions BY <1>1, <1>3, <1>4
  <1> QED BY <1>1, <1>5 DEF FileAt, FilePositions, at

LEMMA FileTaken ==
  ASSUME AsBuilt, FoundInv, NextFile
  PROVE  ~ Fail /\ ~ Abort
  <1> DEFINE at == AlignedTo(8, file)
             f == FileAt(at)
  <1>1. at \in FilePositions /\ at \in Nat /\ f = image.files[at]
    BY FilePresent DEF NextFile
  <1>2. f.size >= FileSize + CommonSize /\ at + f.size <= image.length
    BY <1>1 DEF AsBuilt, Tidy, FileEnd
  <1>3. f.size \in Nat /\ image.length \in Nat
    BY <1>1, SMT DEF FoundInv, Typed, FilePositions, SearchInv, Sized
  <1>4. ~ (at > image.length) /\ ~ (f.size < FileSize + CommonSize) /\ ~ ~ (at + f.size <= image.length)
        /\ at \notin image.length - FileSize + 1 .. image.length
    <2> HIDE DEF at, f
    <2> QED BY <1>1, <1>2, <1>3, SMT DEF FileSize, CommonSize
  <1> HIDE DEF at, f
  <1>5. step' \in {"files", "sections"} BY <1>4 DEF NextFile, at, f
  <1> QED BY <1>5 DEF Fail, Abort, Return, GoOn

\* And a section behind every one that does not end its file.
LEMMA SectionTaken ==
  ASSUME AsBuilt, FoundInv, NextSection
  PROVE  ~ Fail /\ ~ Abort
  <1> SUFFICES ASSUME section # file PROVE SectionFits(AlignedTo(4, section))
    BY DEF NextSection, GoOn, Fail, Abort, Return
  <1> DEFINE at == AlignedTo(4, section)
  <1>0. Tidy /\ InFile /\ Typed(image) /\ image.header \in Nat /\ section \in Nat /\ file \in Nat
    BY DEF AsBuilt, FoundInv, FirstInv, SearchInv, Sized, NextSection, FileFound
  <1>1. at \in Nat /\ at >= section BY <1>0, AlignedUp
  <1>2. first \in FilePositions /\ image.files[first].type = "volume" /\ file = FileEnd(first)
        /\ SectionsPassed(at) BY <1>0 DEF InFile
  <1>3. PICK u \in SectionsOf(first) : SectionEnd(u) = file BY <1>0, <1>2 DEF Tidy
  <1>4. \A q \in SectionsOf(first) : /\ q \in Nat /\ q < file /\ SectionEnd(q) \in Nat /\ q < SectionEnd(q)
                                     /\ image.sections[q].size >= CommonSize /\ SectionEnd(q) <= file
    <2>1. \A q \in SectionsOf(first) : q \in Nat /\ image.sections[q].size \in Nat /\ q < file
      BY <1>0, <1>2, SMT DEF Typed, SectionsOf
    <2>2. \A q \in SectionsOf(first) : image.sections[q].size >= CommonSize /\ SectionEnd(q) <= file
      BY <1>0, <1>2 DEF Tidy
    <2> QED BY <2>1, <2>2, SMT DEF SectionEnd, CommonSize
  <1> HIDE DEF at
  <1>5. ~ (u < at)
    <2> SUFFICES ASSUME u < at PROVE FALSE OBVIOUS
    <2>1. CASE section = first + FileSize
      <3>1. at = first + FileSize
        <4>1. first = AlignedTo(8, first) BY <1>0, <1>2, FirstAligned
        <4> QED BY <2>1, <4>1, <1>0, <1>2, Alignment DEF at, Typed, FilePositions
      <3>2. Chain(SectionsOf(first), [q \in SectionsOf(first) |-> After(q)], first + FileSize)
        BY <1>0, <1>2, SectionsChain
      <3>3. first + FileSize <= u BY <3>2, ChainStart
      <3> QED BY <1>1, <1>4, <3>1, <3>3
    <2>2. ASSUME NEW q \in SectionsOf(first), AtEndOf(q) PROVE FALSE
      <3>1. section = SectionEnd(q) /\ (u = q \/ (u < q /\ After(u) <= q))
        BY <2>2 DEF AtEndOf, at
      <3>2. u # q BY <1>3, <3>1
      <3>3. After(u) = AlignedTo(4, file) /\ AlignedTo(4, file) >= file /\ AlignedTo(4, file) \in Nat
        BY <1>0, <1>3, AlignedUp DEF After
      <3> QED BY <1>0, <1>4, <3>1, <3>2, <3>3
    <2> QED BY <1>0, <2>1, <2>2 DEF InFile
  <1>6. at \in SectionsOf(first)
    <2>1. u <= at \/ at \in SectionsOf(first) BY <1>0, <1>1, <1>2, SectionsBehind
    <2> QED BY <1>1, <1>3, <1>4, <1>5, <2>1
  <1>7. SectionAt(at) = image.sections[at] /\ at < file
    BY <1>4, <1>6 DEF SectionAt, SectionsOf
  <1> QED BY <1>4, <1>6, <1>7 DEF SectionFits, SectionEnd, at

\* What the build makes of the section of the two volumes.
LEMMA BuiltFound ==
  ASSUME AsBuilt, FoundInv, step \in AfterSearch
  PROVE  /\ Found.lzma /\ Found.result = "ok" /\ Found.probs <= Scratch
         /\ Found.decoded = DxeGap + image.pei + image.dxe /\ Found.decoded <= Max32 /\ Found.decoded \in Nat
         /\ SourceSize >= LzmaHeader /\ SourceSize \in Int
         /\ section + GuidSize <= image.length /\ section \in Nat /\ image.length \in Nat
         /\ image.pei \in Nat /\ image.dxe \in Nat /\ image.pei >= LengthEnd /\ image.dxe >= LengthEnd
  <1>1. Typed(image) /\ FirstFound /\ SearchInv BY DEF AsBuilt, FoundInv, FirstInv
  <1>2. first = Min(Candidates) /\ section = Min(Compressed(first)) /\ section \in DOMAIN image.sections
    BY <1>1, FoundMin DEF FirstFound, Compressed, SectionsOf
  <1>3. Found = image.sections[section] BY <1>2 DEF Found, SectionAt
  <1>4. /\ Found.lzma /\ Found.offset + LzmaHeader <= Found.size /\ Found.offset >= GuidSize
        /\ Found.result = "ok" /\ Found.probs <= Scratch /\ Found.decoded <= Max32
        /\ image.pei >= LengthEnd /\ image.dxe >= LengthEnd
        /\ Found.decoded = DxeGap + image.pei + image.dxe BY <1>2, <1>3 DEF AsBuilt
  <1>5. Found.offset \in Nat /\ Found.size \in Nat /\ Found.decoded \in Nat /\ image.pei \in Nat /\ image.dxe \in Nat
    BY <1>1, <1>2, <1>3, SMT DEF Typed
  <1>6. section \in Nat /\ section + Found.size <= file /\ file <= image.length /\ file \in Nat /\ image.length \in Nat
    BY <1>1 DEF SearchInv, FileFound, AfterSearch, Sized
  <1>7. SourceSize = Found.size - Found.offset BY DEF SourceSize
  <1> QED BY <1>4, <1>5, <1>6, <1>7, SMT DEF GuidSize, LzmaHeader

PeiRange == <<PeiStart, PeiStart + image.pei>>
DxeRange == <<DxeGap + image.pei, DxeGap + image.pei + image.dxe>>

MeasureInv ==
  AsBuilt =>
    /\ step \in {"pei", "dxe", "separator"} \/ status = 0 =>
         data.size = DxeGap + image.pei + image.dxe /\ data.decoded = data.size
    /\ step = "dxe" => pei = image.pei /\ hashed = <<PeiRange>>
    /\ step = "separator" \/ status = 0 => hashed = <<PeiRange, DxeRange>>

LEMMA BuiltKept ==
  ASSUME image' = image
  PROVE  AsBuilt' = AsBuilt /\ PeiRange' = PeiRange /\ DxeRange' = DxeRange
  <1>1. Min(Compressed(Min(Candidates)))' = Min(Compressed(Min(Candidates)))
    BY DEF Min, Candidates, Compressed, FilePositions, SectionsOf, FileEnd
  <1>2. Tidy' = Tidy /\ Candidates' = Candidates BY ImageKept
  <1> QED BY <1>1, <1>2 DEF AsBuilt, PeiRange, DxeRange

\* Where the two volumes are, their lengths are read, and they are hashed.
LEMMA BuiltHash ==
  ASSUME AsBuilt, FoundInv, MeasureInv, step \in {"pei", "dxe"}
  PROVE  /\ step = "pei" => LengthAt(PeiStart) = {image.pei} /\ PeiStart + LengthEnd <= data.size
                          /\ PeiStart + image.pei <= data.size
         /\ step = "dxe" => LengthAt(DxeGap + pei) = {image.dxe} /\ DxeGap + pei + LengthEnd <= data.size
                          /\ DxeGap + pei + image.dxe <= data.size /\ pei = image.pei
  <1>1. image.pei \in Nat /\ image.dxe \in Nat /\ image.pei >= LengthEnd /\ image.dxe >= LengthEnd
    BY BuiltFound DEF AfterSearch
  <1>2. data.size = DxeGap + image.pei + image.dxe /\ data.decoded = data.size
    BY DEF MeasureInv
  <1>3. PeiStart + LengthEnd <= data.size /\ PeiStart + image.pei <= data.size
    BY <1>1, <1>2, SMT DEF PeiStart, LengthEnd, DxeGap
  <1>4. DxeGap + image.pei + LengthEnd <= data.size /\ DxeGap + image.pei + image.dxe <= data.size
        /\ DxeGap + image.pei # PeiStart BY <1>1, <1>2, SMT DEF PeiStart, LengthEnd, DxeGap
  <1>5. step = "dxe" => pei = image.pei BY DEF MeasureInv
  <1> QED BY <1>2, <1>3, <1>4, <1>5 DEF LengthAt

\* An image as built is refused, or kills the program, in a faulty run only.
LEMMA BuiltTaken ==
  ASSUME AsBuilt, FoundInv, MeasureInv, TypeInv, Program, image.faults = {}
  PROVE  step' # "crashed" /\ (status' = -1 => status = -1)
  <1>1. /\ image.size >= image.start + image.length /\ image.length >= FvSize /\ image.start \in Nat
        /\ image.length \in Nat /\ image.size \in Nat \cup {-1} /\ image.signature /\ ~ MemoryFails
    BY DEF AsBuilt, FoundInv, Typed, SearchInv, Sized, Tidy, MemoryFails
  <1>2. CASE ReadImage
    <2>1. image.size # -1 BY <1>1, SMT DEF FvSize
    <2> QED BY <1>2, <2>1 DEF ReadImage, GoOn
  <1>3. CASE CutVolume
    <2>1. HeadersInside /\ VolumeInside
      BY <1>1, SMT DEF HeadersInside, VolumeInside, FvSize, LengthEnd
    <2> QED BY <1>1, <1>3, <2>1 DEF CutVolume, GoOn
  <1>4. CASE Volume
    <2>1. ~ (image.length < FvSize) BY <1>1, SMT DEF FvSize
    <2> QED BY <1>1, <1>4, <2>1 DEF Volume
  <1>5. CASE NextFile
    <2>1. ~ Fail /\ ~ Abort BY <1>5, FileTaken
    <2> QED BY <1>5, <2>1 DEF NextFile
  <1>6. CASE NextSection
    <2>1. ~ Fail /\ ~ Abort BY <1>6, SectionTaken
    <2> QED BY <1>6, <2>1 DEF NextSection, GoOn
  <1>7. CASE GetInfo
    <2>1. /\ Found.lzma /\ Found.decoded <= Max32 /\ Found.decoded \in Nat /\ SourceSize >= LzmaHeader /\ SourceSize \in Int
          /\ section + GuidSize <= image.length /\ section \in Nat /\ image.length \in Nat
      BY <1>7, BuiltFound DEF GetInfo, AfterSearch
    <2>2. ~ Wraps /\ SourceSize \notin 0 .. LzmaHeader - 1
      BY <2>1, SMT DEF Wraps, LzmaHeader
    <2>3. ~ (section + GuidSize > image.length) /\ ~ (Found.decoded > Max32)
      BY <2>1, ScratchAssumption, SMT DEF GuidSize
    <2> QED BY <1>1, <1>7, <2>1, <2>2, <2>3 DEF GetInfo, GoOn
  <1>8. CASE Decompress
    <2>1. SzAlloc(Found.probs) BY <1>8, BuiltFound DEF Decompress, AfterSearch, SzAlloc
    <2> QED BY <1>8, <2>1 DEF Decompress
  <1>9. CASE MeasurePei
    <2>1. step = "pei" /\ Hash(PeiStart, image.pei, "dxe") /\ PeiStart + LengthEnd <= data.size
          /\ PeiStart + image.pei <= data.size BY <1>9, BuiltHash DEF MeasurePei
    <2>2. ~ (PeiStart + LengthEnd > data.size \/ PeiStart + image.pei > data.size)
      BY <2>1, BuiltFound, SMT DEF TypeInv, OvmfTypeOK, PeiStart, LengthEnd, AfterSearch
    <2> QED BY <2>1, <2>2 DEF Hash
  <1>10. CASE MeasureDxe
    <2>1. step = "dxe" /\ Hash(DxeGap + pei, image.dxe, "separator") /\ DxeGap + pei + LengthEnd <= data.size
          /\ DxeGap + pei + image.dxe <= data.size BY <1>10, BuiltHash DEF MeasureDxe
    <2>2. ~ (DxeGap + pei + LengthEnd > data.size \/ DxeGap + pei + image.dxe > data.size)
      BY <2>1, BuiltFound, SMT DEF TypeInv, OvmfTypeOK, DxeGap, LengthEnd, AfterSearch
    <2> QED BY <2>1, <2>2 DEF Hash
  <1>11. CASE MeasureSeparator BY <1>1, <1>11 DEF MeasureSeparator, Return
  <1> QED BY <1>2, <1>3, <1>4, <1>5, <1>6, <1>7, <1>8, <1>9, <1>10, <1>11 DEF Program, FindSection, Extract

\* Two measurements, one behind the other.
LEMMA AppendToOne == \A a, b : Append(<<a>>, b) = <<a, b>>
  <1> SUFFICES ASSUME NEW a, NEW b PROVE Append(<<a>>, b) = <<a, b>> OBVIOUS
  <1>1. <<a>> \in Seq({a, b}) /\ <<a, b>> \in Seq({a, b}) /\ Len(<<a>>) = 1 /\ Len(<<a, b>>) = 2
    OBVIOUS
  <1> DEFINE u == Append(<<a>>, b)
  <1>2. u \in Seq({a, b}) /\ Len(u) = 2 /\ u[1] = a /\ u[2] = b BY <1>1, AppendProperties
  <1> HIDE DEF u
  <1>3. \A i \in 1 .. 2 : u[i] = <<a, b>>[i] BY <1>2
  <1>4. u = <<a, b>> BY <1>1, <1>2, <1>3, SeqEqual
  <1> QED BY <1>4 DEF u

LEMMA MeasureStep ==
  ASSUME MeasureInv, FoundInv, TypeInv, [OvmfNext]_ovmfVars
  PROVE  MeasureInv'
  <1> SUFFICES ASSUME AsBuilt PROVE MeasureInv' BY ImageStays, BuiltKept DEF MeasureInv
  <1>0. image' = image /\ AsBuilt' = AsBuilt /\ PeiRange' = PeiRange /\ DxeRange' = DxeRange
    BY ImageStays, BuiltKept
  <1>1. CASE UNCHANGED ovmfVars BY <1>0, <1>1 DEF MeasureInv, ovmfVars
  <1>2. CASE step' \in {"returned", "crashed"} /\ status' # 0 BY <1>0, <1>2 DEF MeasureInv
  <1>3. CASE step' \in {"cut", "volume", "files", "sections", "extract", "decode"} /\ status' # 0
    BY <1>0, <1>3 DEF MeasureInv
  <1>r. step # "returned" => status # 0 BY DEF TypeInv
  <1>4. CASE ReadImage \/ CutVolume \/ Volume \/ NextFile \/ NextSection \/ GetInfo
    BY <1>2, <1>3, <1>4, <1>r
       DEF ReadImage, CutVolume, Volume, NextFile, NextSection, GetInfo, GoOn, Return, Fail, Abort, Stray
  <1>5. CASE Fail \/ Abort
    <2>1. CASE step = "returned"
      BY <1>0, <1>5, <2>1 DEF MeasureInv, Fail, Abort, Return, GoOn
    <2> QED BY <1>2, <1>5, <1>r, <2>1 DEF Fail, Abort, Return, GoOn
  <1>6. CASE Decompress /\ ~ Abort
    <2>1. step = "decode" /\ Found.result = "ok" /\ Found.decoded = DxeGap + image.pei + image.dxe
      BY <1>6, BuiltFound DEF Decompress, AfterSearch
    <2>2. data' = [size |-> Found.decoded, decoded |-> Found.decoded] /\ step' = "pei" /\ status' = status
      BY <1>6, <2>1 DEF Decompress, DecodedLengths
    <2> QED BY <1>0, <1>r, <2>1, <2>2 DEF MeasureInv
  <1>7. CASE MeasurePei /\ ~ Fail /\ ~ Abort
    <2>1. step = "pei" /\ Hash(PeiStart, image.pei, "dxe") BY <1>7, BuiltHash DEF MeasurePei
    <2>2. hashed' = Append(hashed, PeiRange) /\ pei' = image.pei /\ step' = "dxe" /\ data' = data /\ status' = status
      BY <1>7, <2>1 DEF Hash, PeiRange
    <2>3. hashed = <<>> BY <2>1 DEF TypeInv
    <2>4. Append(<<>>, PeiRange) = <<PeiRange>> OBVIOUS
    <2> QED BY <1>0, <1>r, <2>1, <2>2, <2>3, <2>4 DEF MeasureInv
  <1>8. CASE MeasureDxe /\ ~ Fail /\ ~ Abort
    <2>1. step = "dxe" /\ Hash(DxeGap + pei, image.dxe, "separator") /\ pei = image.pei
      BY <1>8, BuiltHash DEF MeasureDxe
    <2>2. hashed' = Append(hashed, DxeRange) /\ step' = "separator" /\ data' = data /\ status' = status
      BY <1>8, <2>1 DEF Hash, DxeRange
    <2>3. hashed = <<PeiRange>> BY <2>1 DEF MeasureInv
    <2>4. Append(<<PeiRange>>, DxeRange) = <<PeiRange, DxeRange>> BY AppendToOne
    <2> QED BY <1>0, <1>r, <2>1, <2>2, <2>3, <2>4 DEF MeasureInv
  <1>9. CASE MeasureSeparator BY <1>0, <1>5, <1>9 DEF MeasureInv, MeasureSeparator, Return
  <1> QED BY <1>1, <1>4, <1>5, <1>6, <1>7, <1>8, <1>9
          DEF OvmfNext, Program, FindSection, Extract, OvmfEnded

LEMMA RefusedStep ==
  ASSUME RefusedForReason, MeasureInv, FoundInv, TypeInv, [OvmfNext]_ovmfVars
  PROVE  RefusedForReason'
  <1>0. image' = image /\ AsBuilt' = AsBuilt BY ImageStays, BuiltKept
  <1>1. CASE ~ AsBuilt \/ image.faults # {} BY <1>0, <1>1 DEF RefusedForReason
  <1>2. CASE AsBuilt /\ image.faults = {} /\ Program
    <2>1. step # "crashed" /\ status # -1 BY <1>2 DEF RefusedForReason
    <2>2. step' # "crashed" /\ status' # -1 BY <1>2, <2>1, BuiltTaken
    <2> QED BY <2>2 DEF RefusedForReason
  <1>3. CASE UNCHANGED ovmfVars BY <1>0, <1>3 DEF RefusedForReason, ovmfVars
  <1> QED BY <1>1, <1>2, <1>3 DEF OvmfNext, OvmfEnded

FirmwareInv == TypeInv /\ FoundInv /\ MeasureInv /\ RefusedForReason

LEMMA FirmwareInit == OvmfInit => FirmwareInv
  BY TypeInit, FoundInit DEF OvmfInit, FirmwareInv, MeasureInv, RefusedForReason

LEMMA FirmwareStep == FirmwareInv /\ [OvmfNext]_ovmfVars => FirmwareInv'
  <1> SUFFICES ASSUME FirmwareInv, [OvmfNext]_ovmfVars PROVE FirmwareInv' OBVIOUS
  <1> QED BY TypeStep, FoundStep, MeasureStep, RefusedStep DEF FirmwareInv

LEMMA FirmwareInvImplies == FirmwareInv => FirmwareMeasured
  <1> SUFFICES ASSUME FirmwareInv PROVE FirmwareMeasured OBVIOUS
  <1>1. MeasuredIsFirmware
    <2> SUFFICES ASSUME status = 0, AsBuilt
                 PROVE  hashed = <<<<PeiStart, PeiStart + image.pei>>, <<data.size - image.dxe, data.size>>>>
      BY DEF MeasuredIsFirmware
    <2>1. data.size = DxeGap + image.pei + image.dxe /\ hashed = <<PeiRange, DxeRange>>
      BY DEF FirmwareInv, MeasureInv
    <2>2. data.size - image.dxe = DxeGap + image.pei
      BY <2>1, SMT DEF FirmwareInv, FoundInv, Typed, DxeGap
    <2> QED BY <2>1, <2>2 DEF PeiRange, DxeRange
  <1> QED BY <1>1, FoundInvImplies DEF FirmwareInv, FirmwareMeasured, TypeInv

\* For every set of images: the section taken is the first compressed one of the
\* first file that has one, an image as the build of OVMF makes it is not refused
\* without a fault, and its PCR 0 is of the two volumes in that section
\* (SecMain.c:124-336, pcrs.c:84-171).
THEOREM MeasuresFirmware == OvmfSpec => []FirmwareMeasured
  BY FirmwareInit, FirmwareStep, FirmwareInvImplies, PTL DEF OvmfSpec
=============================================================================
