-------------------------------- MODULE Mrtd --------------------------------
(***************************************************************************)
(* mrtd.c of calculate-tdx-mrs: what the TDX module measures of an OVMF    *)
(* image.  measure_ovmf goes through the metadata sections of the image    *)
(* and hashes the calls by which QEMU builds the trust domain from them;   *)
(* measure_cfv hashes the configuration volume.                            *)
(*                                                                         *)
(* Offsets, addresses and sizes count chunks of TDH.MR.EXTEND, 256 bytes.  *)
(* A digest is the sequence of calls that were hashed, Garbage while the   *)
(* array of the caller is uninitialised.                                   *)
(***************************************************************************)
EXTENDS Integers, Sequences

CONSTANTS Images,         \* the images the runs may start with
          ChunksPerPage,  \* PAGE_SIZE / TDH_MR_EXTEND_GRANULARITY, 16
          Wrap,           \* 2^32 bytes
          Garbage         \* a digest that is uninitialised stack memory

Job == {"measure_ovmf", "measure_cfv"}

\* --qemuversion, "other" for each one that measure_ovmf does not know.
Version == {"9.2.0", "8.2.2", "other"}

Tdvf == 1
TdInfo == 7
TypeMax == 9

\* An entry of the metadata.  extend and aug are the bits EXTENDMR and
\* PAGE_AUG of its attributes.
Section == [off : Nat, raw : Nat, addr : Nat, mem : Nat, type : Nat,
            extend : BOOLEAN, aug : BOOLEAN]

\* footer: what stands 48 bytes before the end of the image, the GUID of the
\* OVMF table or the offset of the metadata ("plain"); an image is "tiny"
\* below 32 bytes, "small" below 48.  table: the entries of the OVMF table up
\* to that of the metadata, "zero" for one with the length 0.  descriptor:
\* whether the metadata has a valid header, not, or lies outside the image.
\* sections: as many as the header counts.  The first held of them lie in the
\* bytes its length names, the others are what the memory behind metadata_buf
\* looks like.
Image == [size : Nat,
          footer : {"tiny", "small", "table", "plain"},
          table : Seq({"other", "zero", "metadata"}),
          descriptor : {"valid", "invalid", "outside"},
          held : Nat,
          sections : Seq(Section)]

Call == [call : {"add"}, at : Nat]
          \cup [call : {"extend"}, at : Nat, data : Nat]
          \cup [call : {"volume"}, at : Nat, data : Nat]

Label == {"footer", "table", "descriptor", "context", "section", "add", "page", "chunk",
          "volume", "done", "crashed"}

ASSUME GeometryAssumption ==
  /\ ChunksPerPage \in Nat \ {0} /\ Wrap \in Nat \ {0} /\ Garbage \notin Seq(Call)

ASSUME ImagesAssumption ==
  /\ Images \subseteq Image
  /\ \A m \in Images : \A s \in DOMAIN m.sections :
       m.sections[s].off < Wrap /\ m.sections[s].raw < Wrap

VARIABLES
  img, job, version,  \* the arguments
  short,    \* allocations may fail in this run
  pc,       \* the next step
  entry,    \* the entry of the OVMF table the search is at
  found,    \* the offset of the metadata was found, it is 0 otherwise
  s,        \* the section the loop is at
  page,     \* iter, the page of the section
  chunk,    \* chunk_iter, the chunk of the page
  ctx,      \* the calls in the digest context
  digest,   \* the array of the caller
  ret       \* the result, 1 while running

arguments == <<img, job, version, short>>
vars == <<img, job, version, short, pc, entry, found, s, page, chunk, ctx, digest, ret>>

Init ==
  /\ img \in Images /\ job \in Job
  /\ version \in IF job = "measure_ovmf" THEN Version ELSE {"9.2.0"}
  /\ short \in BOOLEAN
  /\ pc = "footer" /\ entry = 1 /\ found = FALSE
  /\ s = 1 /\ page = 0 /\ chunk = 0
  /\ ctx = <<>> /\ digest = Garbage /\ ret = 1

Done(result, value) ==
  /\ pc' = "done" /\ ret' = result /\ digest' = value
  /\ UNCHANGED <<arguments, entry, found, s, page, chunk, ctx>>

\* The error paths that return -1.
Refuse == Done(-1, digest)

\* The error paths behind metadata_buf: ret is still the 0 of
\* get_ovmf_metadata_offset.
GiveUp == Done(0, digest)

Crash ==
  /\ pc' = "crashed"
  /\ UNCHANGED <<arguments, entry, found, s, page, chunk, ctx, digest, ret>>

Goto(label) ==
  pc' = label /\ UNCHANGED <<arguments, entry, found, s, page, chunk, ctx, digest, ret>>

-----------------------------------------------------------------------------
(* get_ovmf_metadata_offset *)

\* raw_image_size - 48 wraps around, and wraps back for sizes of 32 and more:
\* the footer is then read in front of the buffer.
ReadFooter ==
  /\ pc = "footer"
  /\ \/ img.footer = "tiny" /\ Refuse
     \/ img.footer = "small" /\ (Refuse \/ Crash)
     \/ img.footer = "table" /\ Goto("table")
     \/ /\ img.footer = "plain"
        /\ pc' = "descriptor" /\ found' = TRUE
        /\ UNCHANGED <<arguments, entry, s, page, chunk, ctx, digest, ret>>

\* [fault] The search does not go on to the next entry.
SearchTableStuck ==
  /\ pc = "table" /\ entry <= Len(img.table)
  /\ IF img.table[entry] = "metadata"
     THEN pc' = "descriptor" /\ found' = TRUE
     ELSE UNCHANGED <<pc, found>>
  /\ UNCHANGED <<arguments, entry, s, page, chunk, ctx, digest, ret>>

\* An entry of the length 0 is looked at again and again.
SearchTable ==
  /\ pc = "table" /\ entry <= Len(img.table)
  /\ IF img.table[entry] = "metadata"
     THEN pc' = "descriptor" /\ found' = TRUE /\ entry' = entry
     ELSE /\ entry' = IF img.table[entry] = "zero" THEN entry ELSE entry + 1
          /\ UNCHANGED <<pc, found>>
  /\ UNCHANGED <<arguments, s, page, chunk, ctx, digest, ret>>

SearchFailed == pc = "table" /\ entry > Len(img.table) /\ Goto("descriptor")

-----------------------------------------------------------------------------
(* The descriptor, read in the same way by both functions. *)

\* At the offset 0 an image has no descriptor; outside of the image there may
\* be anything.
ReadDescriptor ==
  /\ pc = "descriptor"
  /\ \/ found /\ img.descriptor \in {"valid", "outside"}
        /\ Goto(IF job = "measure_ovmf" THEN "context" ELSE "volume")
     \/ (~found \/ img.descriptor # "valid" \/ short) /\ Refuse
     \/ found /\ img.descriptor = "outside" /\ Crash

Context ==
  /\ pc = "context"
  /\ Goto("section") \/ (short /\ GiveUp)

\* The number of the sections is not compared with the length of the metadata:
\* behind metadata_buf the loops may reach memory that is not the process's.
ReadForeignSection ==
  /\ pc \in {"section", "volume"}
  /\ s <= Len(img.sections) /\ s > img.held
  /\ Crash

-----------------------------------------------------------------------------
(* measure_ovmf *)

Current == img.sections[s]

Pages == Current.mem \div ChunksPerPage

Aligned(sec) == sec.addr % ChunksPerPage = 0 /\ sec.mem % ChunksPerPage = 0

\* The sanity checks of measure_ovmf.
Sane(sec) ==
  /\ Aligned(sec)
  /\ sec.type # TdInfo /\ (sec.addr # 0 \/ sec.mem # 0) => sec.mem >= sec.raw
  /\ sec.type < TypeMax

\* 9.2.0 goes through the pages once, 8.2.2 first adds all pages.
EnterSection ==
  /\ pc = "section" /\ s <= Len(img.sections)
  /\ IF Sane(Current) /\ version # "other"
     THEN /\ pc' = IF version = "9.2.0" THEN "page" ELSE "add"
          /\ page' = 0
          /\ UNCHANGED <<arguments, entry, found, s, chunk, ctx, digest, ret>>
     ELSE GiveUp

LeaveSection ==
  /\ s' = s + 1 /\ pc' = "section"
  /\ UNCHANGED <<arguments, entry, found, page, chunk, ctx, digest, ret>>

PageAddress == Current.addr + page * ChunksPerPage

MemPageAdd == [call |-> "add", at |-> PageAddress]

\* td_call_mem_page_add of 8.2.2, in a loop of its own.
AddPage ==
  /\ pc = "add" /\ ~Current.aug /\ page < Pages
  /\ ctx' = Append(ctx, MemPageAdd)
  /\ page' = page + 1
  /\ UNCHANGED <<arguments, pc, entry, found, s, chunk, digest, ret>>

\* [fault] The loop that extends starts where the one that adds has ended.
PagesAddedNoReset ==
  /\ pc = "add" /\ (Current.aug \/ page = Pages)
  /\ IF Current.extend THEN Goto("page") ELSE LeaveSection

PagesAdded ==
  /\ pc = "add" /\ (Current.aug \/ page = Pages)
  /\ IF Current.extend
     THEN /\ pc' = "page" /\ page' = 0
          /\ UNCHANGED <<arguments, entry, found, s, chunk, ctx, digest, ret>>
     ELSE LeaveSection

\* [fault] 9.2.0 extends pages that it has not added.
StartPageUnadded ==
  /\ pc = "page" /\ page < Pages
  /\ chunk' = 0
  /\ IF Current.extend THEN pc' = "chunk" /\ page' = page ELSE pc' = "page" /\ page' = page + 1
  /\ UNCHANGED <<arguments, entry, found, s, ctx, digest, ret>>

StartPage ==
  /\ pc = "page" /\ page < Pages
  /\ ctx' = IF version = "9.2.0" /\ ~Current.aug THEN Append(ctx, MemPageAdd) ELSE ctx
  /\ chunk' = 0
  /\ IF Current.extend THEN pc' = "chunk" /\ page' = page ELSE pc' = "page" /\ page' = page + 1
  /\ UNCHANGED <<arguments, entry, found, s, digest, ret>>

PagesDone == pc = "page" /\ page = Pages /\ LeaveSection

DataOffset == Current.off + page * ChunksPerPage + chunk

\* [fault] The last chunk may end behind the image.
InsideImageAlmost == DataOffset <= img.size

\* The check of td_call_mr_extend.
InsideImage == DataOffset + 1 <= img.size

ExtendChunk ==
  /\ pc = "chunk"
  /\ IF InsideImage
     THEN /\ ctx' = Append(ctx, [call |-> "extend", at |-> PageAddress + chunk, data |-> DataOffset])
          /\ IF chunk + 1 = ChunksPerPage
             THEN pc' = "page" /\ page' = page + 1 /\ chunk' = chunk
             ELSE chunk' = chunk + 1 /\ UNCHANGED <<pc, page>>
          /\ UNCHANGED <<arguments, entry, found, s, digest, ret>>
     ELSE GiveUp

Finalize == pc = "section" /\ s > Len(img.sections) /\ Done(0, ctx)

-----------------------------------------------------------------------------
(* measure_cfv *)

\* The sum is one of two uint32_t, compared with a uint64_t.
VolumeFits == (Current.off + Current.raw) % Wrap <= img.size

SkipSection ==
  /\ pc = "volume" /\ s <= Len(img.sections)
  /\ Aligned(Current) /\ VolumeFits /\ Current.type # Tdvf
  /\ s' = s + 1
  /\ UNCHANGED <<arguments, pc, entry, found, page, chunk, ctx, digest, ret>>

VolumeCall(sec) == [call |-> "volume", at |-> sec.off, data |-> sec.raw]

\* Of a volume whose end wraps around the bytes beyond the image are hashed,
\* unless there is no such memory.
HashVolume ==
  /\ pc = "volume" /\ s <= Len(img.sections)
  /\ Aligned(Current) /\ VolumeFits /\ Current.type = Tdvf
  /\ \/ Done(0, <<VolumeCall(Current)>>)
     \/ Current.off + Current.raw > img.size /\ Crash

\* A faulty section ends the search with 0, and so does the end of the list.
NoVolume ==
  /\ pc = "volume"
  /\ s <= Len(img.sections) => ~Aligned(Current) \/ ~VolumeFits
  /\ GiveUp

-----------------------------------------------------------------------------

\* hash_buf uses its digest context without a look at the pointer.
OutOfMemory == short /\ pc = "volume" /\ Crash

Locate ==
  \/ ReadFooter \/ SearchTable \/ SearchFailed \/ ReadDescriptor \/ Context \/ ReadForeignSection

MeasureOvmf ==
  \/ EnterSection \/ AddPage \/ PagesAdded \/ StartPage \/ PagesDone \/ ExtendChunk \/ Finalize

MeasureCfv == SkipSection \/ HashVolume \/ NoVolume \/ OutOfMemory

Terminated == pc \in {"done", "crashed"} /\ UNCHANGED vars

Next == Locate \/ MeasureOvmf \/ MeasureCfv \/ Terminated

Spec == Init /\ [][Next]_vars

\* The thread of the program keeps running.
FairSpec == Spec /\ WF_vars(Next)
=============================================================================
