# Specification of the measured boot tools

The tools of this repository compute or parse the measurements of a measured
boot: the PCRs of a TPM (static root of trust), the measurement registers of an
Intel TDX domain, the launch digest of an AMD SEV-SNP guest and the IMA log of
Linux. What a verifier accepts as a trustworthy boot is what they print, so the
properties here are about that output: it is the value the platform computes, the
event log accounts for it, and a failed calculation is not taken for a value.

## Inventory

All programs are single threaded command line tools. Their state is on the stack
of `main` and in a few file-level variables; they read files, write to stdout and
return 0 or an error.

| Part | State | Operations | Interacts with |
|---|---|---|---|
| `calculate-srtm-pcrs` | options, `pcr[MAX_PCRS]`, one log string for each PCR | option parser, `calculate_pcr0` to `calculate_pcr9`, `calculate_paths`, `evlog_add`, printing | `common`, edk2, OpenSSL, file system |
| `calculate-tdx-mrs` | options, `mrs`, log strings | `calculate_mrseam`, `_mrtd`, `_rtmr0` to `_rtmr3`, `measure_ovmf`, `measure_cfv`, `create_td_hob` | `common`, edk2 |
| `calculate-snp-mr` | launch digest, page info | `hashes_init`, `page_info_update`, `vmcb_save_area_init`, `calculate_mr` | `common` |
| `calculate-ima-pcr` | log of entries | boot aggregate, walk of the paths, `calculate_ima_entry`, printing | `common`; its output is what `pcr-extend` is given |
| `parse-srtm-pcrs` | `active_pcr`, `no_action_event_pending`, PCRs, log strings | the callbacks of the event parser, replay, printing | tpm2-tools' event log parser |
| `parse-ima-pcr` | the list read so far, template table, current record | reading a list that grows, `read_template_data`, `verify_template_hash`, `get_template_data` | the kernel, which appends to the list |
| `pcr-extend` | arrays of digests and of lengths, one register | option parser, extension loop | `common` |
| `common` | none (`debug_output`) | reading files, hashing, `hash_extend`, ACPI, boot variables, secure boot variables, GPT, configuration of a kernel | all tools |
| `thirdparty/edk2` | context of the current PE file, position in the firmware volume | search of the firmware volume, Authenticode hash | `calculate-srtm-pcrs`, `calculate-tdx-mrs` |
| `thirdparty/LzmaCustomDecompressLib` | `CLzmaDec`, a scratch buffer | `LzmaUefiDecompressGetInfo`, `LzmaDecode` | edk2's search |

What makes them hard is not concurrency but the length of the sequences and
their error paths: some thirty measurements in an order the firmware dictates,
each of them two calls (log and extend) of which either may fail, with results
that some callers look at and others do not; and the arithmetic of formats whose
fields are read from a file. The one concurrent part is the IMA list, which the
kernel extends while `parse-ima-pcr` reads it. What should hold:

- `calculate-srtm-pcrs`, `calculate-tdx-mrs`: a published register is the value
  of a measured boot of the given software; the log replays to it; a register is
  only reset once and then extended; a run that fails publishes nothing; JSON
  output is well formed as far as the texts in it allow: they are printed without
  escapes, and diagnostics go to the same stream.
- `calculate-snp-mr`, `measure_ovmf`: the digest is the chain of the pages in the
  order in which the hypervisor adds them; a refused input yields no digest.
- The TD HOB that is hashed into RTMR0 is written to the last byte and describes
  memory without holes.
- `calculate-ima-pcr`: the boot aggregate comes first, each file below the paths
  is measured as often as it is reached.
- `parse-srtm-pcrs`, `parse-ima-pcr`: replaying the parsed events yields the
  registers; events that are not extended (`EV_NO_ACTION`) leave them alone; a
  malformed log is refused; the document printed for a log whose texts need no
  escapes is well formed.
- `pcr-extend`: the digests are extended in the order they are given.
- PE/COFF images, firmware volumes, LZMA streams: what is hashed or written lies in
  its buffer whatever the headers say, it is what the format defines, and an image as
  it is built is not refused. Two sums in 32 bits break the first of these, and the
  properties say exactly where (`HashedAllowed`, `HashesInsideImage`).
- A configured kernel is measured with the numbers of its configuration file.

The hazards of each part are listed, line by line, in `PROJECT.json`.

## Modules

| Module | Contents |
|---|---|
| `MeasurementRegisters` | the abstract specification: registers, each with a journal; `Reset`, `Advance`, `Publish` |
| `SrtmPcrs` | `calculate-srtm-pcrs`, with the functions of `common` and edk2 it calls |
| `SrtmReference` | the reference values defined from the options alone, and the properties |
| `MCSrtm` | files, faults and command lines for TLC |
| `SrtmPcrs_proofs` | its theorems |
| `MeasuredBoot` | the abstract specification of a boot: the TPM that wrote the log |
| `SrtmLog` | `parse-srtm-pcrs`, with the event log parser of tpm2-tools |
| `SrtmLogReference` | the registers of the TPM, defined from the log alone, and the properties |
| `SrtmLog_proofs` | its theorems |
| `MCSrtmLog` | logs and command lines for TLC |
| `TdxModule` | what the TDX module lets a host do with a domain, and what of it enters MRTD |
| `Mrtd` | `mrtd.c` of `calculate-tdx-mrs`: the metadata of an OVMF image, `measure_ovmf` and `measure_cfv` |
| `MrtdReference` | the calls a host makes for an image, defined from its sections alone, and the properties |
| `TdHob` | `td_hob.c`: the blocks of the hand-off list, in the array they are written to |
| `FirmwareMrs` | `Mrtd` and `TdHob` as `calculate_mrtd` and `calculate_rtmr0` use them, and the properties of the list |
| `MCMrtd` | images for TLC |
| `TdxMrs` | `calculate-tdx-mrs`: options, the handlers of the six registers, output |
| `TdxReference` | the reference values of the registers, and the properties |
| `TdxMrs_proofs` | theorems of `TdxMrs` |
| `MCTdx` | files, faults and command lines for TLC |
| `SnpProcessor` | the secure processor: which pages it accepts, and when |
| `SnpLaunch` | `calculate-snp-mr` |
| `SnpReference` | the launch digest of a guest defined from the options alone, and the properties |
| `SnpLaunch_proofs` | theorems of `SnpLaunch` |
| `MCSnp` | files, faults and command lines for TLC |
| `ImaEntries` | `calculate-ima-pcr` |
| `PcrExtend` | `pcr-extend` |
| `ImaReference` | both programs as they are used together; the entries of a tree of files, and the properties |
| `MCIma` | a tree, faults and command lines of both for TLC |
| `ImaLog` | `parse-ima-pcr`, the kernel that appends to the list, and the properties of what is printed |
| `Ima_proofs` | theorems of `ImaLog` and `ImaReference`, the two views of the measurement list; the names of `ImaLog` are chosen so that one module can extend both |
| `MCImaLog` | lists for TLC |
| `PeCoff` | `MeasureBootPeCoff.c`: loading, validation and measurement of a PE/COFF image |
| `PeReference` | the Authenticode digest, the images a linker makes, and the properties |
| `KernelConfig` | `kernel_config.c`: the configuration file and the setup header |
| `KernelImage` | `PeCoff` and `KernelConfig` as a kernel is measured, and the properties |
| `PeCoff_proofs` | theorems of `PeCoff` and `KernelImage` |
| `MCPe` | images and configuration files for TLC |
| `OvmfImage` | PCR 0: cutting out the volume, the searches of `SecMain.c`, the decompression |
| `OvmfReference` | the images OVMF's build makes, and the properties |
| `Firmware_proofs` | theorems of `Mrtd`, `FirmwareMrs` and `OvmfImage`, the two measurements of a firmware image; the names of `OvmfImage` are chosen so that one module can extend all three |
| `MCOvmf` | images for TLC |
| `LzmaStream` | `LzmaDec.c` |
| `LzmaReference` | LZ77 with an unbounded history, and the properties |
| `MCLzma` | streams for TLC |
| `SequenceLemmas` | lemmas on sequences that several proofs rest on: induction, `FlattenSeq`, prefixes, neighbours that are linked, `FoldLeft` |

### `SrtmPcrs`

A state of the specification is the state of `main` and of the function it is in.
`argv` holds the arguments that are left, `opts` the variables the option loop
sets, `pc` and `i` the place in the program (a label for each loop or straight
piece of a handler, and the index of the loop), `cur` the handler, `walk` the
recursion of `calculate_paths_recursively` as a stack of open directories, `bank`
the array `pcr`, `log` the strings of `eventlog_t`, `out` what has been printed,
and `ret` the exit status.

The abstractions:

- A digest is a pair of what was hashed and of the files it came from; two
  measurements have the same digest only if both agree. A register is the sequence
  of digests extended since `memset`, or `Unset` while it is uninitialised stack
  memory. The hash is thus taken to be free of collisions.
- A file has a state in place of a content (`FileState`): good, absent, not
  readable, refused by the function that interprets it, with a text too long
  for the buffer of `evlog_add`, or `quoted`: with a path or text that has a character
  JSON escapes, such as the newline of a command line. A firmware may also hold a volume that does not
  decompress. Files do not change during a run. Reads that were opened succeed.
- A log entry is its digest and the sort of its text: `plain`, `raw` (it would need
  an escape) or `cut` (it did not fit the buffer). The texts that come from outside
  are the paths, the command line (`pcrs.c:719`) and the lines of GRUB (`pcrs.c:642`).
- Literal option values (numbers, the `sbatlevel` string) are members of `File`.
  `<<>>` as the boot order is the default `{0}` of `main.c:316`.
- What is printed is a sequence of tokens: an object, or punctuation in JSON. An
  entry with a `raw` text is a `broken` object, as `eventlog.c:37-45` prints it with
  `%s`; one that was `cut` is no object either. `said` records that a diagnostic has been
  written to stdout by a run that went on (`common.c:94-115`, `SecMain.c:326`, `pcrs.c:357`,
  `--verbose`): it stands in front of the document or in it.

One action is one measurement, with the call of `evlog_add`, that of `hash_extend`
and the jump that follows. Undefined behaviour is a choice between the outcomes of
the build: the free of an uninitialised digest context in `MeasurePeImage`, the
free of `ev_separator` behind an error of `calculate_pcr1`, a wrapped size and a
header read outside the buffer may end in a signal (`Crash`) or in the error
the code returns; `strtok` on the unterminated buffer of `calculate_pcr8` may
find one more token. An uninitialised register is a value of its own.

With `MemoryFails` any allocation may return `NULL`. Where the code looks at the
pointer the error path is an alternative of the action, in `evlog_add` with the
loss of the log that its `realloc` causes; where it does not, `OutOfMemory` ends
the program.

### `SrtmReference`

`Reference(n)` is the sequence of digests of PCR n as one expression over the
options. PCR 9 depends on the order of `readdir`, so `MatchesPcr9` fixes how often
each file occurs and what follows the files. `Unnoticed(n)` names the inputs whose
failure the program does not report and by which a register is spoiled:

- PCR 0, a volume that does not decompress: `extract_lzma_fvmain_new` prints a
  message and returns the buffer (`SecMain.c:326`), which is then hashed;
- PCR 4, a boot loader that is no PE image: the refusal is
  printed, and a digest of zeroes is extended (`pcrs.c:357`);
- PCR 9, a file or directory below the paths that cannot be opened (`paths.c:67, 124`);
- PCR 1 without memory for its separator: `ret` is still 0 (`pcrs.c:205`); PCRs 4
  and 9 without memory: a boot loader is measured as zeroes, a path is left out.

An ACPI file that is absent or cannot be read is dropped by the option loop
(`common.c:75`): after that the option counts as not given. A PCR above 9 has no
handler and is printed uninitialised (`main.c:500`).

`OutputSound` is about the document. `JsonWellFormed` holds for a list of PCRs that is
not empty, with texts that are `plain` (`TextsPlain`: judged by the files the run may take
texts from, and by what `strtok` has found behind the buffer of PCR 8) and without a
diagnostic. `SaidForReason` bounds that last exemption: a successful run talks only of an
input it could not use, of memory, or because it was told to. `FailureIsSilent` and
`PublishedMatchReference` are its other parts. `LogsSound` is the type invariant with `LogReplays`.

`ImplementsRegisters` is the refinement: `bank` is the register file, the digests
of `log` are the journal, the registers in the output are the published ones. It
says that nothing is extended before it is in the journal and that a register
leaves the program only when its journal accounts for all of it. PCR 5 needs the
abstract `Advance` to journal and extend different digests in one step.

### `SrtmLog`

`argv`, `opts`, `out` and `ret` are as in `SrtmPcrs`. `fs` holds the logs at the two
paths the program may read, `buf` the buffer `main` has read the file into, which
`event_ipl` rewrites while it is parsed. `k` and `d` are the event and the digest the
parser is at, `seen` is `pcr_occurence_vector`, `hcrtm` and `locality` are the variables
of `foreach_event2`, `pending` is `no_action_event_pending`, `calc` and `text` are the
registers and strings of `cb_data_t`. `active_pcr` is always the PCR of the current
event and needs no variable.

`ParseHeader` is one round of `foreach_event2` up to the digests: `parse_event2`, the
startup locality, `event_initval_cb` for the first event of a PCR and
`event2_header_cb`. `ParseDigest` is a call of `event_digest_cb`, `ParseBody` the body,
`event_data_cb` included. `ParseLegacyEvent` is a round of `foreach_sha1_log_event`.

The data of an event is its shape: absent, shorter than its structure, good, longer
than the line buffer, a startup locality, a text without final zero, a text with a character JSON
escapes (`quoted`). Such a text is printed as it is, `Verbatim` (`eventcb.c:74, 402, 458, 500`),
and the token of its event is `broken` instead of `close`. A register is the
sequence of what was done to its zeroes: digests extended, localities written into
byte 31. The only startup locality besides that of an H-CRTM (4) is 3. The chunks of
`read_file_chunk` are one `ReadLog`, which with `ReadFails` may deliver the beginning of
the file only, as `main.c:57` takes an error for the end. Lists of PCRs above 23,
which index beyond `cb_data_t`, are excluded by `InputAssumption`. SHA-3 banks are not
modelled; SM3 stands for the banks with a size and no name.

### `SrtmLogReference`

`TpmValue(es, n)` is register n of the TPM that wrote the events `es`, as an expression
over the events. `MeasuredBoot` is the same as a state machine, and `ImplementsTpm`
says that the parser goes through its states: the registers are `calc`, the
measurements still to be made are the digests that have not been parsed. Its PCR 0
starts at the startup locality, which the parser learns later; until PCR 0 is extended
the mapping shows the locality in advance.

The properties are stated for the logs the code copes with, and the preconditions name
the limits:

- `NoActionsSingle`: an `EV_NO_ACTION` event has one digest. With two, the second is
  extended (`eventcb.c:226`); with none, the next event loses one.
- `LocalityBeforeExtend`: the locality is written before PCR 0 is extended, as the TCG
  profile demands; otherwise byte 31 of a hash is overwritten. `LocalityFirst`: even
  before PCR 0 is mentioned, or the printed initial value is 0.
- `Describable`: every event has data (the object of one without is never closed,
  `eventcb.c:261`), no description exceeds
  the line buffer, no text needs an escape, and every bank has a name (the complaint goes
  to stdout). `--verbose` mixes messages with the document (`main.c:205, 213, 240`), so
  `JsonWellFormed` leaves it out too.
- The SHA-1 format is parsed, but its digests are neither extended nor is its JSON
  well formed; the properties of registers and JSON exclude it.

### `Mrtd` and `TdxModule`

A run of `Mrtd` is one call of `measure_ovmf` or `measure_cfv` on an image. Offsets and
sizes count chunks of 256 bytes, what `TDH.MR.EXTEND` takes; `s`, `page` and `chunk` are
the variables of the three nested loops, `ctx` the calls that were hashed so far,
`digest` the array of the caller. The two orders of the QEMU versions are `StartPage`
(9.2.0: each page is added and extended in turn) and `AddPage`, `PagesAdded`, `StartPage`
(8.2.2: first all pages are added). `ret` is 0 behind the descriptor, so `GiveUp`, the error
path there, returns success with the array as it was.

`TdxModule` is the abstract specification, of a component outside this repository: a page
is added once, a chunk is extended once and only when its page was added.
`ImplementsTdxModule` maps `ctx` to the transcript of the module, for the images
QEMU can build a domain from (`Buildable`: sections that do not overlap, are aligned,
lie in the image, and of which none is extended without having been added).
`ReferenceCalls` defines the same sequence without a state machine.

The loops run to the number of sections in the descriptor (`mrtd.c:251, 379`), while
`metadata_buf` has the length the descriptor gives (220, 391): `held` is the number of sections in
that buffer. Those behind it are whatever the memory holds, sections of any form, or a
`Crash` (`ReadForeignSection`). `VolumeCall` records the range `measure_cfv` hashes. Its check
adds two `uint32_t` (`mrtd.c:402`); when the sum wraps, bytes beyond the image are hashed
and the digest is written. `HashesInsideImage` says that this is the only case in which that
happens: a range that ends beyond the image ends at 2^32 or behind it.

An OVMF table with an entry of the length 0 keeps the search where it is; `Terminates`
excludes it by `LoopFree`. The content of a chunk is its offset in the image.

### `FirmwareMrs`

`create_td_hob` fills an uninitialised array from three tables of nine entries kept by
hand, and all of it is hashed. `TdHob` writes the blocks to their places and walks over
them as `print_td_hob` does. `HobIsWhole` says that the blocks fill the array without
overlapping, `HobTilesMemory` that the descriptors leave no hole below 2 GiB and end
where the table in front of them says. Addresses are pages of 4096 bytes, as TLC's
integers have 32 bits. The test of the size of the array never fails for its caller and
is left out, as is what `print_td_hob` prints of a variable whose initialisation the
`switch` skips.

### `SnpLaunch` and `SnpProcessor`

The launch digest is the sequence of the pages hashed into it; a page is its contents (a
tuple of where they come from), type and address. Each of the nine loops and single
calls of `calculate_mr` is an action; the two hypervisors differ in the place of the
page of CPUID values and in the registers of the save areas (`Vmsa`, of which the fields
that vary are kept). `calculate_mr` returns 0 in every case, and `main` prints the
array `mr` also if nothing was written to it: `Garbage`. `LaunchReference` is the memory
of the guest as a list of pages by number, and `ImplementsProcessor` shows that the
calls are ones a secure processor accepts: no page twice, save areas at the end, and
the digest that of all pages. An image whose size is no multiple of a page is read
beyond its end (`Unnoticed`).

### `ImaEntries`, `PcrExtend` and `ImaReference`

`ImaEntries` has a stack of open directories for the recursion of
`calculate_ima_entries_recursively`, whose order is that of `readdir`. A path is a sequence of
pieces, so that `--strip` can end in the middle of a name. `PcrExtend` holds the arrays
`inputs` and `input_lens`: the second is allocated for a narrower type than its
elements have, and `FittingLens` is the number of lengths that its block holds in spite
of that; behind it (`Overrun`) the digests are no longer what was given.

`ImaReference` starts the second program with the output of the first, as one argument
or as one for each entry, or the second alone. The reference does not follow the walk:
`References` are the ways down from the paths of the command line that end at a file
(`Trails`: an argument, directories each of which is in the one in front of it, and the
node they lead to), and the boot aggregate. As the order of the files is that of
`readdir`, `ListsAll` and `ListsSome` count: how often a value is printed and how many
ways have it. `TreeAssumption` says that no link leads back to a directory above it (the
code would follow it until the buffer of the path or the limit of links is reached). `PublishedIsReference` and `RegisterOfSystem` exempt what is lost without a
word (`LostQuietly`: unreadable files and directories below the first level, and a
locked file on the command line; `SpoiltQuietly`: a read that fails in the middle);
`PublishedWithinReference` still bounds what is printed.

### `ImaLog`

A list is its records in three parts each (header, name, data) and a size in parts, so
copies can be cut anywhere. `AddRecord` is the kernel's, at any time until the program
has ended; `ReadPart`, `ReadAgain` (for `EAGAIN`) and `ReadEnd` are the loop of `main`.
A part that is not there leaves the zeroes of its buffer.
`fmt` is the last entry of the table of templates, which an unknown template
overwrites: `TableOfRecord` shows that no record gets to use it, as such a template is
refused right behind. `main` returns 0 also for a list it could not parse; the closing
bracket is the only sign of a complete one, which `ClosedIsComplete` and `OpenHasReason`
make precise. The template `ima` and violations always end the list; the
index that is printed is 10 for every record, and not modelled.

### `PeCoff`, `KernelConfig` and `KernelImage`

A PE image is what its headers say: positions and sizes in bytes, as unsigned numbers
that wrap around behind `Max32`. The size of the file is any number, as `LoadPeImage`
accepts files of 4 GiB and more (`MeasureBootPeCoff.c:909-939`). In such a file the place of
the section table (`TableAt`) need not fit the `UINT32 SectionHeaderOffset` (288, 402, 521): the
headers are checked at what is left of it (`SectionTable`, `low`) and used at their place, so
the sums of `HashSections` may reach beyond the image. `HashedAllowed` leaves out exactly
these images: larger than `Max32`, with `TableAt` beyond it. `hashed` is the sequence of ranges given to
`EVP_DigestUpdate`. `GetPeHeader` to `CheckSection` validate, with the sums in the width
of the code; `SearchDebug` and `ReadDebugEntry` look for the debug directory, whose
result is not used but whose errors refuse the image; `HashHeaders` to `HashTail` hash.
`HashedIsAuthenticode` compares the bytes with the definition of Authenticode for images
whose sections leave no gap. The code has results of its own: `EVP_DigestUpdate`
failing returns `EFI_SUCCESS` with no digest written, as 0 is that status
(`digest` tells them apart); an image refused in front of `ctx` frees an uninitialised
pointer (`Refuse`); a TE image is always refused.

`KernelConfig` reads the configuration file line by line. A byte has `Byte` values, 256
in the code and 16 for TLC, so that a `UINT32` is at most 65535 (`WidthAssumption`): `set_val` cuts a number to the width of its field, behind `strtol`, which takes
the nearest `long`. All fields are written, so one the file does not
name becomes 0. A line that begins with `=` makes `free` get a pointer into the copy
of the line (`AfterLine`). `KernelImage` runs both as `calculate_pcr4` and
`calculate_rtmr1` do; its next-state relation is the composition, with the
configuration between loading and validation. The fields are written to the bytes 528 to 555 of
the buffer that is parsed next (`kernel_config.c:155-168`, `pcrs.c:393-401`), whatever
the PE headers have there: `PrepareImage` computes what the optional header, the data
directories and the section table are afterwards, byte by byte (`Overwritten`). Where
the bytes are those of the signature, the file header or the magic number (`Identity`) the written
image is any of the same file (`Rewritten`). All properties of a kernel are judged by
the headers behind the patch: the digest is the Authenticode digest of the image that was hashed,
a kernel whose headers are still as a linker makes them is not refused. A failing `strdup` is not modelled.
`MeasuredAsConfigured` leaves out what Authenticode does (`ExcludedAt`): a certificate table may
begin in front of the setup header, whose fields are then not hashed (`Overlaid` images in `pe`).

### `OvmfImage`

`calculate_pcr0` from the file to the extended digests. The volume is cut out
(`CutVolume`), searched for a file with a compressed section (`NextFile`,
`NextSection`, whose arithmetic is that of the code), which is decompressed; the two
volumes in the result are measured by the lengths in their headers. What is read behind
a buffer is a choice (`Stray`); what is found there is never taken for a volume. The
decompression has the outcomes of `LzmaDecode` (`result`) and its allocator with the
scratch buffer (`SzAlloc`). A failed decompression is only printed (`SecMain.c:326`),
the lengths are trusted (`pcrs.c:124`): `MeasuredIsFirmware` is stated for images as
the build makes them, `FoundIsFirst` for volumes whose files follow one another,
`FoundInside` and `SearchesEnd` for all.

### `LzmaStream`

The decoder by symbols: literal, match, the repeated distances, end mark. A symbol has
the number of bytes the range coder reads for it, which is all the control depends on;
the adaptive probabilities are abstracted away with the bits. `p` is `CLzmaDec`, `call`
the locals of `LzmaDec_DecodeToDic`. `TryDummy`, the bytes held back in `tempBuf`, the
rest of a match that does not fit (`WriteRem`), `BulkLimit` (decoding without a look at
the input) and the wrap of the dictionary are actions or operators of their own. The
programs call only `LzmaDecode`, with the whole input; the users of the buffer
interface are modelled as `LzmaDec.h` documents it, as its pieces reach
every state of the decoder. The limits of the format are constants, small for TLC.

### `TdxMrs`

The state is that of `SrtmPcrs` with `turn` for the handler `main` is at: registers are
calculated in the order of `HandlerOrder`, whatever the order of the list. `bank` is the
array `mrs`, whose entries for MRSEAM and MRTD hold one digest. `MeasureFirmware` and
`MeasureCfv` take the result of `Mrtd` by its outcome: the digest of the image, an
uninitialised one (`"garbage"`) for an image with refused sections, -1 for one without
descriptor. `short` says that allocations may fail in this run.

`ReturnUnmeasured` is the 0 that `calculate_rtmr0` and `calculate_rtmr1` return from error
paths behind a callee that has succeeded; `FailUninitialised` is an error path that frees
`ev_separator` before its declaration. `Unnoticed` in `TdxReference` names the inputs that
spoil a register in this way. An ACPI file that cannot be read counts as not given, as in
`SrtmPcrs`; one that is absent ends the program, since the test is `<= 0` here
(`main.c:175-201`).

`JsonWellFormed` is stated for ascending lists of registers other than RTMR3 alone:
`last_entry_json` (`main.c:69`) looks for logs with higher numbers, while the logs are printed in
the order of the list, so the bracket of another list is put in the middle, or missing.

## Runs

| Run | Instance | Shows |
|---|---|---|
| `srtm` | all combinations of the options for PCRs 0-2, for 3-7 and for 8-9, with 40 file systems: one without fault, the others with one file that is absent, locked or refused | types and replay (`LogsSound`), reference values, sound output, the refinement (a register is only reset once and then extended), termination |
| `srtm_output` | lists of PCRs: empty, repeated, without log, without handler, out of range; both formats and an unknown one; all output flags; malformed arguments; texts that are too long or would need escapes; one command line for each handler; any allocation may fail | JSON well formed where the texts allow it; diagnostics have a reason; a failing run prints no register; published registers are right or named; every logged event was extended |
| `log` | logs of up to three events, taken from a pool of all types, data shapes, one and two banks, PCRs 0, 4, 9, 24 and 32; logs of the SHA-1 format; incomplete logs and bad headers; two lists of PCRs; every pair of options around a list of PCRs, both paths, missing files, reads and allocations that may fail | registers of the TPM, replay, JSON, only malformed logs are refused, the refinement of `MeasuredBoot`, silence of failing runs, termination |
| `mrtd` | images of eight chunks with up to three sections, of every type, attribute, size and alignment that the code tells apart; both functions, three QEMU versions; metadata shorter than its number of sections; with and without memory; the hand-off blocks | the digest is that of the domain, the TDX module accepts the calls, nothing outside the image is hashed but by a volume whose end wraps around, the blocks fill their array and tell memory without holes, termination |
| `tdx` | options for MRSEAM, MRTD and RTMR0, for RTMR0 to RTMR3, lists of registers and refused command lines; one faulty file, or failing allocations | reference values (with the last separator in the right register), replay, JSON, reasons of diagnostics, silence of failing runs, the refinement |
| `snp` | all combinations of the options, images that are empty or end within a page, repeated and refused options; one faulty file, or failing allocations | the launch digest is the guest's, the processor accepts the calls, uninitialised memory is printed for an unread file only |
| `ima` | a tree of two levels with a file and a directory reached twice, all options; one faulty path, or failing allocations; `pcr-extend` behind it and by itself | the entries are those of the files, never more; the register is that of the system; what is extended is what was given |
| `imalog` | lists of up to three records of every template, cut anywhere, and lists that grow while they are read | printed values are extended ones, a closed list is complete, an open one has its reason, the table of templates |
| `lzma` | streams of up to four symbols of every kind with cheap and expensive symbols, damaged or cut, sizes that are one off; buffers of every size | the text, the bytes taken, no access outside, success and refusal have their reasons |
| `pe` | 32 and 64 bit images with up to three sections in several orders, certificates and debug directories; fields of any sort, one or two at a time; files beyond 4 GiB; as kernels, with up to six lines of configuration, also with headers below the setup header | only allowed ranges are hashed, Authenticode, well formed images are measured, the fields are the configured ones and inside |
| `ovmf` | five built images with files and sections in front of the compressed one, every size in them replaced by ten others, headers, lengths and results of any sort | the first section is found and lies inside, PCR 0 is that of the two volumes, built images are not refused, termination |
| `claim_mrtd` | as `mrtd` | a counterexample: refused metadata leave the digest uninitialised and the function succeeds, see the findings of `PROJECT.json` |

Properties that ask the same question of a run are checked as one invariant, the
conjunction of its named parts: `OutputSound` is `JsonWellFormed` and `FailureIsSilent`
(with `SaidForReason` in `SrtmReference` and `TdxReference`, and `PublishedMatchReference` in the
first), `LogsSound` is `TypeOK` and `LogReplays`,
`PrintedIsReference` of `SnpReference` is `PublishedIsReference` and
`GarbageNeedsReason`, `HashedAllowed` is `HashedInside` and `ExcludedNotHashed`, and so
on; the parts have the comments. The type invariant of a module is among them where the
ranges it states are the ones at risk (`RegistersSound`, `PositionsInside`, `LogsSound`,
`LossesBounded`, `RecordsApart`, `BuffersSound`, `KernelRefusedForReason`,
`FirmwareMeasured`).

The bounds are enough because the handlers share nothing but the options and the
output: each group of PCRs runs with all of its options. Loops see zero, one and
two elements; the walk has a directory in a directory, reached once, twice by
overlapping paths, and not at all. One fault at a time suffices for the error
paths, as the program stops at the first error it notices; those it does not
notice are independent of each other. `MaxPcrs` is 12 in place of 24: two registers
without a handler behave like fourteen. `GrubLines` is 2.

Three events suffice for a log because what one event leaves for the next is the flag
`pending`, the set `seen`, the locality and one byte of the buffer: the first event sets
it, the second uses or clears it, the third sees the result. The digests of the
three events differ, so a lost, doubled or exchanged measurement shows. `MaxPcrs` and
`MaxTpmPcrs` are those of the code.

For `Mrtd` a page has two chunks (`ChunksPerPage`; 16 in the code) and 2^32 is 16 (`Wrap`):
an image of eight chunks is smaller than the wrap, as in the code, and has room for two
sections of two pages each, so the boundaries between chunks, pages and sections all
occur. What one section leaves to the next is only the position in the metadata; three
sections show a first, a middle and a last one. For `TdxMrs` one fault at a time
suffices for the reason given above, and failing allocations count as a fault.

In `SnpLaunch` a page counts two (`PageSize`), so that an image can end within one; all
addresses are the real ones in that unit. The loops over the memory do not depend on
the options, and three processors are a first, a second and a last one. The tree of `ima`
has a file below a directory below a directory, where failures begin to be lost.
What one record of `imalog` leaves to the next are the buffers and the table of
templates, so three records suffice; `Parts` is 3 as no property tells places within
a part apart. In `lzma` the dictionary has one to four bytes, `RequiredInputMax` is
3 bytes and the longest match 4: each limit is reached and passed by four symbols. The
headers in `pe` have their real sizes; `Max32` is 65535, far above an image of some 700
bytes, and fields take the values around both, so that sums wrap around; some images are larger
than `Max32`, with the section table on either side of it. A `long` of the
configuration has 7 bytes (`LongSize`), above the four of a field. The arithmetic
over all of 32 bits is that of the theorems below. Images of `ovmf` have real alignments and header sizes.

Termination is checked where a loop or a recursion follows what it reads: the walk
over directories (`srtm`), the events of a log (`log`), the OVMF table (`mrtd`) and the
searches of the firmware volume (`ovmf`). The other runs look for deadlocks only.
Termination needs that the program is scheduled and that its reads return:
`WF_vars(Next)`, for the one thread there is. No other fairness is assumed, and in
particular none between the alternatives of a step. `Terminated` stutters in the
final states, so deadlock checking stays on and finds any other state without
successor.

## Proofs

The theorems of `SrtmPcrs_proofs` hold for all files, directories, command lines, numbers of
registers from ten upwards and, but for `ReplayCorrect` and `ImplementsJournal`, for
either `MemoryFails`.
The assumptions are the named ones of `SrtmPcrs`: ten registers or more, an
uninitialised register is not a sequence of digests, files and directories are
disjoint, command lines are sequences of arguments, and directories form a finite tree
(`TreeAssumption`: an entry is named by its path, and no symbolic link leads back up; the
walk would not end otherwise). Only `PublishedIsReference` needs the last.

- `TypeCorrect`: `Spec => []TypeOK`. The type of `bank` after a measurement needs
  that the register was reset, and the stack `walk` must not be empty when it is
  popped. `Active` says so: inside a handler `cur` is one of 0 to 9, its register is
  not `Unset`, the labels of `calculate_pcr5` belong to PCR 5 and the label `walk`
  has an open directory. `TypeOK /\ Active` is inductive. Steps are proved by their
  form (measure and go on, measure and stay in the loop, return, fail), so each
  action needs only its digest and its labels.
- `LogsAreSound`: `Spec => []LogsSound`, from this and `ReplayCorrect`, `Spec => []LogReplays`. The log of a register equals its digests
  only if both start out empty: `Fresh` says that a register behind `cur` is
  untouched, which `CallHandler` needs. `Paired` is the equality for all PCRs but 5;
  `Gpt` follows the four labels of `calculate_pcr5`, where log and register differ by
  the separator and the first action until the last step restores equality, unless
  the partition table has come in between. Every other step is a `Form`: it either
  leaves log and register alone or appends one digest to both.
- `EventsAreExtended`: `Spec => []EventsExtended`, with failing allocations. `EventsInv`
  counts: at any time a digest is at most as often in a log as in the register, plus what
  `calculate_pcr5` has still to extend at its label (`Due`), and exactly as often while
  memory lasts. An `evlog_add` that fails half way loses entries and never adds one, so the
  inequality survives it.
- `FailuresAreSilent`: `Spec => []FailureIsSilent`. Up to the output every step is `Quiet`: it
  prints nothing, and an end is an error; the output consists of the forms `PrintsLog`,
  `PrintsLine` and `PrintsAggregate`, and `SilentInv` says which tokens may have been printed at
  which label. It rests on `RequestedInv`, that `main` has checked the requested numbers.
- `ImplementsJournal`: `Spec => ImplementsRegisters`, for `~MemoryFails` (otherwise a log can be
  lost, and a register printed that no log accounts for) and `OnlyCalculated`, command
  lines that request PCRs 0 to 9 (the others are printed uninitialised). `StepOfRegisters`
  maps every step to a stutter, to the reset of one register, to digests for one register and its
  journal, or to the output of some. An output needs that what is requested has been
  reached (`TurnInv`) and that all logs balance once `cur` is 10 (`LogAccounts`); an
  extension needs that nothing is shown yet (`SilentInv`). `calculate_pcr5` maps to
  several steps that journal in advance.
- `PublishedIsReference`: `Spec => []PublishedMatchReference`, with and without failing
  allocations (with them `Unnoticed` exempts PCRs 1, 4 and 9). `ReferenceInv` is inductive relative to the invariants above. `SoFar` gives
  the register at each label of its handler as the part of the reference value that has been
  measured; in a loop over ACPI tables, boot options, drivers, boot loaders, secure boot variables
  or GRUB commands that part is a prefix of length `i - 1` (`Some`, `AcpiBefore`,
  `GrubLinesBefore`). `RunningInv` says so of the handler that runs, unless its input is one of
  `Unnoticed`; `FinishedInv` says that the handlers that have returned left their
  reference values, `PrintedInv` that what is printed is what the register holds, `EndInv`
  that all handlers have been passed by then. An error either ends the program or is among
  `Unnoticed`, which is where a step that skips a measurement would show.
  For PCR 9 the order of the files is that of `readdir`, so the invariant counts: during the walk
  of path `n` a file has been measured once for each earlier path that leads to it, and
  once more if it is below path `n` and no longer ahead (`WalkSoFar`). A file is ahead if it is
  below an entry not read yet of a directory on the stack. Each step of the walk
  must take a file out of what is ahead exactly when it measures it. That
  needs the entries on the stack to be `Apart`, nothing below two of them, which rests on
  the tree: no name is below two entries of a directory (`SiblingsApart`), none is inside
  itself (`NotInside`), and what is below a directory is what is below its entries (`BelowDir`).
  `Below` is a recursive function; that it is closed after as many rounds as there are directories
  (`BelowClosed`) is shown by induction as in `SequenceLemmas`.
- `OutputIsSound`: `Spec => []OutputSound`, with and without failing allocations. What the two
  theorems above leave is that JSON is well formed, for any list of PCRs. `Spans` says of a
  sequence of tokens that neighbours may follow each other and which ones it starts and ends
  with; `SpansConcat` joins two of them, so each step of the output needs only the marks at the seam.
  `DocumentInv` says which mark the document ends with at each label and turn of the output loops.
  That every event is an object rather than a broken or cut one is `PlainInv`, for files
  whose texts are plain (`FilesPlain`; PCR 8 is told by its log); it needs `GivenInv`, that a handler
  runs only with the files it has been given. `SaidInv` has the reasons of what has been said
  so far, step by step: each measurement, each skipped input and each lost log entry either has one
  or leaves `said` alone.

- `PeCoff_proofs`, `AllowedOnly`: `Spec => []HashedAllowed`, for every image of every size and
  every `Max32` above twice the headers. If the file is below `Max32` the validation itself
  shows that the place of the section table is too; if not, `HashedAllowed` assumes so
  (`Told`, `Known`). The invariant `RangeInv` collects what each stage of the validation has
  established: `Headed` (the optional header lies in the file and in front of the section
  table), `Sectioned` (each section checked so far lies behind the headers and in the
  file), `Portable` (only PE images get to the hashing), `Sorting` (the sorted table holds
  sections of the image) and `Ranged` (what is hashed so far is in order and clear of the
  two fields). The sums the code makes in 32 bits do no harm, as each is bounded by
  another check first; the lemmas name which.
  `KernelAllowedOnly` is the same for `KernelSpec`, with the headers that the patch leaves. It rests
  on `Fresh`: until the headers are read nothing is known of the image (`Begun`), so
  the invariant holds for any image the patch may have made.
- `PeCoff_proofs`, `WrittenInside`: `KernelSpec => []PatchInside`, for every image
  and configuration. `PatchInv` says that the size configured is that of the image, and that
  fields are written only where the setup header fits into it.
- `PeCoff_proofs`, `MeasuredAsAuthenticode`: `KernelSpec => []HashedIsAuthenticode`, for every image
  and every configuration written over it.
  The code sorts the section table by insertion (`SortedOf`); sections that are tidy then lie one
  behind another from the headers on (`TidyInPlace`), the last one ending where the data do, which
  are counted in the order of the table (`TidyEnds`). `Exact` says that the ranges
  hashed so far, joined, are one range from the start of the file up to the last byte
  passed, less the excluded fields (`JoinedBehind`, `GoesFurther`); `ExactKnown` and `ExactLayout` derive from
  `Tidy` that the section table is where a `UINT32` says.
- `PeCoff_proofs`, `RefusedForReasonOnly`: `KernelSpec => []KernelRefusedForReason`, with the types.
  `ReasonInv` carries through each stage what it has accepted, so that a refusal by a later check
  contradicts `WellFormed`; that `CheckSection` refuses no section of a linked image needs the bounds
  of `RangeInv`. The whole invariant of a kernel is `KernelInv`: `RangeInv`, `ReasonInv`, `Fresh`, `PatchInv`,
  `ConfigInv` and `ValuesInv`.
- `PeCoff_proofs`, `FieldsAreMeasured`: `KernelSpec => []MeasuredAsConfigured`. `ConfigInv` relates
  the values held to the lines read so far (`Latest`); `FieldInImage` shows that the bytes `set_val` writes,
  least significant first, make the value again, by the uniqueness of division
  (`DivisionUnique`, `LastDigit`). `JoinedCovers` carries the coverage over from the joined ranges.
  The attempt corrected the property, which knew nothing of certificates that lie over the
  setup header; TLC then confirmed the counterexample. These theorems assume of the constants
  what the types of the C structures say (`KernelsAssumption`). `Values` is a recursive function
  because the prover has no facts about `^`.
- `PeCoff_proofs`, `MeasuredOnItsOwn`: `Spec => [](TypeOK /\ RefusedForReason /\ HashedIsAuthenticode)`, for
  an image that is measured without a configuration.
- `Firmware_proofs` about `OvmfImage`, for every set of images and all sizes in their headers.
  - `FoundInVolume`: `OvmfSpec => []FoundInside`. `SearchInv` follows the search: from the volume on it
    lies in the image, the position is behind its header, a file that is entered ends in
    the volume, and a section in its file.
  - `MeasuresFirmware`: `OvmfSpec => []FirmwareMeasured`. That the first compressed section is found
    needs `FirstInv`: the files in front of the aligned position have no such section and end in
    front of it (`FilesPassed`), and the same of the sections of the file the search is in (`InFile`).
    `ChainNext` then says that nothing lies between a position and the next one, from
    the assumption of `Tidy` that each header but the first is behind another; it rests on
    `LeastNat`. An image as built is not refused because there is a file at every position
    the search comes to (`FilePresent`) and a section behind each one that does not end its file
    (`SectionTaken`). `MeasureInv` has the lengths and ranges of the two volumes.

- `SrtmLog_proofs`, for every log, file system, command line, set of faults and number of
  registers. `IInv` is inductive as a whole; its parts are these.
  - `StageInv` and `BufferInv` say what has been touched at each stage and how what is in memory relates
    to the file: a shorter read leaves a prefix, and only an IPL text without a final zero
    alters the event behind it (`Altered`). From these follows `RejectsForReasonOnly`
    (`Spec => []RejectsOnlyMalformed`): an event refused in memory is malformed in the file.
  - `ProgressInv` determines the variables the callbacks share from the headers parsed so far:
    `seen`, `hcrtm`, and which texts have been begun. `LogReplays` is inductive with it.
  - `RegisterInv` gives each register at each step as a part of the value of the TPM (`Partial`):
    the startup locality known so far, and the measurements of the events passed and of the digests
    taken. That a header may still write the locality is sound because `LocalityBeforeExtend`
    leaves PCR 0 untouched until then (`QuietZero`). At the end the part is the whole, and `SummaryMatchesTpm`
    is carried through the output. `RegistersAreSound` is `Spec => []RegistersSound`.
  - `JsonInv` says which token the text of a PCR ends with while its events are parsed (`Ends`), and
    during the output that the last token printed carries a comma exactly if a later PCR
    of the list has a text (`Later`), for logs whose texts print as they should (`Nice`).
    `OutputIsSound` is `Spec => []OutputSound`.
  - `ImplementsMeasuredBoot` is `Spec => ImplementsTpm`. Every step of the program is mapped to a
    measurement of `MeasuredBoot` or to a stutter: only a digest that a callback extends takes the first
    of `Todo` (`TpmDigest`, with `RestNext` and `MeasurementsFirst` for what is behind it); the
    headers of events leave what is to come alone (`TpmHeader`), as does the locality they may
    write, which the mapping shows from the start (`SameRegisters`). `PlaceInv` places the position
    among the digests outside an event; a log of the SHA-1 format has no SHA-256 bank
    and nothing to measure (`TpmLegacy`).
  The selections and maps of the reference definitions are treated as functions of `FlattenSeq`
  (`OnlyAppend`, `MapAppend`), as the provers have no facts about `SelectSeq`.
- `TdxMrs_proofs`, for every set of files, state of them, command line and for runs with and
  without failing allocations. `IInv` is the inductive invariant of the control: which handler
  runs (`AtTurn`), that its register has been reset and that of a later handler has not
  (`TurnsInv`), that no register has been printed in front of the summary (`SilentInv`), that
  the printed ones are what they were (`PrintedInv`), and `LogReplays` itself. From it follow
  `LogsAreSound` (`Spec => []LogsSound`) and `FailuresAreSilent`. As in `SrtmPcrs_proofs`
  each step of a handler has a form (`HandlerStep`, `Stops`).
  - `PublishedIsReference`: `Spec => []PublishedMatchReference`. `SoFar` gives the value of the
    register at each label as a part of its reference value; in the loops over the secure boot
    variables, the ACPI files and the boot options the part is a prefix of length `i - 1`. `ReferenceInv`
    says so of the handler that runs, unless its input is one of `Unnoticed`, and that the
    handlers that have returned left their reference values. It is inductive relative to
    `IInv`: a step appends the next digest of the prefix or moves on at its end, and an error
    either ends the program or is among `Unnoticed`.
  - `ImplementsJournal`: `Spec => ImplementsRegisters`. Without failing allocations the
    journal is the event log; with them the log can be lost, and the mapping shows the
    registers in its place, so the theorem then says that registers are reset once, only
    extended, and not after they have been printed. Each step is mapped to `Reset`, to an
    `Advance` by one digest, to `Publish` or to a stutter.
  - `OutputIsSound`: `Spec => []OutputSound`. Which log closes the array is decided by looking
    for later logs that are not empty, so the form of the document depends on what the handlers did (texts and
    diagnostics as in `SrtmPcrs_proofs`):
    `EventsInv` says that only requested registers have events and that each handler but
    that of RTMR3 leaves some unless its failure goes unnoticed. With that `DocumentInv` says that
    the array is open until the last such log and closed behind it (`LastPrinted`), also when empty
    logs follow.
- `Firmware_proofs` about `Mrtd` and `FirmwareMrs`, for every set of images, version and function.
  - `InsideTheImage`: `HandlersSpec => []PositionsInside`, for any metadata, with the one range of
    `measure_cfv` that may leave the image, that of a volume whose end wraps around. `SectionInv` keeps, inside the three
    loops, what the checks of the section have established, `DigestInv` that there is no
    digest before the end.
  - `ImplementsModule`: `HandlersSpec => ImplementsTdxModule`. The module accepts a page only
    once; `CallsInv` bounds the pages and chunks of the calls so far by the place
    where the loops are (`AddedBefore`, `ExtendedBefore`), so that the next one is new;
    `PagesInv` has every page whose chunks are extended among the added ones. That
    sections do not overlap comes from `Buildable`.
  - `DigestCorrect`: `HandlersSpec => []DigestIsReference`. `ProgressInv` gives the calls so far as the
    reference calls of the sections, pages and chunks passed. The reference is a `FlattenSeq` of
    `FlattenSeq`s, so this rests on the lemmas of `SequenceLemmas`.
  - `HobIsSound`: `HandlersSpec => []HobSound`. `HobInv` says which descriptors have been written and
    where (`Laid`); the rest is arithmetic over the tables of `td_hob.c`.
- `Ima_proofs` about `ImaLog`, for every set of scenarios that meet `ScenariosAssumption`: the size of a
  file does not exceed its records, and the list of the kernel ends with a whole
  record (its `seq_file` is read record by record; without this the kernel's next
  record would complete one that was printed in part). `IInv` consists of `FilesSound`, `BufferSound` (the
  buffer holds bytes of one file from a boundary of records on, and what was read is at most what is
  there), `ParserSound` (header, name, data and digest are those of the record the parser is at),
  `TableSound` and `OutputSound`. `OnlyExtendedPrinted`, `BracketTells` and `RecordsStayApart` are its
  consequences.
- `Ima_proofs` about `ImaReference`, for every finite tree without cycles, every state of its files,
  every command line of both programs and every number of lengths that fit.
  - `LossesAreBounded`: `Spec => []LossesBounded`, and `EntriesAndRegisterAreReference`:
    `Spec => []ResultsAreReference`. The invariant `ImaInv` consists of `OptionsSound`, `StepSound` (what
    the program has when it comes to each step), `WalkSound` and `ReportsSound` (no locked
    file among the entries already read of a directory of the command line). `WalkSound` is the heart:
    there are directories that the stack of open ones stands for (`Traced`), and
    a ledger (`Keeps`) that gives each entry of the log a way of its own which is not waiting any
    more; a way waits if it leaves the open directories for an entry not read yet, or starts at a
    later path (`Pends`). As long as nothing is lost without a word, each way that no longer waits has
    its entry. At the end none waits, so the log and the ways are as many, value by
    value. The stack alone would not be inductive: the same file is below several directories, and
    which of its entries are still missing depends on where the walk stands.
    `DepthSound` bounds the stack by the height of its first directory. For the register, `FeedSound`
    says where the entries are on their way: in the register, in the array, in the argument
    or on the command line, in this order, each once and none twice, as long as the lengths fit.
  - `ImplementsRegister`: `Spec => ImplementsRegisters`. Step by step under `ExtendSound`: to start is to
    reset, to take a digest in is to journal it, to extend it is to move it from the journal's end to
    the register, and to print is to publish, when nothing is left in the array.

- `SnpLaunch_proofs`, for all files, options, numbers of processors and sizes of pages. The
  assumptions are that 4 GiB are 2^20 pages, that no file exceeds them, and that the array `mr` of
  `main` does not hold a list of pages before it is written (`GarbageAssumption`).
  - `LaunchIsReference`: `Spec => []PrintedIsReference`. The reference is a list of pages made from
    the options, so the invariant compares the two lists page by page. `LaunchInv` consists of
    `TypeInv`, `PagesInv` (what a page may be), `ControlInv` (the page of the hashes is
    filled when it is used; nothing is printed before the end), `LoopInv`, `SaveAreaInv` and `OutInv`.
    `LoopInv` has a number `n`, the page the current loop is at: `PlaceInv` ties the address to it
    and keeps it between the two ends of the loop, `ProgressInv` says that the first `Count(n)` pages of
    the reference are hashed and no other. Each step adds the next page of the reference, moves
    on at the end of a loop with the same count, or leaves through an error.
  - `AcceptedByProcessor`: `Spec => ImplementsProcessor` for images that do not reach down from
    4 GiB to the first megabytes (`ImagesFit`; OVMF has a few MiB, and the refinement does fail
    for an image of nearly 4 GiB, whose pages would meet those of the launch memory). `CoverInv`
    bounds the addresses hashed so far by a limit that rises with the loops, so that the next one is
    new, and says that save areas come last. It needs `LaunchInv` for the ends of the loops.

`SequenceLemmas` shows how induction over data is had with provers that cannot
instantiate an operator: the library states that a well-founded relation has minimal elements
for sets, and that the order of the natural numbers is well founded. `InductionUpTo` follows for a
set of numbers, and the recursive function behind `FlattenSeq` is shown to exist and to be unique by
it (`FlattenExists`, `FlattenUnique`). `FoldExists` and `FoldUnfolds` do the same for `FoldLeft`.

Only model-checked:

- all properties of `LzmaStream`.

Out of the prover's reach: `Terminates` and `SearchesEnd`, which rest on fairness.

## Not modelled

Besides the parts listed as such in `PROJECT.json` (the decoder of module signatures,
which no list reaches; the match finder and the branch filter of the LZMA library; the
headers): the bytes of a load option or a UEFI variable, which are a constant of the
files they come from (`DefaultLoadOption`, `WideText`); the text of a GPT description; the
debug output; leaks and the double free of `pcrs.c:360` as an effect on later allocations;
paths longer than the buffers of `paths.c`; files that change while the program runs,
except for the IMA list; hash algorithms the parser does not know, whose digests have the
size 0; the adaptive probabilities of LZMA; a byte that looks like a volume by chance
behind a buffer (`OvmfImage`). Smaller limits: `ImaEntries.Children` is a set, so a file and a
link to it in one directory count once, where `main.c:241-267` measures both;
`PcrExtend` is given no digest longer than 32 bytes, which `hash_extend` would let run behind `pcr`
(`pcr-extend/main.c:82`); a `SourceSize` or `DataOffset` of `OvmfImage` that wraps ends the program or
the decompression, where the code may also read what is behind the section.

Differences between documentation and code that no run is about: the usage text
offers `-i, --initrd` and `-v` (`main.c:34, 38`), the parser accepts `-r` and only
`--verbose` (`main.c:157, 173`); `calculate-srtm-pcrs/README.md` computes PCR 3 from
driver configurations, for which there is no option; `gpt.c:65` overwrites the disk
GUID it has just written, in the description of the event. The log of PCR 5 with
`--gpt` lists the separator before the partition table that is extended first
(`pcrs.c:466, 513`). `--eventlog` for PCR 8 without `--grubcmds` fails, as `main.c:475`
takes an empty log for an error. `evlog_add` prints a cut JSON object for a text longer
than its buffer, and neither calculator escapes what it prints as JSON. `eventcb.c:385` of
`parse-srtm-pcrs` replaces tabs "for valid json output"; quotes, backslashes and other control
characters of the same text are left as they are. `parse-srtm-pcrs` drops the last character of its text output along
with the separator of JSON (`main.c:228`). `main.c:236` of `calculate-srtm-pcrs` reports a
missing ACPI file, which `get_file_size` hides (`common.c:75`); the usage text promises
"PCRs to be calculated" (`main.c:33`), and PCRs above 9 are printed uninitialised;
`paths.c:100` says that all files are extended, and unreadable ones are left out. An event
without data leaves its JSON object open (`parse-srtm-pcrs/eventcb.c:261`). A kernel that is refused leaves RTMR1 as it
is (`mrs.c:268`), and `main.c:307` of `calculate-tdx-mrs` tests the number of MRTD twice where
RTMR0 needs an image as well. `parse-ima-pcr` prints the index 10 for every record and
only `]` for an empty list. The example of
`calculate-tdx-mrs/README.md` has no `--mrs` and is refused (`main.c:324`); its usage text
offers `--gpt`, which is not parsed (`main.c:64`); `--dumpkernel` takes the next word without looking
whether there is one (`main.c:288`).

## Plan

1. Done: all programs, with the parts of `common`, edk2 and the LZMA library they call;
   refinements of `MeasurementRegisters` (by three programs), `MeasuredBoot`, `TdxModule`
   and `SnpProcessor`; the composition of `calculate-ima-pcr` with `pcr-extend`, of the
   kernel with `parse-ima-pcr`, of `PeCoff` with `KernelConfig` and of `Mrtd` with `TdHob`.
2. Done: theorems of `SrtmPcrs`, `TdxMrs` and `Mrtd` (all safety properties and the refinements),
   `PeCoff`, `KernelImage`, `OvmfImage`, `ImaLog` and `SnpLaunch` (all invariants), and of `SrtmLog` and
   `ImaEntries` with `PcrExtend` (all safety properties and the refinements).
3. Left to prove: the invariants of `LzmaStream`.
4. Left to model: the composition of `SrtmLog` with `SrtmPcrs` (the log of a boot parses to
   the registers that were calculated for it), SHA-3 banks.

A run covers as many questions of an instance as it can; a component to come shares the
run of a module it is composed with.
