------------------------------ MODULE SrtmPcrs ------------------------------
(***************************************************************************)
(* calculate-srtm-pcrs: the reference values of the TPM PCRs of a measured *)
(* boot with OVMF.  The program parses its options, runs calculate_pcr0 to *)
(* calculate_pcr9 for the PCRs it was asked for, each of which writes an   *)
(* event log and extends a register, and prints the log, the registers and *)
(* their aggregate.                                                        *)
(*                                                                         *)
(* A digest is a pair of what was hashed and of the files it came from; a  *)
(* register is the sequence of digests extended into it since its memset   *)
(* (the hash is free of collisions), Unset while it is stack memory that   *)
(* no handler has written.  A file has one of a few states, see FileState. *)
(***************************************************************************)
EXTENDS Integers, Sequences, FiniteSets, SequencesExt

CONSTANTS File,          \* regular files, and the literal values of options
          Dir,           \* directories
          NoFile,        \* the value of an option that was not given
          Unset,         \* a register that is uninitialised stack memory
          Children,      \* Children[d]: the entries readdir lists in d
          FileSystems,   \* the states of the files the runs may start in
          CommandLines,  \* the command lines the runs may start with; an
                         \* argument without its value can only be the last
          GrubLines,     \* the number of lines of a GRUB command file
          MaxPcrs,       \* MAX_PCRS, the number of registers of main's array
          MemoryFails    \* whether an allocation may return NULL

Pcr == 0 .. MaxPcrs - 1

Name == File \cup Dir \cup {NoFile}

\* "ok": readable, or a literal, and what its reader expects.  "absent": no such file, or a
\* dangling link.  "locked": it exists but cannot be opened.  "bad": readable,
\* refused by its reader (no PE image, no firmware volume, unknown
\* configuration key, GPT below 92 bytes, efivars file below 4 bytes, negative
\* number of zeros).
\* "corrupt": a firmware whose compressed volume does not decompress.
\* "long": readable, its path or text overflows the line buffer of the event log.
\* "quoted": readable, its path or text has a character that JSON escapes, as the
\* newline at the end of a command line.
FileState == {"ok", "absent", "locked", "bad", "corrupt", "long", "quoted"}

\* The options of main, by what the parser does with them.
FlagOption == {"eventlog", "summary", "aggregate", "verbose"}
ValueOption == {"ovmf", "config", "kernel", "initrd", "cmdline", "addzeros", "grubcmds",
                "sbatlevel", "secureboot", "pk", "kek", "db", "dbx"}
LooseOption == {"gpt", "dumppei", "dumpdxe"}
AcpiOption == {"acpirsdp", "acpitables", "tableloader", "tpmlog"}
ListOption == {"driver", "bootloader", "bootxxxx", "path", "bootorder"}
FileOption == ValueOption \cup LooseOption \cup AcpiOption

\* An argument of the command line with its value, NoFile if it has none.  A
\* flag never has one.
Argument ==
  [opt : {"pcrs"}, val : Seq(Nat)]
    \cup [opt : {"format"}, val : {"json", "text", "xml"}]
    \cup [opt : FileOption \cup ListOption, val : File \cup Dir]
    \cup [opt : FlagOption \cup FileOption \cup ListOption \cup {"pcrs", "format", "unknown"},
          val : {NoFile}]

Options == [flag : [FlagOption \cup {"json"} -> BOOLEAN],
            file : [FileOption -> Name],
            list : [ListOption -> Seq(Name)],
            pcrs : Seq(Nat)]

\* [fault] The tables measured before the loader that links them.
AcpiOrderSwapped == <<"acpitables", "acpirsdp", "tpmlog", "tableloader">>

AcpiOrder == <<"tableloader", "acpirsdp", "tpmlog", "acpitables">>
SecureBootVars == <<"secureboot", "pk", "kek", "db", "dbx">>

Kind == {"crtm", "peifv", "dxefv", "garbage", "content", "bootorder", "boot0000", "efivar",
         "pe", "zero", "calling efi application", "separator", "exit boot invocation",
         "exit boot returned", "sbatlevel", "secureboot", "pk", "kek", "db", "dbx",
         "grub command", "cmdline", "cmdline initrd=initrd"}

Digest == Kind \X Seq(Name)

\* What the texts of an entry are like: printed as they are they may be no
\* string of JSON ("raw") or have no end ("cut").
Text == {"plain", "raw", "cut"}

Entry == [digest : Digest, text : Text]

Label == {"start", "parse", "validate", "dispatch", "crtm", "firmware", "pei", "dxe", "acpi",
          "bootorder", "bootxxxx", "drivers", "bootloaders", "kernel", "boot action",
          "gpt separator", "gpt", "exit boot", "boot exited", "secureboot", "sbatlevel",
          "grub", "grub commands", "paths", "walk", "cmdline", "initrd", "separator",
          "open log", "print log", "open summary", "print summary", "print aggregate",
          "exited", "crashed"}

ASSUME RegistersAssumption == MaxPcrs \in Nat /\ MaxPcrs >= 10 /\ Unset \notin Seq(Digest)

ASSUME FilesAssumption ==
  /\ File \cap Dir = {} /\ NoFile \notin File \cup Dir
  /\ Children \in [Dir -> SUBSET (File \cup Dir)]
  /\ FileSystems \subseteq [File \cup Dir -> FileState]
  /\ GrubLines \in Nat
  /\ MemoryFails \in BOOLEAN

\* An entry is named by its path, so the directories form a tree: a name is in
\* at most one of them, and none is inside itself (no symbolic link leads back
\* to a directory it is in).  A directory that is listed exists.
ASSUME TreeAssumption ==
  /\ IsFiniteSet(Dir)
  /\ \A d \in Dir : \A e \in Dir : d # e => Children[d] \cap Children[e] = {}
  /\ \E level \in [Dir -> 1 .. Cardinality(Dir)] :
       \A d \in Dir : \A e \in Children[d] \cap Dir : level[e] < level[d]
  /\ \A s \in FileSystems : \A d \in Dir : \A e \in Children[d] \cap Dir : s[e] # "absent"

ASSUME CommandLinesAssumption == CommandLines \subseteq Seq(Argument)

VARIABLES
  argv,   \* the arguments not parsed yet
  opts,   \* what the parsed ones have set
  fs,     \* fs[f]: the state of a file or directory
  pc,     \* the next step
  cur,    \* the PCR whose handler main calls now or next
  i,      \* the position of the loop the program is in
  walk,   \* the open directories, each with the entries not read yet
  bank,   \* bank[n]: the register pcr[n] of main
  log,    \* log[n]: the event log of PCR n, empty while its pointer is NULL
  said,   \* a diagnostic has been written to stdout by a run that went on
  out,    \* the tokens of the results written to stdout
  ret     \* the exit status, 1 while running

input == <<argv, opts, fs>>
result == <<out, ret>>
vars == <<argv, opts, fs, pc, cur, i, walk, bank, log, said, out, ret>>

Init ==
  /\ argv \in CommandLines
  /\ fs \in FileSystems
  /\ opts = [flag |-> [o \in FlagOption \cup {"json"} |-> FALSE],
             file |-> [o \in FileOption |-> NoFile],
             list |-> [o \in ListOption |-> <<>>],
             pcrs |-> <<>>]
  /\ pc = "start" /\ cur = 0 /\ i = 1 /\ walk = <<>>
  /\ bank = [n \in Pcr |-> Unset]
  /\ log = [n \in Pcr |-> <<>>]
  /\ said = FALSE /\ out = <<>> /\ ret = 1

-----------------------------------------------------------------------------
(* Control: loops, the end of a handler, errors. *)

\* Go on to another step, at the start of its loop if it has one.
Goto(label) == pc' = label /\ i' = 1 /\ cur' = cur

\* Go round the loop once more.
Again == pc' = pc /\ i' = i + 1 /\ cur' = cur

\* The handler returns 0: main looks at the next PCR.
Return == pc' = "dispatch" /\ i' = 1 /\ cur' = cur + 1

\* An error of a handler or of main itself: main goes to out and returns -1.
\* What is printed on the way belongs to no output.
Fail ==
  /\ pc' = "exited" /\ ret' = -1
  /\ UNCHANGED <<argv, opts, fs, cur, i, walk, bank, log, said, out>>

\* Undefined behaviour that the build turns into a fatal signal.
Crash ==
  /\ pc' = "crashed"
  /\ UNCHANGED <<argv, opts, fs, cur, i, walk, bank, log, said, out, ret>>

\* Where an allocated object is used without a look at the pointer: the lists
\* of main, the digest contexts of hash_buf, hash_extend, hash_file and of the
\* aggregate, the text of the command line.
OutOfMemory ==
  /\ MemoryFails
  /\ pc \notin {"start", "dispatch", "open log", "print log", "open summary", "print summary",
                "exited", "crashed"}
  /\ Crash

\* The step touches neither register nor event log.
Skip == UNCHANGED <<argv, opts, fs, walk, bank, log, said, out, ret>>

\* The step only prints a diagnostic.
Warn == said' = TRUE /\ UNCHANGED <<argv, opts, fs, walk, bank, log, out, ret>>

Readable(f) == fs[f] \notin {"absent", "locked"}

Given(o) == opts.file[o] # NoFile

-----------------------------------------------------------------------------
(* main, the option loop. *)

IsFlag(a) == a.opt \in FlagOption /\ a.val = NoFile

\* Options that insist on a value.
IsValued(a) ==
  /\ a.opt \in {"format", "pcrs"} \cup ValueOption \cup AcpiOption \cup ListOption
  /\ a.val # NoFile

TooFewWords == argv = <<>> \/ (Len(argv) = 1 /\ argv[1].val = NoFile)

\* Fewer than two words on the command line: usage.
Start ==
  /\ pc = "start"
  /\ IF TooFewWords THEN Fail ELSE Goto("parse") /\ Skip

\* The option at the front has been dealt with.
Parsed(newOpts) ==
  /\ argv' = Tail(argv) /\ opts' = newOpts
  /\ UNCHANGED <<fs, pc, cur, i, walk, bank, log, out, ret>>

Silently == said' = said

NextArg == argv[1]

Parsing == pc = "parse" /\ argv # <<>>

\* With --verbose every following function prints what it does.
ParseFlag ==
  /\ Parsing /\ IsFlag(NextArg)
  /\ Parsed([opts EXCEPT !.flag[NextArg.opt] = TRUE])
  /\ said' = (said \/ NextArg.opt = "verbose")

ParseFormat ==
  /\ Parsing /\ NextArg.opt = "format" /\ NextArg.val \in {"json", "text"}
  /\ Parsed([opts EXCEPT !.flag["json"] = (NextArg.val = "json")]) /\ Silently

ParsePcrs ==
  /\ Parsing /\ NextArg.opt = "pcrs" /\ NextArg.val # NoFile
  /\ \/ Parsed([opts EXCEPT !.pcrs = @ \o NextArg.val]) /\ Silently
     \/ MemoryFails /\ Fail

NegativeZeros == NextArg.opt = "addzeros" /\ NextArg.val # NoFile /\ fs[NextArg.val] = "bad"

ParseValue ==
  /\ Parsing /\ NextArg.opt \in ValueOption /\ NextArg.val # NoFile /\ ~NegativeZeros
  /\ Parsed([opts EXCEPT !.file[NextArg.opt] = NextArg.val]) /\ Silently

\* --gpt, --dumppei and --dumpdxe take argv[1] without looking whether it is
\* there: as the last word they are silently not given.
ParseLoose ==
  /\ Parsing /\ NextArg.opt \in LooseOption
  /\ Parsed([opts EXCEPT !.file[NextArg.opt] = NextArg.val]) /\ Silently

ParseList ==
  /\ Parsing /\ NextArg.opt \in ListOption /\ NextArg.val # NoFile
  /\ \/ Parsed([opts EXCEPT !.list[NextArg.opt] = Append(@, NextArg.val)]) /\ Silently
     \/ MemoryFails /\ NextArg.opt = "bootorder" /\ Fail

\* get_file_size answers 0 for a missing file and read_file_new answers NULL
\* for one it cannot read, with a diagnostic: neither is an error.
ParseAcpi ==
  /\ Parsing /\ NextArg.opt \in AcpiOption /\ NextArg.val # NoFile
  /\ \/ /\ Readable(NextArg.val)
        /\ Parsed([opts EXCEPT !.file[NextArg.opt] = NextArg.val]) /\ Silently
     \/ /\ ~Readable(NextArg.val) \/ MemoryFails
        /\ Parsed([opts EXCEPT !.file[NextArg.opt] = NoFile]) /\ said' = TRUE

ParseInvalid ==
  /\ Parsing
  /\ \/ ~IsFlag(NextArg) /\ ~IsValued(NextArg) /\ NextArg.opt \notin LooseOption
     \/ NextArg.opt = "format" /\ NextArg.val \notin {"json", "text", NoFile}
     \/ NegativeZeros
  /\ Fail

ParseEnd == pc = "parse" /\ argv = <<>> /\ Goto("validate") /\ Skip

Requested == {opts.pcrs[k] : k \in DOMAIN opts.pcrs}

\* The number check, and the inputs that PCRs 4, 0 and 9 cannot do without.
ValidRequest ==
  /\ Requested \subseteq Pcr
  /\ 4 \in Requested => Given("kernel") \/ opts.list["bootloader"] # <<>>
  /\ 0 \in Requested => Given("ovmf")
  /\ 9 \in Requested => Given("cmdline")

Validate ==
  /\ pc = "validate"
  /\ IF ValidRequest THEN Goto("dispatch") /\ Skip ELSE Fail

-----------------------------------------------------------------------------
(* main, the calls of the handlers in the order of their numbers. *)

Calculated == 0 .. 9

FirstStep == <<"crtm", "acpi", "drivers", "separator", "bootloaders", "gpt separator",
               "separator", "secureboot", "grub", "paths">>

NotRequested ==
  /\ pc = "dispatch" /\ cur \in Calculated \ Requested
  /\ Return /\ Skip

\* Every handler starts with memset(pcr, 0, ...).
CallHandler ==
  /\ pc = "dispatch" /\ cur \in Calculated \cap Requested
  /\ bank' = [bank EXCEPT ![cur] = <<>>]
  /\ Goto(FirstStep[cur + 1])
  /\ UNCHANGED <<argv, opts, fs, walk, log, said, out, ret>>

AllCalculated ==
  /\ pc = "dispatch" /\ cur \notin Calculated
  /\ Goto("open log") /\ Skip

WithEntry(d, text) == [log EXCEPT ![cur] = Append(@, [digest |-> d, text |-> text])]

\* evlog_add: when encode_hex fails the event is not logged, when malloc or
\* realloc of the text fails the log of the PCR is lost.  No caller looks at
\* the result.
EvlogAdd(d, text) ==
  \/ log' = WithEntry(d, text)
  \/ MemoryFails /\ log' = log
  \/ MemoryFails /\ log' = [log EXCEPT ![cur] = <<>>]

\* hash_extend, for digests extended one after the other.
HashExtend(ds) == bank' = [bank EXCEPT ![cur] = @ \o ds]

\* Whether evlog_add has failed, which it reports on stdout.
ReportsLoss(d, text) == said' = (said \/ log' # WithEntry(d, text))

\* The pair of calls by which nearly every event is measured.
LogAndExtend(d, text) ==
  EvlogAdd(d, text) /\ HashExtend(<<d>>) /\ UNCHANGED <<argv, opts, fs, walk, out, ret>>

MeasureText(d, text) == LogAndExtend(d, text) /\ ReportsLoss(d, text)

Measure(d) == MeasureText(d, "plain")

QuotedFiles == {f \in File \cup Dir : fs[f] = "quoted"}
LongFiles == {f \in File \cup Dir : fs[f] = "long"}

\* The name of the file, without its directories, is in the entry.
NameOf(f) == IF f \in QuotedFiles THEN "raw" ELSE "plain"

\* Its path or its text is.
TextOf(f) == IF f \in LongFiles THEN "cut" ELSE NameOf(f)

Content(f) == <<"content", <<f>>>>

Separator == <<"separator", <<>>>>

-----------------------------------------------------------------------------
(* calculate_pcr0 *)

Firmware == opts.file["ovmf"]

Undecompressed == fs[Firmware] = "corrupt"

MeasureCrtm == pc = "crtm" /\ Measure(<<"crtm", <<>>>>) /\ Goto("firmware")

\* read_file, the bounds of FVMAIN_COMPACT and extract_lzma_fvmain_new, which
\* only prints a message when the volume does not decompress.  The headers are
\* read before the bounds are checked.
ReadFirmware ==
  /\ pc = "firmware"
  /\ \/ /\ Readable(Firmware) /\ fs[Firmware] # "bad"
        /\ Goto("pei") /\ IF Undecompressed THEN Warn ELSE Skip
     \/ (~Readable(Firmware) \/ fs[Firmware] = "bad" \/ MemoryFails) /\ Fail
     \/ fs[Firmware] = "bad" /\ Crash

DumpRefused(dump) == Given(dump) /\ fs[opts.file[dump]] = "locked"

\* hash_and_dump of one of the two volumes; the length and the contents of a
\* volume that was not decompressed are whatever the buffer holds.
MeasureVolume(kind, dump, label) ==
  \/ /\ ~DumpRefused(dump)
     /\ Measure(IF Undecompressed THEN <<"garbage", <<>>>> ELSE <<kind, <<Firmware>>>>)
     /\ Goto(label)
  \/ DumpRefused(dump) /\ Fail
  \/ Undecompressed /\ Crash

MeasurePei == pc = "pei" /\ MeasureVolume("peifv", "dumppei", "dxe")

MeasureDxe == pc = "dxe" /\ MeasureVolume("dxefv", "dumpdxe", "separator")

-----------------------------------------------------------------------------
(* calculate_pcr1: ACPI tables and boot variables.  Its error path frees      *)
(* ev_separator, which the jump has left uninitialised.                       *)

MeasureAcpi ==
  /\ pc = "acpi" /\ i <= Len(AcpiOrder)
  /\ LET f == opts.file[AcpiOrder[i]]
     IN  IF f = NoFile THEN Skip ELSE Measure(Content(f))
  /\ Again

AcpiDone == pc = "acpi" /\ i > Len(AcpiOrder) /\ Goto("bootorder") /\ Skip

MeasureBootOrder ==
  /\ pc = "bootorder"
  /\ Measure(<<"bootorder", opts.list["bootorder"]>>)
  /\ Goto("bootxxxx")

\* Without --bootxxxx: the load option of the UiApp.
MeasureDefaultBootOption ==
  /\ pc = "bootxxxx" /\ opts.list["bootxxxx"] = <<>>
  /\ \/ Measure(<<"boot0000", <<>>>>) /\ Goto("separator")
     \/ MemoryFails /\ (Fail \/ Crash)

MeasureBootOption ==
  /\ pc = "bootxxxx" /\ i <= Len(opts.list["bootxxxx"])
  /\ LET f == opts.list["bootxxxx"][i]
     IN  \/ Readable(f) /\ fs[f] # "bad" /\ Measure(<<"efivar", <<f>>>>) /\ Again
         \/ (~Readable(f) \/ MemoryFails) /\ (Fail \/ Crash)
         \/ fs[f] = "bad" /\ Crash       \* file_size - 4 wraps around

BootOptionsDone ==
  /\ pc = "bootxxxx" /\ opts.list["bootxxxx"] # <<>> /\ i > Len(opts.list["bootxxxx"])
  /\ Goto("separator") /\ Skip

-----------------------------------------------------------------------------
(* calculate_pcr2 and calculate_pcr4: PE images *)

IsPe(f) == Readable(f) /\ fs[f] # "bad"

\* LoadPeImage or MeasurePeImage fails: MeasurePeImage frees a digest context
\* that it has not initialised when it refuses the image.
PeRefused(f) ==
  \/ (~IsPe(f) \/ MemoryFails) /\ Fail
  \/ fs[f] = "bad" /\ Crash

MeasureDriver ==
  /\ pc = "drivers" /\ i <= Len(opts.list["driver"])
  /\ LET f == opts.list["driver"][i]
     IN  \/ IsPe(f) /\ MeasureText(<<"pe", <<f>>>>, NameOf(f)) /\ Again
         \/ PeRefused(f)

DriversDone == pc = "drivers" /\ i > Len(opts.list["driver"]) /\ Goto("separator") /\ Skip

\* The zeroed digest of an image that was refused with a diagnostic.
MeasurePlaceholder(f) == LogAndExtend(<<"zero", <<>>>>, NameOf(f)) /\ said' = TRUE

\* An image that MeasurePeImage refuses is reported, but measured with the
\* zeroed digest and freed twice.
MeasureBootloader ==
  /\ pc = "bootloaders" /\ i <= Len(opts.list["bootloader"])
  /\ LET f == opts.list["bootloader"][i]
         refused == fs[f] = "bad" \/ (Readable(f) /\ MemoryFails)
     IN  \/ IsPe(f) /\ MeasureText(<<"pe", <<f>>>>, NameOf(f)) /\ Again
         \/ refused /\ MeasurePlaceholder(f) /\ Again
         \/ refused /\ Crash
         \/ (~Readable(f) \/ MemoryFails) /\ Fail

BootloadersDone ==
  /\ pc = "bootloaders" /\ i > Len(opts.list["bootloader"])
  /\ Goto(IF Given("kernel") THEN "kernel" ELSE "boot action") /\ Skip

\* The setup header of the image is overwritten with the configuration first.
MeasureKernel ==
  /\ pc = "kernel"
  /\ LET k == opts.file["kernel"]
         c == opts.file["config"]
         configured == c # NoFile => Readable(c) /\ fs[c] # "bad"
     IN  \/ /\ IsPe(k) /\ configured
            /\ MeasureText(<<"pe", IF c = NoFile THEN <<k>> ELSE <<k, c>>>>, NameOf(k))
            /\ Goto("boot action")
         \/ ~configured /\ Fail
         \/ configured /\ PeRefused(k)

\* [fault] The action is logged but not extended.
MeasureBootActionUnextended ==
  pc = "boot action" /\ Goto("separator") /\ EvlogAdd(<<"calling efi application", <<>>>>, "plain")
    /\ UNCHANGED <<argv, opts, fs, walk, bank, said, out, ret>>

MeasureBootAction ==
  pc = "boot action" /\ Measure(<<"calling efi application", <<>>>>) /\ Goto("separator")

-----------------------------------------------------------------------------
(* calculate_pcr5: the separator is journaled first and extended after the    *)
(* partition table; the two boot service actions are journaled, then the      *)
(* three digests are extended.                                                *)

Invocation == <<"exit boot invocation", <<>>>>
Returned == <<"exit boot returned", <<>>>>

LogOnly(d) ==
  /\ EvlogAdd(d, "plain") /\ ReportsLoss(d, "plain")
  /\ UNCHANGED <<argv, opts, fs, walk, bank, out, ret>>

LogGptSeparator ==
  /\ pc = "gpt separator"
  /\ \/ LogOnly(Separator) /\ Goto("gpt")
     \/ MemoryFails /\ Fail

\* [fault] The partition table is extended but not logged.
MeasureGptUnlogged ==
  /\ pc = "gpt" /\ Goto("exit boot")
  /\ IF Given("gpt") THEN HashExtend(<<Content(opts.file["gpt"])>>) ELSE UNCHANGED bank
  /\ UNCHANGED <<argv, opts, fs, walk, log, said, out, ret>>

\* The description of the table quotes its signature.
MeasureGpt ==
  /\ pc = "gpt"
  /\ LET f == opts.file["gpt"]
     IN  \/ f = NoFile /\ Skip /\ Goto("exit boot")
         \/ /\ f # NoFile /\ Readable(f) /\ fs[f] # "bad"
            /\ MeasureText(Content(f), NameOf(f)) /\ Goto("exit boot")
         \/ f # NoFile /\ (~Readable(f) \/ fs[f] = "bad" \/ MemoryFails) /\ Fail

LogExitBootInvocation == pc = "exit boot" /\ LogOnly(Invocation) /\ Goto("boot exited")

LogExitBootReturned ==
  /\ pc = "boot exited"
  /\ EvlogAdd(Returned, "plain") /\ ReportsLoss(Returned, "plain")
  /\ HashExtend(<<Separator, Invocation, Returned>>)
  /\ UNCHANGED <<argv, opts, fs, walk, out, ret>>
  /\ Return

-----------------------------------------------------------------------------
(* calculate_pcr7: the secure boot variables, the separator, the authority.   *)

\* create_uefi_variable: a file from its fourth byte on, or no data at all.
MeasureSecureBootVar ==
  /\ pc = "secureboot" /\ i <= Len(SecureBootVars)
  /\ LET var == SecureBootVars[i]
         f == opts.file[var]
     IN  \/ f = NoFile /\ Measure(<<var, <<>>>>) /\ Again
         \/ f # NoFile /\ Readable(f) /\ fs[f] # "bad" /\ Measure(<<var, <<f>>>>) /\ Again
         \/ f # NoFile /\ ~Readable(f) /\ Fail
         \/ f # NoFile /\ fs[f] = "bad" /\ Crash       \* var_data_size -= 4 wraps around
         \/ MemoryFails /\ Fail

SecureBootDone ==
  pc = "secureboot" /\ i > Len(SecureBootVars) /\ Goto("separator") /\ Skip

\* [fault] The event is logged before the variable is allocated.
MeasureSbatLevelEarly ==
  /\ pc = "sbatlevel" /\ pc' = "exited" /\ ret' = -1
  /\ EvlogAdd(<<"sbatlevel", <<>>>>, "plain")
  /\ UNCHANGED <<argv, opts, fs, cur, i, walk, bank, said, out>>

MeasureSbatLevel ==
  /\ pc = "sbatlevel"
  /\ \/ Given("sbatlevel") /\ Measure(<<"sbatlevel", <<opts.file["sbatlevel"]>>>>) /\ Return
     \/ ~Given("sbatlevel") /\ Skip /\ Return
     \/ Given("sbatlevel") /\ MemoryFails /\ Fail

-----------------------------------------------------------------------------
(* EV_SEPARATOR as all handlers but calculate_pcr5 measure it.                *)

\* When OPENSSL_hexstr2buf fails, calculate_pcr1 returns the 0 that its last
\* callee left in ret (pcrs.c:206), the other handlers return -1.
MeasureSeparator ==
  /\ pc = "separator"
  /\ \/ Measure(Separator) /\ IF cur = 7 THEN Goto("sbatlevel") ELSE Return
     \/ MemoryFails /\ cur # 1 /\ Fail
     \/ MemoryFails /\ cur = 1 /\ Warn /\ Return

-----------------------------------------------------------------------------
(* calculate_pcr8: one event for every line of the GRUB command file.         *)

GrubFile == opts.file["grubcmds"]

ReadGrub ==
  /\ pc = "grub"
  /\ \/ GrubFile = NoFile /\ Skip /\ Return
     \/ GrubFile # NoFile /\ Readable(GrubFile) /\ Skip /\ Goto("grub commands")
     \/ GrubFile # NoFile /\ (~Readable(GrubFile) \/ MemoryFails) /\ Fail

\* The digest of the k-th line of the file.
GrubCommand(k) == <<"grub command", [j \in 1 .. k |-> GrubFile]>>

\* strtok runs over a buffer without a terminating zero: behind the last
\* newline it may find one more token, of whatever characters there are.
MeasureGrubCommand ==
  /\ pc = "grub commands"
  /\ \/ i <= GrubLines /\ MeasureText(GrubCommand(i), TextOf(GrubFile)) /\ Again
     \/ i > GrubLines /\ (\E text \in Text : MeasureText(<<"garbage", <<>>>>, text)) /\ Return
     \/ i > GrubLines /\ Skip /\ Return

-----------------------------------------------------------------------------
(* calculate_pcr9: calculate_paths, the kernel command line, the initrd.      *)
(* calculate_paths_recursively is a depth first walk, its stack of open       *)
(* directories is the variable walk.                                          *)

Paths == opts.list["path"]

AtPath == pc = "paths" /\ i <= Len(Paths)

\* stat fails: the path does not exist.
RejectPath == AtPath /\ fs[Paths[i]] = "absent" /\ Fail

\* A path that is a file; the result of calculate_path is not looked at.
MeasurePath ==
  /\ AtPath /\ Paths[i] \in File /\ fs[Paths[i]] # "absent"
  /\ \/ Readable(Paths[i]) /\ MeasureText(Content(Paths[i]), TextOf(Paths[i]))
     \/ (~Readable(Paths[i]) \/ MemoryFails) /\ Warn
  /\ Again

WalkPath ==
  /\ AtPath /\ Paths[i] \in Dir /\ fs[Paths[i]] # "absent"
  /\ \/ /\ Readable(Paths[i])
        /\ walk' = <<Children[Paths[i]]>>
        /\ pc' = "walk"
        /\ UNCHANGED <<argv, opts, fs, cur, i, bank, log, said, out, ret>>
     \/ (~Readable(Paths[i]) \/ MemoryFails) /\ Fail

PathsDone == pc = "paths" /\ i > Len(Paths) /\ Goto("cmdline") /\ Skip

Depth == Len(walk)

\* The directory on top of the stack with entry e read.
Read(e) == [walk EXCEPT ![Depth] = @ \ {e}]

\* Leave the directory on top of the stack for its parent or the next path.
LeaveDirectory ==
  /\ walk' = SubSeq(walk, 1, Depth - 1)
  /\ IF Depth = 1 THEN pc' = "paths" /\ i' = i + 1 ELSE UNCHANGED <<pc, i>>
  /\ UNCHANGED <<argv, opts, fs, cur, bank, log, out, ret>>

\* [fault] A directory that cannot be opened is tried again.
EnterDirectoryAgain(e) ==
  /\ pc = "walk" /\ e \in walk[Depth] \cap Dir
  /\ \/ Readable(e) /\ walk' = Append(Read(e), Children[e])
     \/ ~Readable(e) /\ walk' = walk
  /\ UNCHANGED <<argv, opts, fs, pc, cur, i, bank, log, said, out, ret>>

\* readdir delivers the entries in any order.  A directory that cannot be
\* opened is skipped, the result of the recursive call is not looked at.
EnterDirectory(e) ==
  /\ pc = "walk" /\ e \in walk[Depth] \cap Dir
  /\ \/ Readable(e) /\ walk' = Append(Read(e), Children[e])
     \/ (~Readable(e) \/ MemoryFails) /\ walk' = Read(e)
  /\ UNCHANGED <<argv, opts, fs, pc, cur, i, bank, log, said, out, ret>>

\* A dangling link is skipped without a word: realpath fails.
MeasureFileEntry(e) ==
  /\ pc = "walk" /\ e \in walk[Depth] \cap File
  /\ walk' = Read(e)
  /\ \/ /\ Readable(e)
        /\ EvlogAdd(Content(e), TextOf(e)) /\ ReportsLoss(Content(e), TextOf(e))
        /\ HashExtend(<<Content(e)>>)
     \/ (fs[e] = "absent" \/ MemoryFails) /\ UNCHANGED <<bank, log, said>>
  /\ UNCHANGED <<argv, opts, fs, pc, cur, i, out, ret>>

\* A file that cannot be hashed ends the walk of its directory with -1, which
\* only the walk of a path of the command line passes on.
FileEntryFails(e) ==
  /\ pc = "walk" /\ e \in walk[Depth] \cap File
  /\ fs[e] = "locked" \/ MemoryFails
  /\ IF Depth = 1 THEN Fail ELSE LeaveDirectory /\ said' = TRUE

DirectoryDone == pc = "walk" /\ walk[Depth] = {} /\ LeaveDirectory /\ Silently

\* OVMF appends initrd=initrd if there is an initial ramdisk.
CmdlineDigest ==
  <<IF Given("initrd") THEN "cmdline initrd=initrd" ELSE "cmdline",
    <<opts.file["cmdline"], opts.file["addzeros"]>>>>

MeasureCmdline ==
  /\ pc = "cmdline"
  /\ LET f == opts.file["cmdline"]
     IN  \/ Readable(f) /\ MeasureText(CmdlineDigest, TextOf(f)) /\ Goto("initrd")
         \/ (~Readable(f) \/ MemoryFails) /\ Fail

MeasureInitrd ==
  /\ pc = "initrd"
  /\ LET f == opts.file["initrd"]
     IN  \/ f = NoFile /\ Skip /\ Return
         \/ f # NoFile /\ Readable(f) /\ MeasureText(Content(f), TextOf(f)) /\ Return
         \/ f # NoFile /\ (~Readable(f) \/ MemoryFails) /\ Fail

-----------------------------------------------------------------------------
(* main, the output.  A token stands for a JSON object or for punctuation; in *)
(* text format there are only objects.                                        *)

Json == opts.flag["json"]

Token(t, n, v) == [t |-> t, pcr |-> n, value |-> v]

Punctuation(t) == IF Json THEN <<Token(t, 0, <<>>)>> ELSE <<>>

Emit(ts, label) ==
  /\ out' = out \o ts
  /\ Goto(label)
  /\ UNCHANGED <<argv, opts, fs, walk, bank, log, said, ret>>

OpenLog ==
  /\ pc = "open log"
  /\ IF opts.flag["eventlog"]
     THEN Emit(Punctuation("["), "print log")
     ELSE Goto("open summary") /\ Skip

\* The text of an entry ends in a comma; the last comma of the last PCR of the
\* list gives way to the closing bracket.  The texts are printed as they are, so
\* that an object with raw ones is broken; an entry that did not fit evlog_add's
\* buffer has lost both the comma and the end of its object.
EntryTokens(n, e, last) ==
  IF e.text = "cut"
  THEN <<Token("cut", n, <<e.digest>>)>>
  ELSE <<Token(IF Json /\ e.text = "raw" THEN "broken" ELSE "event", n, <<e.digest>>)>>
         \o Punctuation(IF last THEN "]" ELSE ",")

LogTokens(n, last) ==
  FlattenSeq([k \in DOMAIN log[n] |-> EntryTokens(n, log[n][k], last /\ k = Len(log[n]))])

\* A PCR without a log ends the program, after part of the output.
PrintLog ==
  /\ pc = "print log" /\ i <= Len(opts.pcrs)
  /\ LET n == opts.pcrs[i]
     IN  IF log[n] = <<>>
         THEN Fail
         ELSE /\ out' = out \o LogTokens(n, i = Len(opts.pcrs))
              /\ Again
              /\ UNCHANGED <<argv, opts, fs, walk, bank, log, said, ret>>

LogDone == pc = "print log" /\ i > Len(opts.pcrs) /\ Goto("open summary") /\ Skip

OpenSummary ==
  /\ pc = "open summary"
  /\ IF opts.flag["summary"]
     THEN Emit(Punctuation("["), "print summary")
     ELSE Goto("print aggregate") /\ Skip

\* [fault] A comma behind the last register too.
PrintRegisterComma ==
  /\ pc = "print summary" /\ i <= Len(opts.pcrs)
  /\ out' = out \o <<Token("pcr", opts.pcrs[i], bank[opts.pcrs[i]])>> \o Punctuation(",")
  /\ Again
  /\ UNCHANGED <<argv, opts, fs, walk, bank, log, said, ret>>

PrintRegister ==
  /\ pc = "print summary" /\ i <= Len(opts.pcrs)
  /\ LET n == opts.pcrs[i]
     IN  out' = out \o <<Token("pcr", n, bank[n])>>
                    \o IF i < Len(opts.pcrs) THEN Punctuation(",") ELSE <<>>
  /\ Again
  /\ UNCHANGED <<argv, opts, fs, walk, bank, log, said, ret>>

SummaryDone ==
  /\ pc = "print summary" /\ i > Len(opts.pcrs)
  /\ Emit(Punctuation("]"), "print aggregate")

\* The aggregate hashes the registers in the order of the list.
PrintAggregate ==
  /\ pc = "print aggregate"
  /\ out' = IF opts.flag["aggregate"]
            THEN Append(out, Token("aggregate", 0, [k \in DOMAIN opts.pcrs |-> bank[opts.pcrs[k]]]))
            ELSE out
  /\ pc' = "exited" /\ ret' = 0
  /\ UNCHANGED <<argv, opts, fs, cur, i, walk, bank, log, said>>

-----------------------------------------------------------------------------

Parse ==
  \/ Start \/ ParseFlag \/ ParseFormat \/ ParsePcrs \/ ParseValue \/ ParseLoose
  \/ ParseList \/ ParseAcpi \/ ParseInvalid \/ ParseEnd \/ Validate

Dispatch == NotRequested \/ CallHandler \/ AllCalculated

CalculatePcr0 == MeasureCrtm \/ ReadFirmware \/ MeasurePei \/ MeasureDxe

CalculatePcr1 ==
  \/ MeasureAcpi \/ AcpiDone \/ MeasureBootOrder \/ MeasureDefaultBootOption
  \/ MeasureBootOption \/ BootOptionsDone

CalculatePcr2 == MeasureDriver \/ DriversDone

CalculatePcr4 == MeasureBootloader \/ BootloadersDone \/ MeasureKernel \/ MeasureBootAction

CalculatePcr5 == LogGptSeparator \/ MeasureGpt \/ LogExitBootInvocation \/ LogExitBootReturned

CalculatePcr7 == MeasureSecureBootVar \/ SecureBootDone \/ MeasureSbatLevel

CalculatePcr8 == ReadGrub \/ MeasureGrubCommand

CalculatePcr9 ==
  \/ RejectPath \/ MeasurePath \/ WalkPath \/ PathsDone \/ DirectoryDone
  \/ \E e \in Dir : EnterDirectory(e)
  \/ \E e \in File : MeasureFileEntry(e) \/ FileEntryFails(e)
  \/ MeasureCmdline \/ MeasureInitrd

Output == OpenLog \/ PrintLog \/ LogDone \/ OpenSummary \/ PrintRegister \/ SummaryDone \/ PrintAggregate

\* The program has ended.
Terminated == pc \in {"exited", "crashed"} /\ UNCHANGED vars

Next ==
  \/ Parse \/ Dispatch \/ CalculatePcr0 \/ CalculatePcr1 \/ CalculatePcr2 \/ CalculatePcr4
  \/ CalculatePcr5 \/ CalculatePcr7 \/ CalculatePcr8 \/ CalculatePcr9 \/ MeasureSeparator
  \/ Output \/ OutOfMemory \/ Terminated

Spec == Init /\ [][Next]_vars

\* A single thread that the kernel keeps scheduling, on files whose reads
\* return.
FairSpec == Spec /\ WF_vars(Next)
=============================================================================
