------------------------------- MODULE TdxMrs -------------------------------
(***************************************************************************)
(* calculate-tdx-mrs: the reference values of the measurement registers of *)
(* an Intel TDX domain with OVMF.  Like calculate-srtm-pcrs, see SrtmPcrs, *)
(* it parses its options, calls a handler for each register it was asked   *)
(* for and prints the event log and the registers.  Several of its error   *)
(* paths return success.                                                   *)
(*                                                                         *)
(* Digests, registers and files are represented as in SrtmPcrs; MRSEAM and *)
(* MRTD hold the digest itself, as a sequence of one.                      *)
(***************************************************************************)
EXTENDS Integers, Sequences, FiniteSets, SequencesExt

CONSTANTS File,          \* files, and the literal values of options
          NoFile,        \* the value of an option that was not given
          Unset,         \* a register that is uninitialised stack memory
          Stable202408,  \* the OVMF version edk2-stable202408.01
          Environments,  \* the states of the files and of the memory the runs may start with
          CommandLines   \* the command lines the runs may start with

\* The indices of the event log, eventlog.h.
MRTD == 0
RTMR0 == 1
RTMR1 == 2
RTMR2 == 3
RTMR3 == 4
MRSEAM == 5
Mr == 0 .. 5

Name == File \cup {NoFile}

\* "ok", "absent", "locked": as in SrtmPcrs.  "bad": readable and refused by its reader;
\* of an OVMF image, the descriptor of its metadata, of a QEMU version, one
\* that measure_ovmf does not know.  "unsound": an OVMF image whose sections
\* are refused, or that has no configuration volume.  "long": a path that does
\* not fit the line buffer of the event log.  "quoted": readable, its path has a
\* character that JSON escapes.
FileState == {"ok", "absent", "locked", "bad", "unsound", "long", "quoted"}

FlagOption == {"eventlog", "summary", "verbose"}
ValueOption == {"tdxmodule", "ovmf", "ovmfversion", "qemuversion", "config", "kernel", "ramdisk",
                "cmdline", "addzeros", "secureboot", "pk", "kek", "db", "dbx"}
AcpiOption == {"acpirsdp", "acpitables", "tableloader"}
ListOption == {"bootxxxx", "bootorder"}
FileOption == ValueOption \cup AcpiOption \cup {"dumpkernel"}

\* An argument of the command line with its value, NoFile if it has none: of
\* the options that take a value only the last argument lacks it.
Argument ==
  [opt : {"mrs"}, val : Seq(Nat)]
    \cup [opt : {"format"}, val : {"json", "text", "xml"}]
    \cup [opt : FileOption \cup ListOption, val : File]
    \cup [opt : FlagOption \cup FileOption \cup ListOption \cup {"mrs", "format", "unknown"},
          val : {NoFile}]

Options == [flag : [FlagOption \cup {"json"} -> BOOLEAN],
            file : [FileOption -> Name],
            list : [ListOption -> Seq(Name)],
            mrs : Seq(Nat)]

SecureBootVars == <<"secureboot", "pk", "kek", "db", "dbx">>

\* [fault] The order in which acpi_files_t declares them.
AcpiOrderDeclared == <<"acpitables", "acpirsdp", "tableloader">>

\* OVMF reads the table loader first.
AcpiOrder == <<"tableloader", "acpirsdp", "acpitables">>

Kind == {"tdx module", "ovmf", "garbage", "td hob", "cfv", "content", "bootorder", "boot0000",
         "efivar", "pe", "cmdline", "calling efi application", "separator",
         "exit boot invocation", "exit boot returned", "secureboot", "pk", "kek", "db", "dbx"}

Digest == Kind \X Seq(Name)

\* What the texts of an entry are like, as in SrtmPcrs.
Text == {"plain", "raw", "cut"}

Entry == [digest : Digest, text : Text]

Label == {"start", "parse", "validate", "dispatch", "tdx module", "ovmf", "td hob", "cfv",
          "secureboot", "separator", "acpi", "bootorder", "bootxxxx", "last separator",
          "kernel", "dump kernel", "boot action", "boot separator", "exit boot", "boot exited",
          "cmdline", "empty", "open log", "print log", "open summary", "print summary",
          "exited", "crashed"}

ASSUME FilesAssumption ==
  /\ NoFile \notin File /\ Stable202408 \in File /\ Unset \notin Seq(Digest)
  /\ Environments \subseteq [fs : [File -> FileState], short : BOOLEAN]

ASSUME CommandLinesAssumption == CommandLines \subseteq Seq(Argument)

VARIABLES
  argv,   \* the arguments not parsed yet
  opts,   \* what the parsed ones have set
  fs,     \* fs[f]: the state of a file
  short,  \* allocations may fail in this run
  pc,     \* the next step
  turn,   \* the position in HandlerOrder of the handler that main is at
  i,      \* the position of the loop the program is in
  bank,   \* bank[n]: the register mrs[n] of main
  log,    \* log[n]: the event log of register n, empty while its pointer is NULL
  said,   \* a diagnostic has been written to stdout by a run that went on
  out,    \* the tokens of the results written to stdout
  ret     \* the exit status, 1 while running

environment == <<argv, opts, fs, short>>
vars == <<argv, opts, fs, short, pc, turn, i, bank, log, said, out, ret>>

Init ==
  /\ argv \in CommandLines
  /\ \E e \in Environments : fs = e.fs /\ short = e.short
  /\ opts = [flag |-> [o \in FlagOption \cup {"json"} |-> FALSE],
             file |-> [o \in FileOption |-> NoFile],
             list |-> [o \in ListOption |-> <<>>],
             mrs |-> <<>>]
  /\ pc = "start" /\ turn = 1 /\ i = 1
  /\ bank = [n \in Mr |-> Unset]
  /\ log = [n \in Mr |-> <<>>]
  /\ said = FALSE /\ out = <<>> /\ ret = 1

-----------------------------------------------------------------------------
(* Control *)

Goto(label) == pc' = label /\ i' = 1 /\ turn' = turn

Again == pc' = pc /\ i' = i + 1 /\ turn' = turn

\* The handler returns 0.
Return == pc' = "dispatch" /\ i' = 1 /\ turn' = turn + 1

Fail ==
  /\ pc' = "exited" /\ ret' = -1
  /\ UNCHANGED <<environment, turn, i, bank, log, said, out>>

\* Undefined behaviour that the build turns into a fatal signal.
Crash ==
  /\ pc' = "crashed"
  /\ UNCHANGED <<environment, turn, i, bank, log, said, out, ret>>

\* Where an allocated object is used without a look at the pointer: the lists
\* of main, digest contexts, the hexadecimal text of a digest.
OutOfMemory ==
  /\ short
  /\ pc \notin {"start", "validate", "dispatch", "empty", "open log", "print log",
                "open summary", "print summary", "exited", "crashed"}
  /\ pc = "parse" => argv # <<>> /\ argv[1].opt \in ListOption \cup {"mrs"}
  /\ Crash

\* The step touches neither register nor event log.
Skip == UNCHANGED <<environment, bank, log, said, out, ret>>

\* The step only prints a diagnostic.
Warn == said' = TRUE /\ UNCHANGED <<environment, bank, log, out, ret>>

Silently == said' = said

Readable(f) == fs[f] \notin {"absent", "locked"}

Given(o) == opts.file[o] # NoFile

-----------------------------------------------------------------------------
(* main, the option loop. *)

NextArg == argv[1]

Parsing == pc = "parse" /\ argv # <<>>

HasValue == NextArg.val # NoFile

IsFlag == NextArg.opt \in FlagOption /\ ~HasValue

IsValued == NextArg.opt \in {"format", "mrs"} \cup ValueOption \cup AcpiOption \cup ListOption /\ HasValue

Parsed(newOpts) ==
  /\ argv' = Tail(argv) /\ opts' = newOpts
  /\ UNCHANGED <<fs, short, pc, turn, i, bank, log, out, ret>>

\* Fewer than two words on the command line: usage.
Start ==
  /\ pc = "start"
  /\ IF argv = <<>> \/ (Len(argv) = 1 /\ NextArg.val = NoFile)
     THEN Fail
     ELSE Goto("parse") /\ Skip

\* With --verbose every following function prints what it does.
ParseFlag ==
  /\ Parsing /\ IsFlag
  /\ Parsed([opts EXCEPT !.flag[NextArg.opt] = TRUE])
  /\ said' = (said \/ NextArg.opt = "verbose")

ParseFormat ==
  /\ Parsing /\ NextArg.opt = "format" /\ NextArg.val \in {"json", "text"}
  /\ Parsed([opts EXCEPT !.flag["json"] = (NextArg.val = "json")]) /\ Silently

ParseMrs ==
  /\ Parsing /\ NextArg.opt = "mrs" /\ HasValue
  /\ \/ Parsed([opts EXCEPT !.mrs = @ \o NextArg.val]) /\ Silently
     \/ short /\ Fail

NegativeZeros == NextArg.opt = "addzeros" /\ HasValue /\ fs[NextArg.val] = "bad"

ParseValue ==
  /\ Parsing /\ NextArg.opt \in ValueOption /\ HasValue /\ ~NegativeZeros
  /\ Parsed([opts EXCEPT !.file[NextArg.opt] = NextArg.val]) /\ Silently

\* --dumpkernel takes argv[1] without looking whether it is there.
ParseDump ==
  /\ Parsing /\ NextArg.opt = "dumpkernel"
  /\ Parsed([opts EXCEPT !.file["dumpkernel"] = NextArg.val]) /\ Silently

ParseList ==
  /\ Parsing /\ NextArg.opt \in ListOption /\ HasValue
  /\ \/ Parsed([opts EXCEPT !.list[NextArg.opt] = Append(@, NextArg.val)]) /\ Silently
     \/ short /\ NextArg.opt = "bootorder" /\ Fail

\* A missing file has the size 0, which ends the program; one that cannot be
\* read is reported, and then as if it had not been given.
ParseAcpi ==
  /\ Parsing /\ NextArg.opt \in AcpiOption /\ HasValue
  /\ LET f == NextArg.val
     IN  \/ Readable(f) /\ Parsed([opts EXCEPT !.file[NextArg.opt] = f]) /\ Silently
         \/ /\ fs[f] = "locked" \/ (Readable(f) /\ short)
            /\ Parsed([opts EXCEPT !.file[NextArg.opt] = NoFile]) /\ said' = TRUE
         \/ fs[f] = "absent" /\ Fail

ParseInvalid ==
  /\ Parsing
  /\ \/ ~IsFlag /\ ~IsValued /\ NextArg.opt # "dumpkernel"
     \/ NextArg.opt = "format" /\ NextArg.val \notin {"json", "text", NoFile}
     \/ NegativeZeros
  /\ Fail

ParseEnd == pc = "parse" /\ argv = <<>> /\ Goto("validate") /\ Skip

Requested == {opts.mrs[k] : k \in DOMAIN opts.mrs}

\* The inputs that registers cannot do without.  The one that is meant for
\* RTMR0 tests the number of MRTD a second time.
ValidRequest ==
  /\ opts.mrs # <<>> /\ Requested \subseteq Mr
  /\ RTMR1 \in Requested => Given("kernel")
  /\ MRTD \in Requested => Given("ovmf")
  /\ MRSEAM \in Requested => Given("tdxmodule")
  /\ RTMR2 \in Requested => Given("cmdline")

Validate ==
  /\ pc = "validate"
  /\ IF ValidRequest THEN Goto("dispatch") /\ Skip ELSE Fail

-----------------------------------------------------------------------------
(* main, the handlers *)

HandlerOrder == <<MRSEAM, MRTD, RTMR0, RTMR1, RTMR2, RTMR3>>

FirstStep == <<"tdx module", "ovmf", "td hob", "kernel", "cmdline", "empty">>

\* The register of the handler that runs.
Cur == HandlerOrder[turn]

NotRequested ==
  /\ pc = "dispatch" /\ turn <= 6 /\ Cur \notin Requested
  /\ Return /\ Skip

CallHandler ==
  /\ pc = "dispatch" /\ turn <= 6 /\ Cur \in Requested
  /\ bank' = [bank EXCEPT ![Cur] = <<>>]
  /\ Goto(FirstStep[turn])
  /\ UNCHANGED <<environment, log, said, out, ret>>

AllCalculated == pc = "dispatch" /\ turn > 6 /\ Goto("open log") /\ Skip

WithEntry(d, text) == [log EXCEPT ![Cur] = Append(@, [digest |-> d, text |-> text])]

\* [fault] The entry replaces the text of the register.
EvlogReplace(d, text) == log' = [log EXCEPT ![Cur] = <<[digest |-> d, text |-> text]>>]

\* evlog_add: when malloc or realloc of the text fails the log of the register
\* is lost.  No caller looks at the result.
EvlogAdd(d, text) ==
  \/ log' = WithEntry(d, text)
  \/ short /\ log' = [log EXCEPT ![Cur] = <<>>]

\* Whether evlog_add has failed, which it reports on stdout.
ReportsLoss(d, text) == said' = (said \/ log' # WithEntry(d, text))

\* hash_extend.  The memcpy of MRSEAM and MRTD into the register that was
\* reset is the same on this representation.
HashExtend(d) == bank' = [bank EXCEPT ![Cur] = Append(@, d)]

LogAndExtend(d, text) == EvlogAdd(d, text) /\ HashExtend(d) /\ UNCHANGED <<environment, out, ret>>

MeasureText(d, text) == LogAndExtend(d, text) /\ ReportsLoss(d, text)

Measure(d) == MeasureText(d, "plain")

QuotedFiles == {f \in File : fs[f] = "quoted"}
LongFiles == {f \in File : fs[f] = "long"}

\* The name of the file, without its directories, is in the entry.
NameOf(f) == IF f \in QuotedFiles THEN "raw" ELSE "plain"

\* Its path is.
PathOf(f) == IF f \in LongFiles THEN "cut" ELSE NameOf(f)

Literal(kind) == <<kind, <<>>>>
Separator == Literal("separator")
Content(f) == <<"content", <<f>>>>

\* A digest that was never written, behind a diagnostic.
MeasureGarbage == LogAndExtend(Literal("garbage"), "plain") /\ said' = TRUE

\* A return value 0 on an error path, which publishes what is there.
ReturnUnmeasured == Warn /\ Return

\* An error path that frees ev_separator before it has been assigned.
FailUninitialised == Fail \/ Crash

-----------------------------------------------------------------------------
(* calculate_mrseam and calculate_mrtd *)

MeasureTdxModule ==
  /\ pc = "tdx module"
  /\ LET f == opts.file["tdxmodule"]
     IN  \/ Readable(f) /\ Measure(<<"tdx module", <<f>>>>) /\ Return
         \/ ~Readable(f) /\ Fail

Firmware == opts.file["ovmf"]

Qemu == opts.file["qemuversion"]

UnknownQemu == Qemu # NoFile /\ fs[Qemu] = "bad"

\* measure_ovmf, see Mrtd: an error behind the descriptor leaves the digest
\* uninitialised and returns 0.
MeasureFirmware ==
  /\ pc = "ovmf"
  /\ LET refused == ~Readable(Firmware) \/ fs[Firmware] = "bad"
         spoiled == fs[Firmware] = "unsound" \/ UnknownQemu \/ short
     IN  \/ ~refused /\ fs[Firmware] # "unsound" /\ ~UnknownQemu
            /\ Measure(<<"ovmf", <<Firmware, Qemu>>>>) /\ Return
         \/ ~refused /\ spoiled /\ MeasureGarbage /\ Return
         \/ (refused \/ short) /\ Fail
         \/ fs[Firmware] \in {"bad", "unsound"} /\ Crash

-----------------------------------------------------------------------------
(* calculate_rtmr0 *)

MeasureTdHob == pc = "td hob" /\ Measure(Literal("td hob")) /\ Goto("cfv")

MeasureCfv ==
  /\ pc = "cfv"
  /\ LET refused == ~Readable(Firmware) \/ fs[Firmware] = "bad"
     IN  \/ Firmware = NoFile /\ Skip /\ Goto("secureboot")
         \/ /\ Firmware # NoFile /\ ~refused
            /\ \/ fs[Firmware] # "unsound" /\ Measure(<<"cfv", <<Firmware>>>>)
               \/ fs[Firmware] = "unsound" /\ (MeasureGarbage \/ Measure(Literal("garbage")))
            /\ Goto("secureboot")
         \/ Firmware # NoFile /\ (refused \/ short) /\ FailUninitialised
         \/ Firmware # NoFile /\ fs[Firmware] \in {"bad", "unsound"} /\ Crash

MeasureSecureBootVar ==
  /\ pc = "secureboot" /\ i <= Len(SecureBootVars)
  /\ LET var == SecureBootVars[i]
         f == opts.file[var]
     IN  \/ f = NoFile /\ Measure(<<var, <<>>>>) /\ Again
         \/ f # NoFile /\ Readable(f) /\ fs[f] # "bad" /\ Measure(<<var, <<f>>>>) /\ Again
         \/ f # NoFile /\ ~Readable(f) /\ FailUninitialised
         \/ f # NoFile /\ fs[f] = "bad" /\ Crash       \* var_data_size -= 4 wraps around
         \/ short /\ FailUninitialised

SecureBootDone == pc = "secureboot" /\ i > Len(SecureBootVars) /\ Goto("separator") /\ Skip

\* When OPENSSL_hexstr2buf fails, ret is still 0.
MeasureSeparator ==
  /\ pc = "separator"
  /\ \/ Measure(Separator) /\ Goto("acpi")
     \/ short /\ ReturnUnmeasured

MeasureAcpi ==
  /\ pc = "acpi" /\ i <= Len(AcpiOrder)
  /\ LET f == opts.file[AcpiOrder[i]]
     IN  IF f = NoFile THEN Skip ELSE Measure(Content(f))
  /\ Again

AcpiDone == pc = "acpi" /\ i > Len(AcpiOrder) /\ Goto("bootorder") /\ Skip

MeasureBootOrder ==
  pc = "bootorder" /\ Measure(<<"bootorder", opts.list["bootorder"]>>) /\ Goto("bootxxxx")

\* The load option of the UiApp: attributes, path and description are constants
\* of the program, and create_node never finds its buffer too small for them.
DefaultLoadOption == Literal("boot0000")

\* Without --bootxxxx.
MeasureDefaultBootOption ==
  /\ pc = "bootxxxx" /\ opts.list["bootxxxx"] = <<>>
  /\ \/ Measure(DefaultLoadOption) /\ Goto("last separator")
     \/ short /\ Fail

MeasureBootOption ==
  /\ pc = "bootxxxx" /\ i <= Len(opts.list["bootxxxx"])
  /\ LET f == opts.list["bootxxxx"][i]
     IN  \/ Readable(f) /\ fs[f] # "bad" /\ Measure(<<"efivar", <<f>>>>) /\ Again
         \/ (~Readable(f) \/ short) /\ Fail
         \/ fs[f] = "bad" /\ Crash       \* file_size - 4 wraps around

BootOptionsDone ==
  /\ pc = "bootxxxx" /\ opts.list["bootxxxx"] # <<>> /\ i > Len(opts.list["bootxxxx"])
  /\ Goto("last separator") /\ Skip

OvmfVersion == opts.file["ovmfversion"]

\* Only in edk2-stable202408.01; it has no separator in RTMR1.
MeasureLastSeparator ==
  /\ pc = "last separator"
  /\ IF OvmfVersion = Stable202408 THEN Measure(Separator) ELSE Skip
  /\ Return

-----------------------------------------------------------------------------
(* calculate_rtmr1: the kernel and the boot service actions.  In front of the *)
(* declaration of ev_separator every error path frees garbage.                *)

Configured ==
  LET c == opts.file["config"]
  IN  c # NoFile => Readable(c) /\ fs[c] # "bad"

\* An image that MeasurePeImage refuses leaves ret at the 0 of LoadPeImage.
MeasureKernel ==
  /\ pc = "kernel"
  /\ LET k == opts.file["kernel"]
         c == opts.file["config"]
     IN  \/ /\ Readable(k) /\ fs[k] # "bad" /\ Configured
            /\ MeasureText(<<"pe", IF c = NoFile THEN <<k>> ELSE <<k, c>>>>, NameOf(k))
            /\ Goto("dump kernel")
         \/ (~Readable(k) \/ ~Configured \/ short) /\ FailUninitialised
         \/ (fs[k] = "bad" \/ (Readable(k) /\ short)) /\ Configured /\ (ReturnUnmeasured \/ Crash)
         \/ fs[k] = "bad" /\ c # NoFile /\ FailUninitialised     \* no room for a setup header

DumpKernel ==
  /\ pc = "dump kernel"
  /\ LET f == opts.file["dumpkernel"]
     IN  \/ (f # NoFile => fs[f] # "locked") /\ Skip /\ Goto("boot action")
         \/ f # NoFile /\ (fs[f] = "locked" \/ short) /\ (ReturnUnmeasured \/ Crash)

\* [fault] The action is logged but not extended.
MeasureBootActionUnextended ==
  /\ pc = "boot action" /\ Goto("boot separator")
  /\ EvlogAdd(Literal("calling efi application"), "plain")
  /\ UNCHANGED <<environment, bank, said, out, ret>>

MeasureBootAction ==
  pc = "boot action" /\ Measure(Literal("calling efi application")) /\ Goto("boot separator")

MeasureBootSeparator ==
  /\ pc = "boot separator"
  /\ \/ OvmfVersion # Stable202408 /\ Measure(Separator) /\ Goto("exit boot")
     \/ OvmfVersion = Stable202408 /\ Skip /\ Goto("exit boot")
     \/ OvmfVersion # Stable202408 /\ short /\ ReturnUnmeasured

MeasureExitBoot ==
  pc = "exit boot" /\ Measure(Literal("exit boot invocation")) /\ Goto("boot exited")

MeasureBootExited == pc = "boot exited" /\ Measure(Literal("exit boot returned")) /\ Return

-----------------------------------------------------------------------------
(* calculate_rtmr2 and calculate_rtmr3 *)

\* The text of a file with two bytes for each of its characters, and as many
\* zero characters behind it as --addzeros asks for.
WideText(f, zeros) == <<"cmdline", <<f, zeros>>>>

MeasureCmdline ==
  /\ pc = "cmdline"
  /\ LET f == opts.file["cmdline"]
     IN  \/ /\ Readable(f)
            /\ MeasureText(WideText(f, opts.file["addzeros"]), PathOf(f))
            /\ Return
         \/ (~Readable(f) \/ short) /\ Fail

MeasureNothing == pc = "empty" /\ Skip /\ Return

-----------------------------------------------------------------------------
(* main, the output; tokens as in SrtmPcrs. *)

Json == opts.flag["json"]

Token(t, n, v) == [t |-> t, mr |-> n, value |-> v]

Punctuation(t) == IF Json THEN <<Token(t, 0, <<>>)>> ELSE <<>>

Emit(ts) == out' = out \o ts /\ UNCHANGED <<environment, bank, log, said, ret>>

OpenLog ==
  /\ pc = "open log"
  /\ IF opts.flag["eventlog"]
     THEN Emit(Punctuation("[")) /\ Goto("print log")
     ELSE Goto("open summary") /\ Skip

\* [fault] The last register of the list counts as the last log.
LastOfList(n) == n = opts.mrs[Len(opts.mrs)]

\* last_entry_json goes by the indices, not by the list.
LastLog(n) == \A m \in Mr : m > n => log[m] = <<>>

\* The register has been printed before: its final comma is a bracket already,
\* and now its final brace is overwritten.
Repeated(n) == \E k \in 1 .. i - 1 : opts.mrs[k] = n

\* The texts are printed as they are: an object with raw ones is broken.
EntryTokens(n, e, last) ==
  IF e.text # "cut" /\ ~(Json /\ last /\ Repeated(n))
  THEN <<Token(IF Json /\ e.text = "raw" THEN "broken" ELSE "event", n, <<e.digest>>)>>
         \o Punctuation(IF last THEN "]" ELSE ",")
  ELSE <<Token("cut", n, <<e.digest>>)>>

LogTokens(n) ==
  FlattenSeq([k \in DOMAIN log[n] |-> EntryTokens(n, log[n][k], LastLog(n) /\ k = Len(log[n]))])

\* A register without events is left out.
PrintLog == pc = "print log" /\ i <= Len(opts.mrs) /\ Emit(LogTokens(opts.mrs[i])) /\ Again

LogDone == pc = "print log" /\ i > Len(opts.mrs) /\ Goto("open summary") /\ Skip

OpenSummary ==
  /\ pc = "open summary"
  /\ IF opts.flag["summary"]
     THEN Emit(Punctuation("[")) /\ Goto("print summary")
     ELSE /\ pc' = "exited" /\ ret' = 0
          /\ UNCHANGED <<environment, turn, i, bank, log, said, out>>

PrintRegister ==
  /\ pc = "print summary" /\ i <= Len(opts.mrs)
  /\ Emit(<<Token("mr", opts.mrs[i], bank[opts.mrs[i]])>>
            \o IF i < Len(opts.mrs) THEN Punctuation(",") ELSE <<>>)
  /\ Again

SummaryDone ==
  /\ pc = "print summary" /\ i > Len(opts.mrs)
  /\ out' = out \o Punctuation("]")
  /\ pc' = "exited" /\ ret' = 0
  /\ UNCHANGED <<environment, turn, i, bank, log, said>>

-----------------------------------------------------------------------------

Parse ==
  \/ Start \/ ParseFlag \/ ParseFormat \/ ParseMrs \/ ParseValue \/ ParseDump \/ ParseList
  \/ ParseAcpi \/ ParseInvalid \/ ParseEnd \/ Validate

Dispatch == NotRequested \/ CallHandler \/ AllCalculated

CalculateMrseam == MeasureTdxModule

CalculateMrtd == MeasureFirmware

CalculateRtmr0 ==
  \/ MeasureTdHob \/ MeasureCfv \/ MeasureSecureBootVar \/ SecureBootDone \/ MeasureSeparator
  \/ MeasureAcpi \/ AcpiDone \/ MeasureBootOrder \/ MeasureDefaultBootOption
  \/ MeasureBootOption \/ BootOptionsDone \/ MeasureLastSeparator

CalculateRtmr1 ==
  \/ MeasureKernel \/ DumpKernel \/ MeasureBootAction \/ MeasureBootSeparator
  \/ MeasureExitBoot \/ MeasureBootExited

CalculateRtmr2 == MeasureCmdline

CalculateRtmr3 == MeasureNothing

Output == OpenLog \/ PrintLog \/ LogDone \/ OpenSummary \/ PrintRegister \/ SummaryDone

Terminated == pc \in {"exited", "crashed"} /\ UNCHANGED vars

Next ==
  \/ Parse \/ Dispatch \/ CalculateMrseam \/ CalculateMrtd \/ CalculateRtmr0 \/ CalculateRtmr1
  \/ CalculateRtmr2 \/ CalculateRtmr3 \/ Output \/ OutOfMemory \/ Terminated

Spec == Init /\ [][Next]_vars
=============================================================================
