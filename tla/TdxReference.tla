---------------------------- MODULE TdxReference ----------------------------
(***************************************************************************)
(* What calculate-tdx-mrs is for: the registers it publishes are those a   *)
(* TDX domain with the given software has, and the event log accounts for  *)
(* them.  The inputs whose failure it does not notice are named.           *)
(***************************************************************************)
EXTENDS TdxMrs

Digests(s) == [k \in DOMAIN s |-> s[k].digest]

Journal == [n \in Mr |-> Digests(log[n])]

\* The registers and the journal of the event log.  When an allocation fails
\* the log is lost with what it lists; the mapping shows the registers instead.
Registers == INSTANCE MeasurementRegisters WITH
  Register <- Mr,
  reg <- bank,
  journal <- IF short THEN [n \in Mr |-> IF bank[n] = Unset THEN <<>> ELSE bank[n]] ELSE Journal,
  published <- {n \in Mr : \E k \in DOMAIN out : out[k].t = "mr" /\ out[k].mr = n}

-----------------------------------------------------------------------------
(* Reference values *)

Optional(o) == IF Given(o) THEN <<opts.file[o]>> ELSE <<>>

Each(kind, s) == [k \in DOMAIN s |-> <<kind, <<s[k]>>>>]

If(condition, s) == IF condition THEN s ELSE <<>>

BootOptions ==
  LET bootxxxx == opts.list["bootxxxx"]
  IN  <<<<"bootorder", opts.list["bootorder"]>>>>
      \o IF bootxxxx = <<>> THEN <<Literal("boot0000")>> ELSE Each("efivar", bootxxxx)

Old == OvmfVersion = Stable202408

Reference(n) ==
  CASE n = MRSEAM -> Each("tdx module", Optional("tdxmodule"))
    [] n = MRTD -> <<<<"ovmf", <<Firmware, Qemu>>>>>>
    [] n = RTMR0 ->
        <<Literal("td hob")>> \o Each("cfv", Optional("ovmf"))
        \o [k \in 1 .. 5 |-> <<SecureBootVars[k], Optional(SecureBootVars[k])>>]
        \o <<Separator>>
        \o Each("content", Optional("tableloader") \o Optional("acpirsdp") \o Optional("acpitables"))
        \o BootOptions \o If(Old, <<Separator>>)
    [] n = RTMR1 ->
        <<<<"pe", Optional("kernel") \o Optional("config")>>, Literal("calling efi application")>>
        \o If(~Old, <<Separator>>)
        \o <<Literal("exit boot invocation"), Literal("exit boot returned")>>
    [] n = RTMR2 -> <<<<"cmdline", <<opts.file["cmdline"], opts.file["addzeros"]>>>>>>
    [] n = RTMR3 -> <<>>

\* Inputs that spoil a register of a run that succeeds: an image whose
\* sections are refused, a QEMU version that is not known, a kernel that is
\* no PE image, a dump that cannot be written, a separator without memory.
Unnoticed(n) ==
  \/ n \in {MRTD, RTMR0} /\ Given("ovmf") /\ fs[Firmware] = "unsound"
  \/ n = MRTD /\ UnknownQemu
  \/ n = RTMR1 /\ Given("kernel") /\ fs[opts.file["kernel"]] = "bad"
  \/ n = RTMR1 /\ Given("dumpkernel") /\ fs[opts.file["dumpkernel"]] = "locked"
  \/ n \in {MRTD, RTMR0, RTMR1} /\ short

-----------------------------------------------------------------------------
(* Safety *)

TokenType == {"[", "]", ",", "event", "broken", "cut", "mr"}

\* Every variable keeps its range: the register and the log that are written
\* are those of the handler that runs (main.c:385-430).
TypeOK ==
  /\ argv \in Seq(Argument) /\ opts \in Options
  /\ fs \in [File -> FileState] /\ short \in BOOLEAN
  /\ pc \in Label
  /\ turn \in 1 .. 7 /\ i \in Nat \ {0}
  /\ bank \in [Mr -> Seq(Digest) \cup {Unset}]
  /\ log \in [Mr -> Seq(Entry)]
  /\ \A k \in DOMAIN out : out[k].t \in TokenType /\ out[k].mr \in Mr
  /\ ret \in {-1, 0, 1}

\* A summary line shows the register of a domain with the given inputs, for
\* both orders of the separators of OVMF, unless the inputs are among those
\* whose failure the program does not notice (mrs.c:55-401).
PublishedMatchReference ==
  \A k \in DOMAIN out :
    out[k].t = "mr" /\ ~Unnoticed(out[k].mr) => out[k].value = Reference(out[k].mr)

\* Whoever replays the event log of a register gets the register, also while
\* its handler runs and after its error paths that return success.
LogReplays ==
  ~short => \A n \in Mr : bank[n] # Unset => Journal[n] = bank[n]

\* Log and register are those of one handler, and agree, at every step of it
\* (mrs.c:55-401, main.c:385-430).
LogsSound == TypeOK /\ LogReplays

\* A run that fails or dies has printed no register (main.c:387-430).
FailureIsSilent ==
  ret = -1 \/ pc = "crashed" => \A k \in DOMAIN out : out[k].t # "mr"

Object == {"event", "mr"}
Follows(a, b) ==
  \/ a = "[" /\ b \in Object
  \/ a \in Object /\ b \in {",", "]"}
  \/ a = "," /\ b \in Object
  \/ a = "]" /\ b = "["

\* last_entry_json finds the last log if the list of registers ascends, and
\* there is one if it is not RTMR3 alone.
Ascending == \A j, k \in DOMAIN opts.mrs : j < k => opts.mrs[j] < opts.mrs[k]

\* No text of an entry has a character that JSON escapes, or is too long.
TextsPlain == QuotedFiles = {} /\ LongFiles = {}

\* With --format json the arrays of the event log and of the summary are well
\* formed for each ascending list of registers, whichever of them have events,
\* if no text needs an escape and the run has nothing to report: what it
\* reports goes to stdout too, in front of the arrays (main.c:69-83, 433-480).
JsonWellFormed ==
  ret = 0 /\ Json /\ Ascending /\ opts.mrs # <<RTMR3>> /\ TextsPlain /\ ~said =>
    /\ \A k \in 1 .. Len(out) - 1 : Follows(out[k].t, out[k + 1].t)
    /\ out # <<>> => out[1].t = "[" /\ out[Len(out)].t = "]"

\* A run that goes on reports nothing but an ACPI file that it cannot read, an
\* input that spoils a register it was asked for, or memory that it does not
\* get; or it was told to be verbose (common.c:98-108, mrtd.c:254-342,
\* 394-405, mrs.c:179, 265-278, 295).
SaidForReason ==
  /\ said \in BOOLEAN
  /\ said =>
       \/ short \/ opts.flag["verbose"]
       \/ \E f \in File : fs[f] = "locked"
       \/ \E n \in Requested : Unnoticed(n)

\* What is printed is sound as a document where the texts allow it, and never
\* the beginning of a result that could not be completed (main.c:387-480).
OutputSound == JsonWellFormed /\ SaidForReason /\ FailureIsSilent

\* The calculator implements the registers with a journal.
ImplementsRegisters == Registers!AbsSpec
=============================================================================
