---------------------------- MODULE SrtmReference ----------------------------
(***************************************************************************)
(* What calculate-srtm-pcrs is for: the registers it publishes are those a *)
(* measured boot of the given software leaves in the TPM, and the event    *)
(* log it publishes accounts for them.  Reference values are defined here  *)
(* from the options alone, without the steps that compute them.            *)
(***************************************************************************)
EXTENDS SrtmPcrs

Registers == INSTANCE MeasurementRegisters WITH
  Register <- Pcr,
  reg <- bank,
  journal <- [n \in Pcr |-> [k \in DOMAIN log[n] |-> log[n][k].digest]],
  published <- {n \in Pcr : \E k \in DOMAIN out :
                  \/ out[k].t = "pcr" /\ out[k].pcr = n
                  \/ out[k].t = "aggregate" /\ n \in Requested}

-----------------------------------------------------------------------------
(* Reference values *)

\* One digest of the given kind for every file of the sequence s.
Each(kind, s) == [k \in DOMAIN s |-> <<kind, <<s[k]>>>>]

\* The optional file of option o.
Optional(o) == IF Given(o) THEN <<opts.file[o]>> ELSE <<>>

AcpiReference ==
  Each("content", Optional("tableloader") \o Optional("acpirsdp")
                  \o Optional("tpmlog") \o Optional("acpitables"))

BootVarReference ==
  LET bootxxxx == opts.list["bootxxxx"]
  IN  <<<<"bootorder", opts.list["bootorder"]>>>>
      \o IF bootxxxx = <<>> THEN <<<<"boot0000", <<>>>>>> ELSE Each("efivar", bootxxxx)

KernelReference ==
  IF Given("kernel") THEN <<<<"pe", Optional("kernel") \o Optional("config")>>>> ELSE <<>>

\* The registers whose digests have a determined order.
Reference(n) ==
  CASE n = 0 -> <<<<"crtm", <<>>>>, <<"peifv", <<Firmware>>>>, <<"dxefv", <<Firmware>>>>, Separator>>
    [] n = 1 -> AcpiReference \o BootVarReference \o <<Separator>>
    [] n = 2 -> Each("pe", opts.list["driver"]) \o <<Separator>>
    [] n \in {3, 6} -> <<Separator>>
    [] n = 4 -> Each("pe", opts.list["bootloader"]) \o KernelReference
                \o <<<<"calling efi application", <<>>>>, Separator>>
    [] n = 5 -> Each("content", Optional("gpt")) \o <<Separator, Invocation, Returned>>
    [] n = 7 -> [k \in 1 .. 5 |-> <<SecureBootVars[k], Optional(SecureBootVars[k])>>]
                \o <<Separator>> \o Each("sbatlevel", Optional("sbatlevel"))
    [] n = 8 -> [k \in 1 .. (IF Given("grubcmds") THEN GrubLines ELSE 0) |-> GrubCommand(k)]

\* Everything below a path, itself included.
Below(p) ==
  LET W[k \in 0 .. Cardinality(Dir)] ==
        IF k = 0 THEN {p} ELSE W[k - 1] \cup UNION {Children[d] : d \in W[k - 1] \cap Dir}
  IN  W[Cardinality(Dir)]

\* How often the paths of the command line lead to the file f.
Occurrences(f) == Cardinality({k \in DOMAIN Paths : f \in Below(Paths[k])})

Pcr9Tail == <<CmdlineDigest>> \o Each("content", Optional("initrd"))

\* PCR 9: the files below the paths, in the order the file system lists them,
\* then the command line and the initrd.
MatchesPcr9(v) ==
  LET files == SubSeq(v, 1, Len(v) - Len(Pcr9Tail))
  IN  /\ Len(v) >= Len(Pcr9Tail)
      /\ v = files \o Pcr9Tail
      /\ \A k \in DOMAIN files : \E f \in File : files[k] = Content(f)
      /\ \A f \in File : Registers!Times(Content(f), files) =
                           IF fs[f] = "absent" THEN 0 ELSE Occurrences(f)

\* PCR 8: the lines of the GRUB command file, and perhaps the token that
\* strtok finds behind the end of the buffer.
MatchesPcr8(v) ==
  v = Reference(8) \/ (Given("grubcmds") /\ v = Append(Reference(8), <<"garbage", <<>>>>))

Matches(n, v) ==
  CASE n = 9 -> MatchesPcr9(v)
    [] n = 8 -> MatchesPcr8(v)
    [] OTHER -> v = Reference(n)

\* Inputs that spoil a register without making the program fail: the README
\* lists them, and each is the subject of a run or of a hazard.  Without
\* memory, calculate_pcr1 leaves out its separator, calculate_pcr4 measures a
\* boot loader as zeroes and calculate_pcr9 leaves out a path.
Unnoticed(n) ==
  \/ n = 0 /\ fs[Firmware] = "corrupt"
  \/ n = 4 /\ \E k \in DOMAIN opts.list["bootloader"] : fs[opts.list["bootloader"][k]] = "bad"
  \/ n = 9 /\ \E k \in DOMAIN Paths : \E e \in Below(Paths[k]) : fs[e] = "locked"
  \/ MemoryFails /\ n \in {1, 4, 9}

-----------------------------------------------------------------------------
(* Safety *)

\* The type invariant: every variable but those that OutputSound is about keeps
\* the range its declaration states,
\* main's PCR array and log pointers included (main.c:66-106, 401).
TypeOK ==
  /\ argv \in Seq(Argument) /\ opts \in Options
  /\ fs \in [File \cup Dir -> FileState]
  /\ pc \in Label
  /\ cur \in 0 .. 10 /\ i \in Nat \ {0}
  /\ walk \in Seq(SUBSET (File \cup Dir))
  /\ bank \in [Pcr -> Seq(Digest) \cup {Unset}]
  /\ log \in [Pcr -> Seq(Entry)]
  /\ ret \in {-1, 0, 1}

Digests(s) == [k \in DOMAIN s |-> s[k].digest]

\* The order in which calculate_pcr5 journals is not the one it extends in.
Pcr5Reordered == Given("gpt")

\* Whoever replays the event log of a PCR gets the register, whatever handler
\* wrote it and however it ended: evlog_add and hash_extend go in pairs.  The
\* exception is PCR 5 while it is calculated, and for good with --gpt.
LogReplays ==
  ~MemoryFails =>
    \A n \in Pcr :
      bank[n] # Unset /\ (n = 5 => cur > 5 /\ ~Pcr5Reordered) => Digests(log[n]) = bank[n]

\* The variables keep their ranges and the logs account for the registers, at
\* every step of every handler (main.c:66-106, 401, eventlog.c:25-83).
LogsSound == TypeOK /\ LogReplays

\* An event is in a log only if its digest has been extended, also when
\* allocations fail half way through evlog_add.  Again, PCR 5 catches up at the
\* end of its handler.
EventsExtended ==
  \A n \in Pcr : bank[n] # Unset /\ (n = 5 => cur > 5) =>
    Registers!Accounts(bank[n], Digests(log[n]))

\* A summary line shows what a measured boot with the given inputs leaves in
\* the PCR, unless the input is one whose failure the program does not notice:
\* of several measurements, one that fails must not be left out silently.
PublishedMatchReference ==
  \A k \in DOMAIN out :
    out[k].t = "pcr" /\ out[k].pcr \in Calculated /\ ~Unnoticed(out[k].pcr)
      => Matches(out[k].pcr, out[k].value)

\* A run that returns an error has printed no register and no aggregate, so a
\* partial boot chain is never mistaken for a reference value.  Nor has a run
\* that dies, unless it is for want of memory in front of the aggregate.
FailureIsSilent ==
  ret = -1 \/ pc = "crashed" =>
    \A k \in DOMAIN out : out[k].t # "aggregate" /\ (out[k].t = "pcr" => ret = 1 /\ MemoryFails)

\* Object, punctuation, and what JSON lets follow one another.
Object == {"event", "pcr"}
Follows(a, b) ==
  \/ a = "[" /\ b \in Object \cup {"]"}
  \/ a \in Object /\ b \in {",", "]"}
  \/ a = "," /\ b \in Object
  \/ a \in {"]", "aggregate"} /\ b \in {"[", "aggregate"}

JsonDocuments(ts) ==
  /\ \A k \in 1 .. Len(ts) - 1 : Follows(ts[k].t, ts[k + 1].t)
  /\ ts # <<>> => ts[1].t \in {"[", "aggregate"} /\ ts[Len(ts)].t \in {"]", "aggregate"}

\* The inputs whose texts the event log of the run may hold; a command file that
\* does not end in a newline adds characters from behind the buffer.
TextsPlain ==
  /\ QuotedFiles = {} /\ LongFiles = {}
  /\ \A k \in DOMAIN log[8] : log[8][k].text = "plain"

\* With --format json a successful run prints well-formed arrays and objects,
\* whatever list of PCRs (repeated or not) it prints, if the list is not empty,
\* no text needs an escape, which the program does not know, and it has had
\* nothing else to say on the same stream (eventlog.c:37-45, common.c:94-115).
JsonWellFormed ==
  ret = 0 /\ Json /\ opts.pcrs # <<>> /\ TextsPlain /\ ~said => JsonDocuments(out)

\* A run that goes on talks of nothing but what has befallen it: an input that
\* it cannot read, a firmware that does not decompress, a boot loader that is
\* no PE image, memory that it does not get; or it was told to be verbose.
SaidForReason ==
  /\ said \in BOOLEAN
  /\ said =>
       \/ MemoryFails \/ opts.flag["verbose"]
       \/ \E f \in File \cup Dir : ~Readable(f)
       \/ Given("ovmf") /\ Undecompressed
       \/ \E k \in DOMAIN opts.list["bootloader"] : fs[opts.list["bootloader"][k]] = "bad"

\* What is printed is sound as a document where the texts allow it, never the
\* beginning of a result that could not be completed, and right or spoilt by a
\* known input (main.c:469-545).
OutputSound ==
  JsonWellFormed /\ SaidForReason /\ FailureIsSilent /\ PublishedMatchReference

\* The calculator implements the registers with a journal: nothing is extended
\* that the journal does not account for, and only balanced registers leave
\* the program.
ImplementsRegisters == Registers!AbsSpec

\* Every run ends, also when the walk of a directory fails half way.
Terminates == <>(pc \in {"exited", "crashed"})
=============================================================================
