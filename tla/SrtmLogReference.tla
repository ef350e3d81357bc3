-------------------------- MODULE SrtmLogReference --------------------------
(***************************************************************************)
(* What parse-srtm-pcrs is for: the registers it prints are those of the   *)
(* TPM of the measured boot, and the event log it prints accounts for      *)
(* them.  Reference values are defined from the log alone.                 *)
(***************************************************************************)
EXTENDS SrtmLog

\* The file the command line names, also before it is parsed.
InputPath ==
  IF \E j \in DOMAIN argv : argv[j].opt = "in" THEN "in" ELSE opts.path

Input == IF fs[InputPath] = Absent THEN EmptyLog ELSE fs[InputPath]

\* The elements of s that are in S.
Only(s, S) == FlattenSeq([j \in DOMAIN s |-> IF s[j] \in S THEN <<s[j]>> ELSE <<>>])

Sha256(e) == IF e.type = "no action" THEN <<>> ELSE Only(e.digests, {"sha256"} \X Value)

\* The measurements of an event from its j-th digest on, and of a sequence of
\* events: pairs of the register and the digest.
MeasurementsFrom(e, j) ==
  LET rest == Sha256([e EXCEPT !.digests = SubSeq(@, j, Len(@))])
  IN  [l \in DOMAIN rest |-> <<e.pcr, rest[l]>>]

Measurements(es) == FlattenSeq([j \in DOMAIN es |-> MeasurementsFrom(es[j], 1)])

\* A startup by an H-CRTM has locality 4, the others that of their event.
StartLocality(es) ==
  IF \E j \in DOMAIN es : Hcrtm(es[j]) THEN 4
  ELSE IF \E j \in DOMAIN es : StartupLocality(es[j]) THEN 3 ELSE 0

Start(es) == IF StartLocality(es) = 0 THEN <<>> ELSE <<<<"locality", StartLocality(es)>>>>

\* The register n of the TPM after the boot that wrote es.
TpmValue(es, n) ==
  LET own == Only(Measurements(es), {n} \X Digest)
  IN  (IF n = 0 THEN Start(es) ELSE <<>>) \o [j \in DOMAIN own |-> <<"extend", own[j][2]>>]

-----------------------------------------------------------------------------
(* Logs the program is made for *)

\* An event that writes the startup locality: foreach_event2 does not look at
\* the StartupLocality event behind an H-CRTM event.
SetsLocality(es, j) ==
  Hcrtm(es[j]) \/ (StartupLocality(es[j]) /\ \A l \in 1 .. j - 1 : ~Hcrtm(es[l]))

\* The profile of the TCG: the locality is known before PCR 0 is extended.
LocalityBeforeExtend(es) ==
  \A j \in DOMAIN es : SetsLocality(es, j) =>
    \A l \in 1 .. j - 1 : es[l].pcr = 0 => es[l].type = "no action"

\* It is known even before PCR 0 is mentioned.
LocalityFirst(es) ==
  \A j \in DOMAIN es : SetsLocality(es, j) => \A l \in 1 .. j - 1 : es[l].pcr # 0

\* event_digest_cb copes with exactly one digest of an event that is not
\* extended.
NoActionsSingle(es) == \A j \in DOMAIN es : es[j].type = "no action" => Len(es[j].digests) = 1

Replayable(es) == LocalityBeforeExtend(es) /\ NoActionsSingle(es)

\* Events whose description closes their object, with named digest banks and
\* without a character that means something in a JSON string: the program
\* prints the texts of the log as they are (eventcb.c:74, 402).
Describable(es) ==
  /\ NoActionsSingle(es)
  /\ \A j \in DOMAIN es : es[j].type # "no action" =>
       /\ es[j].data # "empty"
       /\ es[j].type \in {"image", "action"} => es[j].data # "long"
       /\ es[j].type \in {"ipl", "action", "gpt"} => es[j].data # "quoted"
       /\ \A l \in DOMAIN es[j].digests : es[j].digests[l][1] # "sm3"

-----------------------------------------------------------------------------
(* Safety *)

\* The type invariant: every variable of main, the parser and the callbacks
\* keeps its range (main.c:123-129, tpm2_eventlog.c:272-277).
TypeOK ==
  /\ argv \in Seq(Argument) /\ opts \in Options
  /\ fs \in [Path -> Log \cup {Absent}] /\ faults \subseteq Fault /\ buf \in Log
  /\ pc \in Label /\ k \in Nat \ {0} /\ d \in Nat \ {0}
  /\ seen \subseteq 0 .. MaxTpmPcrs - 1 /\ hcrtm \in BOOLEAN
  /\ locality \in {0, 3, 4} /\ pending \in BOOLEAN
  /\ calc \in [Pcr -> Seq(Change)]
  /\ text \in [Pcr -> Seq(TextToken)]
  /\ ret \in {-1, 0, 1}

\* The registers of the summary (main.c:239-265) are those of the TPM that
\* wrote the log: each digest of each event is extended once, in order, into
\* the register of its event, whatever banks, types and data the other events
\* have, however the callbacks pass the state of an event to each other.
SummaryMatchesTpm ==
  \A j \in DOMAIN out :
    out[j].t = "pcr" /\ Input.head = "specid" /\ ~ReadFails /\ Replayable(Input.events)
      => out[j].value = TpmValue(Input.events, out[j].pcr)

\* The tokens of digests that were extended, and the register that the tokens
\* of a log stand for.
DigestToken == [t : {"digest"}, pcr : Pcr, value : {"sha256"} \X Value, comma : BOOLEAN]

Replayed(ts) ==
  LET digests == Only(Tail(ts), DigestToken)
  IN  (IF Head(ts).value = 0 THEN <<>> ELSE <<<<"locality", Head(ts).value>>>>)
      \o [j \in DOMAIN digests |-> <<"extend", digests[j].value>>]

\* The event log of a PCR accounts for its register after every callback: it
\* starts with the initial value and lists what event_digest_cb has extended,
\* also if that should not have been.
LogReplays ==
  Input.head = "specid" /\ LocalityFirst(Input.events) =>
    \A n \in Requested :
      IF text[n] = <<>> THEN calc[n] = <<>>
      ELSE text[n][1].t = "init" /\ Replayed(text[n]) = calc[n]

\* All that is told of a register agrees: its variable is of its type, the
\* summary is that of the TPM, and the event log replays to it
\* (eventcb.c:214-262, main.c:207-265).
RegistersSound == TypeOK /\ SummaryMatchesTpm /\ LogReplays

\* The tokens that may follow one another.  The parts of an object carry the
\* comma behind them.
Whole == {"init", "entry", "close"}
Follows(a, b) ==
  \/ a.t = "[" /\ b.t \in {"init", "open", "entry", "pcr", "]"}
  \/ a.t \in Whole /\ a.comma /\ b.t \in {"init", "open", "entry"}
  \/ a.t \in Whole /\ ~a.comma /\ b.t = "]"
  \/ a.t \in {"open", "digest"} /\ a.comma /\ b.t \in {"digest", "close"}
  \/ a.t = "pcr" /\ b.t \in {",", "]"}
  \/ a.t = "," /\ b.t = "pcr"
  \/ a.t = "]" /\ b.t \in {"[", "aggregate"}

JsonDocuments(ts) ==
  /\ \A j \in 1 .. Len(ts) - 1 : Follows(ts[j], ts[j + 1])
  /\ ts # <<>> => ts[1].t \in {"[", "aggregate"} /\ ts[Len(ts)].t \in {"]", "aggregate"}

\* With --format json a successful run on a log whose texts JSON can take as
\* they are prints well-formed documents, for every list of PCRs, with
\* repetitions and with PCRs no event belongs to: the comma of the last log that
\* is not empty is dropped (main.c:217-233), no other.  --verbose mixes messages
\* with the documents (main.c:205, 213, 240).
JsonWellFormed ==
  ret = 0 /\ Json /\ ~opts.flag["verbose"] /\ Input.head = "specid" /\ Describable(Input.events) => JsonDocuments(out)

\* A run that fails has printed no event, no register and no aggregate: the
\* output starts when the whole log has been parsed (main.c:207-212), and no
\* error behind that point is returned.  Without memory a run may still be
\* aborted before its last output, the aggregate.
FailureIsSilent ==
  /\ ret = -1 => \A j \in DOMAIN out : out[j].t = "noise"
  /\ pc = "crashed" => \A j \in DOMAIN out : out[j].t # "aggregate"

\* What is printed is sound as a document, and never the beginning of a result
\* that could not be completed (main.c:207-275).
OutputSound == JsonWellFormed /\ FailureIsSilent

\* An event that does not fit its structure or names no register.
Malformed(e) ==
  \/ e.pcr >= MaxTpmPcrs \/ (e.pcr >= MaxPcrs /\ e.digests # <<>>)
  \/ ~BodyFits(e)
  \/ e.type = "no action" /\ e.pcr = 0 /\ e.digests = <<>> /\ e.data = "empty"

Complete == Input.head \in {"specid", "sha1"} /\ ~Input.cut

Unterminated(e) == e.type = "ipl" /\ e.data = "unterminated"

\* A complete log is refused only for a malformed event, never for what an
\* earlier event has left in the variables of the parser or in its buffer; the
\* exception is an IPL text without a final zero.
RejectsOnlyMalformed ==
  ret = -1 /\ argv = <<>> /\ opts.pcrs # <<>> /\ Complete /\ faults = {} =>
    \E j \in DOMAIN Input.events : Malformed(Input.events[j]) \/ Unterminated(Input.events[j])

OutputLabel == {"open log", "print log", "open summary", "print summary", "print aggregate"}

-----------------------------------------------------------------------------
(* Refinement *)

Extended(v) == \E j \in DOMAIN v : v[j][1] = "extend"

\* The measurements the parser has not come to yet: all while it has not
\* reached the events, none when it prints, and when it gives up those it had
\* not come to.
Todo ==
  LET es == Input.events
  IN  IF pc \in OutputLabel \/ ret = 0 \/ k > Len(es) THEN <<>>
      ELSE MeasurementsFrom(es[k], d) \o Measurements(SubSeq(es, k + 1, Len(es)))

\* The runs the refinement is stated for; the others are mapped to a TPM that
\* is not used.
Maps == faults = {} /\ Replayable(Input.events)

BootOf(es) == IF Replayable(es) THEN <<Start(es), Measurements(es)>> ELSE <<<<>>, <<>>>>

Boots ==
  {<<<<>>, <<>>>>}
    \cup {BootOf(l.events) : l \in (UNION {{s.fs[p] : p \in Path} : s \in Scenarios}) \ {Absent}}

TpmRegister(n) ==
  IF ~Maps THEN <<>>
  ELSE IF n = 0 /\ ~Extended(calc[0]) THEN Start(Input.events) ELSE calc[n]

Tpm == INSTANCE MeasuredBoot WITH
  Register <- Pcr,
  pcr <- [n \in Pcr |-> TpmRegister(n)],
  todo <- IF Maps THEN Todo ELSE <<>>

\* The replay of a log that can be replayed, read to its end by a program that
\* has memory, goes through the states of the TPM, measurement by measurement
\* (foreach_event2, foreach_digest2 and the callbacks against the TPM).
ImplementsTpm == Tpm!TpmSpec

-----------------------------------------------------------------------------
(* Liveness *)

\* Every run ends, whatever the log holds.
Terminates == <>(pc \in {"exited", "crashed"})
=============================================================================
