------------------------------- MODULE SrtmLog -------------------------------
(***************************************************************************)
(* parse-srtm-pcrs: reads the event log the firmware has left, replays the *)
(* SHA-256 digests of its events into PCRs, and prints the events of the   *)
(* PCRs it was asked for, the registers and their aggregate.               *)
(*                                                                         *)
(* A log is a header and a sequence of events; an event is a PCR, a type,  *)
(* its digests and the shape of its data.  A register is the sequence of   *)
(* what was done to its zeroes: digests extended, and startup localities   *)
(* written to its last byte (the hash is free of collisions).  The text    *)
(* printed for an event is a sequence of tokens.                           *)
(***************************************************************************)
EXTENDS Integers, Sequences, FiniteSets, SequencesExt

CONSTANTS Value,         \* what digests can be of; Zero is all zeroes
          Scenarios,     \* the command lines and what fopen finds at the two
                         \* paths, with the faults that may come on top
          Absent,        \* no such file
          MaxPcrs,       \* MAX_PCRS, the registers of cb_data_t
          MaxTpmPcrs     \* TPM2_MAX_PCRS, the registers of a TPM

Zero == 0
Pcr == 0 .. MaxPcrs - 1

\* The tab, whose code is the index of a PCR, and the space that replaces it.
Tab == 9
Space == 32

\* sm3_256 has a size but no name.
Bank == {"sha1", "sha256", "sha384", "sha512", "sm3"}
Digest == Bank \X Value

\* "blob": also the CRTM contents.  "action": also the POST code, a text.
\* "other": the types of the default branch, which print an empty description.
Type == {"no action", "hcrtm", "variable", "blob", "image", "gpt", "ipl", "action", "other"}

\* "short": not empty, below the size of the structure of the type.  "long": a
\* description beyond the line buffer.  "locality": the StartupLocality
\* structure, of locality 3.  "unterminated": a text without a final zero.
\* "quoted": the text of an IPL, action or POST code event, or the signature of
\* a partition table, with a quote, a backslash or a control character.
Data == {"empty", "short", "good", "long", "locality", "unterminated", "quoted"}

Event == [pcr : Nat, type : Type, digests : Seq(Digest), data : Data]

\* The head is a specification ID event, a faulty one, an event of the SHA-1
\* format, or less than an event.  "cut": the last event is incomplete.
Log == [head : {"specid", "bad specid", "sha1", "tiny"}, events : Seq(Event), cut : BOOLEAN]

Path == {"bios measurements", "in"}

FlagOption == {"eventlog", "summary", "aggregate", "verbose"}

\* An argument with its value, "" for none.  pcrs holds the registers of
\* cb_data_t only: main does not check, a larger number is an access beyond it.
Argument ==
  [opt : {"pcrs"}, val : Seq(Pcr)]
    \cup [opt : {"format"}, val : {"json", "text", "xml"}]
    \cup [opt : FlagOption \cup {"in", "help", "unknown"}, val : {""}]

Options == [flag : [FlagOption \cup {"json"} -> BOOLEAN], pcrs : Seq(Pcr), path : Path]

\* What a register has gone through, and a token of the output: punctuation,
\* the parts of an event's object, a register, the aggregate.
Change == ({"extend"} \X Digest) \cup ({"locality"} \X {3, 4})
Token(t, n, v, comma) == [t |-> t, pcr |-> n, value |-> v, comma |-> comma]
TextToken ==
  [t : {"init"}, pcr : Nat, value : {0, 3, 4}, comma : BOOLEAN]
    \cup [t : {"entry", "digest"}, pcr : Nat, value : Digest, comma : BOOLEAN]
    \cup [t : {"open", "close", "cut", "broken"}, pcr : Nat, value : {0}, comma : BOOLEAN]

\* "read": fread may fail in the middle of the file.  "memory": an allocation
\* may return NULL.
Fault == {"read", "memory"}

Scenario == [argv : Seq(Argument), fs : [Path -> Log \cup {Absent}], faults : SUBSET Fault]

Label == {"parse", "read", "head", "event", "digest", "legacy", "open log", "print log",
          "open summary", "print summary", "print aggregate", "exited", "crashed"}

ASSUME SizesAssumption ==
  /\ MaxPcrs \in Nat /\ MaxTpmPcrs \in Nat /\ MaxTpmPcrs <= Space /\ Tab < MaxPcrs /\ MaxPcrs <= MaxTpmPcrs
  /\ Zero \in Value

\* A log is of the SHA-1 format, one SHA-1 digest per event, if its first event
\* is no EV_NO_ACTION.
ASSUME InputAssumption ==
  /\ Absent \notin Log
  /\ Scenarios \subseteq Scenario
  /\ \A s \in Scenarios : \A p \in Path :
       LET l == s.fs[p]
       IN  l # Absent /\ l.head = "sha1" =>
             /\ l.events # <<>> /\ l.events[1].type # "no action"
             /\ \A j \in DOMAIN l.events :
                  \E v \in Value : l.events[j].digests = <<<<"sha1", v>>>>

VARIABLES
  argv,      \* the arguments not parsed yet
  opts,      \* what the parsed ones have set
  fs,        \* fs[p]: the log at path p
  faults,    \* the faults of this run
  pc,        \* the next step
  buf,       \* the log as main has it in memory
  k,         \* the event that is parsed, or the PCR of the list printed next
  d,         \* the digest of the event
  seen,      \* pcr_occurence_vector
  hcrtm,     \* found_hcrtm
  locality,  \* the startup locality to report
  pending,   \* no_action_event_pending
  calc,      \* calc[n]: cb_data.calc_pcrs[n]
  text,      \* text[n]: cb_data.eventlog[n], empty while it is NULL
  out,       \* the tokens written to stdout
  ret        \* the exit status, 1 while running

input == <<argv, opts, fs, faults>>
replay == <<seen, hcrtm, locality, pending, calc>>
vars == <<argv, opts, fs, faults, pc, buf, k, d, seen, hcrtm, locality, pending, calc, text, out,
          ret>>

EmptyLog == [head |-> "tiny", events |-> <<>>, cut |-> FALSE]

Init ==
  /\ \E s \in Scenarios : argv = s.argv /\ fs = s.fs /\ faults = s.faults
  /\ opts = [flag |-> [o \in FlagOption \cup {"json"} |-> FALSE], pcrs |-> <<>>,
             path |-> "bios measurements"]
  /\ pc = "parse" /\ buf = EmptyLog /\ k = 1 /\ d = 1
  /\ seen = {} /\ hcrtm = FALSE /\ locality = 0 /\ pending = FALSE
  /\ calc = [n \in Pcr |-> <<>>]
  /\ text = [n \in Pcr |-> <<>>]
  /\ out = <<>> /\ ret = 1

ReadFails == "read" \in faults
MemoryFails == "memory" \in faults

Goto(label) == pc' = label /\ k' = 1 /\ d' = 1

Fail == pc' = "exited" /\ ret' = -1 /\ UNCHANGED <<input, buf, k, d, replay, text, out>>

Requested == {opts.pcrs[j] : j \in DOMAIN opts.pcrs}

\* ASSERT aborts.  main checks the copies it makes of option values, not the
\* growth of its list of PCRs, which is then written at address zero.
OutOfMemory ==
  /\ MemoryFails
  /\ \/ pc \in {"read", "digest", "event", "legacy"}
     \/ pc = "parse" /\ argv # <<>> /\ argv[1].opt = "pcrs"
     \/ pc = "print aggregate" /\ opts.flag["aggregate"]
  /\ pc' = "crashed"
  /\ UNCHANGED <<input, buf, k, d, replay, text, out, ret>>

-----------------------------------------------------------------------------
(* main, the options *)

Parsing == pc = "parse" /\ argv # <<>>
NextArg == argv[1]

Parsed(o) == opts' = o /\ argv' = Tail(argv) /\ UNCHANGED <<fs, faults, pc, buf, k, d, replay, text, out, ret>>

ParseFlag == Parsing /\ NextArg.opt \in FlagOption /\ Parsed([opts EXCEPT !.flag[NextArg.opt] = TRUE])

ParseFormat ==
  /\ Parsing /\ NextArg.opt = "format" /\ NextArg.val # "xml"
  /\ Parsed([opts EXCEPT !.flag["json"] = (NextArg.val = "json")])

ParsePcrs ==
  /\ Parsing /\ NextArg.opt = "pcrs"
  /\ Parsed([opts EXCEPT !.pcrs = @ \o NextArg.val]) \/ (MemoryFails /\ Fail)

ParseIn ==
  /\ Parsing /\ NextArg.opt = "in"
  /\ Parsed([opts EXCEPT !.path = "in"]) \/ (MemoryFails /\ Fail)

\* Help, an unknown option or an unknown format.
ParseInvalid ==
  /\ Parsing
  /\ NextArg.opt \in {"help", "unknown"} \/ (NextArg.opt = "format" /\ NextArg.val = "xml")
  /\ Fail

ParseEnd ==
  /\ pc = "parse" /\ argv = <<>>
  /\ IF opts.pcrs = <<>>
     THEN Fail
     ELSE Goto("read") /\ UNCHANGED <<input, buf, replay, text, out, ret>>

-----------------------------------------------------------------------------
(* tpm_parse_eventlog, parse_eventlog *)

\* A read error looks like the end of the file: whatever has been read so far
\* is parsed, the beginning of an event included.
ReadLog ==
  /\ pc = "read"
  /\ LET f == fs[opts.path]
     IN  \/ f = Absent /\ Fail
         \/ /\ f # Absent
            /\ \/ buf' = f
               \/ ReadFails /\ \E n \in 0 .. Len(f.events), cut \in BOOLEAN :
                    /\ f.head = "sha1" => n > 0 \/ cut
                    /\ buf' = [f EXCEPT !.events = SubSeq(@, 1, n), !.cut = cut]
               \/ ReadFails /\ buf' = EmptyLog
            /\ Goto("head")
            /\ UNCHANGED <<input, replay, text, out, ret>>

\* specid_event has accepted the event, whose type is thus EV_NO_ACTION: it is
\* neither logged nor extended.
SpecidCallback == UNCHANGED <<input, buf, replay, text, out, ret>>

\* parse_eventlog: a log of either format, or too small for an event.
ReadHead ==
  /\ pc = "head"
  /\ \/ buf.head = "tiny" /\ Fail
     \/ buf.head = "specid" /\ SpecidCallback /\ Goto("event")
     \/ /\ buf.head = "sha1"
        /\ Goto("legacy") /\ UNCHANGED <<input, buf, replay, text, out, ret>>

\* specid_event: a PCR, a digest or one of the sizes is wrong.
BadHead == pc = "head" /\ buf.head = "bad specid" /\ Fail

\* [fault] The last event is not parsed.
ParseEventsDoneEarly ==
  /\ pc \in {"event", "legacy"} /\ k >= Len(buf.events) /\ ~buf.cut
  /\ Goto("open log") /\ UNCHANGED <<input, buf, replay, text, out, ret>>

\* The events are parsed up to the end of the buffer.
ParseEventsDone ==
  /\ pc \in {"event", "legacy"} /\ k > Len(buf.events) /\ ~buf.cut
  /\ Goto("open log") /\ UNCHANGED <<input, buf, replay, text, out, ret>>

\* parse_event2, parse_sha1_log_event: the rest of the buffer is less than an
\* event with the sizes it states.
IncompleteEvent == pc = "event" /\ k > Len(buf.events) /\ buf.cut /\ Fail
IncompleteLegacyEvent == pc = "legacy" /\ k > Len(buf.events) /\ buf.cut /\ Fail

Current == buf.events[k]

\* ADD_EVLOG: text goes to the log of a PCR that was asked for.
Logged(n, ts) == IF n \in Requested THEN [text EXCEPT ![n] = @ \o ts] ELSE text

-----------------------------------------------------------------------------
(* foreach_event2 *)

StartupLocality(e) == e.type = "no action" /\ e.pcr = 0 /\ e.data = "locality"
Hcrtm(e) == e.type = "hcrtm" /\ e.pcr = 0

\* calc_pcrs[0][31] = l, for l # 0: overwrites a locality written before, and
\* the last byte of the hash if the register has been extended.
SetLocality(v, l) ==
  IF v # <<>> /\ Last(v)[1] = "locality" THEN Append(Front(v), <<"locality", l>>)
  ELSE Append(v, <<"locality", l>>)

\* parse_event2 and the test for the size of EV_NO_ACTION_STRUCT.
HeaderFits(e) ==
  /\ e.pcr < MaxTpmPcrs
  /\ ~(~hcrtm /\ e.type = "no action" /\ e.pcr = 0 /\ e.digests = <<>> /\ e.data = "empty")

\* [fault] Every PCR starts at zero.
InitTokenZero(n, l) == Token("init", n, 0, TRUE)

\* The value TPM_PCR_INIT_VALUE of an event's PCR, and its header.
InitToken(n, l) == Token("init", n, l, TRUE)
HeaderTokens(e) == IF e.type = "no action" THEN <<>> ELSE <<Token("open", e.pcr, 0, TRUE)>>

NoActionPending(e) == pending \/ e.type = "no action"

\* parse_event2, the startup locality of PCR 0, event_initval_cb for the first
\* event of a PCR, event2_header_cb.
ParseHeader ==
  /\ pc = "event" /\ k <= Len(buf.events)
  /\ LET e == Current
         first == e.pcr \notin seen
         found == IF Hcrtm(e) THEN 4 ELSE IF ~hcrtm /\ StartupLocality(e) THEN 3 ELSE 0
         now == IF first /\ e.pcr # 0 THEN 0 ELSE IF found # 0 THEN found ELSE locality
     IN  IF ~HeaderFits(e)
         THEN Fail
         ELSE /\ hcrtm' = (hcrtm \/ Hcrtm(e))
              /\ calc' = IF found # 0 THEN [calc EXCEPT ![0] = SetLocality(@, found)] ELSE calc
              /\ seen' = seen \cup {e.pcr}
              /\ locality' = now
              /\ text' = Logged(e.pcr, (IF first THEN <<InitToken(e.pcr, now)>> ELSE <<>>)
                                         \o HeaderTokens(e))
              /\ pending' = NoActionPending(e)
              /\ pc' = "digest" /\ d' = 1
              /\ UNCHANGED <<input, buf, k, out, ret>>

\* get_algo_str complains on stdout.
Noise(bank) == IF bank = "sm3" THEN <<Token("noise", 0, 0, FALSE)>> ELSE <<>>

\* event_digest_cb; of an EV_NO_ACTION event it skips the first digest.
ParseDigest ==
  /\ pc = "digest" /\ d <= Len(Current.digests)
  /\ LET n == Current.pcr
         digest == Current.digests[d]
     IN  IF pending
         THEN /\ pending' = FALSE /\ d' = d + 1
              /\ UNCHANGED <<input, pc, buf, k, seen, hcrtm, locality, calc, text, out, ret>>
         ELSE IF n >= MaxPcrs
         THEN Fail
         ELSE /\ text' = Logged(n, <<Token("digest", n, digest, TRUE)>>)
              /\ out' = out \o Noise(digest[1])
              /\ calc' = IF digest[1] = "sha256"
                         THEN [calc EXCEPT ![n] = Append(@, <<"extend", digest>>)] ELSE calc
              /\ d' = d + 1
              /\ UNCHANGED <<input, pc, buf, k, seen, hcrtm, locality, pending, ret>>

\* parse_event2body, for the types it knows, and event_gpt.
VariableFits(e) == e.type = "variable" => e.data \notin {"empty", "short"}
StructureFits(e) == e.type \in {"blob", "image"} => e.data \notin {"empty", "short"}
GptFits(e) == e.type = "gpt" => e.data # "short"

BodyFits(e) == VariableFits(e) /\ StructureFits(e) /\ GptFits(e)

\* ADD_EVLOG_DESCRIPTION: the description and the end of the object, through
\* a line buffer in which a long description loses the end.
Description(e, fits) == <<Token(IF fits THEN "close" ELSE "cut", e.pcr, 0, TRUE)>>

\* A text of the log goes into the string of the description as it is, and
\* may end or spoil it.
Verbatim(e) == <<Token(IF e.data = "quoted" THEN "broken" ELSE "close", e.pcr, 0, TRUE)>>

\* A variable's name, the place of a blob and the header of a partition table
\* are of bounded length.  A device path, in hexadecimal, is not, and neither is
\* the text of an action or POST code.  event_ipl writes piece by piece, with
\* spaces for tabs and without the ends of lines.
VariableText(e) == Description(e, TRUE)
BlobText(e) == Description(e, TRUE)
GptText(e) == Verbatim(e)
ImageText(e) == Description(e, e.data # "long")
ActionText(e) == IF e.data = "long" THEN Description(e, FALSE) ELSE Verbatim(e)
IplText(e) == Verbatim(e)

\* event_data_cb; an event without data gets no end of its object.
DescriptionTokens(e) ==
  CASE e.type = "no action" \/ e.data = "empty" -> <<>>
    [] e.data # "empty" /\ e.type = "variable" -> VariableText(e)
    [] e.data # "empty" /\ e.type = "blob" -> BlobText(e)
    [] e.data # "empty" /\ e.type = "gpt" -> GptText(e)
    [] e.data # "empty" /\ e.type = "image" -> ImageText(e)
    [] e.data # "empty" /\ e.type = "action" -> ActionText(e)
    [] e.data # "empty" /\ e.type = "ipl" -> IplText(e)
    [] e.data # "empty" /\ e.type \in {"hcrtm", "other"} -> Description(e, TRUE)

\* [fault] The final zero of the data does not count.
SpacedBeyond(es, e) ==
  IF e.type = "ipl" /\ e.data # "empty" /\ k < Len(es) /\ es[k + 1].pcr = Tab
  THEN [es EXCEPT ![k + 1].pcr = Space]
  ELSE es

\* event_ipl replaces tabs up to the next zero.  Without one in the data it
\* enters the next event, whose first byte is the index of its PCR.
Spaced(es, e) ==
  IF e.type = "ipl" /\ e.data = "unterminated" /\ k < Len(es) /\ es[k + 1].pcr = Tab
  THEN [es EXCEPT ![k + 1].pcr = Space]
  ELSE es

ParseBody ==
  /\ pc = "digest" /\ d > Len(Current.digests)
  /\ LET e == Current
     IN  IF ~BodyFits(e)
         THEN Fail
         ELSE /\ text' = Logged(e.pcr, DescriptionTokens(e))
              /\ buf' = [buf EXCEPT !.events = Spaced(@, e)]
              /\ pc' = "event" /\ k' = k + 1 /\ d' = 1
              /\ UNCHANGED <<input, replay, out, ret>>

-----------------------------------------------------------------------------
(* foreach_sha1_log_event *)

\* event_header_cb writes a whole object, event_data_cb a description behind
\* it.  Nothing is extended.
EntryTokens(e) ==
  IF e.type = "no action" THEN <<>> ELSE <<Token("entry", e.pcr, e.digests[1], TRUE)>>

ParseLegacyEvent ==
  /\ pc = "legacy" /\ k <= Len(buf.events)
  /\ LET e == Current
     IN  IF ~BodyFits(e)
         THEN Fail
         ELSE /\ text' = Logged(e.pcr, EntryTokens(e) \o DescriptionTokens(e))
              /\ buf' = [buf EXCEPT !.events = Spaced(@, e)]
              /\ k' = k + 1
              /\ UNCHANGED <<input, pc, d, replay, out, ret>>

-----------------------------------------------------------------------------
(* main, the output *)

Json == opts.flag["json"]

Punctuation(t) == IF Json THEN <<Token(t, 0, 0, FALSE)>> ELSE <<>>

Emit(ts, label) ==
  out' = out \o ts /\ Goto(label) /\ UNCHANGED <<input, buf, replay, text, ret>>

OpenLog ==
  /\ pc = "open log"
  /\ IF opts.flag["eventlog"] THEN Emit(Punctuation("["), "print log") ELSE Emit(<<>>, "open summary")

Printed(j) == opts.pcrs[j]

\* The log of the last PCR that has one loses its two last characters, in both
\* formats.
Clipped(ts) == [ts EXCEPT ![Len(ts)].comma = FALSE]

\* [fault] The last PCR of the list, whether it has a log or not.
LastLogOfList(j) == j = Len(opts.pcrs)

LastLog(j) == \A l \in j + 1 .. Len(opts.pcrs) : text[Printed(l)] = <<>>

\* [fault] The next PCR is not taken when there is nothing to print.
PrintLogAgain ==
  /\ pc = "print log" /\ k <= Len(opts.pcrs)
  /\ text[Printed(k)] # <<>>
  /\ out' = out \o text[Printed(k)] /\ k' = k + 1
  /\ UNCHANGED <<input, pc, buf, d, replay, text, ret>>

PrintLog ==
  /\ pc = "print log" /\ k <= Len(opts.pcrs)
  /\ LET n == Printed(k)
         ts == IF LastLog(k) THEN Clipped(text[n]) ELSE text[n]
     IN  IF text[n] = <<>>
         THEN UNCHANGED <<text, out>>
         ELSE text' = [text EXCEPT ![n] = ts] /\ out' = out \o ts
  /\ k' = k + 1
  /\ UNCHANGED <<input, pc, buf, d, replay, ret>>

LogDone == pc = "print log" /\ k > Len(opts.pcrs) /\ Emit(Punctuation("]"), "open summary")

OpenSummary ==
  /\ pc = "open summary"
  /\ IF opts.flag["summary"]
     THEN Emit(Punctuation("["), "print summary")
     ELSE Emit(<<>>, "print aggregate")

PrintRegister ==
  /\ pc = "print summary" /\ k <= Len(opts.pcrs)
  /\ out' = out \o <<Token("pcr", Printed(k), calc[Printed(k)], FALSE)>>
                \o IF k < Len(opts.pcrs) THEN Punctuation(",") ELSE <<>>
  /\ k' = k + 1
  /\ UNCHANGED <<input, pc, buf, d, replay, text, ret>>

SummaryDone ==
  pc = "print summary" /\ k > Len(opts.pcrs) /\ Emit(Punctuation("]"), "print aggregate")

PrintAggregate ==
  /\ pc = "print aggregate"
  /\ out' = IF opts.flag["aggregate"]
            THEN Append(out, Token("aggregate", 0, [j \in DOMAIN opts.pcrs |-> calc[Printed(j)]], FALSE))
            ELSE out
  /\ pc' = "exited" /\ ret' = 0
  /\ UNCHANGED <<input, buf, k, d, replay, text>>

-----------------------------------------------------------------------------

Parse == ParseFlag \/ ParseFormat \/ ParsePcrs \/ ParseIn \/ ParseInvalid \/ ParseEnd

ParseLog ==
  \/ ReadLog \/ ReadHead \/ BadHead \/ ParseHeader \/ ParseDigest \/ ParseBody
  \/ ParseLegacyEvent \/ IncompleteEvent \/ IncompleteLegacyEvent \/ ParseEventsDone

Output == OpenLog \/ PrintLog \/ LogDone \/ OpenSummary \/ PrintRegister \/ SummaryDone \/ PrintAggregate

\* The program has ended.
Terminated == pc \in {"exited", "crashed"} /\ UNCHANGED vars

Next == Parse \/ ParseLog \/ Output \/ OutOfMemory \/ Terminated

Spec == Init /\ [][Next]_vars

\* A single thread that the kernel keeps scheduling, on a file whose reads
\* return.
FairSpec == Spec /\ WF_vars(Next)
=============================================================================
