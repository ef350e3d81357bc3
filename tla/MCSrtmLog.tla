------------------------------ MODULE MCSrtmLog ------------------------------
(***************************************************************************)
(* Logs of up to three events and the command lines that print them.       *)
(***************************************************************************)
EXTENDS SrtmLogReference

MCValue == 0 .. 3

Ev(n, type, digests, data) == [pcr |-> n, type |-> type, digests |-> digests, data |-> data]

\* The digests of a value in a log with one bank and in one with two.
One(v) == <<<<"sha256", v>>>>
Two(v) == <<<<"sha1", v>>, <<"sha256", v>>>>

\* Events that are not extended, and those that set the startup locality.
QuietEvents(zeroes) ==
  {Ev(0, "no action", zeroes, "good"), Ev(0, "no action", zeroes, "locality"),
   Ev(4, "no action", zeroes, "empty")}

\* Events of PCRs 0, 4 and 9, one of each kind of description.
PlainEvents(digests) ==
  {Ev(0, "hcrtm", digests, "good"), Ev(0, "blob", digests, "good"), Ev(4, "image", digests, "good"),
   Ev(4, "action", digests, "good"), Ev(9, "ipl", digests, "good"), Ev(0, "variable", digests, "good")}

\* Data that is missing, too short, too long, without its final zero or with
\* characters JSON escapes, and PCRs no register exists for.
OddEvents(digests) ==
  {Ev(4, "other", digests, "empty"), Ev(4, "gpt", digests, "short"), Ev(0, "blob", digests, "short"),
   Ev(4, "image", digests, "long"), Ev(9, "ipl", digests, "unterminated"),
   Ev(9, "ipl", digests, "quoted"), Ev(4, "action", digests, "quoted"), Ev(4, "gpt", digests, "good"),
   Ev(24, "other", digests, "good"), Ev(24, "other", <<>>, "good"), Ev(32, "other", digests, "good"),
   Ev(0, "no action", <<>>, "empty"), Ev(4, "no action", <<>>, "good"),
   Ev(4, "other", <<<<"sm3", 1>>>>, "good")}

MkLog(head, es, cut) == [head |-> head, events |-> es, cut |-> cut]

Pool == QuietEvents(One(0)) \cup QuietEvents(Two(0)) \cup OddEvents(One(1))

\* The event at position j has digests of j.
First == Pool \cup PlainEvents(One(1)) \cup PlainEvents(Two(1))
Second == Pool \cup PlainEvents(Two(2))
Third == QuietEvents(Two(0)) \cup PlainEvents(One(3))

AgileLogs ==
  {MkLog("specid", s, FALSE) : s \in {<<>>} \cup {<<a>> : a \in First}
     \cup {<<a, b>> : a \in First, b \in Second} }
    \cup {MkLog("specid", <<a>>, TRUE) : a \in First}

ThreeEvents ==
  {MkLog("specid", <<a, b, c>>, FALSE) : a \in First, b \in Second, c \in Third}

\* Logs of the SHA-1 format.
LegacyEvents ==
  {Ev(n, type, <<<<"sha1", 1>>>>, data) : n \in {0, 9}, type \in {"other", "ipl", "blob"},
                                         data \in {"empty", "good", "unterminated"}}

LegacyLogs ==
  {MkLog("sha1", <<a, b>>, cut) :
     a \in LegacyEvents, b \in LegacyEvents \cup {Ev(0, "no action", <<<<"sha1", 0>>>>, "good")}, cut \in BOOLEAN}

BadLogs == {MkLog("tiny", <<>>, FALSE), MkLog("bad specid", <<>>, FALSE)}

At(p, l) == [x \in Path |-> IF x = p THEN l ELSE Absent]

OneLog(logs) == {At("bios measurements", l) : l \in logs}

ShortSystems == OneLog(AgileLogs \cup LegacyLogs \cup BadLogs)

-----------------------------------------------------------------------------

Arg(o, v) == <<[opt |-> o, val |-> v]>>
Flag(o) == Arg(o, "")

Outputs == Flag("eventlog") \o Flag("summary") \o Flag("aggregate")

AllOf(pcrs) == {Arg("pcrs", pcrs) \o Arg("format", "json") \o Outputs}

Runs(lines, systems, faulty) == [argv : lines, fs : systems, faults : {faulty}]

\* Both paths, and every option in every state of the parser.
SomeLogs ==
  {MkLog("specid", <<a, b>>, FALSE) :
     a \in {Ev(0, "hcrtm", Two(1), "good"), Ev(4, "other", <<<<"sm3", 1>>>>, "good")},
     b \in {Ev(4, "action", One(2), "long"), Ev(9, "ipl", Two(2), "good")}}
    \cup {MkLog("sha1", <<Ev(9, "ipl", <<<<"sha1", 1>>>>, "good")>>, FALSE)}

OptionSystems ==
  {[x \in Path |-> IF x = "in" THEN a ELSE b] : a \in SomeLogs \cup {Absent}, b \in {Absent, MkLog("tiny", <<>>, FALSE)}}
    \cup OneLog(SomeLogs)

\* An option at a time behind the list of PCRs, or in front of it.
Options1 ==
  {<<>>, Flag("in"), Arg("format", "json"), Arg("format", "text"), Arg("format", "xml"),
   Flag("eventlog"), Flag("summary"), Flag("aggregate"), Flag("verbose"), Flag("help"), Flag("unknown"), Outputs}

OptionLines ==
  {a \o p \o b \o c : a \in {<<>>, Flag("in")}, p \in {<<>>, Arg("pcrs", <<4>>), Arg("pcrs", <<9, 4>>)},
                      b \in Options1, c \in Options1}

\* Every log without a fault, and the options with both.
MCScenarios ==
  Runs(AllOf(<<0, 4, 9>>), ShortSystems \cup OneLog(ThreeEvents), {})
    \cup Runs(AllOf(<<4, 0, 4>>), ShortSystems, {})
    \cup Runs(OptionLines, OptionSystems, Fault)
=============================================================================
