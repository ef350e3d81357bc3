--------------------------- MODULE SrtmLog_proofs ---------------------------
(***************************************************************************)
(* Proofs about parse-srtm-pcrs, for every log, command line, set of       *)
(* faults and number of registers: the registers it prints are those of    *)
(* the TPM that wrote the log, its event log replays to them, what it      *)
(* prints is well formed, it refuses no log but a malformed one, and its   *)
(* replay is a behaviour of MeasuredBoot.                                  *)
(***************************************************************************)
EXTENDS SrtmLogReference, SequenceLemmas, TLAPS

-----------------------------------------------------------------------------
(* Types *)

TokenType == {"noise", "[", "]", ",", "pcr", "aggregate", "init", "entry", "digest", "open", "close", "cut", "broken"}
AnyValue == {0, 3, 4} \cup Digest \cup Seq(Change) \cup Seq(Seq(Change))

\* What the program prints.
Tokens == [t : TokenType, pcr : Nat, value : AnyValue, comma : BOOLEAN]

TypeInv == TypeOK /\ out \in Seq(Tokens)

LEMMA PcrIs ==
  /\ Pcr \subseteq Nat /\ 0 \in Pcr /\ Tab \in Pcr /\ Space \notin Pcr /\ Space \in Nat
  /\ \A n \in Nat : n < MaxPcrs => n \in Pcr
  /\ Pcr \subseteq 0 .. MaxTpmPcrs - 1 /\ Space >= MaxTpmPcrs
  BY SizesAssumption DEF Pcr, Tab, Space

LEMMA TokenIs ==
  ASSUME NEW t \in TokenType, NEW n \in Nat, NEW v \in AnyValue, NEW c \in BOOLEAN
  PROVE  Token(t, n, v, c) \in Tokens BY DEF Token, Tokens

LEMMA TextIsOutput == TextToken \subseteq Tokens
  BY DEF TextToken, Tokens, TokenType, AnyValue

LEMMA ScenarioIs ==
  ASSUME NEW s \in Scenarios
  PROVE  s.argv \in Seq(Argument) /\ s.fs \in [Path -> Log \cup {Absent}] /\ s.faults \subseteq Fault
  BY InputAssumption DEF Scenario

LEMMA EmptyIsLog == EmptyLog \in Log
  <1>1. <<>> \in Seq(Event) OBVIOUS
  <1> QED BY <1>1 DEF EmptyLog, Log

LEMMA LogIs ==
  ASSUME NEW l \in Log
  PROVE  /\ l.head \in {"specid", "bad specid", "sha1", "tiny"} /\ l.cut \in BOOLEAN
         /\ l.events \in Seq(Event) /\ Len(l.events) \in Nat
         /\ \A j \in 1 .. Len(l.events) : l.events[j] \in Event
  <1>1. l.head \in {"specid", "bad specid", "sha1", "tiny"} /\ l.cut \in BOOLEAN /\ l.events \in Seq(Event)
    BY DEF Log
  <1>2. \A s \in Seq(Event) : Len(s) \in Nat /\ \A j \in 1 .. Len(s) : s[j] \in Event
    OBVIOUS
  <1> QED BY <1>1, <1>2, Zenon

LEMMA EventIs ==
  ASSUME NEW e \in Event
  PROVE  /\ e.pcr \in Nat /\ e.type \in Type /\ e.digests \in Seq(Digest) /\ e.data \in Data
         /\ Len(e.digests) \in Nat /\ \A j \in 1 .. Len(e.digests) : e.digests[j] \in Digest
  <1>1. e.pcr \in Nat /\ e.type \in Type /\ e.digests \in Seq(Digest) /\ e.data \in Data
    BY DEF Event
  <1>2. \A s \in Seq(Digest) : Len(s) \in Nat /\ \A j \in 1 .. Len(s) : s[j] \in Digest
    OBVIOUS
  <1> QED BY <1>1, <1>2, Zenon

LEMMA TypeInit == Init => TypeInv
  <1> SUFFICES ASSUME Init PROVE TypeInv OBVIOUS
  <1>1. argv \in Seq(Argument) /\ fs \in [Path -> Log \cup {Absent}] /\ faults \subseteq Fault
    BY ScenarioIs DEF Init
  <1>0. \A T : <<>> \in Seq(T) OBVIOUS
  <1>2. opts \in Options
    <2>1. <<>> \in Seq(Pcr) BY <1>0
    <2>2. [o \in FlagOption \cup {"json"} |-> FALSE] \in [FlagOption \cup {"json"} -> BOOLEAN]
      OBVIOUS
    <2> DEFINE F == [FlagOption \cup {"json"} -> BOOLEAN]
               f == [o \in FlagOption \cup {"json"} |-> FALSE]
    <2> HIDE DEF F, f
    <2>3. f \in F BY <2>2 DEF f, F
    <2>4. [flag |-> f, pcrs |-> <<>>, path |-> "bios measurements"] \in [flag : F, pcrs : Seq(Pcr), path : Path]
      BY <2>1, <2>3 DEF Path
    <2> QED BY <2>4 DEF Init, Options, f, F
  <1>3. buf \in Log BY EmptyIsLog DEF Init
  <1>4. calc \in [Pcr -> Seq(Change)] /\ text \in [Pcr -> Seq(TextToken)] /\ out \in Seq(Tokens)
    <2>1. <<>> \in Seq(Change) /\ <<>> \in Seq(TextToken) /\ <<>> \in Seq(Tokens) BY <1>0
    <2> QED BY <2>1, Zenon DEF Init
  <1>5. pc \in Label /\ k \in Nat \ {0} /\ d \in Nat \ {0} /\ seen \subseteq 0 .. MaxTpmPcrs - 1
    <2>1. pc = "parse" /\ k = 1 /\ d = 1 /\ seen = {} BY Zenon DEF Init
    <2> QED BY <2>1 DEF Label
  <1>6. hcrtm \in BOOLEAN /\ pending \in BOOLEAN BY Zenon DEF Init
  <1>7. locality \in {0, 3, 4} /\ ret \in {-1, 0, 1} BY DEF Init
  <1> QED BY <1>1, <1>2, <1>3, <1>4, <1>5, <1>6, <1>7, Zenon DEF TypeInv, TypeOK

\* The steps that change nothing but the place in the program and the status.
LEMMA TypeMoves ==
  ASSUME TypeInv, UNCHANGED <<input, buf, replay, text, out>>, pc' \in Label, ret' \in {-1, 0, 1},
         k' \in Nat \ {0}, d' \in Nat \ {0}
  PROVE  TypeInv' BY DEF TypeInv, TypeOK, input, replay

LEMMA TypeFail == ASSUME TypeInv, Fail PROVE TypeInv'
  BY TypeMoves DEF Fail, Label, TypeInv, TypeOK

LEMMA TypeGoto ==
  ASSUME TypeInv, NEW l \in Label, Goto(l), UNCHANGED <<input, buf, replay, text, out, ret>>
  PROVE  TypeInv' BY TypeMoves DEF Goto, TypeInv, TypeOK

LEMMA TypeParse == ASSUME TypeInv, Parse PROVE TypeInv'
  <1>1. ASSUME NEW o \in Options, Parsing, Parsed(o) PROVE TypeInv'
    <2>1. argv' \in Seq(Argument) BY <1>1 DEF Parsing, Parsed, TypeInv, TypeOK
    <2> QED BY <1>1, <2>1 DEF Parsed, TypeInv, TypeOK, replay
  <1>2. CASE ParseFlag
    <2>1. [opts EXCEPT !.flag[NextArg.opt] = TRUE] \in Options
      BY <1>2 DEF ParseFlag, TypeInv, TypeOK, Options
    <2> QED BY <1>1, <1>2, <2>1 DEF ParseFlag
  <1>3. CASE ParseFormat
    <2>1. [opts EXCEPT !.flag["json"] = (NextArg.val = "json")] \in Options
      <3> DEFINE b == (NextArg.val = "json")
      <3>1. b \in BOOLEAN OBVIOUS
      <3> HIDE DEF b
      <3>2. [opts EXCEPT !.flag["json"] = b] \in Options
        BY <3>1 DEF TypeInv, TypeOK, Options
      <3> QED BY <3>2 DEF b
    <2> QED BY <1>1, <1>3, <2>1 DEF ParseFormat
  <1>4. CASE ParsePcrs
    <2>1. CASE Parsed([opts EXCEPT !.pcrs = @ \o NextArg.val])
      <3>1. NextArg \in Argument /\ NextArg.opt = "pcrs"
        BY <1>4 DEF ParsePcrs, Parsing, NextArg, TypeInv, TypeOK
      <3>2. NextArg.val \in Seq(Pcr) BY <3>1 DEF Argument, FlagOption
      <3> DEFINE u == opts.pcrs \o NextArg.val
      <3>4. opts.pcrs \in Seq(Pcr) BY DEF TypeInv, TypeOK, Options
      <3>5. u \in Seq(Pcr) BY <3>2, <3>4
      <3> HIDE DEF u
      <3>6. [opts EXCEPT !.pcrs = u] \in Options BY <3>5 DEF TypeInv, TypeOK, Options
      <3>3. [opts EXCEPT !.pcrs = @ \o NextArg.val] \in Options BY <3>6 DEF u
      <3> QED BY <1>1, <1>4, <2>1, <3>3 DEF ParsePcrs
    <2> QED BY <1>4, <2>1, TypeFail DEF ParsePcrs
  <1>5. CASE ParseIn
    <2>1. [opts EXCEPT !.path = "in"] \in Options BY DEF TypeInv, TypeOK, Options, Path
    <2> QED BY <1>1, <1>5, <2>1, TypeFail DEF ParseIn
  <1>6. CASE ParseInvalid BY <1>6, TypeFail DEF ParseInvalid
  <1>7. CASE ParseEnd BY <1>7, TypeFail, TypeGoto DEF ParseEnd, Label
  <1> QED BY <1>2, <1>3, <1>4, <1>5, <1>6, <1>7 DEF Parse

LEMMA TypeRead == ASSUME TypeInv, ReadLog PROVE TypeInv'
  <1> DEFINE f == fs[opts.path]
  <1>1. CASE f = Absent /\ Fail BY <1>1, TypeFail
  <1>2. CASE f # Absent /\ Goto("head") /\ UNCHANGED <<input, replay, text, out, ret>>
    <2>1. f \in Log BY <1>2 DEF TypeInv, TypeOK, Options
    <2>2. buf' \in Log
      <3>1. EmptyLog \in Log BY EmptyIsLog
      <3>2. \A n \in 0 .. Len(f.events), cut \in BOOLEAN :
              [f EXCEPT !.events = SubSeq(@, 1, n), !.cut = cut] \in Log
        <4> SUFFICES ASSUME NEW n \in 0 .. Len(f.events), NEW cut \in BOOLEAN
                     PROVE  [f EXCEPT !.events = SubSeq(@, 1, n), !.cut = cut] \in Log
          OBVIOUS
        <4> HIDE DEF f
        <4>1. f.events \in Seq(Event) BY <2>1, LogIs, Zenon
        <4>2. SubSeq(f.events, 1, n) \in Seq(Event) BY <4>1
        <4> DEFINE u == SubSeq(f.events, 1, n)
        <4> HIDE DEF u
        <4>3. u \in Seq(Event) BY <4>2 DEF u
        <4>4. [f EXCEPT !.events = u, !.cut = cut] \in Log BY <2>1, <4>3 DEF Log
        <4> QED BY <4>4 DEF u
      <3> QED BY <1>1, <1>2, <2>1, <3>1, <3>2, Zenon DEF ReadLog, Fail
    <2> HIDE DEF f
    <2>3. pc' \in Label /\ k' \in Nat \ {0} /\ d' \in Nat \ {0} BY <1>2 DEF Goto, Label
    <2> QED BY <1>2, <2>2, <2>3, Zenon DEF TypeInv, TypeOK, input, replay
  <1> QED BY <1>1, <1>2 DEF ReadLog

LEMMA TypeLogged ==
  ASSUME TypeInv, NEW n, NEW ts \in Seq(TextToken)
  PROVE  Logged(n, ts) \in [Pcr -> Seq(TextToken)]
  <1> DEFINE T == Seq(TextToken)
  <1>1. \A a \in Seq(TextToken) : a \o ts \in Seq(TextToken) OBVIOUS
  <1>2. \A a \in T : a \o ts \in T BY <1>1
  <1>3. text \in [Pcr -> T] BY DEF TypeInv, TypeOK
  <1> HIDE DEF T
  <1>4. Logged(n, ts) \in [Pcr -> T] BY <1>2, <1>3 DEF Logged
  <1> QED BY <1>4 DEF T

LEMMA HeaderTokensType ==
  ASSUME NEW e \in Event, NEW l \in {0, 3, 4}, NEW first \in BOOLEAN
  PROVE  /\ (IF first THEN <<InitToken(e.pcr, l)>> ELSE <<>>) \o HeaderTokens(e) \in Seq(TextToken)
         /\ HeaderTokens(e) \in Seq(TextToken) /\ InitToken(e.pcr, l) \in TextToken
  <1>1. e.pcr \in Nat BY EventIs
  <1>2. InitToken(e.pcr, l) \in TextToken /\ Token("open", e.pcr, 0, TRUE) \in TextToken
    BY <1>1 DEF InitToken, Token, TextToken
  <1> DEFINE T == TextToken
             x == InitToken(e.pcr, l)
             y == Token("open", e.pcr, 0, TRUE)
  <1> HIDE DEF T, x, y
  <1>3. x \in T /\ y \in T BY <1>2 DEF T, x, y
  <1>4. <<x>> \in Seq(T) /\ <<y>> \in Seq(T) /\ <<>> \in Seq(T) BY <1>3
  <1>5. HeaderTokens(e) \in Seq(T) BY <1>4 DEF HeaderTokens, y
  <1>6. (IF first THEN <<x>> ELSE <<>>) \in Seq(T) BY <1>4
  <1>7. (IF first THEN <<x>> ELSE <<>>) \o HeaderTokens(e) \in Seq(T) BY <1>5, <1>6
  <1> QED BY <1>3, <1>5, <1>7 DEF T, x

LEMMA DescriptionType ==
  ASSUME NEW e \in Event
  PROVE  /\ DescriptionTokens(e) \in Seq(TextToken)
         /\ \/ DescriptionTokens(e) = <<>>
            \/ \E t \in {"close", "cut", "broken"} : DescriptionTokens(e) = <<Token(t, e.pcr, 0, TRUE)>>
  <1>1. e.pcr \in Nat /\ e.type \in Type /\ e.data \in Data BY EventIs
  <1>2. \/ DescriptionTokens(e) = <<>>
        \/ \E t \in {"close", "cut", "broken"} : DescriptionTokens(e) = <<Token(t, e.pcr, 0, TRUE)>>
    BY <1>1 DEF DescriptionTokens, Description, Verbatim, VariableText, BlobText, GptText, ImageText, ActionText, IplText,
                Type
  <1>3. \A t \in {"close", "cut", "broken"} : Token(t, e.pcr, 0, TRUE) \in TextToken
    BY <1>1 DEF Token, TextToken
  <1>4. \A t \in {"close", "cut", "broken"} : <<Token(t, e.pcr, 0, TRUE)>> \in Seq(TextToken)
    <2> DEFINE T == TextToken
    <2> HIDE DEF T
    <2>1. \A x \in T : <<x>> \in Seq(T) OBVIOUS
    <2> QED BY <1>3, <2>1, Zenon DEF T
  <1>5. <<>> \in Seq(TextToken) OBVIOUS
  <1>6. DescriptionTokens(e) \in Seq(TextToken) BY <1>2, <1>4, <1>5, Zenon
  <1> QED BY <1>2, <1>6

LEMMA TypeSpaced ==
  ASSUME NEW es \in Seq(Event), NEW e, k \in Nat \ {0}
  PROVE  Spaced(es, e) \in Seq(Event) /\ Len(Spaced(es, e)) = Len(es)
  <1>1. CASE Spaced(es, e) = es BY <1>1
  <1>2. CASE k < Len(es) /\ Spaced(es, e) = [es EXCEPT ![k + 1].pcr = Space]
    <2>1. k + 1 \in 1 .. Len(es) /\ es[k + 1] \in Event BY <1>2
    <2>2. [es[k + 1] EXCEPT !.pcr = Space] \in Event BY <2>1, PcrIs DEF Event
    <2> QED BY <1>2, <2>1, <2>2
  <1> QED BY <1>1, <1>2 DEF Spaced

LEMMA LoggedIs ==
  ASSUME NEW n, NEW ts, NEW m
  PROVE  /\ n \notin Requested => Logged(n, ts) = text
         /\ n \in Requested => Logged(n, ts) = [text EXCEPT ![n] = @ \o ts] BY DEF Logged

LEMMA CurrentIs ==
  ASSUME TypeInv, k <= Len(buf.events)
  PROVE  Current \in Event /\ k \in 1 .. Len(buf.events) /\ buf.events \in Seq(Event)
  <1>1. buf \in Log /\ k \in Nat \ {0} BY DEF TypeInv, TypeOK
  <1> DEFINE es == buf.events
  <1>2. es \in Seq(Event) BY <1>1, LogIs
  <1> HIDE DEF es
  <1>3. k <= Len(es) BY DEF es
  <1>4. k \in 1 .. Len(es) /\ es[k] \in Event BY <1>1, <1>2, <1>3
  <1> QED BY <1>2, <1>4 DEF Current, es

LEMMA SetLocalityType ==
  ASSUME NEW v \in Seq(Change), NEW l \in {3, 4}
  PROVE  SetLocality(v, l) \in Seq(Change)
  <1> DEFINE x == <<"locality", l>>
             T == Change
  <1>1. x \in T BY DEF Change
  <1> HIDE DEF x, T
  <1>2. v \in Seq(T) BY DEF T
  <1>3. Append(v, x) \in Seq(T) BY <1>1, <1>2
  <1>4. v # <<>> => Append(Front(v), x) \in Seq(T)
    <2>1. v # <<>> => SubSeq(v, 1, Len(v) - 1) \in Seq(T) BY <1>2
    <2> QED BY <1>1, <2>1 DEF Front
  <1> QED BY <1>3, <1>4 DEF SetLocality, x, T

LEMMA TypeBody ==
  ASSUME TypeInv, k <= Len(buf.events), NEW ts \in Seq(TextToken),
         text' = Logged(Current.pcr, ts), buf' = [buf EXCEPT !.events = Spaced(@, Current)],
         pc' \in Label, k' \in Nat \ {0}, d' \in Nat \ {0}, UNCHANGED <<input, replay, out, ret>>
  PROVE  TypeInv'
  <1>1. text' \in [Pcr -> Seq(TextToken)] BY TypeLogged
  <1>2. buf' \in Log
    <2>1. buf \in Log /\ buf.events \in Seq(Event) /\ k \in Nat \ {0}
      BY LogIs DEF TypeInv, TypeOK
    <2> DEFINE u == Spaced(buf.events, Current)
    <2>2. u \in Seq(Event) BY <2>1, TypeSpaced, Zenon
    <2> HIDE DEF u
    <2>3. [buf EXCEPT !.events = u] \in Log BY <2>1, <2>2 DEF Log
    <2> QED BY <2>3 DEF u
  <1> QED BY <1>1, <1>2, Zenon DEF TypeInv, TypeOK, input, replay

LEMMA TypeHeader == ASSUME TypeInv, ParseHeader PROVE TypeInv'
  <1> DEFINE e == Current
             first == e.pcr \notin seen
             found == IF Hcrtm(e) THEN 4 ELSE IF ~hcrtm /\ StartupLocality(e) THEN 3 ELSE 0
             now == IF first /\ e.pcr # 0 THEN 0 ELSE IF found # 0 THEN found ELSE locality
  <1>1. CASE ~HeaderFits(e) BY <1>1, TypeFail DEF ParseHeader
  <1>2. CASE HeaderFits(e)
    <2>1. /\ hcrtm' = (hcrtm \/ Hcrtm(e))
          /\ calc' = IF found # 0 THEN [calc EXCEPT ![0] = SetLocality(@, found)] ELSE calc
          /\ seen' = seen \cup {e.pcr}
          /\ locality' = now
          /\ text' = Logged(e.pcr, (IF first THEN <<InitToken(e.pcr, now)>> ELSE <<>>) \o HeaderTokens(e))
          /\ pending' = NoActionPending(e)
          /\ pc' = "digest" /\ d' = 1
          /\ UNCHANGED <<input, buf, k, out, ret>> BY <1>2 DEF ParseHeader
    <2>2. k <= Len(buf.events) BY DEF ParseHeader
    <2>3. e \in Event BY <2>2, CurrentIs
    <2> HIDE DEF e
    <2>4. found \in {0, 3, 4} /\ now \in {0, 3, 4} /\ first \in BOOLEAN
      BY DEF TypeInv, TypeOK
    <2> HIDE DEF found, now, first
    <2>5. text' \in [Pcr -> Seq(TextToken)]
      BY <2>1, <2>3, <2>4, HeaderTokensType, TypeLogged, Zenon
    <2>6. calc' \in [Pcr -> Seq(Change)]
      <3> DEFINE T == Seq(Change)
      <3>1. \A v \in T, l \in {3, 4} : SetLocality(v, l) \in T BY SetLocalityType
      <3>2. calc \in [Pcr -> T] BY DEF TypeInv, TypeOK
      <3> HIDE DEF T
      <3>3. calc' \in [Pcr -> T] BY <2>1, <2>4, <3>1, <3>2, PcrIs
      <3> QED BY <3>3 DEF T
    <2>7. e.pcr \in 0 .. MaxTpmPcrs - 1
      <3>1. e.pcr \in Nat /\ e.pcr < MaxTpmPcrs BY <1>2, <2>3, EventIs DEF HeaderFits
      <3> QED BY <3>1, SizesAssumption
    <2>8. seen' \subseteq 0 .. MaxTpmPcrs - 1 BY <2>1, <2>7 DEF TypeInv, TypeOK
    <2>9. hcrtm' \in BOOLEAN /\ pending' \in BOOLEAN
      BY <2>1, Zenon DEF TypeInv, TypeOK, NoActionPending, Hcrtm
    <2>10. pc' \in Label /\ d' \in Nat \ {0} BY <2>1 DEF Label
    <2> QED BY <2>1, <2>4, <2>5, <2>6, <2>8, <2>9, <2>10, Zenon DEF TypeInv, TypeOK, input
  <1> QED BY <1>1, <1>2

LEMMA NoiseType ==
  ASSUME NEW b
  PROVE  /\ Noise(b) \in Seq(Tokens) /\ \A j \in DOMAIN Noise(b) : Noise(b)[j] = Token("noise", 0, 0, FALSE)
         /\ b # "sm3" => Noise(b) = <<>>
  <1> DEFINE x == Token("noise", 0, 0, FALSE)
             T == Tokens
  <1>1. x \in T BY DEF Token, Tokens, TokenType, AnyValue
  <1> DEFINE z == IF b = "sm3" THEN <<x>> ELSE <<>>
  <1> HIDE DEF x, T
  <1>2. z \in Seq(T) /\ (\A j \in DOMAIN z : z[j] = x) /\ (b # "sm3" => z = <<>>)
    <2>1. <<x>> \in Seq(T) /\ <<>> \in Seq(T) /\ DOMAIN <<x>> = {1} /\ <<x>>[1] = x /\ \A j \in DOMAIN <<>> : FALSE
      BY <1>1
    <2> HIDE DEF z
    <2>2. CASE b = "sm3" BY <2>1, <2>2 DEF z
    <2>3. CASE b # "sm3" BY <2>1, <2>3 DEF z
    <2> QED BY <2>2, <2>3
  <1> QED BY <1>2 DEF Noise, x, T

LEMMA DigestTokenType ==
  ASSUME NEW n \in Nat, NEW digest \in Digest
  PROVE  <<Token("digest", n, digest, TRUE)>> \in Seq(TextToken) /\ <<"extend", digest>> \in Change
  <1>1. Token("digest", n, digest, TRUE) \in TextToken BY DEF Token, TextToken
  <1> QED BY <1>1, SeqOfOne DEF Change

LEMMA TypeDigest == ASSUME TypeInv, k <= Len(buf.events), ParseDigest PROVE TypeInv'
  <1> DEFINE e == Current
             digest == e.digests[d]
  <1>1. e \in Event /\ d \in Nat \ {0} /\ d <= Len(e.digests)
    BY CurrentIs DEF TypeInv, TypeOK, ParseDigest
  <1>2. digest \in Digest /\ e.pcr \in Nat BY <1>1, EventIs
  <1>3. CASE pending
    <2>1. /\ pending' = FALSE /\ d' = d + 1
          /\ UNCHANGED <<input, pc, buf, k, seen, hcrtm, locality, calc, text, out, ret>>
      BY <1>3 DEF ParseDigest
    <2>2. pending' \in BOOLEAN BY <2>1, Zenon
    <2>3. d' \in Nat \ {0} BY <1>1, <2>1
    <2> QED BY <2>1, <2>2, <2>3, Zenon DEF TypeInv, TypeOK, input
  <1>4. CASE ~pending /\ e.pcr >= MaxPcrs BY <1>4, TypeFail DEF ParseDigest
  <1>5. CASE ~pending /\ ~(e.pcr >= MaxPcrs)
    <2>1. /\ text' = Logged(e.pcr, <<Token("digest", e.pcr, digest, TRUE)>>)
          /\ out' = out \o Noise(digest[1])
          /\ calc' = IF digest[1] = "sha256"
                     THEN [calc EXCEPT ![e.pcr] = Append(@, <<"extend", digest>>)] ELSE calc
          /\ d' = d + 1
          /\ UNCHANGED <<input, pc, buf, k, seen, hcrtm, locality, pending, ret>>
      BY <1>5 DEF ParseDigest
    <2> HIDE DEF e, digest
    <2>2. text' \in [Pcr -> Seq(TextToken)]
      BY <1>2, <2>1, DigestTokenType, TypeLogged, Zenon
    <2>3. calc' \in [Pcr -> Seq(Change)]
      <3> DEFINE T == Seq(Change)
                 x == <<"extend", digest>>
      <3>1. x \in Change BY <1>2, DigestTokenType
      <3> HIDE DEF x
      <3>2. \A v \in T : Append(v, x) \in T BY <3>1
      <3>3. calc \in [Pcr -> T] BY DEF TypeInv, TypeOK
      <3> HIDE DEF T
      <3>4. calc' \in [Pcr -> T] BY <2>1, <3>2, <3>3 DEF x
      <3> QED BY <3>4 DEF T
    <2>4. out' \in Seq(Tokens)
      <3> DEFINE T == Tokens
                 u == Noise(digest[1])
      <3>1. u \in Seq(T) /\ out \in Seq(T) /\ out' = out \o u BY <2>1, NoiseType DEF TypeInv
      <3> HIDE DEF T, u
      <3>2. out' \in Seq(T) BY <3>1
      <3> QED BY <3>2 DEF T
    <2>5. d' \in Nat \ {0} BY <1>1, <2>1
    <2> QED BY <2>1, <2>2, <2>3, <2>4, <2>5, Zenon DEF TypeInv, TypeOK, input
  <1> QED BY <1>3, <1>4, <1>5, Zenon

LEMMA TypeBodies == ASSUME TypeInv, k <= Len(buf.events), ParseBody PROVE TypeInv'
  <1> DEFINE e == Current
  <1>1. CASE ~BodyFits(e) BY <1>1, TypeFail DEF ParseBody
  <1>2. CASE BodyFits(e)
    <2>1. /\ text' = Logged(e.pcr, DescriptionTokens(e))
          /\ buf' = [buf EXCEPT !.events = Spaced(@, e)]
          /\ pc' = "event" /\ k' = k + 1 /\ d' = 1
          /\ UNCHANGED <<input, replay, out, ret>> BY <1>2 DEF ParseBody
    <2>2. DescriptionTokens(e) \in Seq(TextToken) BY CurrentIs, DescriptionType
    <2>3. pc' \in Label /\ k' \in Nat \ {0} /\ d' \in Nat \ {0}
      <3>1. pc' = "event" /\ d' = 1 /\ k' = k + 1 BY <2>1
      <3>2. k \in Nat BY DEF TypeInv, TypeOK
      <3> QED BY <3>1, <3>2 DEF Label
    <2> QED BY <2>1, <2>2, <2>3, TypeBody, Zenon
  <1> QED BY <1>1, <1>2

LEMMA EntryTokensType ==
  ASSUME NEW e \in Event, e.digests # <<>>
  PROVE  EntryTokens(e) \in Seq(TextToken)
  <1>1. e.pcr \in Nat /\ e.digests[1] \in Digest
    <2>1. e.digests \in Seq(Digest) /\ e.pcr \in Nat BY EventIs
    <2> QED BY <2>1
  <1>2. Token("entry", e.pcr, e.digests[1], TRUE) \in TextToken BY <1>1 DEF Token, TextToken
  <1> QED BY <1>2, SeqOfOne DEF EntryTokens

\* The events of a log of the SHA-1 format have one digest.
OneDigest == pc = "legacy" => \A j \in 1 .. Len(buf.events) : buf.events[j].digests # <<>>

LEMMA TypeLegacy == ASSUME TypeInv, OneDigest, ParseLegacyEvent PROVE TypeInv'
  <1> DEFINE e == Current
  <1>1. CASE ~BodyFits(e) BY <1>1, TypeFail DEF ParseLegacyEvent
  <1>2. CASE BodyFits(e)
    <2>1. /\ text' = Logged(e.pcr, EntryTokens(e) \o DescriptionTokens(e))
          /\ buf' = [buf EXCEPT !.events = Spaced(@, e)]
          /\ k' = k + 1 /\ k <= Len(buf.events) /\ pc = "legacy"
          /\ UNCHANGED <<input, pc, d, replay, out, ret>> BY <1>2 DEF ParseLegacyEvent
    <2>2. e \in Event /\ e.digests # <<>> BY <2>1, CurrentIs DEF OneDigest, Current
    <2> HIDE DEF e
    <2>3. EntryTokens(e) \in Seq(TextToken) /\ DescriptionTokens(e) \in Seq(TextToken)
      BY <2>2, EntryTokensType, DescriptionType
    <2>4. EntryTokens(e) \o DescriptionTokens(e) \in Seq(TextToken)
      BY <2>3, ConcatElements, Zenon
    <2>5. pc' \in Label /\ k' \in Nat \ {0} /\ d' \in Nat \ {0}
      <3>1. pc' = pc /\ d' = d /\ k' = k + 1 BY <2>1
      <3>2. pc \in Label /\ k \in Nat \ {0} /\ d \in Nat \ {0} BY Zenon DEF TypeInv, TypeOK
      <3> QED BY <3>1, <3>2
    <2> QED BY <2>1, <2>4, <2>5, TypeBody, Zenon DEF e
  <1> QED BY <1>1, <1>2

LEMMA TypeParseLog ==
  ASSUME TypeInv, OneDigest, pc = "digest" => k <= Len(buf.events), ParseLog
  PROVE  TypeInv'
  <1>1. CASE ReadHead BY <1>1, TypeFail, TypeGoto DEF ReadHead, SpecidCallback, Label
  <1>2. CASE BadHead BY <1>2, TypeFail DEF BadHead
  <1>3. CASE IncompleteEvent \/ IncompleteLegacyEvent
    BY <1>3, TypeFail DEF IncompleteEvent, IncompleteLegacyEvent
  <1>4. CASE ParseEventsDone BY <1>4, TypeGoto DEF ParseEventsDone, Label
  <1>5. CASE ParseDigest BY <1>5, TypeDigest DEF ParseDigest
  <1>6. CASE ParseBody BY <1>6, TypeBodies DEF ParseBody
  <1> QED BY <1>1, <1>2, <1>3, <1>4, <1>5, <1>6, TypeRead, TypeHeader, TypeLegacy DEF ParseLog

-----------------------------------------------------------------------------
(* The types of the output *)

OptionsAre(o) ==
  /\ o.pcrs \in Seq(Pcr) /\ o.path \in Path
  /\ \A f \in FlagOption \cup {"json"} : o.flag[f] \in BOOLEAN

LEMMA OptionsType ==
  ASSUME NEW o \in Options
  PROVE  OptionsAre(o)
  <1>1. o.pcrs \in Seq(Pcr) /\ o.path \in Path /\ o.flag \in [FlagOption \cup {"json"} -> BOOLEAN]
    BY DEF Options
  <1> QED BY <1>1, Zenon DEF OptionsAre

LEMMA PunctuationType ==
  ASSUME NEW t \in {"[", "]", ","}
  PROVE  Punctuation(t) \in Seq(Tokens) /\ (Punctuation(t) = <<>> \/ Punctuation(t) = <<Token(t, 0, 0, FALSE)>>)
  <1>1. Token(t, 0, 0, FALSE) \in Tokens BY DEF Token, Tokens, TokenType, AnyValue
  <1> QED BY <1>1, SeqOfOne DEF Punctuation

LEMMA TypeEmit ==
  ASSUME TypeInv, NEW ts \in Seq(Tokens), NEW l \in Label, Emit(ts, l)
  PROVE  TypeInv'
  <1>1. out' \in Seq(Tokens)
    <2> DEFINE T == Tokens
    <2>1. out \in Seq(T) /\ ts \in Seq(T) /\ out' = out \o ts BY DEF Emit, TypeInv
    <2> HIDE DEF T
    <2>2. out' \in Seq(T) BY <2>1
    <2> QED BY <2>2 DEF T
  <1>2. k' \in Nat \ {0} /\ d' \in Nat \ {0} BY DEF Emit, Goto
  <1> QED BY <1>1, <1>2, Zenon DEF Emit, Goto, TypeInv, TypeOK, input, replay

LEMMA PrintedIs ==
  ASSUME TypeInv, NEW j \in 1 .. Len(opts.pcrs)
  PROVE  Printed(j) \in Pcr
  <1> DEFINE s == opts.pcrs
  <1>1. s \in Seq(Pcr) BY OptionsType DEF TypeInv, TypeOK, OptionsAre
  <1> HIDE DEF s
  <1>2. j \in 1 .. Len(s) BY DEF s
  <1>3. s[j] \in Pcr BY <1>1, <1>2
  <1> QED BY <1>3 DEF Printed, s

LEMMA ClippedType ==
  ASSUME NEW ts \in Seq(TextToken), ts # <<>>
  PROVE  /\ Clipped(ts) \in Seq(TextToken) /\ Clipped(ts) # <<>> /\ Len(Clipped(ts)) = Len(ts)
         /\ \A j \in 1 .. Len(ts) : /\ Clipped(ts)[j].t = ts[j].t /\ Clipped(ts)[j].value = ts[j].value
                                    /\ Clipped(ts)[j].pcr = ts[j].pcr
                                    /\ j < Len(ts) => Clipped(ts)[j] = ts[j]
         /\ Clipped(ts)[Len(ts)].comma = FALSE
  <1> DEFINE x == [ts[Len(ts)] EXCEPT !.comma = FALSE]
             n == Len(ts)
  <1>1. n \in Nat \ {0} /\ ts[n] \in TextToken /\ \A j \in 1 .. n : ts[j] \in TextToken
    BY SeqIsFunction
  <1>2. \A y \in TextToken : /\ [y EXCEPT !.comma = FALSE] \in TextToken
                             /\ [y EXCEPT !.comma = FALSE].t = y.t /\ [y EXCEPT !.comma = FALSE].pcr = y.pcr
                             /\ [y EXCEPT !.comma = FALSE].value = y.value /\ [y EXCEPT !.comma = FALSE].comma = FALSE
    BY DEF TextToken
  <1>3. x \in TextToken /\ x.t = ts[n].t /\ x.pcr = ts[n].pcr /\ x.value = ts[n].value /\ x.comma = FALSE
    BY <1>1, <1>2
  <1> DEFINE T == TextToken
  <1>4. Clipped(ts) = [ts EXCEPT ![n] = x] BY DEF Clipped
  <1> HIDE DEF x, T
  <1>5. ts \in Seq(T) /\ x \in T BY <1>3 DEF T
  <1> DEFINE c == [ts EXCEPT ![n] = x]
  <1>6. c \in Seq(T) /\ Len(c) = n /\ c[n] = x /\ \A j \in 1 .. n : j # n => c[j] = ts[j]
    BY <1>1, <1>5
  <1> HIDE DEF c
  <1>7. c # <<>> BY <1>1, <1>6
  <1>8. \A j \in 1 .. n : c[j].t = ts[j].t /\ c[j].value = ts[j].value /\ c[j].pcr = ts[j].pcr
    BY <1>3, <1>6, Zenon
  <1>9. \A j \in 1 .. n : j < n => c[j] = ts[j] BY <1>1, <1>6
  <1> QED BY <1>3, <1>4, <1>6, <1>7, <1>8, <1>9, Zenon DEF c, n, T

LEMMA TypePrintLog == ASSUME TypeInv, PrintLog PROVE TypeInv'
  <1> DEFINE n == Printed(k)
             ts == IF LastLog(k) THEN Clipped(text[n]) ELSE text[n]
  <1>1. k \in 1 .. Len(opts.pcrs) /\ n \in Pcr
    <2>1. k \in Nat \ {0} /\ k <= Len(opts.pcrs) BY DEF PrintLog, TypeInv, TypeOK
    <2>2. Len(opts.pcrs) \in Nat BY OptionsType DEF TypeInv, TypeOK, OptionsAre
    <2> QED BY <2>1, <2>2, PrintedIs
  <1>2. text[n] \in Seq(TextToken) /\ out \in Seq(Tokens) BY <1>1 DEF TypeInv, TypeOK
  <1>3. /\ IF text[n] = <<>>
           THEN UNCHANGED <<text, out>>
           ELSE text' = [text EXCEPT ![n] = ts] /\ out' = out \o ts
        /\ k' = k + 1
        /\ UNCHANGED <<input, pc, buf, d, replay, ret>> BY DEF PrintLog
  <1>4. text' \in [Pcr -> Seq(TextToken)] /\ out' \in Seq(Tokens)
    <2>1. CASE text[n] = <<>> BY <1>3, <2>1 DEF TypeInv, TypeOK
    <2>2. CASE text[n] # <<>>
      <3>1. ts \in Seq(TextToken) BY <1>2, <2>2, ClippedType
      <3>2. ts \in Seq(Tokens)
        <4> DEFINE T == TextToken
                   U == Tokens
        <4>1. T \subseteq U /\ ts \in Seq(T) BY <3>1, TextIsOutput
        <4> HIDE DEF T, U, ts
        <4>2. ts \in Seq(U) BY <4>1
        <4> QED BY <4>2 DEF U
      <3>3. out \o ts \in Seq(Tokens) BY <1>2, <3>2, ConcatElements, Zenon
      <3> HIDE DEF ts
      <3>4. text' = [text EXCEPT ![n] = ts] BY <1>3, <2>2
      <3> DEFINE T == Seq(TextToken)
      <3>5. text \in [Pcr -> T] /\ ts \in T BY <3>1 DEF TypeInv, TypeOK
      <3> HIDE DEF T
      <3>6. text' \in [Pcr -> T] BY <3>4, <3>5
      <3> QED BY <1>3, <2>2, <3>3, <3>6 DEF T
    <2> QED BY <2>1, <2>2
  <1>5. k' \in Nat \ {0} BY <1>1, <1>3
  <1> QED BY <1>3, <1>4, <1>5, Zenon DEF TypeInv, TypeOK, input, replay

\* The register of a PCR of the list, and the list of registers.
LEMMA RegisterTokenType ==
  ASSUME TypeInv, NEW j \in 1 .. Len(opts.pcrs)
  PROVE  Token("pcr", Printed(j), calc[Printed(j)], FALSE) \in Tokens
  <1>1. Printed(j) \in Pcr BY PrintedIs
  <1>2. calc[Printed(j)] \in Seq(Change) /\ Printed(j) \in Nat
    BY <1>1, PcrIs DEF TypeInv, TypeOK
  <1>3. calc[Printed(j)] \in AnyValue BY <1>2 DEF AnyValue
  <1> QED BY <1>2, <1>3 DEF Token, Tokens, TokenType

LEMMA AggregateTokenType ==
  ASSUME TypeInv
  PROVE  Token("aggregate", 0, [j \in DOMAIN opts.pcrs |-> calc[Printed(j)]], FALSE) \in Tokens
  <1> DEFINE s == opts.pcrs
             v == [j \in DOMAIN s |-> calc[Printed(j)]]
             T == Seq(Change)
  <1>1. s \in Seq(Pcr) BY OptionsType DEF TypeInv, TypeOK, OptionsAre
  <1>2. DOMAIN s = 1 .. Len(s) /\ Len(s) \in Nat BY <1>1, SeqIsFunction, Zenon
  <1>3. \A j \in 1 .. Len(s) : calc[Printed(j)] \in T BY <1>2, PrintedIs DEF TypeInv, TypeOK
  <1> HIDE DEF s, T
  <1>4. v \in [1 .. Len(s) -> T] BY <1>2, <1>3
  <1>5. v \in Seq(T) BY <1>2, <1>4, FunctionIsSeq, Zenon
  <1> HIDE DEF v
  <1>6. v \in AnyValue BY <1>5 DEF AnyValue, T
  <1>7. Token("aggregate", 0, v, FALSE) \in Tokens BY <1>6 DEF Token, Tokens, TokenType
  <1> QED BY <1>7 DEF v, s

LEMMA TypeOutput == ASSUME TypeInv, Output PROVE TypeInv'
  <1>0. \A l \in {"print log", "open summary", "print summary", "print aggregate"} : l \in Label
    BY DEF Label
  <1>1. <<>> \in Seq(Tokens) /\ \A t \in {"[", "]", ","} : Punctuation(t) \in Seq(Tokens)
    <2>1. \A T : <<>> \in Seq(T) OBVIOUS
    <2> QED BY <2>1, PunctuationType, Zenon
  <1>2. CASE OpenLog \/ OpenSummary \/ LogDone \/ SummaryDone
    BY <1>0, <1>1, <1>2, TypeEmit DEF OpenLog, OpenSummary, LogDone, SummaryDone
  <1>3. CASE PrintLog BY <1>3, TypePrintLog
  <1>4. CASE PrintRegister
    <2>1. k \in 1 .. Len(opts.pcrs)
      <3>1. k \in Nat \ {0} /\ k <= Len(opts.pcrs)
        BY <1>4 DEF PrintRegister, TypeInv, TypeOK
      <3>2. Len(opts.pcrs) \in Nat BY OptionsType DEF TypeInv, TypeOK, OptionsAre
      <3> QED BY <3>1, <3>2
    <2> DEFINE x == Token("pcr", Printed(k), calc[Printed(k)], FALSE)
               u == IF k < Len(opts.pcrs) THEN Punctuation(",") ELSE <<>>
    <2>2. out' = out \o <<x>> \o u /\ k' = k + 1 /\ UNCHANGED <<input, pc, buf, d, replay, text, ret>>
      BY <1>4 DEF PrintRegister
    <2>3. x \in Tokens /\ u \in Seq(Tokens) /\ out \in Seq(Tokens)
      BY <1>1, <2>1, RegisterTokenType DEF TypeInv
    <2> HIDE DEF x, u
    <2>4. out' \in Seq(Tokens)
      <3> DEFINE T == Tokens
      <3>1. x \in T /\ u \in Seq(T) /\ out \in Seq(T) BY <2>3 DEF T
      <3> HIDE DEF T
      <3>2. out' \in Seq(T) BY <2>2, <3>1
      <3> QED BY <3>2 DEF T
    <2>5. k' \in Nat \ {0} BY <2>1, <2>2
    <2> QED BY <2>2, <2>4, <2>5, Zenon DEF TypeInv, TypeOK, input, replay
  <1>5. CASE PrintAggregate
    <2> DEFINE x == Token("aggregate", 0, [j \in DOMAIN opts.pcrs |-> calc[Printed(j)]], FALSE)
    <2>1. out' = (IF opts.flag["aggregate"] THEN Append(out, x) ELSE out) /\ pc' = "exited" /\ ret' = 0
          /\ UNCHANGED <<input, buf, k, d, replay, text>> BY <1>5 DEF PrintAggregate
    <2>2. x \in Tokens /\ out \in Seq(Tokens) BY AggregateTokenType DEF TypeInv
    <2> HIDE DEF x
    <2>3. out' \in Seq(Tokens) BY <2>1, <2>2, AppendAsConcat
    <2>4. pc' \in Label /\ ret' \in {-1, 0, 1} BY <2>1 DEF Label
    <2> QED BY <2>1, <2>3, <2>4, Zenon DEF TypeInv, TypeOK, input, replay
  <1> QED BY <1>2, <1>3, <1>4, <1>5 DEF Output

LEMMA TypeNext ==
  ASSUME TypeInv, OneDigest, pc = "digest" => k <= Len(buf.events), [Next]_vars
  PROVE  TypeInv'
  <1>1. CASE OutOfMemory
    <2>1. pc' \in Label BY <1>1 DEF OutOfMemory, Label
    <2> QED BY <1>1, <2>1, Zenon DEF OutOfMemory, TypeInv, TypeOK, input, replay
  <1>2. CASE UNCHANGED vars BY <1>2, Zenon DEF vars, TypeInv, TypeOK
  <1> QED BY <1>1, <1>2, TypeParse, TypeParseLog, TypeOutput DEF Next, Terminated

-----------------------------------------------------------------------------
(* How far the program is *)

OnlyNoise == \A j \in DOMAIN out : out[j].t = "noise"
NoAggregate == \A j \in DOMAIN out : out[j].t # "aggregate"
Untouched ==
  /\ seen = {} /\ hcrtm = FALSE /\ locality = 0 /\ pending = FALSE /\ out = <<>>
  /\ calc = [n \in Pcr |-> <<>>] /\ text = [n \in Pcr |-> <<>>] /\ k = 1 /\ d = 1

Stopped == pc \in {"exited", "crashed"}

\* Nothing is touched before the events are parsed, and nothing but complaints
\* is printed while they are.
StageInv ==
  /\ \E s \in Scenarios : fs = s.fs
  /\ pc \in {"parse", "read", "head"} => Untouched
  /\ pc \notin {"parse", "exited", "crashed"} => argv = <<>>
  /\ pc \notin OutputLabel /\ ~Stopped => OnlyNoise
  /\ ret = -1 => OnlyNoise
  /\ pc # "exited" => ret = 1 /\ NoAggregate

\* What is in memory is a part of the file; an event before the one that is
\* parsed may have put a space for a tab in front of it.
Altered(j) ==
  /\ Input.events[j].pcr = Tab /\ buf.events[j] = [Input.events[j] EXCEPT !.pcr = Space]
  /\ j \in 2 .. k /\ Unterminated(Input.events[j - 1])

BufferInv ==
  /\ ~Stopped /\ pc \notin {"parse", "read"} =>
       /\ Len(buf.events) <= Len(Input.events)
       /\ buf.head \in {"specid", "sha1"} => buf.head = Input.head
       /\ ~ReadFails => buf.head = Input.head /\ buf.cut = Input.cut /\ Len(buf.events) = Len(Input.events)
  /\ pc \in {"head", "event", "digest", "legacy"} =>
       \A j \in 1 .. Len(buf.events) : buf.events[j] = Input.events[j] \/ Altered(j)
  /\ pc \in {"event", "digest"} => buf.head = "specid"
  /\ pc = "legacy" => buf.head = "sha1"
  /\ pc \in OutputLabel => buf.head \in {"specid", "sha1"}
  /\ pc = "digest" => k <= Len(buf.events)
  /\ pc \in {"event", "digest"} => k <= Len(buf.events) + 1

LEMMA InputStays ==
  ASSUME UNCHANGED input
  PROVE  /\ Input' = Input /\ Requested' = Requested /\ Json' = Json /\ ReadFails' = ReadFails
         /\ argv' = argv /\ opts' = opts /\ fs' = fs /\ faults' = faults
         /\ \A j : Printed(j)' = Printed(j)
  BY DEF input, Input, InputPath, Requested, Json, ReadFails, Printed

LEMMA LogInput ==
  ASSUME TypeInv
  PROVE  /\ Input \in Log /\ Input.events \in Seq(Event) /\ Len(Input.events) \in Nat
         /\ \A j \in 1 .. Len(Input.events) : Input.events[j] \in Event
         /\ argv = <<>> => InputPath = opts.path
  <1>1. argv = <<>> => InputPath = opts.path BY DEF InputPath
  <1>2. InputPath \in Path BY OptionsType DEF InputPath, Path, TypeInv, TypeOK, OptionsAre
  <1>3. Input \in Log BY <1>2, EmptyIsLog DEF Input, TypeInv, TypeOK
  <1> QED BY <1>1, <1>3, LogIs, Zenon

LEMMA LogBuffer ==
  ASSUME TypeInv
  PROVE  /\ buf \in Log /\ buf.events \in Seq(Event) /\ Len(buf.events) \in Nat
         /\ \A j \in 1 .. Len(buf.events) : buf.events[j] \in Event
  BY LogIs, Zenon DEF TypeInv, TypeOK

LEMMA StageInit == Init => StageInv /\ BufferInv
  <1> SUFFICES ASSUME Init PROVE StageInv /\ BufferInv OBVIOUS
  <1>1. /\ \E s \in Scenarios : fs = s.fs
        /\ pc = "parse" /\ ret = 1 /\ out = <<>> BY Zenon DEF Init
  <1>2. Untouched BY Zenon DEF Init, Untouched
  <1>3. OnlyNoise /\ NoAggregate BY <1>1 DEF OnlyNoise, NoAggregate
  <1> QED BY <1>1, <1>2, <1>3 DEF StageInv, BufferInv, OutputLabel, Stopped

LEMMA StageFail ==
  ASSUME StageInv, BufferInv, Fail, pc \notin OutputLabel, ~Stopped
  PROVE  StageInv' /\ BufferInv'
  <1>1. pc' = "exited" /\ ret' = -1 /\ UNCHANGED <<out, fs>> /\ OnlyNoise
    BY DEF Fail, StageInv, input
  <1>2. OnlyNoise' /\ \E s \in Scenarios : fs' = s.fs BY <1>1 DEF OnlyNoise, StageInv
  <1> QED BY <1>1, <1>2 DEF StageInv, BufferInv, Stopped, OutputLabel

LEMMA StageParse == ASSUME StageInv, BufferInv, Parse PROVE StageInv' /\ BufferInv'
  <1>1. pc = "parse" /\ pc \notin OutputLabel /\ ~Stopped
    BY DEF Parse, ParseFlag, ParseFormat, ParsePcrs, ParseIn, ParseInvalid, ParseEnd, Parsing, OutputLabel, Stopped
  <1>2. ASSUME NEW o, Parsed(o) PROVE StageInv' /\ BufferInv'
    <2>1. UNCHANGED <<fs, faults, pc, buf, k, d, replay, text, out, ret>> BY <1>2 DEF Parsed
    <2>2. (OnlyNoise <=> OnlyNoise') /\ (NoAggregate <=> NoAggregate') /\ (Untouched <=> Untouched')
      BY <2>1 DEF OnlyNoise, NoAggregate, Untouched, replay
    <2> QED BY <1>1, <2>1, <2>2 DEF StageInv, BufferInv, Stopped, OutputLabel
  <1>3. CASE Fail BY <1>1, <1>3, StageFail
  <1>4. CASE Goto("read") /\ UNCHANGED <<input, buf, replay, text, out, ret>> /\ argv = <<>>
    <2>1. pc' = "read" /\ argv' = argv /\ fs' = fs /\ ret' = ret /\ out' = out
      BY <1>4 DEF Goto, input
    <2>2. Untouched /\ Untouched' BY <1>1, <1>4 DEF StageInv, Untouched, Goto, replay
    <2>3. (OnlyNoise <=> OnlyNoise') /\ (NoAggregate <=> NoAggregate')
      BY <2>1 DEF OnlyNoise, NoAggregate
    <2> QED BY <1>1, <1>4, <2>1, <2>2, <2>3 DEF StageInv, BufferInv, Stopped, OutputLabel
  <1> QED BY <1>2, <1>3, <1>4, Zenon
          DEF Parse, ParseFlag, ParseFormat, ParsePcrs, ParseIn, ParseInvalid, ParseEnd

LEMMA StageKept ==
  ASSUME StageInv, UNCHANGED <<input, out, ret>>, ~Stopped, pc # "parse", pc \notin OutputLabel \/ pc' = "crashed",
         pc' \notin {"parse", "read", "head", "exited"}, pc' \in OutputLabel => pc \notin OutputLabel
  PROVE  StageInv'
  <1>1. (OnlyNoise <=> OnlyNoise') /\ (NoAggregate <=> NoAggregate') /\ argv' = argv /\ fs' = fs
    BY DEF OnlyNoise, NoAggregate, input
  <1> QED BY <1>1 DEF StageInv, Stopped, OutputLabel

LEMMA NoiseKept ==
  ASSUME NEW b, out \in Seq(Tokens), OnlyNoise, out' = out \o Noise(b)
  PROVE  OnlyNoise'
  <1> DEFINE T == Tokens
             u == Noise(b)
  <1>1. out \in Seq(T) /\ u \in Seq(T) /\ out' = out \o u BY NoiseType
  <1>2. (\A j \in DOMAIN out : out[j].t = "noise") /\ \A j \in DOMAIN u : u[j].t = "noise"
    BY NoiseType DEF OnlyNoise, Token
  <1> HIDE DEF T, u
  <1>3. \A j \in DOMAIN (out \o u) : (\E l \in DOMAIN out : (out \o u)[j] = out[l]) \/ \E l \in DOMAIN u : (out \o u)[j] = u[l]
    BY <1>1, ConcatElements
  <1>4. \A j \in DOMAIN (out \o u) : (out \o u)[j].t = "noise" BY <1>2, <1>3, Zenon
  <1> QED BY <1>1, <1>4 DEF OnlyNoise

LEMMA StageRead == ASSUME TypeInv, StageInv, BufferInv, ReadLog PROVE StageInv' /\ BufferInv'
  <1>1. pc = "read" /\ pc \notin OutputLabel /\ ~Stopped
    BY DEF ReadLog, OutputLabel, Stopped
  <1> DEFINE f == fs[opts.path]
  <1>2. CASE f = Absent /\ Fail BY <1>1, <1>2, StageFail
  <1>3. CASE f # Absent /\ pc' = "head"
    <2>1. Goto("head") /\ UNCHANGED <<input, replay, text, out, ret>>
      BY <1>3 DEF ReadLog, Fail
    <2>2. StageInv'
      <3>1. Untouched /\ Untouched' BY <1>1, <2>1 DEF StageInv, Untouched, Goto, replay
      <3>2. OnlyNoise /\ OnlyNoise' /\ NoAggregate /\ NoAggregate' /\ argv' = argv /\ fs' = fs
        BY <1>1, <2>1 DEF OnlyNoise, NoAggregate, input, StageInv, OutputLabel, Stopped
      <3> QED BY <1>1, <2>1, <3>1, <3>2 DEF StageInv, Stopped, OutputLabel, Goto
    <2>3. Input = f /\ Input' = Input /\ ReadFails' = ReadFails
      <3>1. argv = <<>> BY <1>1 DEF StageInv
      <3> QED BY <1>3, <2>1, <3>1, InputStays, LogInput DEF Input
    <2>4. f \in Log /\ f.events \in Seq(Event) /\ Len(f.events) \in Nat BY <2>3, LogInput
    <2> HIDE DEF f
    <2>5. \/ buf' = f
          \/ ReadFails /\ \E n \in 0 .. Len(f.events), cut \in BOOLEAN :
               buf' = [f EXCEPT !.events = SubSeq(@, 1, n), !.cut = cut]
          \/ ReadFails /\ buf' = EmptyLog BY <1>3, Zenon DEF ReadLog, Fail, f
    <2>6. /\ Len(buf'.events) <= Len(f.events)
          /\ \A j \in 1 .. Len(buf'.events) : buf'.events[j] = f.events[j]
          /\ buf'.head \in {"specid", "sha1"} => buf'.head = f.head
          /\ ~ReadFails => buf' = f
      <3>1. CASE buf' = f BY <2>4, <3>1
      <3>2. CASE ReadFails /\ buf' = EmptyLog BY <2>4, <3>2 DEF EmptyLog
      <3>3. ASSUME NEW n \in 0 .. Len(f.events), NEW cut \in BOOLEAN, ReadFails,
                   buf' = [f EXCEPT !.events = SubSeq(@, 1, n), !.cut = cut]
            PROVE  /\ Len(buf'.events) <= Len(f.events)
                   /\ \A j \in 1 .. Len(buf'.events) : buf'.events[j] = f.events[j]
                   /\ buf'.head \in {"specid", "sha1"} => buf'.head = f.head
                   /\ ~ReadFails => buf' = f
        <4>1. buf'.events = SubSeq(f.events, 1, n) /\ buf'.head = f.head
          BY <2>4, <3>3 DEF Log
        <4> DEFINE es == f.events
                   T == Event
        <4>2. es \in Seq(T) /\ n \in 0 .. Len(es) BY <2>4
        <4> HIDE DEF es, T
        <4>3. Len(SubSeq(es, 1, n)) = n /\ n <= Len(es) /\ \A j \in 1 .. n : SubSeq(es, 1, n)[j] = es[j]
          BY <4>2
        <4> QED BY <3>3, <4>1, <4>3 DEF es
      <3> QED BY <2>5, <3>1, <3>2, <3>3, Zenon
    <2>7. /\ Len(buf'.events) <= Len(Input'.events)
          /\ \A j \in 1 .. Len(buf'.events) : buf'.events[j] = Input'.events[j]
          /\ buf'.head \in {"specid", "sha1"} => buf'.head = Input'.head
          /\ ~ReadFails' => buf' = Input' BY <2>3, <2>6, Zenon
    <2>8. pc' = "head" BY <1>3
    <2>9. ~ReadFails' => buf'.head = Input'.head /\ buf'.cut = Input'.cut /\ Len(buf'.events) = Len(Input'.events)
      BY <2>7
    <2> QED BY <2>2, <2>7, <2>8, <2>9 DEF BufferInv, OutputLabel
  <1> QED BY <1>2, <1>3 DEF ReadLog, Goto

\* The steps that leave the buffer alone.
LEMMA BufferKept ==
  ASSUME TypeInv, BufferInv, UNCHANGED <<input, buf>>, ~Stopped, pc \notin {"parse", "read"}, k' \in Nat,
         pc' \in {"head", "event", "digest", "legacy"} => pc \in {"head", "event", "digest", "legacy"} /\ k' >= k,
         pc' \in {"event", "digest"} => buf.head = "specid" /\ k' <= Len(buf.events) + 1,
         pc' = "digest" => k' <= Len(buf.events),
         pc' = "legacy" => buf.head = "sha1",
         pc' \in OutputLabel => buf.head \in {"specid", "sha1"}
  PROVE  BufferInv'
  <1>1. Input' = Input /\ ReadFails' = ReadFails /\ buf' = buf BY InputStays
  <1>2. \A j : Altered(j) /\ k' >= k => Altered(j)' BY <1>1 DEF Altered, TypeInv, TypeOK
  <1>3. pc' \in {"head", "event", "digest", "legacy"} =>
          \A j \in 1 .. Len(buf'.events) : buf'.events[j] = Input'.events[j] \/ Altered(j)'
    BY <1>1, <1>2, Zenon DEF BufferInv
  <1> QED BY <1>1, <1>3 DEF BufferInv, Stopped

LEMMA StageHead == ASSUME TypeInv, StageInv, BufferInv, ReadHead PROVE StageInv' /\ BufferInv'
  <1>1. pc = "head" /\ pc \notin OutputLabel /\ ~Stopped
    BY DEF ReadHead, OutputLabel, Stopped
  <1>2. CASE Fail BY <1>1, <1>2, StageFail
  <1>3. ASSUME NEW l \in {"event", "legacy"}, buf.head = (IF l = "event" THEN "specid" ELSE "sha1"), Goto(l),
               UNCHANGED <<input, buf, replay, text, out, ret>>
        PROVE  StageInv' /\ BufferInv'
    <2>1. pc' = l /\ k' = 1 /\ k = 1 BY <1>1, <1>3 DEF Goto, StageInv, Untouched
    <2>2. Len(buf.events) \in Nat BY LogBuffer
    <2> QED BY <1>1, <1>3, <2>1, <2>2, StageKept, BufferKept DEF OutputLabel
  <1> QED BY <1>2, <1>3 DEF ReadHead, SpecidCallback

\* The step behind an event: the next one may get a space for a tab.
LEMMA BufferSpaced ==
  ASSUME TypeInv, BufferInv, UNCHANGED input, pc \in {"digest", "legacy"}, k <= Len(buf.events),
         buf' = [buf EXCEPT !.events = Spaced(@, Current)], k' = k + 1,
         pc' = IF pc = "digest" THEN "event" ELSE "legacy"
  PROVE  BufferInv'
  <1> DEFINE es == buf.events
             e == Current
  <1>1. es \in Seq(Event) /\ k \in 1 .. Len(es) /\ k \in Nat /\ Len(es) \in Nat
    BY CurrentIs, LogBuffer DEF TypeInv, TypeOK
  <1>2. buf'.events = Spaced(es, e) /\ buf'.head = buf.head /\ buf'.cut = buf.cut
    BY LogBuffer DEF Log
  <1>3. Len(Spaced(es, e)) = Len(es)
    <2>1. k \in Nat \ {0} BY DEF TypeInv, TypeOK
    <2> QED BY <1>1, <2>1, TypeSpaced, Zenon
  <1>4. Input' = Input /\ ReadFails' = ReadFails BY InputStays
  <1>5. \A j \in 1 .. Len(es) : es[j] = Input.events[j] \/ Altered(j) BY DEF BufferInv
  <1>6. \A j \in 1 .. Len(es) :
          \/ Spaced(es, e)[j] = es[j]
          \/ /\ j = k + 1 /\ es[j].pcr = Tab /\ Spaced(es, e)[j] = [es[j] EXCEPT !.pcr = Space]
             /\ Unterminated(e)
    <2> SUFFICES ASSUME NEW j \in 1 .. Len(es), Spaced(es, e)[j] # es[j]
                 PROVE  /\ j = k + 1 /\ es[j].pcr = Tab /\ Spaced(es, e)[j] = [es[j] EXCEPT !.pcr = Space]
                        /\ Unterminated(e) OBVIOUS
    <2>1. /\ Unterminated(e) /\ k < Len(es) /\ es[k + 1].pcr = Tab
          /\ Spaced(es, e) = [es EXCEPT ![k + 1] = [es[k + 1] EXCEPT !.pcr = Space]]
      BY DEF Spaced, Unterminated
    <2> HIDE DEF es
    <2> DEFINE x == [es[k + 1] EXCEPT !.pcr = Space]
    <2> HIDE DEF x
    <2>2. Spaced(es, e) = [es EXCEPT ![k + 1] = x] BY <2>1 DEF x
    <2>3. k + 1 \in DOMAIN es /\ j \in DOMAIN es BY <1>1, <2>1
    <2>4. Spaced(es, e)[j] = IF j = k + 1 THEN x ELSE es[j] BY <2>2, <2>3
    <2> QED BY <2>1, <2>4 DEF x
  <1>7. Unterminated(e) => Unterminated(Input.events[k])
    <2>1. e = Input.events[k] \/ Altered(k) BY <1>1, <1>5 DEF Current
    <2>2. Input.events[k] \in Event BY <1>1, LogInput DEF BufferInv, Stopped
    <2>3. Altered(k) => e.type = Input.events[k].type /\ e.data = Input.events[k].data
      <3> DEFINE o == Input.events[k]
      <3>1. o \in Event BY <2>2
      <3>2. Altered(k) => e = [o EXCEPT !.pcr = Space] BY DEF Altered, Current
      <3> HIDE DEF o
      <3>3. [o EXCEPT !.pcr = Space].type = o.type /\ [o EXCEPT !.pcr = Space].data = o.data
        BY <3>1 DEF Event
      <3> QED BY <3>2, <3>3 DEF o
    <2> QED BY <2>1, <2>3 DEF Unterminated
  <1>8. ASSUME NEW j \in 1 .. Len(es) PROVE Spaced(es, e)[j] = Input.events[j] \/ Altered(j)'
    <2>1. CASE Spaced(es, e)[j] = es[j] /\ es[j] = Input.events[j] BY <2>1
    <2>2. CASE Spaced(es, e)[j] = es[j] /\ Altered(j)
      <3>1. j \in 2 .. k' BY <1>1, <2>2 DEF Altered
      <3> QED BY <1>2, <1>4, <2>2, <3>1 DEF Altered
    <2>3. CASE Spaced(es, e)[j] # es[j]
      <3>1. /\ j = k + 1 /\ es[j].pcr = Tab /\ Spaced(es, e)[j] = [es[j] EXCEPT !.pcr = Space]
            /\ Unterminated(e) BY <1>6, <2>3
      <3>2. es[j] = Input.events[j]
        <4>1. j \notin 2 .. k BY <1>1, <3>1
        <4> QED BY <1>5, <4>1, Zenon DEF Altered
      <3>3. j \in 2 .. k' /\ j - 1 = k BY <1>1, <3>1
      <3> QED BY <1>2, <1>4, <1>7, <3>1, <3>2, <3>3 DEF Altered
    <2> QED BY <1>5, <2>1, <2>2, <2>3
  <1>9. \A j \in 1 .. Len(buf'.events) : buf'.events[j] = Input'.events[j] \/ Altered(j)'
    BY <1>2, <1>3, <1>4, <1>8
  <1>10. k' <= Len(buf'.events) + 1 BY <1>1, <1>2, <1>3
  <1> HIDE DEF es, e
  <1>11. Len(buf'.events) = Len(buf.events) BY <1>2, <1>3 DEF es
  <1> QED BY <1>2, <1>4, <1>9, <1>10, <1>11 DEF BufferInv, Stopped, OutputLabel

LEMMA StageHeader == ASSUME TypeInv, StageInv, BufferInv, ParseHeader PROVE StageInv' /\ BufferInv'
  <1>1. pc = "event" /\ pc \notin OutputLabel /\ ~Stopped /\ k \in Nat
    BY DEF ParseHeader, OutputLabel, Stopped, TypeInv, TypeOK
  <1>2. CASE Fail BY <1>1, <1>2, StageFail
  <1>3. CASE ~Fail
    <2>1. pc' = "digest" /\ UNCHANGED <<input, buf, k, out, ret>> /\ k <= Len(buf.events)
      BY <1>3 DEF ParseHeader
    <2> QED BY <1>1, <2>1, LogBuffer, StageKept, BufferKept DEF OutputLabel, BufferInv
  <1> QED BY <1>2, <1>3

LEMMA StageDigest == ASSUME TypeInv, StageInv, BufferInv, ParseDigest PROVE StageInv' /\ BufferInv'
  <1>1. pc = "digest" /\ pc \notin OutputLabel /\ ~Stopped /\ k \in Nat
    BY DEF ParseDigest, OutputLabel, Stopped, TypeInv, TypeOK
  <1>2. CASE Fail BY <1>1, <1>2, StageFail
  <1>3. CASE ~Fail
    <2>1. UNCHANGED <<input, pc, buf, k, ret>> BY <1>3 DEF ParseDigest
    <2>2. BufferInv' BY <1>1, <2>1, LogBuffer, BufferKept DEF OutputLabel, BufferInv
    <2>3. out' = out \/ \E b : out' = out \o Noise(b) BY <1>3 DEF ParseDigest
    <2>4. OnlyNoise /\ OnlyNoise'
      <3>1. OnlyNoise BY <1>1 DEF StageInv
      <3> QED BY <2>3, <3>1, NoiseKept DEF TypeInv, OnlyNoise
    <2>5. NoAggregate' BY <2>4 DEF OnlyNoise, NoAggregate
    <2>6. argv' = argv /\ fs' = fs BY <2>1 DEF input
    <2> QED BY <1>1, <2>1, <2>2, <2>4, <2>5, <2>6 DEF StageInv, OutputLabel, Stopped
  <1> QED BY <1>2, <1>3

LEMMA StageBody == ASSUME TypeInv, StageInv, BufferInv, ParseBody PROVE StageInv' /\ BufferInv'
  <1>1. pc = "digest" /\ pc \notin OutputLabel /\ ~Stopped
    BY DEF ParseBody, OutputLabel, Stopped
  <1>2. CASE Fail BY <1>1, <1>2, StageFail
  <1>3. CASE ~Fail
    <2>1. /\ pc' = "event" /\ UNCHANGED <<input, out, ret>> /\ k' = k + 1
          /\ buf' = [buf EXCEPT !.events = Spaced(@, Current)] BY <1>3 DEF ParseBody
    <2>2. k <= Len(buf.events) BY <1>1 DEF BufferInv
    <2>3. StageInv' BY <1>1, <2>1, StageKept DEF OutputLabel
    <2>4. BufferInv' BY <1>1, <2>1, <2>2, BufferSpaced, Zenon
    <2> QED BY <2>3, <2>4
  <1> QED BY <1>2, <1>3

LEMMA StageLegacy == ASSUME TypeInv, StageInv, BufferInv, ParseLegacyEvent PROVE StageInv' /\ BufferInv'
  <1>1. pc = "legacy" /\ pc \notin OutputLabel /\ ~Stopped
    BY DEF ParseLegacyEvent, OutputLabel, Stopped
  <1>2. CASE Fail BY <1>1, <1>2, StageFail
  <1>3. CASE ~Fail
    <2>1. /\ pc' = pc /\ UNCHANGED <<input, out, ret>> /\ k' = k + 1 /\ k <= Len(buf.events)
          /\ buf' = [buf EXCEPT !.events = Spaced(@, Current)] BY <1>3 DEF ParseLegacyEvent
    <2>2. pc' = IF pc = "digest" THEN "event" ELSE "legacy" BY <1>1, <2>1
    <2>3. StageInv' BY <1>1, <2>1, StageKept DEF OutputLabel
    <2>4. BufferInv' BY <1>1, <2>1, <2>2, BufferSpaced, Zenon
    <2> QED BY <2>3, <2>4
  <1> QED BY <1>2, <1>3

LEMMA OneOrTwo ==
  ASSUME NEW x, NEW y
  PROVE  /\ DOMAIN <<x>> = {1} /\ <<x>>[1] = x /\ Len(<<x>>) = 1 /\ <<x>> # <<>>
         /\ DOMAIN <<x, y>> = {1, 2} /\ <<x, y>>[1] = x /\ <<x, y>>[2] = y /\ Len(<<x, y>>) = 2
         /\ DOMAIN <<>> = {} /\ Len(<<>>) = 0 OBVIOUS

LEMMA PairInSeq == ASSUME NEW T, NEW x \in T, NEW y \in T PROVE <<x, y>> \in Seq(T)
  OBVIOUS

LEMMA ConcatTwice ==
  ASSUME NEW T, NEW a \in Seq(T), NEW b \in Seq(T), NEW c \in Seq(T)
  PROVE  (a \o b) \o c = a \o (b \o c) OBVIOUS

LEMMA StageAppends ==
  ASSUME TypeInv, StageInv, NEW ts \in Seq(Tokens), \A j \in DOMAIN ts : ts[j].t # "aggregate",
         out' = out \o ts, UNCHANGED <<input, ret>>, pc \in OutputLabel, pc' \in OutputLabel
  PROVE  StageInv'
  <1>1. \A j \in DOMAIN (out \o ts) : (\E l \in DOMAIN out : (out \o ts)[j] = out[l]) \/ \E l \in DOMAIN ts : (out \o ts)[j] = ts[l]
    BY ConcatElements DEF TypeInv
  <1>2. ret = 1 /\ NoAggregate BY DEF StageInv, OutputLabel
  <1>3. NoAggregate' BY <1>1, <1>2, Zenon DEF NoAggregate
  <1>4. argv' = argv /\ fs' = fs BY DEF input
  <1>5. pc' \notin {"parse", "read", "head", "exited", "crashed"} /\ pc \notin {"parse", "exited", "crashed"}
    BY DEF OutputLabel
  <1>6. ret' = 1 /\ argv' = <<>> /\ \E s \in Scenarios : fs' = s.fs
    BY <1>2, <1>4, <1>5, Zenon DEF StageInv
  <1>7. ret' # -1 BY <1>6
  <1> QED BY <1>3, <1>5, <1>6, <1>7, Zenon DEF StageInv

LEMMA StageStops ==
  ASSUME StageInv, pc' \in {"exited", "crashed"}, UNCHANGED <<input, out>>, pc # "exited",
         ret' = ret, pc' = "crashed"
  PROVE  StageInv' /\ BufferInv'
  <1>1. ret = 1 /\ NoAggregate /\ NoAggregate' /\ fs' = fs
    BY DEF StageInv, NoAggregate, input
  <1>2. /\ pc' \notin {"parse", "read", "head", "event", "digest", "legacy"} /\ pc' \notin OutputLabel
        /\ Stopped' /\ ret' = 1 /\ ret' # -1 BY <1>1 DEF OutputLabel, Stopped
  <1>3. \E s \in Scenarios : fs' = s.fs BY <1>1 DEF StageInv
  <1>4. StageInv' BY <1>1, <1>2, <1>3 DEF StageInv
  <1>5. BufferInv' BY <1>2 DEF BufferInv
  <1> QED BY <1>4, <1>5

LEMMA TextTokens ==
  ASSUME NEW ts \in Seq(TextToken)
  PROVE  ts \in Seq(Tokens) /\ \A j \in DOMAIN ts : ts[j].t \notin {"aggregate", "pcr", "noise"}
  <1>1. \A x \in TextToken : x \in Tokens /\ x.t \notin {"aggregate", "pcr", "noise"}
    <2>1. \A x \in TextToken : x.t \notin {"aggregate", "pcr", "noise"} BY DEF TextToken
    <2> QED BY <2>1, TextIsOutput
  <1> DEFINE T == TextToken
             U == Tokens
  <1>2. T \subseteq U /\ ts \in Seq(T) BY <1>1
  <1> HIDE DEF T, U
  <1>3. ts \in Seq(U) /\ \A j \in DOMAIN ts : ts[j] \in T BY <1>2
  <1> QED BY <1>1, <1>3, Zenon DEF T, U

LEMMA StageEmit ==
  ASSUME TypeInv, StageInv, BufferInv, NEW ts, NEW l \in OutputLabel, Emit(ts, l), pc \in OutputLabel,
         ts = <<>> \/ \E t \in {"[", "]", ","} : ts = Punctuation(t)
  PROVE  StageInv' /\ BufferInv'
  <1>1. ts \in Seq(Tokens) /\ \A j \in DOMAIN ts : ts[j].t # "aggregate"
    <2>1. CASE ts = <<>> BY <2>1
    <2>2. ASSUME NEW t \in {"[", "]", ","}, ts = Punctuation(t) PROVE ts \in Seq(Tokens) /\ \A j \in DOMAIN ts : ts[j].t # "aggregate"
      <3>1. Punctuation(t) = <<>> \/ Punctuation(t) = <<Token(t, 0, 0, FALSE)>>
        BY PunctuationType
      <3>2. Token(t, 0, 0, FALSE).t # "aggregate" BY DEF Token
      <3> DEFINE x == Token(t, 0, 0, FALSE)
      <3> HIDE DEF x
      <3>3. DOMAIN <<x>> = {1} /\ <<x>>[1] = x /\ \A j \in DOMAIN <<>> : FALSE
        BY OneOrTwo, Zenon
      <3>4. \A j \in DOMAIN ts : ts[j].t # "aggregate"
        <4>1. CASE ts = <<>> BY <3>3, <4>1
        <4>2. CASE ts = <<x>> BY <3>2, <3>3, <4>2 DEF x
        <4> QED BY <2>2, <3>1, <4>1, <4>2 DEF x
      <3> QED BY <2>2, <3>4, PunctuationType
    <2> QED BY <2>1, <2>2
  <1>2. out' = out \o ts /\ UNCHANGED <<input, ret, buf>> /\ pc' = l /\ k' = 1
    BY DEF Emit, Goto
  <1>3. StageInv' BY <1>1, <1>2, StageAppends
  <1>4. BufferInv' BY <1>2, BufferKept DEF BufferInv, OutputLabel, Stopped
  <1> QED BY <1>3, <1>4

LEMMA StageOutput == ASSUME TypeInv, StageInv, BufferInv, Output PROVE StageInv' /\ BufferInv'
  <1>0. pc \in OutputLabel
    BY DEF Output, OpenLog, PrintLog, LogDone, OpenSummary, PrintRegister, SummaryDone, PrintAggregate, OutputLabel
  <1>1. CASE OpenLog \/ LogDone \/ OpenSummary \/ SummaryDone
    <2>1. \E l \in OutputLabel : \E ts :
            /\ Emit(ts, l)
            /\ ts = <<>> \/ \E t \in {"[", "]", ","} : ts = Punctuation(t)
      BY <1>1 DEF OpenLog, LogDone, OpenSummary, SummaryDone, OutputLabel
    <2> QED BY <1>0, <2>1, StageEmit, Zenon
  <1>2. CASE PrintLog
    <2> DEFINE n == Printed(k)
               ts == IF LastLog(k) THEN Clipped(text[n]) ELSE text[n]
    <2>1. k \in 1 .. Len(opts.pcrs) /\ n \in Pcr
      <3>1. k \in Nat \ {0} /\ k <= Len(opts.pcrs) BY <1>2 DEF PrintLog, TypeInv, TypeOK
      <3>2. Len(opts.pcrs) \in Nat BY OptionsType DEF TypeInv, TypeOK, OptionsAre
      <3> QED BY <3>1, <3>2, PrintedIs
    <2>2. UNCHANGED <<input, ret, buf, pc>> /\ k' = k + 1 BY <1>2 DEF PrintLog
    <2>3. \E u \in Seq(TextToken) : out' = out \o u
      <3>1. CASE text[n] = <<>>
        <4>1. out' = out /\ out \in Seq(Tokens) BY <1>2, <3>1 DEF PrintLog, TypeInv
        <4>2. out' = out \o <<>> /\ <<>> \in Seq(TextToken) BY <4>1, ConcatEmpty, SeqOfOne
        <4> QED BY <4>2, Zenon
      <3>2. CASE text[n] # <<>>
        <4>1. out' = out \o ts BY <1>2, <3>2 DEF PrintLog
        <4>2. ts \in Seq(TextToken) BY <2>1, <3>2, ClippedType DEF TypeInv, TypeOK
        <4> QED BY <4>1, <4>2, Zenon
      <3> QED BY <3>1, <3>2
    <2>4. StageInv'
      <3>1. PICK u \in Seq(TextToken) : out' = out \o u BY <2>3
      <3>2. u \in Seq(Tokens) /\ \A j \in DOMAIN u : u[j].t # "aggregate" BY TextTokens
      <3> QED BY <1>0, <2>2, <3>1, <3>2, StageAppends
    <2>5. BufferInv'
      <3>2. k \in Nat /\ k' = k + 1 BY <2>2 DEF TypeInv, TypeOK
      <3>3. ~Stopped BY <1>0 DEF OutputLabel, Stopped
      <3>1. k' \in Nat /\ ~Stopped BY <3>2, <3>3
      <3> QED BY <1>0, <2>2, <3>1, BufferKept DEF BufferInv, OutputLabel, Stopped
    <2> QED BY <2>4, <2>5
  <1>3. CASE PrintRegister
    <2> DEFINE x == Token("pcr", Printed(k), calc[Printed(k)], FALSE)
               u == IF k < Len(opts.pcrs) THEN Punctuation(",") ELSE <<>>
               y == Token(",", 0, 0, FALSE)
    <2>1. k \in 1 .. Len(opts.pcrs)
      <3>1. k \in Nat \ {0} /\ k <= Len(opts.pcrs)
        BY <1>3 DEF PrintRegister, TypeInv, TypeOK
      <3>2. Len(opts.pcrs) \in Nat BY OptionsType DEF TypeInv, TypeOK, OptionsAre
      <3> QED BY <3>1, <3>2
    <2>2. out' = out \o <<x>> \o u /\ k' = k + 1 /\ UNCHANGED <<input, pc, buf, ret>>
      BY <1>3 DEF PrintRegister
    <2>3. x \in Tokens /\ y \in Tokens /\ out \in Seq(Tokens) /\ (u = <<>> \/ u = <<y>>)
      BY <2>1, RegisterTokenType, PunctuationType DEF TypeInv, Token, Tokens, TokenType, AnyValue
    <2>4. x.t # "aggregate" /\ y.t # "aggregate" BY DEF Token
    <2> HIDE DEF x, u, y
    <2>5. /\ <<x>> \o u \in Seq(Tokens) /\ (out \o <<x>>) \o u = out \o (<<x>> \o u)
          /\ \A j \in DOMAIN (<<x>> \o u) : (<<x>> \o u)[j] \in {x, y}
      <3> DEFINE T == Tokens
      <3>1. x \in T /\ y \in T /\ out \in Seq(T) /\ (u = <<>> \/ u = <<y>>) BY <2>3
      <3> HIDE DEF T
      <3>2. <<x>> \in Seq(T) /\ u \in Seq(T) BY <3>1, SeqOfOne
      <3>3. (out \o <<x>>) \o u = out \o (<<x>> \o u) /\ <<x>> \o u \in Seq(T)
        BY <3>1, <3>2, ConcatTwice, ConcatElements
      <3>4. <<x>> \o u = <<x>> \/ <<x>> \o u = <<x, y>> BY <3>1, ShortSequences
      <3>5. \A j \in DOMAIN (<<x>> \o u) : (<<x>> \o u)[j] \in {x, y}
        <4> DEFINE w == <<x>> \o u
        <4>1. /\ \A j \in DOMAIN <<x>> : <<x>>[j] \in {x, y}
              /\ \A j \in DOMAIN <<x, y>> : <<x, y>>[j] \in {x, y} BY OneOrTwo
        <4>2. w = <<x>> \/ w = <<x, y>> BY <3>4
        <4> HIDE DEF w
        <4>3. \A j \in DOMAIN w : w[j] \in {x, y} BY <4>1, <4>2
        <4> QED BY <4>3 DEF w
      <3> QED BY <3>3, <3>5 DEF T
    <2>6. \A j \in DOMAIN (<<x>> \o u) : (<<x>> \o u)[j].t # "aggregate" BY <2>4, <2>5
    <2>7. StageInv' BY <1>0, <2>2, <2>5, <2>6, StageAppends
    <2>8. BufferInv'
      <3>2. k \in Nat /\ k' = k + 1 BY <2>2 DEF TypeInv, TypeOK
      <3>3. ~Stopped BY <1>0 DEF OutputLabel, Stopped
      <3>1. k' \in Nat /\ ~Stopped BY <3>2, <3>3
      <3> QED BY <1>0, <2>2, <3>1, BufferKept DEF BufferInv, OutputLabel, Stopped
    <2> QED BY <2>7, <2>8
  <1>4. CASE PrintAggregate
    <2>1. pc' = "exited" /\ ret' = 0 /\ fs' = fs BY <1>4 DEF PrintAggregate, input
    <2>2. /\ pc' \notin {"parse", "read", "head", "event", "digest", "legacy"} /\ pc' \notin OutputLabel
          /\ Stopped' /\ ret' # -1 BY <2>1 DEF OutputLabel, Stopped
    <2>3. \E s \in Scenarios : fs' = s.fs BY <2>1 DEF StageInv
    <2>4. StageInv' BY <2>1, <2>2, <2>3 DEF StageInv
    <2>5. BufferInv' BY <2>2 DEF BufferInv
    <2> QED BY <2>4, <2>5
  <1> QED BY <1>1, <1>2, <1>3, <1>4 DEF Output

LEMMA StageNext ==
  ASSUME TypeInv, StageInv, BufferInv, [Next]_vars
  PROVE  StageInv' /\ BufferInv'
  <1>1. CASE OutOfMemory
    <2>1. pc' = "crashed" /\ UNCHANGED <<input, out, ret>> /\ pc # "exited"
      BY <1>1 DEF OutOfMemory
    <2> QED BY <2>1, StageStops
  <1>2. CASE UNCHANGED vars
    <2>1. UNCHANGED <<input, buf, replay, k, d, text, out, pc, ret>>
      BY <1>2 DEF vars, input, replay
    <2>2. Input' = Input /\ ReadFails' = ReadFails /\ argv' = argv /\ fs' = fs
      BY <2>1, InputStays
    <2>3. (\A j : Altered(j)' <=> Altered(j)) /\ (OnlyNoise' <=> OnlyNoise) /\ (NoAggregate' <=> NoAggregate)
          /\ (Untouched' <=> Untouched) /\ (Stopped' <=> Stopped)
      BY <2>1, <2>2 DEF Altered, OnlyNoise, NoAggregate, Untouched, Stopped, replay
    <2>4. StageInv' BY <2>1, <2>2, <2>3, Zenon DEF StageInv
    <2>5. BufferInv' BY <2>1, <2>2, <2>3, Zenon DEF BufferInv
    <2> QED BY <2>4, <2>5
  <1>3. CASE BadHead \/ IncompleteEvent \/ IncompleteLegacyEvent
    <2>1. Fail /\ pc \notin OutputLabel /\ ~Stopped
      BY <1>3 DEF BadHead, IncompleteEvent, IncompleteLegacyEvent, OutputLabel, Stopped
    <2> QED BY <2>1, StageFail
  <1>4. CASE ParseEventsDone
    <2>1. pc' = "open log" /\ k' = 1 /\ UNCHANGED <<input, buf, out, ret>> /\ pc \in {"event", "legacy"}
      BY <1>4 DEF ParseEventsDone, Goto
    <2>2. StageInv' BY <2>1, StageKept DEF OutputLabel, Stopped
    <2>3. BufferInv' BY <2>1, BufferKept DEF BufferInv, OutputLabel, Stopped
    <2> QED BY <2>2, <2>3
  <1> QED BY <1>1, <1>2, <1>3, <1>4, StageParse, StageRead, StageHead, StageHeader, StageDigest, StageBody, StageLegacy,
             StageOutput DEF Next, ParseLog, Terminated

\* The events of a log of the SHA-1 format have their digest.
LEMMA LegacyHasDigest == ASSUME TypeInv, StageInv, BufferInv PROVE OneDigest
  <1> SUFFICES ASSUME pc = "legacy", NEW j \in 1 .. Len(buf.events) PROVE buf.events[j].digests # <<>>
    BY DEF OneDigest
  <1>1. buf.head = "sha1" /\ Input.head = "sha1" /\ j \in 1 .. Len(Input.events)
    <2>1. buf.head = "sha1" /\ Input.head = "sha1" /\ Len(buf.events) <= Len(Input.events)
      BY DEF BufferInv, Stopped
    <2>2. Len(buf.events) \in Nat /\ Len(Input.events) \in Nat BY LogBuffer, LogInput
    <2> QED BY <2>1, <2>2
  <1>2. Input.events[j].digests # <<>>
    <2>1. PICK s \in Scenarios : fs = s.fs BY DEF StageInv
    <2>2. Input = fs[InputPath] /\ fs[InputPath] # Absent BY <1>1 DEF Input, EmptyLog
    <2>3. InputPath \in Path BY OptionsType DEF InputPath, Path, TypeInv, TypeOK, OptionsAre
    <2>4. \A p \in Path : s.fs[p] # Absent /\ s.fs[p].head = "sha1" =>
            \A i \in DOMAIN s.fs[p].events : \E v \in Value : s.fs[p].events[i].digests = <<<<"sha1", v>>>>
      BY InputAssumption
    <2>5. j \in DOMAIN Input.events BY <1>1, LogInput
    <2>6. \E v \in Value : Input.events[j].digests = <<<<"sha1", v>>>>
      BY <1>1, <2>1, <2>2, <2>3, <2>4, <2>5, Zenon
    <2> QED BY <2>6
  <1>3. CASE buf.events[j] = Input.events[j] BY <1>2, <1>3
  <1>4. CASE Altered(j)
    <2>1. Input.events[j] \in Event /\ buf.events[j] = [Input.events[j] EXCEPT !.pcr = Space]
      BY <1>1, <1>4, LogInput DEF Altered
    <2> DEFINE o == Input.events[j]
    <2> HIDE DEF o
    <2>2. o \in Event => [o EXCEPT !.pcr = Space].digests = o.digests BY DEF Event
    <2> QED BY <1>2, <2>1, <2>2 DEF o
  <1> QED BY <1>3, <1>4 DEF BufferInv

-----------------------------------------------------------------------------
(* What a log is refused for *)

Reason == \E j \in DOMAIN Input.events : Malformed(Input.events[j]) \/ Unterminated(Input.events[j])

LEMMA RefusedEvent ==
  ASSUME TypeInv, StageInv, BufferInv, pc \in {"event", "digest", "legacy"}, k <= Len(buf.events),
         Malformed(Current)
  PROVE  Reason
  <1>1. k \in 1 .. Len(buf.events) /\ k \in DOMAIN Input.events
    <2>1. Len(buf.events) <= Len(Input.events) BY DEF BufferInv, Stopped
    <2>2. DOMAIN Input.events = 1 .. Len(Input.events) /\ Len(Input.events) \in Nat
      BY LogInput, SeqIsFunction, Zenon
    <2>3. k \in Nat \ {0} /\ Len(buf.events) \in Nat BY LogBuffer DEF TypeInv, TypeOK
    <2> QED BY <2>1, <2>2, <2>3
  <1>2. CASE Current = Input.events[k] BY <1>1, <1>2, Zenon DEF Reason
  <1>3. CASE Altered(k)
    <2>1. k \in 2 .. k /\ Unterminated(Input.events[k - 1]) BY <1>3 DEF Altered
    <2>2. k - 1 \in DOMAIN Input.events
      <3>1. DOMAIN Input.events = 1 .. Len(Input.events) /\ Len(Input.events) \in Nat
        BY LogInput, SeqIsFunction, Zenon
      <3> QED BY <1>1, <2>1, <3>1
    <2> QED BY <2>1, <2>2, Zenon DEF Reason
  <1> QED BY <1>1, <1>2, <1>3, Zenon DEF BufferInv, Current

Refusable == argv = <<>> /\ opts.pcrs # <<>> /\ Complete /\ faults = {}

LEMMA RejectInit == Init => RejectsOnlyMalformed
  <1> SUFFICES ASSUME Init PROVE RejectsOnlyMalformed OBVIOUS
  <1>1. ret = 1 BY Zenon DEF Init
  <1> QED BY <1>1 DEF RejectsOnlyMalformed

LEMMA RejectFail ==
  ASSUME TypeInv, StageInv, BufferInv, RejectsOnlyMalformed, Fail, Next, Refusable
  PROVE  Reason
  <1>1. ret' = -1 /\ pc' = "exited" /\ UNCHANGED <<input, k, d>> BY DEF Fail
  <1>2. ~ReadFails BY DEF Refusable, ReadFails
  <1>3. CASE Parse
    <2>1. argv' = <<>> BY <1>1 DEF input, Refusable
    <2>2. pc = "parse" /\ argv = <<>> /\ ParseEnd
      BY <1>3 DEF Parse, ParseFlag, ParseFormat, ParsePcrs, ParseIn, ParseInvalid, ParseEnd, Parsing, Refusable
    <2> QED BY <1>1, <2>2 DEF ParseEnd, Refusable, Goto
  <1>4. CASE ReadLog
    <2>1. fs[opts.path] = Absent BY <1>1, <1>4 DEF ReadLog, Goto
    <2>2. Input = EmptyLog BY <2>1, LogInput DEF Input, Refusable
    <2> QED BY <2>2 DEF Refusable, Complete, EmptyLog
  <1>5. CASE ReadHead \/ BadHead
    <2>1. buf.head \in {"tiny", "bad specid"} /\ pc = "head"
      BY <1>1, <1>5 DEF ReadHead, BadHead, Goto
    <2>2. buf.head = Input.head BY <1>2, <2>1 DEF BufferInv, Stopped
    <2> QED BY <2>1, <2>2 DEF Refusable, Complete
  <1>6. CASE IncompleteEvent \/ IncompleteLegacyEvent
    <2>1. buf.cut /\ pc \in {"event", "legacy"}
      BY <1>6 DEF IncompleteEvent, IncompleteLegacyEvent
    <2>2. buf.cut = Input.cut BY <1>2, <2>1 DEF BufferInv, Stopped
    <2> QED BY <2>1, <2>2, Zenon DEF Refusable, Complete
  <1>7. CASE ParseHeader
    <2>1. pc = "event" /\ k <= Len(buf.events) /\ ~HeaderFits(Current)
      BY <1>1, <1>7 DEF ParseHeader
    <2>2. Current \in Event BY <2>1, CurrentIs
    <2>3. Malformed(Current)
      <3>1. Current.pcr \in Nat /\ MaxTpmPcrs \in Nat BY <2>2, EventIs, SizesAssumption
      <3> DEFINE e == Current
      <3> HIDE DEF e
      <3>3. ~(e.pcr < MaxTpmPcrs) \/ (e.type = "no action" /\ e.pcr = 0 /\ e.digests = <<>> /\ e.data = "empty")
        BY <2>1, Zenon DEF HeaderFits, e
      <3>4. ~(e.pcr < MaxTpmPcrs) => e.pcr >= MaxTpmPcrs BY <3>1 DEF e
      <3>2. e.pcr >= MaxTpmPcrs \/ (e.type = "no action" /\ e.pcr = 0 /\ e.digests = <<>> /\ e.data = "empty")
        BY <3>3, <3>4
      <3> QED BY <3>2 DEF Malformed, e
    <2> QED BY <2>1, <2>3, RefusedEvent
  <1>8. CASE ParseDigest
    <2>1. pc = "digest" /\ k <= Len(buf.events) BY <1>8 DEF ParseDigest, BufferInv
    <2>2. d <= Len(Current.digests) /\ Current.pcr >= MaxPcrs
      BY <1>1, <1>8, <2>1 DEF ParseDigest
    <2>3. Current.digests # <<>> BY <2>2 DEF TypeInv, TypeOK
    <2>4. Malformed(Current) BY <2>2, <2>3 DEF Malformed
    <2> QED BY <2>1, <2>4, RefusedEvent
  <1>9. CASE ParseBody
    <2>1. pc = "digest" /\ k <= Len(buf.events) BY <1>9 DEF ParseBody, BufferInv
    <2>2. ~BodyFits(Current) BY <1>1, <1>9, <2>1 DEF ParseBody
    <2>3. Malformed(Current) BY <2>2, Zenon DEF Malformed
    <2> QED BY <2>1, <2>3, RefusedEvent
  <1>10. CASE ParseLegacyEvent
    <2>1. pc = "legacy" /\ k <= Len(buf.events) /\ ~BodyFits(Current)
      BY <1>1, <1>10 DEF ParseLegacyEvent
    <2>2. Malformed(Current) BY <2>1, Zenon DEF Malformed
    <2> QED BY <2>1, <2>2, RefusedEvent
  <1>11. CASE ParseEventsDone \/ OutOfMemory
    BY <1>1, <1>11 DEF ParseEventsDone, Goto, OutOfMemory
  <1>12. CASE Output \/ Terminated
    <2>1. CASE Terminated
      BY <1>1, <2>1 DEF Terminated, vars, StageInv, RejectsOnlyMalformed, Refusable, Reason
    <2>2. CASE OpenLog \/ LogDone \/ OpenSummary \/ SummaryDone
      <3>1. pc' \in OutputLabel
        BY <2>2 DEF OpenLog, LogDone, OpenSummary, SummaryDone, Emit, Goto, OutputLabel
      <3> QED BY <1>1, <3>1 DEF OutputLabel
    <2>3. CASE PrintLog \/ PrintRegister
      <3>1. pc' = pc /\ pc # "exited" BY <2>3 DEF PrintLog, PrintRegister
      <3> QED BY <1>1, <3>1
    <2>4. CASE PrintAggregate
      <3>1. ret' = 0 BY <2>4 DEF PrintAggregate
      <3> QED BY <1>1, <3>1
    <2> QED BY <1>12, <2>1, <2>2, <2>3, <2>4, Zenon DEF Output
  <1> QED BY <1>3, <1>4, <1>5, <1>6, <1>7, <1>8, <1>9, <1>10, <1>11, <1>12, Zenon DEF Next, ParseLog

LEMMA ParsingPlace ==
  /\ ParseLog => pc \in {"read", "head", "event", "digest", "legacy"}
  /\ Output => pc \in OutputLabel
  /\ Parse => pc = "parse"
  <1>1. ASSUME ReadLog \/ ReadHead \/ BadHead PROVE pc \in {"read", "head"}
    BY <1>1 DEF ReadLog, ReadHead, BadHead
  <1>2. ASSUME ParseHeader \/ ParseDigest \/ ParseBody PROVE pc \in {"event", "digest"}
    BY <1>2 DEF ParseHeader, ParseDigest, ParseBody
  <1>3. ASSUME ParseLegacyEvent \/ IncompleteEvent \/ IncompleteLegacyEvent \/ ParseEventsDone
        PROVE  pc \in {"event", "legacy"}
    BY <1>3 DEF ParseLegacyEvent, IncompleteEvent, IncompleteLegacyEvent, ParseEventsDone
  <1>4. Output => pc \in OutputLabel
    BY DEF Output, OpenLog, PrintLog, LogDone, OpenSummary, PrintRegister, SummaryDone, PrintAggregate, OutputLabel
  <1>5. Parse => pc = "parse"
    BY DEF Parse, ParseFlag, ParseFormat, ParsePcrs, ParseIn, ParseInvalid, ParseEnd, Parsing
  <1> QED BY <1>1, <1>2, <1>3, <1>4, <1>5 DEF ParseLog

LEMMA ParseLogStatus == ParseLog => Fail \/ (UNCHANGED <<input, ret>> /\ pc' # "exited")
  <1>1. ReadLog => Fail \/ (UNCHANGED <<input, ret>> /\ pc' # "exited")
    <2> SUFFICES ASSUME ReadLog, ~Fail PROVE UNCHANGED <<input, ret>> /\ pc' # "exited"
      OBVIOUS
    <2>1. Goto("head") /\ UNCHANGED <<input, replay, text, out, ret>> BY Zenon DEF ReadLog
    <2> QED BY <2>1 DEF Goto
  <1>2. ReadHead \/ BadHead \/ IncompleteEvent \/ IncompleteLegacyEvent \/ ParseEventsDone
           => Fail \/ (UNCHANGED <<input, ret>> /\ pc' # "exited")
    BY DEF ReadHead, BadHead, IncompleteEvent, IncompleteLegacyEvent, ParseEventsDone, SpecidCallback, Goto
  <1>3. ParseHeader => Fail \/ (UNCHANGED <<input, ret>> /\ pc' # "exited")
    BY DEF ParseHeader
  <1>4. ParseDigest => Fail \/ (UNCHANGED <<input, ret>> /\ pc' # "exited")
    BY DEF ParseDigest
  <1>5. ParseBody => Fail \/ (UNCHANGED <<input, ret>> /\ pc' # "exited") BY DEF ParseBody
  <1>6. ParseLegacyEvent => Fail \/ (UNCHANGED <<input, ret>> /\ pc' # "exited")
    BY DEF ParseLegacyEvent
  <1> QED BY <1>1, <1>2, <1>3, <1>4, <1>5, <1>6, Zenon DEF ParseLog

LEMMA RejectNext ==
  ASSUME TypeInv, StageInv, BufferInv, RejectsOnlyMalformed, [Next]_vars
  PROVE  RejectsOnlyMalformed'
  <1> SUFFICES ASSUME ret' = -1, Refusable' PROVE Reason'
    BY DEF RejectsOnlyMalformed, Refusable, Reason
  <1>1. CASE Fail /\ Next
    <2>1. UNCHANGED input BY <1>1 DEF Fail
    <2>2. Input' = Input /\ Refusable BY <2>1, InputStays DEF Refusable, Complete
    <2>3. Reason BY <1>1, <2>2, RejectFail, Zenon
    <2> QED BY <2>2, <2>3 DEF Reason
  <1>2. CASE UNCHANGED vars
    <2>1. UNCHANGED <<input, ret>> BY <1>2 DEF vars, input
    <2>2. Input' = Input /\ Refusable BY <2>1, InputStays DEF Refusable, Complete
    <2>3. Reason BY <2>1, <2>2 DEF RejectsOnlyMalformed, Refusable, Reason
    <2> QED BY <2>2, <2>3 DEF Reason
  <1>3. CASE ~Fail /\ Next /\ ret' # ret
    <2>1. ~Parse
      BY <1>3 DEF Parse, ParseFlag, ParseFormat, ParsePcrs, ParseIn, ParseInvalid, ParseEnd, Parsed
    <2>2. ~ParseLog BY <1>3, ParseLogStatus
    <2>3. ~OutOfMemory /\ ~Terminated BY <1>3 DEF OutOfMemory, Terminated, vars
    <2>4. ~(OpenLog \/ PrintLog \/ LogDone \/ OpenSummary \/ PrintRegister \/ SummaryDone)
      BY <1>3 DEF OpenLog, PrintLog, LogDone, OpenSummary, PrintRegister, SummaryDone, Emit
    <2>5. PrintAggregate BY <1>3, <2>1, <2>2, <2>3, <2>4, Zenon DEF Next, Output
    <2>6. ret' = 0 BY <2>5 DEF PrintAggregate
    <2> QED BY <2>6
  <1>4. CASE Next /\ ret' = ret /\ ~Fail
    <2>1. ret = -1 /\ pc = "exited" BY <1>4 DEF StageInv
    <2>2. ~Parse
      BY <2>1 DEF Parse, ParseFlag, ParseFormat, ParsePcrs, ParseIn, ParseInvalid, ParseEnd, Parsing
    <2>3. ~ParseLog
      <3>1. ParseLog => pc \in {"read", "head", "event", "digest", "legacy"} BY ParsingPlace
      <3> QED BY <2>1, <3>1
    <2>4. ~OutOfMemory BY <2>1 DEF OutOfMemory
    <2>5. ~Output
      BY <2>1 DEF Output, OpenLog, PrintLog, LogDone, OpenSummary, PrintRegister, SummaryDone, PrintAggregate
    <2>6. Terminated BY <1>4, <2>2, <2>3, <2>4, <2>5, Zenon DEF Next
    <2> QED BY <1>2, <2>6, Zenon DEF Terminated
  <1> QED BY <1>1, <1>2, <1>3, <1>4, Zenon

-----------------------------------------------------------------------------
(* Selected and mapped sequences *)

Kept(s, S) == [j \in DOMAIN s |-> IF s[j] \in S THEN <<s[j]>> ELSE <<>>]

LEMMA KeptType ==
  ASSUME NEW T, NEW s \in Seq(T), NEW S
  PROVE  Kept(s, S) \in Seq(Seq(T \cap S)) /\ Len(Kept(s, S)) = Len(s)
  <1> DEFINE U == Seq(T \cap S)
  <1>1. DOMAIN s = 1 .. Len(s) /\ Len(s) \in Nat /\ \A j \in DOMAIN s : s[j] \in T
    BY SeqIsFunction, Zenon
  <1>2. \A x \in T : x \in S => <<x>> \in U OBVIOUS
  <1>3. <<>> \in U OBVIOUS
  <1> HIDE DEF U
  <1>4. Kept(s, S) \in [1 .. Len(s) -> U] BY <1>1, <1>2, <1>3 DEF Kept
  <1> QED BY <1>1, <1>4, FunctionIsSeq, Zenon DEF U

LEMMA OnlyType ==
  ASSUME NEW T, NEW s \in Seq(T), NEW S
  PROVE  Only(s, S) \in Seq(T \cap S) /\ Only(s, S) \in Seq(T)
  <1>1. Only(s, S) \in Seq(T \cap S) BY KeptType, FlattenType DEF Only, Kept
  <1> DEFINE o == Only(s, S)
  <1> HIDE DEF o
  <1>2. o \in Seq(T \cap S) => o \in Seq(T) OBVIOUS
  <1> QED BY <1>1, <1>2 DEF o

LEMMA OnlyEmpty ==
  ASSUME NEW S
  PROVE  Only(<<>>, S) = <<>>
  <1>1. Kept(<<>>, S) = <<>> BY DEF Kept
  <1> QED BY <1>1 DEF Only, Kept, FlattenSeq

LEMMA OnlyAppend ==
  ASSUME NEW T, NEW s \in Seq(T), NEW x \in T, NEW S
  PROVE  Only(Append(s, x), S) = IF x \in S THEN Append(Only(s, S), x) ELSE Only(s, S)
  <1> DEFINE t == IF x \in S THEN <<x>> ELSE <<>>
             U == T \cap S
  <1>1. t \in Seq(U)
    <2>1. x \in S => <<x>> \in Seq(U)
      <3>1. x \in S => x \in U OBVIOUS
      <3> HIDE DEF U
      <3> QED BY <3>1, SeqOfOne
    <2>2. <<>> \in Seq(U) OBVIOUS
    <2> QED BY <2>1, <2>2, Zenon
  <1>2. Kept(s, S) \in Seq(Seq(U)) /\ Kept(Append(s, x), S) \in Seq(Seq(U))
    BY KeptType, AppendAsConcat
  <1>3. Kept(Append(s, x), S) = Append(Kept(s, S), t)
    <2> DEFINE a == Append(s, x)
               u == Kept(s, S)
               n == Len(s)
    <2>1. /\ n \in Nat /\ DOMAIN s = 1 .. n /\ DOMAIN a = 1 .. n + 1
          /\ a = [h \in 1 .. n + 1 |-> IF h \in 1 .. n THEN s[h] ELSE x]
      BY AppendIsFunction, SeqIsFunction
    <2>2. Append(u, t) = [h \in 1 .. n + 1 |-> IF h \in 1 .. n THEN u[h] ELSE t]
      <3>1. u \in Seq(Seq(U)) /\ Len(u) = n BY KeptType
      <3>2. t \in Seq(U) BY <1>1
      <3> HIDE DEF u, t, U
      <3> QED BY <3>1, <3>2, AppendIsFunction
    <2>3. u = [h \in 1 .. n |-> IF s[h] \in S THEN <<s[h]>> ELSE <<>>] BY <2>1 DEF Kept
    <2>4. Kept(a, S) = [h \in 1 .. n + 1 |-> IF a[h] \in S THEN <<a[h]>> ELSE <<>>]
      BY <2>1 DEF Kept
    <2>5. n + 1 \notin 1 .. n /\ n + 1 \in 1 .. n + 1 /\ \A h \in 1 .. n + 1 : h \in 1 .. n \/ h = n + 1
      BY <2>1
    <2> HIDE DEF a, u, n, t
    <2>6. \A h \in 1 .. n + 1 : (IF a[h] \in S THEN <<a[h]>> ELSE <<>>) = (IF h \in 1 .. n THEN u[h] ELSE t)
      <3> SUFFICES ASSUME NEW h \in 1 .. n + 1
                   PROVE  (IF a[h] \in S THEN <<a[h]>> ELSE <<>>) = (IF h \in 1 .. n THEN u[h] ELSE t)
        OBVIOUS
      <3>1. CASE h \in 1 .. n BY <2>1, <2>3, <3>1
      <3>2. CASE h \notin 1 .. n BY <2>1, <3>2 DEF t
      <3> QED BY <3>1, <3>2
    <2> QED BY <2>2, <2>4, <2>6, Zenon DEF a, u, t
  <1> HIDE DEF U, t
  <1>4. Only(Append(s, x), S) = Only(s, S) \o t
    BY <1>1, <1>2, <1>3, FlattenAppend DEF Only, Kept
  <1>5. Only(s, S) \in Seq(T) BY OnlyType
  <1>6. Only(s, S) \o <<>> = Only(s, S) /\ Append(Only(s, S), x) = Only(s, S) \o <<x>>
    BY <1>5, ConcatEmpty, AppendAsConcat
  <1> QED BY <1>4, <1>6 DEF t

Mapped(s, G) == [j \in DOMAIN s |-> G[s[j]]]

LEMMA MapType ==
  ASSUME NEW T, NEW U, NEW G \in [T -> U], NEW s \in Seq(T)
  PROVE  Mapped(s, G) \in Seq(U) /\ Len(Mapped(s, G)) = Len(s) /\ (s = <<>> => Mapped(s, G) = <<>>)
  <1>1. DOMAIN s = 1 .. Len(s) /\ Len(s) \in Nat /\ \A j \in DOMAIN s : s[j] \in T
    BY SeqIsFunction, Zenon
  <1>2. Mapped(s, G) \in [1 .. Len(s) -> U] BY <1>1 DEF Mapped
  <1>3. Mapped(s, G) \in Seq(U) /\ Len(Mapped(s, G)) = Len(s)
    BY <1>1, <1>2, FunctionIsSeq, Zenon
  <1>4. s = <<>> => Mapped(s, G) = <<>>
    <2>1. s = <<>> => Len(s) = 0 OBVIOUS
    <2> DEFINE m == Mapped(s, G)
    <2> HIDE DEF m
    <2>2. m \in Seq(U) /\ Len(m) = 0 => m = <<>> OBVIOUS
    <2> QED BY <1>3, <2>1, <2>2 DEF m
  <1> QED BY <1>3, <1>4

LEMMA MapAppend ==
  ASSUME NEW T, NEW U, NEW G \in [T -> U], NEW s \in Seq(T), NEW x \in T
  PROVE  Mapped(Append(s, x), G) = Append(Mapped(s, G), G[x])
  <1>0. Mapped(s, G) \in Seq(U) /\ Len(Mapped(s, G)) = Len(s)
    <2>1. DOMAIN s = 1 .. Len(s) /\ Len(s) \in Nat /\ \A j \in DOMAIN s : s[j] \in T
      BY SeqIsFunction, Zenon
    <2>2. Mapped(s, G) \in [1 .. Len(s) -> U] BY <2>1 DEF Mapped
    <2> QED BY <2>1, <2>2, FunctionIsSeq, Zenon
  <1> DEFINE a == Append(s, x)
             u == Mapped(s, G)
             n == Len(s)
  <1>1. /\ n \in Nat /\ DOMAIN s = 1 .. n /\ DOMAIN a = 1 .. n + 1
        /\ a = [h \in 1 .. n + 1 |-> IF h \in 1 .. n THEN s[h] ELSE x]
    BY AppendIsFunction, SeqIsFunction
  <1>2. Append(u, G[x]) = [h \in 1 .. n + 1 |-> IF h \in 1 .. n THEN u[h] ELSE G[x]]
    <2>0. G[x] \in U OBVIOUS
    <2>1. u \in Seq(U) /\ Len(u) = n /\ G[x] \in U BY <1>0, <2>0
    <2> HIDE DEF u
    <2> QED BY <2>1, AppendIsFunction
  <1>3. u = [h \in 1 .. n |-> G[s[h]]] BY <1>1 DEF Mapped
  <1>4. Mapped(a, G) = [h \in 1 .. n + 1 |-> G[a[h]]] BY <1>1 DEF Mapped
  <1> HIDE DEF a, u, n
  <1>5. \A h \in 1 .. n + 1 : G[a[h]] = (IF h \in 1 .. n THEN u[h] ELSE G[x])
    <2> SUFFICES ASSUME NEW h \in 1 .. n + 1 PROVE G[a[h]] = (IF h \in 1 .. n THEN u[h] ELSE G[x])
      OBVIOUS
    <2>1. CASE h \in 1 .. n BY <1>1, <1>3, <2>1
    <2>2. CASE h \notin 1 .. n BY <1>1, <2>2
    <2> QED BY <2>1, <2>2
  <1> QED BY <1>2, <1>4, <1>5, Zenon DEF a, u

-----------------------------------------------------------------------------
(* The measurements of an event and of a log *)

Measurement == Nat \X Digest
Sha256Digest == {"sha256"} \X Value

\* What the digests of s make an event of PCR n measure.
Pairs(n, s) == Mapped(Only(s, Sha256Digest), [v \in Digest |-> <<n, v>>])

\* What the first x digests of e have made it measure.
Taken(e, x) == IF e.type = "no action" THEN <<>> ELSE Pairs(e.pcr, SubSeq(e.digests, 1, x))

\* What measurements have made of register n.
Extends(ms, n) == Mapped(Only(ms, {n} \X Digest), [m \in Measurement |-> <<"extend", m[2]>>])

LEMMA PairsType ==
  ASSUME NEW n \in Nat, NEW s \in Seq(Digest)
  PROVE  /\ Pairs(n, s) \in Seq(Measurement)
         /\ Pairs(n, <<>>) = <<>>
  <1> DEFINE G == [v \in Digest |-> <<n, v>>]
  <1>1. G \in [Digest -> Measurement] BY DEF Measurement
  <1>2. Only(s, Sha256Digest) \in Seq(Digest) /\ Only(<<>>, Sha256Digest) = <<>> /\ <<>> \in Seq(Digest)
    <2>1. \A T : <<>> \in Seq(T) OBVIOUS
    <2> QED BY <2>1, OnlyType, OnlyEmpty, Zenon
  <1> HIDE DEF G
  <1>3. Mapped(Only(s, Sha256Digest), G) \in Seq(Measurement) /\ Mapped(<<>>, G) = <<>>
    BY <1>1, <1>2, MapType, Zenon
  <1> QED BY <1>2, <1>3 DEF Pairs, G

LEMMA PairsAppend ==
  ASSUME NEW n \in Nat, NEW s \in Seq(Digest), NEW x \in Digest
  PROVE  Pairs(n, Append(s, x)) = IF x[1] = "sha256" THEN Append(Pairs(n, s), <<n, x>>) ELSE Pairs(n, s)
  <1> DEFINE G == [v \in Digest |-> <<n, v>>]
             o == Only(s, Sha256Digest)
  <1>1. G \in [Digest -> Measurement] /\ G[x] = <<n, x>> BY DEF Measurement
  <1>2. x \in Sha256Digest <=> x[1] = "sha256" BY DEF Sha256Digest, Digest
  <1>3. Only(Append(s, x), Sha256Digest) = (IF x \in Sha256Digest THEN Append(o, x) ELSE o) /\ o \in Seq(Digest)
    BY OnlyAppend, OnlyType
  <1> HIDE DEF G, o
  <1>4. Mapped(Append(o, x), G) = Append(Mapped(o, G), G[x])
    <2>1. o \in Seq(Digest) /\ G \in [Digest -> Measurement] BY <1>1, <1>3
    <2> QED BY <2>1, MapAppend
  <1> QED BY <1>1, <1>2, <1>3, <1>4 DEF Pairs, G, o

LEMMA ExtendsType ==
  ASSUME NEW ms \in Seq(Measurement), NEW n \in Nat
  PROVE  Extends(ms, n) \in Seq(Change) /\ Extends(<<>>, n) = <<>>
  <1> DEFINE G == [m \in Measurement |-> <<"extend", m[2]>>]
  <1>1. G \in [Measurement -> Change] BY DEF Measurement, Change
  <1>2. Only(ms, {n} \X Digest) \in Seq(Measurement) /\ Only(<<>>, {n} \X Digest) = <<>> /\ <<>> \in Seq(Measurement)
    <2>1. \A T : <<>> \in Seq(T) OBVIOUS
    <2> QED BY <2>1, OnlyType, OnlyEmpty, Zenon
  <1> HIDE DEF G
  <1>3. Mapped(Only(ms, {n} \X Digest), G) \in Seq(Change) /\ Mapped(<<>>, G) = <<>>
    BY <1>1, <1>2, MapType, Zenon
  <1> QED BY <1>2, <1>3 DEF Extends, G

LEMMA ExtendsAppend ==
  ASSUME NEW ms \in Seq(Measurement), NEW n \in Nat, NEW l \in Nat, NEW x \in Digest
  PROVE  Extends(Append(ms, <<l, x>>), n) = IF l = n THEN Append(Extends(ms, n), <<"extend", x>>) ELSE Extends(ms, n)
  <1> DEFINE G == [m \in Measurement |-> <<"extend", m[2]>>]
             m == <<l, x>>
             S == {n} \X Digest
             o == Only(ms, S)
  <1>1. G \in [Measurement -> Change] /\ m \in Measurement /\ G[m] = <<"extend", x>> /\ (m \in S <=> l = n)
    BY DEF Measurement, Change
  <1> HIDE DEF G, m, S
  <1>3. Only(Append(ms, m), S) = (IF m \in S THEN Append(o, m) ELSE o) /\ o \in Seq(Measurement)
    <2>1. Only(Append(ms, m), S) = (IF m \in S THEN Append(Only(ms, S), m) ELSE Only(ms, S))
      BY <1>1, OnlyAppend
    <2>2. Only(ms, S) \in Seq(Measurement) BY OnlyType
    <2> QED BY <2>1, <2>2
  <1> HIDE DEF o
  <1>4. Mapped(Append(o, m), G) = Append(Mapped(o, G), G[m]) BY <1>1, <1>3, MapAppend
  <1> QED BY <1>1, <1>3, <1>4 DEF Extends, G, o, m, S

\* The reference definitions in these terms.
LEMMA MeasurementsFromIs ==
  ASSUME NEW e \in Event
  PROVE  MeasurementsFrom(e, 1) = Taken(e, Len(e.digests)) /\ MeasurementsFrom(e, 1) \in Seq(Measurement)
         /\ Taken(e, 0) = <<>>
  <1> DEFINE s == e.digests
             f == [e EXCEPT !.digests = SubSeq(@, 1, Len(@))]
             rest == Sha256(f)
             G == [v \in Digest |-> <<e.pcr, v>>]
  <1>1. s \in Seq(Digest) /\ e.pcr \in Nat BY EventIs
  <1>2. SubSeq(s, 1, Len(s)) = s /\ SubSeq(s, 1, 0) = <<>> BY <1>1, PrefixEnds
  <1>3. f = e
    <2>1. f = [e EXCEPT !.digests = e.digests] BY <1>2
    <2> QED BY <2>1 DEF Event
  <1>4. MeasurementsFrom(e, 1) = [l \in DOMAIN rest |-> <<e.pcr, rest[l]>>]
    BY DEF MeasurementsFrom
  <1>5. CASE e.type = "no action"
    <2>1. rest = <<>> BY <1>3, <1>5 DEF Sha256
    <2> HIDE DEF rest
    <2>2. MeasurementsFrom(e, 1) = <<>> BY <1>4, <2>1
    <2>3. <<>> \in Seq(Measurement) OBVIOUS
    <2>4. Taken(e, Len(e.digests)) = <<>> /\ Taken(e, 0) = <<>> BY <1>5 DEF Taken
    <2> QED BY <2>2, <2>3, <2>4, Zenon
  <1>6. CASE e.type # "no action"
    <2>1. rest = Only(s, Sha256Digest) /\ rest \in Seq(Digest)
      BY <1>1, <1>3, <1>6, OnlyType DEF Sha256, Sha256Digest
    <2> HIDE DEF rest
    <2>2. \A l \in DOMAIN rest : rest[l] \in Digest BY <2>1, SeqIsFunction
    <2>3. Mapped(rest, G) = [l \in DOMAIN rest |-> <<e.pcr, rest[l]>>] BY <2>2 DEF Mapped
    <2>4. MeasurementsFrom(e, 1) = Pairs(e.pcr, s) BY <1>4, <2>1, <2>3 DEF Pairs
    <2>5. Pairs(e.pcr, s) \in Seq(Measurement) /\ Pairs(e.pcr, <<>>) = <<>>
      BY <1>1, PairsType
    <2> QED BY <1>2, <1>6, <2>4, <2>5 DEF Taken
  <1> QED BY <1>5, <1>6

LEMMA MeasurementsAppend ==
  ASSUME NEW es \in Seq(Event), NEW e \in Event
  PROVE  /\ Measurements(es) \in Seq(Measurement) /\ Measurements(<<>>) = <<>>
         /\ Measurements(Append(es, e)) = Measurements(es) \o MeasurementsFrom(e, 1)
  <1> DEFINE G == [o \in Event |-> MeasurementsFrom(o, 1)]
             U == Seq(Measurement)
  <1>1. G \in [Event -> U] BY MeasurementsFromIs
  <1>2. \A s \in Seq(Event) : Measurements(s) = FlattenSeq(Mapped(s, G))
    <2> SUFFICES ASSUME NEW s \in Seq(Event) PROVE Measurements(s) = FlattenSeq(Mapped(s, G))
      OBVIOUS
    <2>1. \A j \in DOMAIN s : s[j] \in Event BY SeqIsFunction
    <2>2. Mapped(s, G) = [j \in DOMAIN s |-> MeasurementsFrom(s[j], 1)] BY <2>1 DEF Mapped
    <2> QED BY <2>2 DEF Measurements
  <1>3. G[e] = MeasurementsFrom(e, 1) OBVIOUS
  <1> HIDE DEF G, U
  <1>4. Mapped(es, G) \in Seq(U) /\ G[e] \in U /\ Mapped(Append(es, e), G) = Append(Mapped(es, G), G[e])
        /\ Mapped(<<>>, G) = <<>> /\ <<>> \in Seq(Event) /\ Append(es, e) \in Seq(Event)
    <2>1. <<>> \in Seq(Event) /\ Append(es, e) \in Seq(Event) OBVIOUS
    <2>2. G[e] \in U BY <1>1
    <2>3. Mapped(es, G) \in Seq(U) /\ Mapped(<<>>, G) = <<>> BY <1>1, <2>1, MapType, Zenon
    <2>4. Mapped(Append(es, e), G) = Append(Mapped(es, G), G[e]) BY <1>1, MapAppend
    <2> QED BY <2>1, <2>2, <2>3, <2>4
  <1>5. FlattenSeq(<<>>) = <<>> BY DEF FlattenSeq
  <1>6. /\ FlattenSeq(Append(Mapped(es, G), G[e])) = FlattenSeq(Mapped(es, G)) \o G[e]
        /\ FlattenSeq(Mapped(es, G)) \in Seq(Measurement)
    BY <1>4, FlattenAppend, FlattenType DEF U
  <1> QED BY <1>2, <1>3, <1>4, <1>5, <1>6, Zenon

\* The value of a register in these terms.
LEMMA TpmValueIs ==
  ASSUME NEW es \in Seq(Event), NEW n \in Nat
  PROVE  TpmValue(es, n) = (IF n = 0 THEN Start(es) ELSE <<>>) \o Extends(Measurements(es), n)
  <1> DEFINE ms == Measurements(es)
             own == Only(ms, {n} \X Digest)
             G == [m \in Measurement |-> <<"extend", m[2]>>]
  <1>1. ms \in Seq(Measurement)
    <2>1. CASE es = <<>>
      <3>1. Measurements(<<>>) = <<>> BY DEF Measurements, FlattenSeq
      <3>2. <<>> \in Seq(Measurement) OBVIOUS
      <3> QED BY <2>1, <3>1, <3>2
    <2>2. CASE es # <<>>
      <3>1. es[1] \in Event BY <2>2
      <3> QED BY <3>1, MeasurementsAppend
    <2> QED BY <2>1, <2>2
  <1>2. own \in Seq(Measurement) BY <1>1, OnlyType
  <1>3. \A j \in DOMAIN own : own[j] \in Measurement BY <1>2, SeqIsFunction
  <1>4. Mapped(own, G) = [j \in DOMAIN own |-> <<"extend", own[j][2]>>]
    <2> HIDE DEF own
    <2> QED BY <1>3 DEF Mapped
  <1> QED BY <1>4 DEF TpmValue, Extends

-----------------------------------------------------------------------------
(* What the printed log of a PCR replays to *)

LEMMA ReplayedIs ==
  ASSUME NEW ts \in Seq(TextToken), ts # <<>>
  PROVE  Replayed(ts) = (IF ts[1].value = 0 THEN <<>> ELSE <<<<"locality", ts[1].value>>>>)
                          \o Mapped(Only(Tail(ts), DigestToken), [x \in TextToken |-> <<"extend", x.value>>])
  <1> DEFINE T == TextToken
             o == Only(Tail(ts), DigestToken)
             G == [x \in TextToken |-> <<"extend", x.value>>]
  <1>1. o \in Seq(TextToken)
    <2>1. Tail(ts) \in Seq(T)
      <3>1. ts \in Seq(T) OBVIOUS
      <3> HIDE DEF T
      <3> QED BY <3>1
    <2> QED BY <2>1, OnlyType
  <1>2. \A j \in DOMAIN o : o[j] \in TextToken BY <1>1, SeqIsFunction
  <1>3. Mapped(o, G) = [j \in DOMAIN o |-> <<"extend", o[j].value>>]
    <2> HIDE DEF o
    <2> QED BY <1>2 DEF Mapped
  <1>4. Head(ts) = ts[1] OBVIOUS
  <1> QED BY <1>3, <1>4 DEF Replayed

LEMMA StartTextType ==
  ASSUME NEW ts \in Seq(TextToken), ts # <<>>, ts[1].value \in {0, 3, 4}
  PROVE  (IF ts[1].value = 0 THEN <<>> ELSE <<<<"locality", ts[1].value>>>>) \in Seq(Change)
  <1> DEFINE v == ts[1].value
             x == <<"locality", v>>
  <1>1. v # 0 => x \in Change BY DEF Change
  <1> HIDE DEF x, v
  <1>2. v # 0 => <<x>> \in Seq(Change) BY <1>1
  <1> QED BY <1>2, SeqOfOne DEF x, v

LEMMA ReplayMap == [x \in TextToken |-> <<"extend", x.value>>] \in [TextToken -> {"extend"} \X AnyValue]
  <1>1. \A x \in TextToken : x.value \in AnyValue BY DEF TextToken, AnyValue
  <1> QED BY <1>1

LEMMA ReplayedStart ==
  ASSUME NEW x \in TextToken, x.value \in {0, 3, 4}
  PROVE  /\ Replayed(<<x>>) = (IF x.value = 0 THEN <<>> ELSE <<<<"locality", x.value>>>>)
         /\ <<x>> # <<>> /\ <<x>>[1] = x
  <1> DEFINE T == TextToken
  <1>1. <<x>> \in Seq(T) /\ <<x>> # <<>> /\ <<x>>[1] = x /\ Tail(<<x>>) = <<>>
    <2>1. x \in T OBVIOUS
    <2> HIDE DEF T
    <2> QED BY <2>1
  <1> DEFINE G == [y \in TextToken |-> <<"extend", y.value>>]
             s == IF x.value = 0 THEN <<>> ELSE <<<<"locality", x.value>>>>
  <1>2. Mapped(<<>>, G) = <<>>
    <2>1. <<>> \in Seq(TextToken) OBVIOUS
    <2> HIDE DEF G
    <2> QED BY <2>1, ReplayMap, MapType, Zenon DEF G
  <1>3. Replayed(<<x>>) = s \o Mapped(Only(<<>>, DigestToken), G) BY <1>1, ReplayedIs
  <1>4. s \in Seq(Change) BY <1>1, StartTextType
  <1> HIDE DEF s, G
  <1>5. Replayed(<<x>>) = s BY <1>2, <1>3, <1>4, OnlyEmpty, ConcatEmpty
  <1> QED BY <1>1, <1>5 DEF s

LEMMA ReplayedAppend ==
  ASSUME NEW ts \in Seq(TextToken), ts # <<>>, NEW x \in TextToken
  PROVE  /\ Append(ts, x) # <<>> /\ Append(ts, x)[1] = ts[1]
         /\ Replayed(Append(ts, x)) = IF x \in DigestToken THEN Append(Replayed(ts), <<"extend", x.value>>)
                                      ELSE Replayed(ts)
  <1> DEFINE T == TextToken
             a == Append(ts, x)
             G == [y \in TextToken |-> <<"extend", y.value>>]
             U == {"extend"} \X AnyValue
             first == IF ts[1].value = 0 THEN <<>> ELSE <<<<"locality", ts[1].value>>>>
             o == Only(Tail(ts), DigestToken)
             V == U \cup {"locality"} \X {ts[1].value}
  <1>1. ts \in Seq(T) /\ x \in T OBVIOUS
  <1>2. a \in Seq(T) /\ a # <<>> /\ a[1] = ts[1] /\ Tail(a) = Append(Tail(ts), x) /\ Tail(ts) \in Seq(T)
    <2> HIDE DEF T
    <2> QED BY <1>1
  <1>3. G \in [T -> U] /\ G[x] = <<"extend", x.value>> BY ReplayMap
  <1>4. Replayed(ts) = first \o Mapped(o, G) BY ReplayedIs
  <1>5. Replayed(a) = first \o Mapped(Only(Append(Tail(ts), x), DigestToken), G)
    BY <1>2, ReplayedIs
  <1>6. o \in Seq(T) BY <1>2, OnlyType
  <1>7. Only(Append(Tail(ts), x), DigestToken) = IF x \in DigestToken THEN Append(o, x) ELSE o
    BY <1>2, OnlyAppend
  <1>8. first \in Seq(V)
    <2>1. <<"locality", ts[1].value>> \in V OBVIOUS
    <2> HIDE DEF V
    <2> QED BY <2>1, SeqOfOne
  <1>9. U \subseteq V OBVIOUS
  <1> HIDE DEF G, U, first, o, a, V
  <1>10. Mapped(o, G) \in Seq(U) /\ Mapped(Append(o, x), G) = Append(Mapped(o, G), G[x])
    <2>1. Mapped(o, G) \in Seq(U) BY <1>3, <1>6, MapType
    <2>2. Mapped(Append(o, x), G) = Append(Mapped(o, G), G[x]) BY <1>3, <1>6, MapAppend
    <2> QED BY <2>1, <2>2
  <1>11. Mapped(o, G) \in Seq(V) /\ G[x] \in V
    <2> DEFINE m == Mapped(o, G)
    <2>1. m \in Seq(U) BY <1>10
    <2> HIDE DEF m
    <2>2. m \in Seq(V) BY <1>9, <2>1
    <2> QED BY <1>3, <1>9, <2>2 DEF m
  <1>12. first \o Append(Mapped(o, G), G[x]) = Append(first \o Mapped(o, G), G[x])
    BY <1>8, <1>11, AppendToSecond
  <1>13. CASE x \in DigestToken BY <1>2, <1>3, <1>4, <1>5, <1>7, <1>10, <1>12, <1>13 DEF a
  <1>14. CASE x \notin DigestToken BY <1>2, <1>4, <1>5, <1>7, <1>14 DEF a
  <1> QED BY <1>13, <1>14

LEMMA SplitLast ==
  ASSUME NEW T, NEW s \in Seq(T), s # <<>>
  PROVE  /\ SubSeq(s, 1, Len(s) - 1) \in Seq(T) /\ s[Len(s)] \in T
         /\ s = Append(SubSeq(s, 1, Len(s) - 1), s[Len(s)])
         /\ SubSeq(s, 1, Len(s) - 1) = <<>> => Len(s) = 1
  <1>1. SubSeq(s, 1, Len(s) - 1) \in Seq(T) /\ s[Len(s)] \in T /\ s = Append(SubSeq(s, 1, Len(s) - 1), s[Len(s)])
    OBVIOUS
  <1> DEFINE f == SubSeq(s, 1, Len(s) - 1)
             n == Len(s)
  <1>2. n \in Nat \ {0} /\ Len(f) = n - 1 OBVIOUS
  <1>3. f = <<>> => Len(f) = 0 BY OneOrTwo, Zenon
  <1> HIDE DEF f, n
  <1>4. f = <<>> => n = 1 BY <1>2, <1>3
  <1> QED BY <1>1, <1>4 DEF f, n

\* The comma of the last token makes no difference.
LEMMA ReplayedClipped ==
  ASSUME NEW ts \in Seq(TextToken), ts # <<>>
  PROVE  Replayed(Clipped(ts)) = Replayed(ts) /\ Clipped(ts)[1].t = ts[1].t
  <1> DEFINE T == TextToken
             n == Len(ts)
             f == SubSeq(ts, 1, n - 1)
             c == Clipped(ts)
  <1>1. /\ f \in Seq(T) /\ ts[n] \in T /\ ts = Append(f, ts[n])
        /\ c \in Seq(T) /\ c # <<>> /\ Len(c) = n /\ c[n] \in T /\ c = Append(SubSeq(c, 1, n - 1), c[n])
    <2>1. c \in Seq(T) /\ c # <<>> /\ Len(c) = n BY ClippedType
    <2>2. f \in Seq(T) /\ ts[n] \in T /\ ts = Append(f, ts[n]) BY SplitLast, Zenon
    <2> HIDE DEF c, T, n
    <2>3. c[n] \in T /\ c = Append(SubSeq(c, 1, n - 1), c[n]) BY <2>1, SplitLast, Zenon
    <2> QED BY <2>1, <2>2, <2>3
  <1>2. n \in Nat \ {0} OBVIOUS
  <1>3. /\ \A j \in 1 .. n : c[j].t = ts[j].t /\ c[j].value = ts[j].value /\ c[j].pcr = ts[j].pcr
        /\ \A j \in 1 .. n : j < n => c[j] = ts[j] BY ClippedType
  <1>4. SubSeq(c, 1, n - 1) = f
    <2>1. \A j \in 1 .. n - 1 : c[j] = ts[j] BY <1>2, <1>3
    <2> HIDE DEF c, T, n
    <2>2. c \in Seq(T) /\ ts \in Seq(T) /\ Len(c) = n /\ Len(ts) = n BY <1>1 DEF n, T
    <2>3. SubSeq(c, 1, n - 1) = SubSeq(ts, 1, n - 1) BY <1>2, <2>1, <2>2
    <2> QED BY <2>3
  <1>5. c[n].value = ts[n].value /\ (c[n] \in DigestToken <=> ts[n] \in DigestToken)
    <2>1. c[n].t = ts[n].t /\ c[n].value = ts[n].value /\ c[n].pcr = ts[n].pcr BY <1>2, <1>3
    <2>2. \A x \in TextToken : x \in DigestToken <=> x.t = "digest" /\ x.pcr \in Pcr /\ x.value \in {"sha256"} \X Value
      BY DEF TextToken, DigestToken
    <2> QED BY <1>1, <2>1, <2>2
  <1>6. c[1].t = ts[1].t BY <1>2, <1>3
  <1>7. CASE f = <<>>
    <2>1. ts = <<ts[n]>> /\ c = <<c[n]>> /\ n = 1
      <3>1. n = 1 BY <1>7, SplitLast, Zenon
      <3> HIDE DEF c
      <3> QED BY <1>1, <3>1
    <2>2. Tail(ts) = <<>> /\ Tail(c) = <<>> /\ ts[1].value = c[1].value
      <3>1. \A x : Tail(<<x>>) = <<>> OBVIOUS
      <3> QED BY <1>5, <2>1, <3>1
    <2> QED BY <1>1, <1>6, <2>2, ReplayedIs
  <1>8. CASE f # <<>>
    <2>1. /\ Replayed(ts) = IF ts[n] \in DigestToken THEN Append(Replayed(f), <<"extend", ts[n].value>>) ELSE Replayed(f)
          /\ Replayed(c) = IF c[n] \in DigestToken THEN Append(Replayed(f), <<"extend", c[n].value>>) ELSE Replayed(f)
      <3> HIDE DEF c, f
      <3>1. Replayed(Append(f, ts[n])) = IF ts[n] \in DigestToken THEN Append(Replayed(f), <<"extend", ts[n].value>>) ELSE Replayed(f)
        BY <1>1, <1>8, ReplayedAppend
      <3>2. Replayed(Append(f, c[n])) = IF c[n] \in DigestToken THEN Append(Replayed(f), <<"extend", c[n].value>>) ELSE Replayed(f)
        BY <1>1, <1>8, ReplayedAppend
      <3>3. ts = Append(f, ts[n]) /\ c = Append(f, c[n]) BY <1>1, <1>4
      <3> QED BY <3>1, <3>2, <3>3
    <2> QED BY <1>5, <1>6, <2>1
  <1> QED BY <1>7, <1>8

-----------------------------------------------------------------------------
(* How far the events are parsed *)

Es == Input.events
Headers == IF pc = "digest" THEN k ELSE k - 1

\* The headers of the events up to Headers have been parsed, none of them
\* altered.
ProgressInv ==
  pc \in {"event", "digest"} =>
    /\ \A j \in 1 .. Headers : buf.events[j] = Es[j]
    /\ pc = "digest" => d <= Len(Es[k].digests) + 1
    /\ seen = {Es[j].pcr : j \in 1 .. Headers}
    /\ hcrtm = (\E j \in 1 .. Headers : Hcrtm(Es[j]))
    /\ 0 \notin seen => locality = 0
    /\ \A n \in Pcr \ seen : calc[n] = <<>>
    /\ \A n \in Requested : n \in seen <=> text[n] # <<>>

Found(e, h) == IF Hcrtm(e) THEN 4 ELSE IF ~h /\ StartupLocality(e) THEN 3 ELSE 0
Now(e) == IF e.pcr \notin seen /\ e.pcr # 0 THEN 0 ELSE IF Found(e, hcrtm) # 0 THEN Found(e, hcrtm) ELSE locality

\* The event of a step in the log.
LEMMA EventOfStep ==
  ASSUME TypeInv, BufferInv, ProgressInv,
         (pc = "event" /\ k <= Len(buf.events) /\ Current.pcr < MaxTpmPcrs) \/ pc = "digest"
  PROVE  /\ k \in 1 .. Len(Es) /\ Es[k] \in Event /\ Es \in Seq(Event) /\ Len(Es) \in Nat
         /\ Current = Es[k] /\ k \in Nat \ {0}
  <1>1. k <= Len(buf.events) /\ Len(buf.events) <= Len(Es) BY DEF BufferInv, Stopped, Es
  <1>2. Es \in Seq(Event) /\ Len(Es) \in Nat /\ Len(buf.events) \in Nat /\ k \in Nat \ {0}
    BY LogInput, LogBuffer DEF Es, TypeInv, TypeOK
  <1>3. k \in 1 .. Len(Es) /\ k \in 1 .. Len(buf.events) BY <1>1, <1>2
  <1>4. Es[k] \in Event BY <1>2, <1>3
  <1>5. Current = Es[k]
    <2>1. CASE pc = "digest"
      <3>1. k \in 1 .. Headers BY <1>2, <2>1 DEF Headers
      <3> QED BY <2>1, <3>1 DEF ProgressInv, Current
    <2>2. CASE pc = "event"
      <3>1. Current = Es[k] \/ Altered(k) BY <1>3, <2>2 DEF BufferInv, Current, Es
      <3>2. ASSUME Altered(k) PROVE FALSE
        <4>1. Current = [Es[k] EXCEPT !.pcr = Space] BY <3>2 DEF Altered, Current, Es
        <4> DEFINE o == Es[k]
        <4> HIDE DEF o
        <4>2. o \in Event /\ Current = [o EXCEPT !.pcr = Space] BY <1>4, <4>1 DEF o
        <4>3. Current.pcr = Space BY <4>2 DEF Event
        <4>4. Current.pcr < MaxTpmPcrs BY <2>2
        <4> QED BY <4>3, <4>4, PcrIs, SizesAssumption
      <3> QED BY <3>1, <3>2
    <2> QED BY <2>1, <2>2
  <1> QED BY <1>2, <1>3, <1>4, <1>5

\* What the header of an event changes.
LEMMA HeaderStep ==
  ASSUME TypeInv, BufferInv, ProgressInv, ParseHeader, ~Fail
  PROVE  /\ k \in 1 .. Len(Es) /\ Es[k] \in Event /\ Es \in Seq(Event) /\ Len(Es) \in Nat
         /\ Current = Es[k] /\ k \in Nat \ {0} /\ Es[k].pcr \in 0 .. MaxTpmPcrs - 1
         /\ pc = "event" /\ pc' = "digest" /\ d' = 1 /\ k' = k
         /\ hcrtm' = (hcrtm \/ Hcrtm(Es[k]))
         /\ calc' = IF Found(Es[k], hcrtm) # 0 THEN [calc EXCEPT ![0] = SetLocality(@, Found(Es[k], hcrtm))] ELSE calc
         /\ seen' = seen \cup {Es[k].pcr}
         /\ locality' = Now(Es[k])
         /\ text' = Logged(Es[k].pcr, (IF Es[k].pcr \notin seen THEN <<InitToken(Es[k].pcr, Now(Es[k]))>> ELSE <<>>)
                                        \o HeaderTokens(Es[k]))
         /\ pending' = (pending \/ Es[k].type = "no action")
         /\ UNCHANGED <<input, buf, k, out, ret>>
  <1> DEFINE c == Current
  <1>1. pc = "event" /\ k <= Len(buf.events) /\ HeaderFits(c) BY DEF ParseHeader
  <1>2. /\ hcrtm' = (hcrtm \/ Hcrtm(c))
        /\ calc' = IF Found(c, hcrtm) # 0 THEN [calc EXCEPT ![0] = SetLocality(@, Found(c, hcrtm))] ELSE calc
        /\ seen' = seen \cup {c.pcr}
        /\ locality' = Now(c)
        /\ text' = Logged(c.pcr, (IF c.pcr \notin seen THEN <<InitToken(c.pcr, Now(c))>> ELSE <<>>) \o HeaderTokens(c))
        /\ pending' = (pending \/ c.type = "no action")
        /\ pc' = "digest" /\ d' = 1
        /\ UNCHANGED <<input, buf, k, out, ret>>
    <2> HIDE DEF c
    <2> QED BY <1>1, Zenon DEF ParseHeader, Found, Now, NoActionPending, c
  <1>3. c.pcr < MaxTpmPcrs BY <1>1 DEF HeaderFits
  <1>4. /\ k \in 1 .. Len(Es) /\ Es[k] \in Event /\ Es \in Seq(Event) /\ Len(Es) \in Nat
        /\ Current = Es[k] /\ k \in Nat \ {0} BY <1>1, <1>3, EventOfStep
  <1>5. Es[k].pcr \in 0 .. MaxTpmPcrs - 1
    <2>1. Es[k].pcr \in Nat /\ Es[k].pcr < MaxTpmPcrs BY <1>3, <1>4, EventIs
    <2> QED BY <2>1, SizesAssumption
  <1>6. c = Es[k] /\ k' = k BY <1>2, <1>4
  <1> HIDE DEF c
  <1> QED BY <1>1, <1>2, <1>4, <1>5, <1>6, Zenon

LEMMA FoundIs ==
  ASSUME NEW e, NEW h
  PROVE  Found(e, h) \in {0, 3, 4} /\ (Found(e, h) # 0 => e.pcr = 0)
  BY DEF Found, Hcrtm, StartupLocality

LEMMA RequestedIs == ASSUME TypeInv PROVE Requested \subseteq Pcr
  <1>1. opts.pcrs \in Seq(Pcr) BY OptionsType DEF TypeInv, TypeOK, OptionsAre
  <1> QED BY <1>1 DEF Requested

\* What is added to the text of a PCR.
LEMMA LoggedText ==
  ASSUME TypeInv, NEW l, NEW ts \in Seq(TextToken), text' = Logged(l, ts), NEW n \in Pcr
  PROVE  /\ text'[n] = IF n = l /\ n \in Requested THEN text[n] \o ts ELSE text[n]
         /\ text[n] \in Seq(TextToken)
         /\ text[n] # <<>> => text'[n] # <<>>
         /\ ts # <<>> /\ n = l /\ n \in Requested => text'[n] # <<>>
  <1>1. text \in [Pcr -> Seq(TextToken)] BY DEF TypeInv, TypeOK
  <1> DEFINE T == TextToken
             S == Seq(TextToken)
  <1>2. \A a \in S : (a # <<>> => a \o ts # <<>>) /\ (ts # <<>> => a \o ts # <<>>)
    <2> HIDE DEF T
    <2> SUFFICES ASSUME NEW a \in Seq(T), ts \in Seq(T)
                 PROVE  (a # <<>> => a \o ts # <<>>) /\ (ts # <<>> => a \o ts # <<>>)
      BY DEF T
    <2> QED OBVIOUS
  <1> HIDE DEF S
  <1>3. text \in [Pcr -> S] BY <1>1 DEF S
  <1>4. text'[n] = IF n = l /\ n \in Requested THEN text[n] \o ts ELSE text[n]
    BY <1>3 DEF Logged
  <1> QED BY <1>2, <1>3, <1>4 DEF S

LEMMA ProgressHeader ==
  ASSUME TypeInv, BufferInv, ProgressInv, ParseHeader, ~Fail
  PROVE  ProgressInv'
  <1> DEFINE e == Es[k]
             ts == (IF e.pcr \notin seen THEN <<InitToken(e.pcr, Now(e))>> ELSE <<>>) \o HeaderTokens(e)
  <1>1. /\ k \in 1 .. Len(Es) /\ e \in Event /\ Current = e /\ k \in Nat \ {0} /\ e.pcr \in 0 .. MaxTpmPcrs - 1
        /\ pc = "event" /\ pc' = "digest" /\ d' = 1 /\ k' = k
        /\ hcrtm' = (hcrtm \/ Hcrtm(e))
        /\ calc' = IF Found(e, hcrtm) # 0 THEN [calc EXCEPT ![0] = SetLocality(@, Found(e, hcrtm))] ELSE calc
        /\ seen' = seen \cup {e.pcr}
        /\ locality' = Now(e)
        /\ text' = Logged(e.pcr, ts)
        /\ UNCHANGED <<input, buf, k, out, ret>> BY HeaderStep, Zenon
  <1>2. Headers = k - 1 /\ Headers' = k /\ Es' = Es /\ Requested' = Requested /\ buf' = buf
    BY <1>1, InputStays DEF Headers, Es
  <1>3. \A j \in 1 .. k : j \in 1 .. k - 1 \/ j = k BY <1>1
  <1>4. \A j \in 1 .. k - 1 : j \in 1 .. k BY <1>1
  <1>5. k \in 1 .. k BY <1>1
  <1>6. \A j \in 1 .. k : buf'.events[j] = Es'[j]
    <2>1. \A j \in 1 .. k - 1 : buf.events[j] = Es[j] BY <1>1, <1>2 DEF ProgressInv
    <2> QED BY <1>1, <1>2, <1>3, <2>1, Zenon DEF Current
  <1>7. d' <= Len(Es'[k'].digests) + 1
    <2>1. Len(e.digests) \in Nat BY <1>1, EventIs
    <2> HIDE DEF e
    <2>2. d' <= Len(e.digests) + 1 BY <1>1, <2>1
    <2> QED BY <1>1, <1>2, <2>2 DEF e
  <1>8. seen' = {Es'[j].pcr : j \in 1 .. k}
    <2>1. seen = {Es[j].pcr : j \in 1 .. k - 1} BY <1>1, <1>2 DEF ProgressInv
    <2> QED BY <1>1, <1>2, <1>3, <1>4, <1>5, <2>1
  <1>9. hcrtm' = (\E j \in 1 .. k : Hcrtm(Es'[j]))
    <2>1. hcrtm = (\E j \in 1 .. k - 1 : Hcrtm(Es[j])) BY <1>1, <1>2, Zenon DEF ProgressInv
    <2>2. hcrtm' = (hcrtm \/ Hcrtm(e)) BY <1>1
    <2>3. (\E j \in 1 .. k : Hcrtm(Es[j])) <=> ((\E j \in 1 .. k - 1 : Hcrtm(Es[j])) \/ Hcrtm(e))
      BY <1>3, <1>4, <1>5, Zenon
    <2>4. hcrtm' = (\E j \in 1 .. k : Hcrtm(Es[j])) BY <2>1, <2>2, <2>3, Zenon
    <2> QED BY <1>2, <2>4, Zenon
  <1>10. 0 \notin seen' => locality' = 0
    <2> SUFFICES ASSUME 0 \notin seen' PROVE Now(e) = 0 BY <1>1
    <2>1. e.pcr # 0 /\ 0 \notin seen BY <1>1
    <2>2. locality = 0 /\ Found(e, hcrtm) = 0 BY <1>1, <2>1, FoundIs DEF ProgressInv
    <2> QED BY <2>1, <2>2 DEF Now
  <1>11. \A n \in Pcr \ seen' : calc'[n] = <<>>
    <2> SUFFICES ASSUME NEW n \in Pcr, n \notin seen' PROVE calc'[n] = <<>> OBVIOUS
    <2>1. n \notin seen /\ n # e.pcr /\ calc[n] = <<>> BY <1>1 DEF ProgressInv
    <2>2. Found(e, hcrtm) # 0 => n # 0 BY <2>1, FoundIs
    <2>3. calc \in [Pcr -> Seq(Change)] BY DEF TypeInv, TypeOK
    <2>4. calc'[n] = calc[n] BY <1>1, <2>2, <2>3
    <2> QED BY <2>1, <2>4
  <1>12. ASSUME NEW n \in Requested PROVE n \in seen' <=> text'[n] # <<>>
    <2>1. n \in Pcr /\ (n \in seen <=> text[n] # <<>>) BY <1>1, RequestedIs DEF ProgressInv
    <2>2. ts \in Seq(TextToken) /\ (e.pcr \notin seen => ts # <<>>)
      <3>1. Now(e) \in {0, 3, 4} BY FoundIs DEF Now, TypeInv, TypeOK
      <3>2. HeaderTokens(e) \in Seq(TextToken) /\ InitToken(e.pcr, Now(e)) \in TextToken /\ ts \in Seq(TextToken)
        BY <1>1, <3>1, HeaderTokensType
      <3> DEFINE T == TextToken
                 x == InitToken(e.pcr, Now(e))
                 h == HeaderTokens(e)
      <3> HIDE DEF T, x, h
      <3>3. h \in Seq(T) /\ x \in T BY <3>2 DEF T, x, h
      <3>4. <<x>> \o h # <<>> BY <3>3
      <3> QED BY <3>2, <3>4 DEF x, h
    <2> HIDE DEF ts
    <2>3. /\ text'[n] = IF n = e.pcr /\ n \in Requested THEN text[n] \o ts ELSE text[n]
          /\ text[n] # <<>> => text'[n] # <<>>
          /\ ts # <<>> /\ n = e.pcr /\ n \in Requested => text'[n] # <<>>
      BY <1>1, <2>1, <2>2, LoggedText, Zenon
    <2>4. CASE n = e.pcr
      <3>1. n \in seen' /\ text'[n] # <<>> BY <1>1, <1>12, <2>1, <2>2, <2>3, <2>4
      <3> QED BY <3>1
    <2>5. CASE n # e.pcr
      <3>1. (n \in seen' <=> n \in seen) /\ text'[n] = text[n] BY <1>1, <2>3, <2>5
      <3> QED BY <2>1, <3>1
    <2> QED BY <2>4, <2>5
  <1> HIDE DEF e, ts
  <1> QED BY <1>2, <1>6, <1>7, <1>8, <1>9, <1>10, <1>11, <1>12, Zenon DEF ProgressInv

LEMMA ProgressStart ==
  ASSUME TypeInv, Untouched, UNCHANGED <<input, replay, text>>, pc' = "event", k' = 1
  PROVE  ProgressInv'
  <1>1. Headers' = 0 /\ 1 .. 0 = {} BY DEF Headers
  <1>2. seen' = {} /\ hcrtm' = FALSE /\ locality' = 0 /\ calc' = [n \in Pcr |-> <<>>] /\ text' = [n \in Pcr |-> <<>>]
    BY DEF Untouched, replay
  <1>3. Requested' \subseteq Pcr BY RequestedIs, InputStays
  <1>4. \A n \in Requested' : ~(n \in seen') /\ text'[n] = <<>> BY <1>2, <1>3
  <1>5. \A j \in 1 .. Headers' : FALSE BY <1>1
  <1>6. seen' = {Es'[j].pcr : j \in 1 .. Headers'} BY <1>1, <1>2
  <1>7. \A n \in Pcr \ seen' : calc'[n] = <<>> BY <1>2
  <1>8. hcrtm' = (\E j \in 1 .. Headers' : Hcrtm(Es'[j])) BY <1>2, <1>5, Zenon
  <1>9. \A n \in Requested' : n \in seen' <=> text'[n] # <<>> BY <1>4
  <1> QED BY <1>2, <1>5, <1>6, <1>7, <1>8, <1>9, Zenon DEF ProgressInv

\* What a digest changes.
LEMMA DigestStep ==
  ASSUME TypeInv, BufferInv, ProgressInv, ParseDigest, ~Fail
  PROVE  /\ k \in 1 .. Len(Es) /\ Es[k] \in Event /\ Es \in Seq(Event) /\ Len(Es) \in Nat /\ k \in Nat \ {0}
         /\ pc = "digest" /\ d \in 1 .. Len(Es[k].digests) /\ d' = d + 1 /\ Es[k].digests[d] \in Digest
         /\ UNCHANGED <<input, pc, buf, k, seen, hcrtm, locality, ret>>
         /\ Es[k].pcr \in seen
         /\ \/ /\ pending /\ pending' = FALSE /\ UNCHANGED <<calc, text, out>>
            \/ /\ ~pending /\ pending' = pending /\ Es[k].pcr \in Pcr
               /\ text' = Logged(Es[k].pcr, <<Token("digest", Es[k].pcr, Es[k].digests[d], TRUE)>>)
               /\ out' = out \o Noise(Es[k].digests[d][1])
               /\ calc' = IF Es[k].digests[d][1] = "sha256"
                          THEN [calc EXCEPT ![Es[k].pcr] = Append(@, <<"extend", Es[k].digests[d]>>)] ELSE calc
  <1> DEFINE c == Current
             e == Es[k]
  <1>1. pc = "digest" /\ d <= Len(c.digests) /\ d' = d + 1 /\ UNCHANGED <<input, pc, buf, k, seen, hcrtm, locality, ret>>
    BY Zenon DEF ParseDigest
  <1>2. /\ k \in 1 .. Len(Es) /\ e \in Event /\ Es \in Seq(Event) /\ Len(Es) \in Nat
        /\ c = e /\ k \in Nat \ {0} BY <1>1, EventOfStep
  <1>3. \/ /\ pending /\ pending' = FALSE /\ UNCHANGED <<calc, text, out>>
        \/ /\ ~pending /\ pending' = pending /\ ~(c.pcr >= MaxPcrs)
           /\ text' = Logged(c.pcr, <<Token("digest", c.pcr, c.digests[d], TRUE)>>)
           /\ out' = out \o Noise(c.digests[d][1])
           /\ calc' = IF c.digests[d][1] = "sha256"
                      THEN [calc EXCEPT ![c.pcr] = Append(@, <<"extend", c.digests[d]>>)] ELSE calc
    <2> HIDE DEF c
    <2> QED BY Zenon DEF ParseDigest, c
  <1> HIDE DEF c, e
  <1>4. d \in 1 .. Len(e.digests) /\ e.digests[d] \in Digest
    <2>1. d \in Nat \ {0} BY DEF TypeInv, TypeOK
    <2>2. Len(e.digests) \in Nat BY <1>2, EventIs
    <2>3. d \in 1 .. Len(e.digests) BY <1>1, <1>2, <2>1, <2>2
    <2> QED BY <1>2, <2>3, EventIs
  <1>5. ~(e.pcr >= MaxPcrs) => e.pcr \in Pcr
    <2>1. e.pcr \in Nat BY <1>2, EventIs
    <2> QED BY <2>1, SizesAssumption DEF Pcr
  <1>6. e.pcr \in seen
    <2>1. Headers = k /\ k \in 1 .. k BY <1>1, <1>2 DEF Headers
    <2>2. seen = {Es[j].pcr : j \in 1 .. k} BY <1>1, <2>1 DEF ProgressInv
    <2> QED BY <2>1, <2>2 DEF e
  <1>7. d' = d + 1 /\ pc = "digest" /\ UNCHANGED <<input, pc, buf, k, seen, hcrtm, locality, ret>>
    BY <1>1
  <1>8. CASE pending /\ pending' = FALSE /\ UNCHANGED <<calc, text, out>>
    BY <1>2, <1>4, <1>6, <1>7, <1>8, Zenon DEF e
  <1>9. CASE /\ ~pending /\ pending' = pending /\ ~(c.pcr >= MaxPcrs)
             /\ text' = Logged(c.pcr, <<Token("digest", c.pcr, c.digests[d], TRUE)>>)
             /\ out' = out \o Noise(c.digests[d][1])
             /\ calc' = IF c.digests[d][1] = "sha256"
                        THEN [calc EXCEPT ![c.pcr] = Append(@, <<"extend", c.digests[d]>>)] ELSE calc
    <2>1. e.pcr \in Pcr BY <1>2, <1>5, <1>9, Zenon
    <2> QED BY <1>2, <1>4, <1>6, <1>7, <1>9, <2>1, Zenon DEF e
  <1> QED BY <1>3, <1>8, <1>9, Zenon

LEMMA ProgressDigest ==
  ASSUME TypeInv, BufferInv, ProgressInv, ParseDigest, ~Fail
  PROVE  ProgressInv'
  <1> DEFINE e == Es[k]
             x == e.digests[d]
  <1>1. /\ k \in 1 .. Len(Es) /\ e \in Event /\ k \in Nat \ {0}
        /\ pc = "digest" /\ d \in 1 .. Len(e.digests) /\ d' = d + 1 /\ x \in Digest
        /\ UNCHANGED <<input, pc, buf, k, seen, hcrtm, locality, ret>>
        /\ e.pcr \in seen BY DigestStep, Zenon
  <1>2. \/ UNCHANGED <<calc, text>>
        \/ /\ text' = Logged(e.pcr, <<Token("digest", e.pcr, x, TRUE)>>) /\ e.pcr \in Pcr
           /\ calc' = IF x[1] = "sha256" THEN [calc EXCEPT ![e.pcr] = Append(@, <<"extend", x>>)] ELSE calc
    BY DigestStep, Zenon
  <1>3. Headers' = Headers /\ Es' = Es /\ Requested' = Requested /\ buf' = buf
    BY <1>1, InputStays DEF Headers, Es
  <1>4. d' <= Len(e.digests) + 1
    <2>1. Len(e.digests) \in Nat BY <1>1, EventIs
    <2> QED BY <1>1, <2>1
  <1>5. \A n \in Pcr \ seen' : calc'[n] = <<>>
    <2> SUFFICES ASSUME NEW n \in Pcr, n \notin seen' PROVE calc'[n] = <<>> OBVIOUS
    <2>1. n \notin seen /\ n # e.pcr /\ calc[n] = <<>> BY <1>1 DEF ProgressInv
    <2>2. calc \in [Pcr -> Seq(Change)] BY DEF TypeInv, TypeOK
    <2>3. calc'[n] = calc[n]
      <3> HIDE DEF e, x
      <3> QED BY <1>2, <2>1, <2>2
    <2> QED BY <2>1, <2>3
  <1>6. ASSUME NEW n \in Requested PROVE n \in seen' <=> text'[n] # <<>>
    <2>1. n \in Pcr /\ (n \in seen <=> text[n] # <<>>) BY <1>1, RequestedIs DEF ProgressInv
    <2>2. CASE text' = text BY <1>1, <2>1, <2>2
    <2>3. CASE text' = Logged(e.pcr, <<Token("digest", e.pcr, x, TRUE)>>)
      <3> DEFINE ts == <<Token("digest", e.pcr, x, TRUE)>>
      <3>1. ts \in Seq(TextToken) BY <1>1, DigestTokenType, EventIs
      <3> HIDE DEF ts
      <3>2. /\ text'[n] = IF n = e.pcr /\ n \in Requested THEN text[n] \o ts ELSE text[n]
            /\ text[n] # <<>> => text'[n] # <<>>
        <4>1. text' = Logged(e.pcr, ts) BY <2>3 DEF ts
        <4> QED BY <2>1, <3>1, <4>1, LoggedText, Zenon
      <3> QED BY <1>1, <2>1, <3>2
    <2> QED BY <1>2, <2>2, <2>3, Zenon
  <1>7. /\ \A j \in 1 .. Headers : buf.events[j] = Es[j]
        /\ seen = {Es[j].pcr : j \in 1 .. Headers}
        /\ hcrtm = (\E j \in 1 .. Headers : Hcrtm(Es[j]))
        /\ 0 \notin seen => locality = 0 BY <1>1, Zenon DEF ProgressInv
  <1>8. /\ pc' = "digest" => d' <= Len(Es'[k'].digests) + 1
        /\ 0 \notin seen' => locality' = 0
        /\ \A j \in 1 .. Headers' : buf'.events[j] = Es'[j] BY <1>1, <1>3, <1>4, <1>7
  <1>9. seen' = {Es'[j].pcr : j \in 1 .. Headers'} BY <1>1, <1>3, <1>7
  <1>10. hcrtm' = (\E j \in 1 .. Headers' : Hcrtm(Es'[j])) BY <1>1, <1>3, <1>7, Zenon
  <1> QED BY <1>3, <1>5, <1>6, <1>8, <1>9, <1>10, Zenon DEF ProgressInv

\* What the body of an event changes.
LEMMA BodyStep ==
  ASSUME TypeInv, BufferInv, ProgressInv, ParseBody, ~Fail
  PROVE  /\ k \in 1 .. Len(Es) /\ Es[k] \in Event /\ Es \in Seq(Event) /\ Len(Es) \in Nat /\ k \in Nat \ {0}
         /\ pc = "digest" /\ d = Len(Es[k].digests) + 1 /\ d' = 1 /\ k' = k + 1 /\ pc' = "event"
         /\ UNCHANGED <<input, replay, out, ret>>
         /\ Es[k].pcr \in seen
         /\ text' = Logged(Es[k].pcr, DescriptionTokens(Es[k]))
         /\ \A j \in 1 .. k : buf'.events[j] = buf.events[j]
  <1> DEFINE c == Current
             e == Es[k]
  <1>1. /\ pc = "digest" /\ d > Len(c.digests) /\ d' = 1 /\ k' = k + 1 /\ pc' = "event"
        /\ UNCHANGED <<input, replay, out, ret>>
        /\ text' = Logged(c.pcr, DescriptionTokens(c))
        /\ buf' = [buf EXCEPT !.events = Spaced(@, c)]
    <2> HIDE DEF c
    <2> QED BY Zenon DEF ParseBody, c
  <1>2. /\ k \in 1 .. Len(Es) /\ e \in Event /\ Es \in Seq(Event) /\ Len(Es) \in Nat
        /\ c = e /\ k \in Nat \ {0} BY <1>1, EventOfStep
  <1> HIDE DEF c, e
  <1>3. d = Len(e.digests) + 1
    <2>1. d \in Nat \ {0} BY DEF TypeInv, TypeOK
    <2>2. Len(e.digests) \in Nat BY <1>2, EventIs
    <2>3. d <= Len(e.digests) + 1 BY <1>1 DEF ProgressInv, e
    <2> QED BY <1>1, <1>2, <2>1, <2>2, <2>3
  <1>4. Es[k].pcr \in seen
    <2>1. Headers = k /\ k \in 1 .. k BY <1>1, <1>2 DEF Headers
    <2>2. seen = {Es[j].pcr : j \in 1 .. k} BY <1>1, <2>1 DEF ProgressInv
    <2> QED BY <2>1, <2>2
  <1>5. \A j \in 1 .. k : buf'.events[j] = buf.events[j]
    <2>1. buf \in Log BY LogBuffer
    <2>2. buf'.events = Spaced(buf.events, c) BY <1>1, <2>1 DEF Log
    <2> DEFINE es == buf.events
    <2> HIDE DEF es
    <2>3. Spaced(es, c) = es \/ Spaced(es, c) = [es EXCEPT ![k + 1].pcr = Space]
      BY DEF Spaced
    <2>4. \A j \in 1 .. k : Spaced(es, c)[j] = es[j]
      <3> SUFFICES ASSUME NEW j \in 1 .. k, Spaced(es, c) = [es EXCEPT ![k + 1].pcr = Space]
                   PROVE  Spaced(es, c)[j] = es[j] BY <2>3
      <3>1. j # k + 1 BY <1>2
      <3>2. es \in Seq(Event) BY LogBuffer DEF es
      <3>3. j \in 1 .. Len(es)
        <4>1. k <= Len(es) /\ Len(es) \in Nat BY <1>1, LogBuffer DEF BufferInv, es
        <4> QED BY <1>2, <4>1
      <3> QED BY <3>1, <3>2, <3>3
    <2> QED BY <2>2, <2>4 DEF es
  <1>6. /\ pc = "digest" /\ d' = 1 /\ k' = k + 1 /\ pc' = "event"
        /\ UNCHANGED <<input, replay, out, ret>>
        /\ text' = Logged(e.pcr, DescriptionTokens(e)) BY <1>1, <1>2
  <1> QED BY <1>2, <1>3, <1>4, <1>5, <1>6, Zenon DEF e

LEMMA ProgressBody ==
  ASSUME TypeInv, BufferInv, ProgressInv, ParseBody, ~Fail
  PROVE  ProgressInv'
  <1> DEFINE e == Es[k]
             ts == DescriptionTokens(e)
  <1>1. /\ k \in 1 .. Len(Es) /\ e \in Event /\ k \in Nat \ {0}
        /\ pc = "digest" /\ k' = k + 1 /\ pc' = "event"
        /\ UNCHANGED <<input, replay, out, ret>>
        /\ e.pcr \in seen
        /\ text' = Logged(e.pcr, ts)
        /\ \A j \in 1 .. k : buf'.events[j] = buf.events[j] BY BodyStep, Zenon
  <1>2. Headers' = k /\ Headers = k /\ Es' = Es /\ Requested' = Requested
    BY <1>1, InputStays DEF Headers, Es
  <1>3. /\ \A j \in 1 .. k : buf.events[j] = Es[j]
        /\ seen = {Es[j].pcr : j \in 1 .. k}
        /\ hcrtm = (\E j \in 1 .. k : Hcrtm(Es[j]))
        /\ 0 \notin seen => locality = 0
        /\ \A n \in Pcr \ seen : calc[n] = <<>>
        /\ \A n \in Requested : n \in seen <=> text[n] # <<>>
    BY <1>1, <1>2, Zenon DEF ProgressInv
  <1>4. seen' = seen /\ hcrtm' = hcrtm /\ locality' = locality /\ calc' = calc
    BY <1>1 DEF replay
  <1>5. ASSUME NEW n \in Requested PROVE n \in seen' <=> text'[n] # <<>>
    <2>1. n \in Pcr BY RequestedIs
    <2>2. ts \in Seq(TextToken) BY <1>1, DescriptionType
    <2> HIDE DEF ts
    <2>3. /\ text'[n] = IF n = e.pcr /\ n \in Requested THEN text[n] \o ts ELSE text[n]
          /\ text[n] # <<>> => text'[n] # <<>> BY <1>1, <2>1, <2>2, LoggedText, Zenon
    <2> QED BY <1>1, <1>3, <1>4, <2>3
  <1>6. \A j \in 1 .. k : buf'.events[j] = Es'[j] BY <1>1, <1>2, <1>3
  <1>7. pc' # "digest" BY <1>1
  <1>8. \A j \in 1 .. Headers' : buf'.events[j] = Es'[j] BY <1>2, <1>6, Zenon
  <1>9. seen' = {Es'[j].pcr : j \in 1 .. Headers'} BY <1>2, <1>3, <1>4
  <1>10. hcrtm' = (\E j \in 1 .. Headers' : Hcrtm(Es'[j])) BY <1>2, <1>3, <1>4, Zenon
  <1>11. \A n \in Requested' : n \in seen' <=> text'[n] # <<>> BY <1>2, <1>5, Zenon
  <1>12. (0 \notin seen' => locality' = 0) /\ \A n \in Pcr \ seen' : calc'[n] = <<>>
    BY <1>3, <1>4
  <1> HIDE DEF e, ts
  <1> QED BY <1>7, <1>8, <1>9, <1>10, <1>11, <1>12, Zenon DEF ProgressInv

LEMMA ProgressNext ==
  ASSUME TypeInv, StageInv, BufferInv, ProgressInv, [Next]_vars
  PROVE  ProgressInv'
  <1>1. CASE pc' \notin {"event", "digest"} BY <1>1 DEF ProgressInv
  <1>2. CASE ParseHeader /\ ~Fail BY <1>2, ProgressHeader
  <1>3. CASE ParseDigest /\ ~Fail BY <1>3, ProgressDigest
  <1>4. CASE ParseBody /\ ~Fail BY <1>4, ProgressBody
  <1>5. CASE ReadHead /\ ~Fail
    <2>1. pc = "head" /\ UNCHANGED <<input, replay, text>> /\ k' = 1 /\ (pc' = "event" \/ pc' = "legacy")
      BY <1>5, Zenon DEF ReadHead, Goto, SpecidCallback
    <2>2. Untouched BY <2>1 DEF StageInv
    <2> QED BY <1>1, <2>1, <2>2, ProgressStart
  <1>6. CASE Fail BY <1>1, <1>6 DEF Fail
  <1>7. CASE UNCHANGED vars
    <2>1. UNCHANGED <<input, pc, k, d, seen, hcrtm, locality, calc, text, buf>>
      BY <1>7 DEF vars, input
    <2>2. Headers' = Headers /\ Es' = Es /\ Requested' = Requested
      BY <2>1, InputStays DEF Headers, Es
    <2> QED BY <2>1, <2>2, Zenon DEF ProgressInv
  <1>8. CASE Parse \/ Output \/ OutOfMemory \/ ReadLog \/ BadHead \/ ParseLegacyEvent \/ IncompleteEvent
             \/ IncompleteLegacyEvent \/ ParseEventsDone
    <2>1. pc' \notin {"event", "digest"} \/ Fail
      <3>1. CASE Parse
        BY <3>1 DEF Parse, ParseFlag, ParseFormat, ParsePcrs, ParseIn, ParseInvalid, ParseEnd, Parsing, Parsed, Goto
      <3>2. CASE Output
        BY <3>2 DEF Output, OpenLog, PrintLog, LogDone, OpenSummary, PrintRegister, SummaryDone, PrintAggregate, Emit, Goto
      <3>3. CASE OutOfMemory BY <3>3 DEF OutOfMemory
      <3>4. CASE ReadLog \/ BadHead \/ ParseLegacyEvent \/ IncompleteEvent \/ IncompleteLegacyEvent \/ ParseEventsDone
        BY <3>4, Zenon DEF ReadLog, BadHead, ParseLegacyEvent, IncompleteEvent, IncompleteLegacyEvent, ParseEventsDone, Goto
      <3> QED BY <1>8, <3>1, <3>2, <3>3, <3>4
    <2> QED BY <1>1, <1>6, <2>1
  <1> QED BY <1>2, <1>3, <1>4, <1>5, <1>6, <1>7, <1>8, Zenon DEF Next, ParseLog, Terminated

LEMMA ProgressInit == Init => ProgressInv
  <1> SUFFICES ASSUME Init PROVE pc = "parse" BY DEF ProgressInv
  <1> QED BY Zenon DEF Init

-----------------------------------------------------------------------------
(* The log of a PCR replays to its register *)

ReplaysTo(ts, v) == IF ts = <<>> THEN v = <<>> ELSE ts[1].t = "init" /\ Replayed(ts) = v

LEMMA ReplaysKept ==
  ASSUME LogReplays, UNCHANGED <<input, calc, text>>
  PROVE  LogReplays'
  <1>1. Input' = Input /\ Requested' = Requested BY InputStays
  <1> QED BY <1>1, Zenon DEF LogReplays

LEMMA ReplaysEmpty ==
  ASSUME TypeInv', calc' = [n \in Pcr |-> <<>>], text' = [n \in Pcr |-> <<>>]
  PROVE  LogReplays'
  <1>1. Requested' \subseteq Pcr
    <2>1. opts'.pcrs \in Seq(Pcr) BY OptionsType DEF TypeInv, TypeOK, OptionsAre
    <2> QED BY <2>1 DEF Requested
  <1>2. \A n \in Requested' : text'[n] = <<>> /\ calc'[n] = <<>> BY <1>1
  <1> QED BY <1>2, Zenon DEF LogReplays

\* It is enough that every register keeps it.
LEMMA ReplaysEach ==
  ASSUME UNCHANGED input, LogReplays, TypeInv,
         Input.head = "specid" /\ LocalityFirst(Es) =>
           \A n \in Requested : n \in Pcr /\ ReplaysTo(text[n], calc[n]) => ReplaysTo(text'[n], calc'[n])
  PROVE  LogReplays'
  <1>1. Input' = Input /\ Requested' = Requested BY InputStays
  <1>2. Requested \subseteq Pcr BY RequestedIs
  <1>3. Input.head = "specid" /\ LocalityFirst(Es) => \A n \in Requested : ReplaysTo(text[n], calc[n])
    BY Zenon DEF LogReplays, ReplaysTo, Es
  <1>4. Input.head = "specid" /\ LocalityFirst(Es) => \A n \in Requested : ReplaysTo(text'[n], calc'[n])
    BY <1>2, <1>3
  <1> QED BY <1>1, <1>4, Zenon DEF LogReplays, ReplaysTo, Es

\* Tokens that are not of a digest make no difference behind the first.
LEMMA ReplaysMore ==
  ASSUME NEW ts \in Seq(TextToken), NEW x \in TextToken, ts # <<>>, NEW v, ReplaysTo(ts, v), x.t # "digest"
  PROVE  ReplaysTo(Append(ts, x), v) /\ Append(ts, x) = ts \o <<x>>
  <1>1. x \notin DigestToken BY DEF DigestToken
  <1>2. /\ Append(ts, x) # <<>> /\ Append(ts, x)[1] = ts[1]
        /\ Replayed(Append(ts, x)) = IF x \in DigestToken THEN Append(Replayed(ts), <<"extend", x.value>>)
                                     ELSE Replayed(ts) BY ReplayedAppend, Zenon
  <1>3. Append(ts, x) = ts \o <<x>> BY AppendAsConcat, Zenon
  <1> HIDE DEF TextToken
  <1>4. ts[1].t = "init" /\ Replayed(ts) = v BY Zenon DEF ReplaysTo
  <1>5. Append(ts, x)[1].t = "init" /\ Replayed(Append(ts, x)) = v
    BY <1>1, <1>2, <1>4, Zenon
  <1>6. ReplaysTo(Append(ts, x), v) BY <1>2, <1>5, Zenon DEF ReplaysTo
  <1> QED BY <1>3, <1>6

LEMMA TokenParts ==
  ASSUME NEW t, NEW n, NEW v, NEW c
  PROVE  Token(t, n, v, c).t = t /\ Token(t, n, v, c).pcr = n /\ Token(t, n, v, c).value = v
         /\ Token(t, n, v, c).comma = c BY DEF Token

LEMMA ReplaysHeader ==
  ASSUME TypeInv, BufferInv, ProgressInv, LogReplays, ParseHeader, ~Fail
  PROVE  LogReplays'
  <1> DEFINE e == Es[k]
             f == Found(e, hcrtm)
             h == HeaderTokens(e)
             i == InitToken(e.pcr, Now(e))
             ts == (IF e.pcr \notin seen THEN <<i>> ELSE <<>>) \o h
  <1>1. /\ k \in 1 .. Len(Es) /\ e \in Event /\ k \in Nat \ {0} /\ e.pcr \in 0 .. MaxTpmPcrs - 1
        /\ pc = "event" /\ Es \in Seq(Event)
        /\ calc' = IF f # 0 THEN [calc EXCEPT ![0] = SetLocality(@, f)] ELSE calc
        /\ text' = Logged(e.pcr, ts)
        /\ UNCHANGED input BY HeaderStep, Zenon DEF input
  <1>2. Headers = k - 1 BY <1>1 DEF Headers
  <1>3. /\ seen = {Es[j].pcr : j \in 1 .. k - 1}
        /\ hcrtm = (\E j \in 1 .. k - 1 : Hcrtm(Es[j]))
        /\ 0 \notin seen => locality = 0
        /\ \A n \in Pcr \ seen : calc[n] = <<>>
        /\ \A n \in Requested : n \in seen <=> text[n] # <<>>
    BY <1>1, <1>2, Zenon DEF ProgressInv
  <1>4. f \in {0, 3, 4} /\ (f # 0 => e.pcr = 0) BY FoundIs
  <1>5. Now(e) \in {0, 3, 4} BY <1>4 DEF Now, TypeInv, TypeOK
  <1>6. h \in Seq(TextToken) /\ i \in TextToken /\ (h = <<>> \/ h = <<Token("open", e.pcr, 0, TRUE)>>) /\ ts \in Seq(TextToken)
    BY <1>1, <1>5, HeaderTokensType DEF HeaderTokens
  <1>7. i.value = Now(e) /\ i.t = "init" /\ Token("open", e.pcr, 0, TRUE).t = "open" /\ Token("open", e.pcr, 0, TRUE) \in TextToken
    <2>1. e.pcr \in Nat BY <1>1, EventIs
    <2> QED BY <2>1, TokenParts DEF InitToken, TextToken, Token
  <1>8. ASSUME f # 0, LocalityFirst(Es) PROVE 0 \notin seen
    <2>1. SetsLocality(Es, k)
      <3>1. CASE Hcrtm(e) BY <3>1 DEF SetsLocality
      <3>2. CASE ~Hcrtm(e)
        <4>1. ~hcrtm /\ StartupLocality(e) BY <1>8, <3>2 DEF Found
        <4>2. \A l \in 1 .. k - 1 : ~Hcrtm(Es[l]) BY <1>3, <4>1, Zenon
        <4> QED BY <4>1, <4>2 DEF SetsLocality
      <3> QED BY <3>1, <3>2
    <2>2. k \in DOMAIN Es BY <1>1
    <2>3. \A l \in 1 .. k - 1 : Es[l].pcr # 0 BY <1>8, <2>1, <2>2, Zenon DEF LocalityFirst
    <2> QED BY <1>3, <2>3
  <1> SUFFICES ASSUME Input.head = "specid", LocalityFirst(Es), NEW n \in Requested, n \in Pcr, ReplaysTo(text[n], calc[n])
               PROVE  ReplaysTo(text'[n], calc'[n]) BY <1>1, ReplaysEach, Zenon
  <1>9. /\ text'[n] = IF n = e.pcr /\ n \in Requested THEN text[n] \o ts ELSE text[n]
        /\ text[n] \in Seq(TextToken) BY <1>1, <1>6, LoggedText, Zenon
  <1>10. calc \in [Pcr -> Seq(Change)] BY DEF TypeInv, TypeOK
  <1> HIDE DEF e, f, h, i
  <1>11. CASE n # e.pcr
    <2>1. f # 0 => n # 0 BY <1>4, <1>11
    <2>2. calc'[n] = calc[n] BY <1>1, <1>10, <2>1
    <2>3. text'[n] = text[n] BY <1>9, <1>11
    <2> QED BY <2>2, <2>3
  <1>12. CASE n = e.pcr /\ n \in seen
    <2>1. f = 0 BY <1>4, <1>8, <1>12
    <2>2. calc'[n] = calc[n] /\ text[n] # <<>> BY <1>1, <1>3, <1>12, <2>1
    <2>3. text'[n] = text[n] \o h
      <3>1. <<>> \o h = h BY <1>6, ConcatEmpty
      <3> QED BY <1>9, <1>12, <3>1
    <2>4. CASE h = <<>>
      <3>1. text'[n] = text[n] BY <1>9, <2>3, <2>4, ConcatEmpty
      <3> QED BY <2>2, <3>1
    <2>5. CASE h = <<Token("open", e.pcr, 0, TRUE)>>
      <3> DEFINE o == Token("open", e.pcr, 0, TRUE)
      <3>1. o \in TextToken /\ o.t # "digest" BY <1>7
      <3> HIDE DEF o
      <3>2. ReplaysTo(Append(text[n], o), calc[n]) /\ Append(text[n], o) = text[n] \o <<o>>
        BY <1>9, <2>2, <3>1, ReplaysMore
      <3> QED BY <2>2, <2>3, <2>5, <3>2 DEF o
    <2> QED BY <1>6, <2>4, <2>5
  <1>13. CASE n = e.pcr /\ n \notin seen
    <2>1. text[n] = <<>> /\ calc[n] = <<>> BY <1>3, <1>13
    <2>2. Now(e) = f
      <3>1. CASE n = 0 BY <1>3, <1>13, <3>1 DEF Now, f
      <3>2. CASE n # 0 BY <1>4, <1>13, <3>2 DEF Now
      <3> QED BY <3>1, <3>2
    <2>3. calc'[n] = IF f = 0 THEN <<>> ELSE <<<<"locality", f>>>>
      <3>1. SetLocality(<<>>, f) = <<<<"locality", f>>>> BY ShortSequences DEF SetLocality
      <3>2. CASE f = 0 BY <1>1, <2>1, <3>2
      <3>3. CASE f # 0
        <4>1. n = 0 BY <1>4, <1>13, <3>3
        <4>2. calc'[0] = SetLocality(calc[0], f) BY <1>1, <1>10, <3>3, PcrIs
        <4> QED BY <2>1, <3>1, <3>3, <4>1, <4>2, Zenon
      <3> QED BY <3>2, <3>3
    <2>4. text'[n] = <<i>> \o h
      <3>1. text'[n] = <<>> \o ts /\ ts = <<i>> \o h BY <1>9, <1>13, <2>1
      <3> HIDE DEF ts
      <3> QED BY <1>6, <3>1, ConcatEmpty
    <2>5. /\ Replayed(<<i>>) = (IF i.value = 0 THEN <<>> ELSE <<<<"locality", i.value>>>>)
          /\ <<i>> # <<>> /\ <<i>>[1] = i
      <3>1. i.value \in {0, 3, 4} BY <1>5, <1>7
      <3> QED BY <1>6, <3>1, ReplayedStart, Zenon
    <2> DEFINE T == TextToken
               s == <<i>>
    <2>6. s \in Seq(T) /\ ReplaysTo(s, calc'[n]) /\ s # <<>>
      <3>1. s \in Seq(T) BY <1>6, SeqOfOne
      <3>2. Replayed(s) = calc'[n] BY <1>7, <2>2, <2>3, <2>5
      <3>3. ReplaysTo(s, calc'[n]) BY <1>7, <2>5, <3>2, Zenon DEF ReplaysTo
      <3> QED BY <2>5, <3>1, <3>3
    <2> HIDE DEF s
    <2>7. CASE h = <<>>
      <3>1. s \o <<>> = s BY <2>6, ConcatEmpty
      <3> QED BY <2>4, <2>6, <2>7, <3>1 DEF s
    <2>8. CASE h = <<Token("open", e.pcr, 0, TRUE)>>
      <3> DEFINE o == Token("open", e.pcr, 0, TRUE)
      <3>1. o \in TextToken /\ o.t # "digest" BY <1>7
      <3> HIDE DEF o
      <3>2. ReplaysTo(Append(s, o), calc'[n]) /\ Append(s, o) = s \o <<o>>
        BY <2>6, <3>1, ReplaysMore
      <3> QED BY <2>4, <2>8, <3>2 DEF o, s
    <2> QED BY <1>6, <2>7, <2>8
  <1> QED BY <1>11, <1>12, <1>13

LEMMA ReplaysDigest ==
  ASSUME TypeInv, BufferInv, ProgressInv, LogReplays, ParseDigest, ~Fail
  PROVE  LogReplays'
  <1> DEFINE e == Es[k]
             x == e.digests[d]
             l == e.pcr
             tok == Token("digest", l, x, TRUE)
             ch == <<"extend", x>>
  <1>1. /\ UNCHANGED input /\ x \in Digest /\ l \in seen
        /\ \/ UNCHANGED <<calc, text>>
           \/ /\ text' = Logged(l, <<tok>>) /\ l \in Pcr
              /\ calc' = IF x[1] = "sha256" THEN [calc EXCEPT ![l] = Append(@, ch)] ELSE calc
    BY DigestStep, Zenon
  <1>2. \A n \in Requested : n \in seen <=> text[n] # <<>>
    <2>1. pc = "digest" BY DEF ParseDigest
    <2> QED BY <2>1, Zenon DEF ProgressInv
  <1> HIDE DEF e, l
  <1>3. CASE UNCHANGED <<calc, text>> BY <1>1, <1>3, ReplaysKept
  <1>4. CASE /\ text' = Logged(l, <<tok>>) /\ l \in Pcr
             /\ calc' = IF x[1] = "sha256" THEN [calc EXCEPT ![l] = Append(@, ch)] ELSE calc
    <2>1. <<tok>> \in Seq(TextToken) /\ tok \in TextToken
      <3>1. l \in Nat BY <1>4, PcrIs
      <3> QED BY <1>1, <3>1, DigestTokenType DEF TextToken, Token
    <2>2. (tok \in DigestToken <=> x[1] = "sha256") /\ tok.value = x
      <3>1. \A y \in TextToken : y \in DigestToken <=> y.t = "digest" /\ y.pcr \in Pcr /\ y.value \in {"sha256"} \X Value
        BY DEF TextToken, DigestToken
      <3>2. tok.t = "digest" /\ tok.pcr \in Pcr /\ tok.value = x
        <4>1. tok.t = "digest" /\ tok.pcr = l /\ tok.value = x BY DEF Token
        <4>2. l \in Pcr BY <1>4
        <4> QED BY <4>1, <4>2, Zenon
      <3>3. x \in {"sha256"} \X Value <=> x[1] = "sha256" BY <1>1 DEF Digest
      <3> HIDE DEF x, tok
      <3> QED BY <2>1, <3>1, <3>2, <3>3
    <2> SUFFICES ASSUME NEW n \in Requested, n \in Pcr, ReplaysTo(text[n], calc[n])
                 PROVE  ReplaysTo(text'[n], calc'[n]) BY <1>1, ReplaysEach, Zenon
    <2>3. calc \in [Pcr -> Seq(Change)] /\ text[n] \in Seq(TextToken) BY DEF TypeInv, TypeOK
    <2>4. text'[n] = IF n = l /\ n \in Requested THEN text[n] \o <<tok>> ELSE text[n]
      BY <1>4, <2>1, LoggedText, Zenon
    <2> HIDE DEF x, tok, ch
    <2>5. CASE n # l
      <3>1. calc'[n] = calc[n] /\ text'[n] = text[n] BY <1>4, <2>3, <2>4, <2>5
      <3> QED BY <3>1
    <2>6. CASE n = l
      <3>1. text[n] # <<>> BY <1>1, <1>2, <2>6
      <3>2. calc'[n] = IF x[1] = "sha256" THEN Append(calc[n], ch) ELSE calc[n]
        BY <1>4, <2>3, <2>6
      <3>3. text'[n] = Append(text[n], tok)
        <4>1. Append(text[n], tok) = text[n] \o <<tok>> BY <2>1, <2>3, AppendAsConcat
        <4> QED BY <2>4, <2>6, <4>1
      <3>4. /\ Append(text[n], tok) # <<>> /\ Append(text[n], tok)[1] = text[n][1]
            /\ Replayed(Append(text[n], tok)) = IF tok \in DigestToken THEN Append(Replayed(text[n]), <<"extend", tok.value>>)
                                                ELSE Replayed(text[n])
        BY <2>1, <2>3, <3>1, ReplayedAppend
      <3>5. text[n][1].t = "init" /\ Replayed(text[n]) = calc[n]
        BY <3>1, Zenon DEF ReplaysTo
      <3>6. Replayed(text'[n]) = calc'[n]
        <4>1. <<"extend", tok.value>> = ch BY <2>2 DEF ch
        <4> QED BY <2>2, <3>2, <3>3, <3>4, <3>5, <4>1, Zenon
      <3> QED BY <3>3, <3>4, <3>5, <3>6, Zenon DEF ReplaysTo
    <2> QED BY <2>5, <2>6
  <1> QED BY <1>1, <1>3, <1>4, Zenon

LEMMA ReplaysBody ==
  ASSUME TypeInv, BufferInv, ProgressInv, LogReplays, ParseBody, ~Fail
  PROVE  LogReplays'
  <1> DEFINE e == Es[k]
             ts == DescriptionTokens(e)
  <1>1. /\ UNCHANGED input /\ e \in Event /\ e.pcr \in seen /\ pc = "digest"
        /\ calc' = calc
        /\ text' = Logged(e.pcr, ts) BY BodyStep, Zenon DEF replay
  <1>2. \A n \in Requested : n \in seen <=> text[n] # <<>> BY <1>1, Zenon DEF ProgressInv
  <1>3. /\ ts \in Seq(TextToken)
        /\ \/ ts = <<>>
           \/ \E t \in {"close", "cut", "broken"} : ts = <<Token(t, e.pcr, 0, TRUE)>>
    BY <1>1, DescriptionType
  <1>4. e.pcr \in Nat BY <1>1, EventIs
  <1> SUFFICES ASSUME NEW n \in Requested, n \in Pcr, ReplaysTo(text[n], calc[n])
               PROVE  ReplaysTo(text'[n], calc'[n]) BY <1>1, ReplaysEach, Zenon
  <1> HIDE DEF e, ts
  <1>5. /\ text'[n] = IF n = e.pcr /\ n \in Requested THEN text[n] \o ts ELSE text[n]
        /\ text[n] \in Seq(TextToken) BY <1>1, <1>3, LoggedText, Zenon
  <1>6. CASE n # e.pcr \/ ts = <<>>
    <2>1. text'[n] = text[n] BY <1>5, <1>6, ConcatEmpty
    <2> QED BY <1>1, <2>1
  <1>7. ASSUME n = e.pcr, NEW t \in {"close", "cut", "broken"}, ts = <<Token(t, e.pcr, 0, TRUE)>>
        PROVE  ReplaysTo(text'[n], calc'[n])
    <2> DEFINE x == Token(t, e.pcr, 0, TRUE)
    <2>1. x \in TextToken /\ x.t # "digest" BY <1>4, TokenParts DEF TextToken, Token
    <2>2. text[n] # <<>> BY <1>1, <1>2, <1>7
    <2> HIDE DEF x
    <2>3. ReplaysTo(Append(text[n], x), calc[n]) /\ Append(text[n], x) = text[n] \o <<x>>
      BY <1>5, <2>1, <2>2, ReplaysMore
    <2> QED BY <1>1, <1>5, <1>7, <2>3 DEF x
  <1> QED BY <1>3, <1>6, <1>7

LEMMA ReplaysPrint ==
  ASSUME TypeInv, LogReplays, PrintLog
  PROVE  LogReplays'
  <1> DEFINE m == Printed(k)
             ts == IF LastLog(k) THEN Clipped(text[m]) ELSE text[m]
  <1>1. UNCHANGED input /\ calc' = calc /\ (text' = text \/ (text[m] # <<>> /\ text' = [text EXCEPT ![m] = ts]))
        /\ k <= Len(opts.pcrs) BY Zenon DEF PrintLog, replay
  <1>2. text \in [Pcr -> Seq(TextToken)] BY DEF TypeInv, TypeOK
  <1>3. m \in Pcr
    <2>1. opts.pcrs \in Seq(Pcr) BY OptionsType DEF TypeInv, TypeOK, OptionsAre
    <2>2. k \in 1 .. Len(opts.pcrs) BY <1>1, <2>1 DEF TypeInv, TypeOK
    <2> QED BY <2>2, PrintedIs
  <1> SUFFICES ASSUME NEW n \in Requested, n \in Pcr, ReplaysTo(text[n], calc[n])
               PROVE  ReplaysTo(text'[n], calc[n]) BY <1>1, ReplaysEach, Zenon
  <1>4. text'[n] = text[n] \/ (text[n] # <<>> /\ text'[n] = Clipped(text[n]))
    <2>1. CASE text' = text BY <2>1
    <2>2. CASE text[m] # <<>> /\ text' = [text EXCEPT ![m] = ts]
      <3>1. CASE n = m BY <1>2, <2>2, <3>1
      <3>2. CASE n # m BY <1>2, <2>2, <3>2
      <3> QED BY <3>1, <3>2
    <2> QED BY <1>1, <2>1, <2>2
  <1>5. ASSUME text[n] # <<>>, text'[n] = Clipped(text[n])
        PROVE  ReplaysTo(text'[n], calc[n])
    <2>1. text[n] \in Seq(TextToken) BY <1>2
    <2>2. Clipped(text[n]) # <<>> BY <1>5, <2>1, ClippedType, Zenon
    <2>3. Replayed(Clipped(text[n])) = Replayed(text[n]) /\ Clipped(text[n])[1].t = text[n][1].t
      BY <1>5, <2>1, ReplayedClipped, Zenon
    <2>4. text[n][1].t = "init" /\ Replayed(text[n]) = calc[n] BY <1>5, Zenon DEF ReplaysTo
    <2> QED BY <1>5, <2>2, <2>3, <2>4, Zenon DEF ReplaysTo
  <1> QED BY <1>4, <1>5

LEMMA ReplaysNext ==
  ASSUME TypeInv, TypeInv', StageInv, BufferInv, ProgressInv, LogReplays, [Next]_vars
  PROVE  LogReplays'
  <1>1. CASE Parse
    <2>1. UNCHANGED <<calc, text>>
      BY <1>1, Zenon DEF Parse, ParseFlag, ParseFormat, ParsePcrs, ParseIn, ParseInvalid, ParseEnd, Parsed, Fail, Goto, replay
    <2>2. Untouched BY <1>1, ParsingPlace DEF StageInv
    <2> QED BY <2>1, <2>2, ReplaysEmpty DEF Untouched
  <1>2. CASE ParseHeader /\ ~Fail BY <1>2, ReplaysHeader
  <1>3. CASE ParseDigest /\ ~Fail BY <1>3, ReplaysDigest
  <1>4. CASE ParseBody /\ ~Fail BY <1>4, ReplaysBody
  <1>5. CASE PrintLog BY <1>5, ReplaysPrint
  <1>6. CASE ParseLegacyEvent /\ ~Fail
    <2>1. pc = "legacy" /\ UNCHANGED input BY <1>6, Zenon DEF ParseLegacyEvent
    <2>2. Input.head = "sha1" BY <2>1 DEF BufferInv, Stopped
    <2>3. Input'.head # "specid" BY <2>1, <2>2, InputStays
    <2> QED BY <2>3 DEF LogReplays
  <1>7. CASE Fail BY <1>7, ReplaysKept, Zenon DEF Fail, replay
  <1>8. CASE UNCHANGED vars BY <1>8, ReplaysKept, Zenon DEF vars, input
  <1>9. CASE (Output /\ ~PrintLog) \/ OutOfMemory \/ ((ReadLog \/ ReadHead \/ BadHead \/ IncompleteEvent
              \/ IncompleteLegacyEvent \/ ParseEventsDone) /\ ~Fail)
    <2>1. UNCHANGED <<input, calc, text>>
      <3>1. CASE Output /\ ~PrintLog
        BY <3>1, Zenon DEF Output, OpenLog, LogDone, OpenSummary, PrintRegister, SummaryDone, PrintAggregate, Emit, Goto, replay
      <3>2. CASE OutOfMemory BY <3>2 DEF OutOfMemory, replay
      <3>3. CASE (ReadLog \/ ReadHead \/ BadHead \/ IncompleteEvent \/ IncompleteLegacyEvent \/ ParseEventsDone) /\ ~Fail
        BY <3>3, Zenon DEF ReadLog, ReadHead, BadHead, IncompleteEvent, IncompleteLegacyEvent, ParseEventsDone, Goto, replay, SpecidCallback
      <3> QED BY <1>9, <3>1, <3>2, <3>3
    <2> QED BY <2>1, ReplaysKept
  <1> QED BY <1>1, <1>2, <1>3, <1>4, <1>5, <1>6, <1>7, <1>8, <1>9, Zenon DEF Next, ParseLog, Terminated

LEMMA ReplaysInit == Init => LogReplays
  <1> SUFFICES ASSUME Init PROVE LogReplays OBVIOUS
  <1>1. TypeInv /\ calc = [n \in Pcr |-> <<>>] /\ text = [n \in Pcr |-> <<>>]
    BY TypeInit, Zenon DEF Init
  <1>2. \A n \in Requested : text[n] = <<>> /\ calc[n] = <<>> BY <1>1, RequestedIs
  <1> QED BY <1>2, Zenon DEF LogReplays

-----------------------------------------------------------------------------
(* What the registers have gone through while the events are parsed *)

Exact == Input.head = "specid" /\ ~ReadFails /\ Replayable(Es)

\* The measurements of the first j events, and register n after the headers of
\* h events and measurements ms.
Before(j) == Measurements(SubSeq(Es, 1, j))
Partial(n, h, ms) == (IF n = 0 THEN Start(SubSeq(Es, 1, h)) ELSE <<>>) \o Extends(ms, n)

QuietZero(h) == \A j \in 1 .. h : Es[j].pcr = 0 => Es[j].type = "no action"

\* pending is set during the first digest of an event that is not extended, and
\* only then.  While PCR 0 is only mentioned by such events it holds nothing but
\* the locality.
RegisterInv ==
  Exact =>
    /\ pc = "event" => pending = FALSE /\ \A n \in Pcr : calc[n] = Partial(n, k - 1, Before(k - 1))
    /\ pc = "digest" => /\ pending <=> (Es[k].type = "no action" /\ d = 1)
                        /\ \A n \in Pcr : calc[n] = Partial(n, k, Before(k - 1) \o Taken(Es[k], d - 1))
    /\ pc \in {"event", "digest"} /\ QuietZero(Headers) => calc[0] = Start(SubSeq(Es, 1, Headers))
    /\ pc \in OutputLabel => \A n \in Pcr : calc[n] = TpmValue(Es, n)

LEMMA StartIs ==
  ASSUME NEW es \in Seq(Event)
  PROVE  /\ StartLocality(es) \in {0, 3, 4}
         /\ Start(es) = IF StartLocality(es) = 0 THEN <<>> ELSE <<<<"locality", StartLocality(es)>>>>
         /\ Start(es) \in Seq(Change)
  <1>1. StartLocality(es) \in {0, 3, 4} BY DEF StartLocality
  <1> DEFINE v == StartLocality(es)
             x == <<"locality", v>>
  <1>2. v # 0 => x \in Change BY <1>1 DEF Change
  <1> HIDE DEF x, v
  <1>3. v # 0 => <<x>> \in Seq(Change) BY <1>2
  <1>4. <<>> \in Seq(Change) OBVIOUS
  <1> QED BY <1>1, <1>3, <1>4 DEF Start, x, v

\* A header moves the start on as SetLocality does.
LEMMA StartNext ==
  ASSUME NEW es \in Seq(Event), NEW j \in 1 .. Len(es), NEW h \in BOOLEAN,
         h <=> \E l \in 1 .. j - 1 : Hcrtm(es[l])
  PROVE  Start(SubSeq(es, 1, j)) = IF Found(es[j], h) # 0 THEN SetLocality(Start(SubSeq(es, 1, j - 1)), Found(es[j], h))
                                   ELSE Start(SubSeq(es, 1, j - 1))
  <1> DEFINE a == SubSeq(es, 1, j - 1)
             b == SubSeq(es, 1, j)
             f == Found(es[j], h)
  <1>1. /\ a \in Seq(Event) /\ b \in Seq(Event) /\ DOMAIN a = 1 .. j - 1 /\ DOMAIN b = 1 .. j
        /\ \A l \in 1 .. j - 1 : a[l] = es[l]
        /\ \A l \in 1 .. j : b[l] = es[l] OBVIOUS
  <1>2. j \in 1 .. j /\ (\A l \in 1 .. j - 1 : l \in 1 .. j) /\ (\A l \in 1 .. j : l \in 1 .. j - 1 \/ l = j)
    OBVIOUS
  <1> HIDE DEF a, b
  <1>3. /\ (\E l \in DOMAIN a : Hcrtm(a[l])) <=> h
        /\ (\E l \in DOMAIN b : Hcrtm(b[l])) <=> h \/ Hcrtm(es[j])
        /\ (\E l \in DOMAIN b : StartupLocality(b[l])) <=> (\E l \in DOMAIN a : StartupLocality(a[l])) \/ StartupLocality(es[j])
    BY <1>1, <1>2, Zenon
  <1>4. /\ f = 0 => StartLocality(b) = StartLocality(a)
        /\ f # 0 => StartLocality(b) = f
    <2>1. CASE Hcrtm(es[j])
      <3>1. f = 4 BY <2>1 DEF Found
      <3>2. StartLocality(b) = 4 BY <1>3, <2>1, Zenon DEF StartLocality
      <3> QED BY <3>1, <3>2
    <2>2. CASE ~Hcrtm(es[j]) /\ h
      <3>1. f = 0 BY <2>2, Zenon DEF Found
      <3>2. StartLocality(b) = 4 /\ StartLocality(a) = 4
        BY <1>3, <2>2, Zenon DEF StartLocality
      <3> QED BY <3>1, <3>2
    <2>3. CASE ~Hcrtm(es[j]) /\ ~h /\ StartupLocality(es[j])
      <3>1. f = 3 BY <2>3, Zenon DEF Found
      <3>2. StartLocality(b) = 3 BY <1>3, <2>3, Zenon DEF StartLocality
      <3> QED BY <3>1, <3>2
    <2>4. CASE ~Hcrtm(es[j]) /\ ~h /\ ~StartupLocality(es[j])
      <3>1. f = 0 BY <2>4, Zenon DEF Found
      <3>2. StartLocality(b) = StartLocality(a) BY <1>3, <2>4, Zenon DEF StartLocality
      <3> QED BY <3>1, <3>2
    <2> QED BY <2>1, <2>2, <2>3, <2>4, Zenon
  <1>5. CASE f = 0 BY <1>4, <1>5 DEF Start, a, b
  <1>6. CASE f # 0
    <2>1. Start(b) = <<<<"locality", f>>>> BY <1>4, <1>6 DEF Start
    <2>2. SetLocality(Start(a), f) = <<<<"locality", f>>>>
      <3>1. CASE StartLocality(a) = 0
        <4>1. Start(a) = <<>> BY <3>1 DEF Start
        <4> QED BY <4>1, ShortSequences DEF SetLocality
      <3>2. CASE StartLocality(a) # 0
        <4> DEFINE x == <<"locality", StartLocality(a)>>
                   y == <<"locality", f>>
        <4>1. Start(a) = <<x>> /\ x[1] = "locality" BY <3>2 DEF Start
        <4> HIDE DEF x, y
        <4>2. Last(<<x>>) = x /\ <<x>> # <<>> BY OneOrTwo DEF Last
        <4>3. Front(<<x>>) = <<>>
          <5>1. SubSeq(<<x>>, 1, 0) = <<>> BY PrefixEnds, SeqOfOne
          <5> QED BY <5>1, OneOrTwo DEF Front
        <4>4. SetLocality(<<x>>, f) = Append(<<>>, y) BY <4>1, <4>2, <4>3 DEF SetLocality, y
        <4> QED BY <4>1, <4>4, ShortSequences DEF y
      <3> QED BY <3>1, <3>2
    <2> QED BY <1>6, <2>1, <2>2 DEF a, b
  <1> QED BY <1>5, <1>6

LEMMA TakenType ==
  ASSUME NEW e \in Event, NEW x \in 0 .. Len(e.digests)
  PROVE  /\ Taken(e, x) \in Seq(Measurement)
         /\ e.type = "no action" => Taken(e, x) = <<>>
         /\ x > 0 /\ e.type # "no action" =>
              Taken(e, x) = IF e.digests[x][1] = "sha256" THEN Append(Taken(e, x - 1), <<e.pcr, e.digests[x]>>)
                            ELSE Taken(e, x - 1)
  <1>1. e.pcr \in Nat /\ e.digests \in Seq(Digest) /\ Len(e.digests) \in Nat BY EventIs
  <1> DEFINE s == e.digests
  <1>2. SubSeq(s, 1, x) \in Seq(Digest)
    <2>1. s \in Seq(Digest) /\ x \in 0 .. Len(s) BY <1>1
    <2> HIDE DEF s
    <2> QED BY <2>1
  <1>3. Pairs(e.pcr, SubSeq(s, 1, x)) \in Seq(Measurement) BY <1>1, <1>2, PairsType
  <1>4. <<>> \in Seq(Measurement) OBVIOUS
  <1>5. ASSUME x > 0, e.type # "no action"
        PROVE  Taken(e, x) = IF s[x][1] = "sha256" THEN Append(Taken(e, x - 1), <<e.pcr, s[x]>>)
                             ELSE Taken(e, x - 1)
    <2> DEFINE p == SubSeq(s, 1, x - 1)
    <2>1. p \in Seq(Digest) /\ s[x] \in Digest /\ SubSeq(s, 1, x) = Append(p, s[x])
      <3>1. x \in 1 .. Len(s)
        <4> DEFINE n == Len(s)
        <4>1. n \in Nat /\ x \in 0 .. n /\ x > 0 BY <1>1, <1>5, Zenon
        <4> HIDE DEF n
        <4>2. x \in 1 .. n BY <4>1
        <4> QED BY <4>2 DEF n
      <3> HIDE DEF s
      <3> QED BY <1>1, <3>1, PrefixNext DEF s
    <2> HIDE DEF s, p
    <2>2. Pairs(e.pcr, Append(p, s[x])) = IF s[x][1] = "sha256" THEN Append(Pairs(e.pcr, p), <<e.pcr, s[x]>>) ELSE Pairs(e.pcr, p)
      BY <1>1, <2>1, PairsAppend
    <2> QED BY <1>5, <2>1, <2>2 DEF Taken, s, p
  <1> QED BY <1>3, <1>4, <1>5 DEF Taken

LEMMA BeforeType ==
  ASSUME Es \in Seq(Event), NEW j \in 0 .. Len(Es)
  PROVE  /\ Before(j) \in Seq(Measurement) /\ SubSeq(Es, 1, j) \in Seq(Event)
         /\ j > 0 => Before(j) = Before(j - 1) \o Taken(Es[j], Len(Es[j].digests)) /\ Es[j] \in Event
         /\ j = 0 => Before(j) = <<>> /\ SubSeq(Es, 1, j) = <<>>
         /\ j = Len(Es) => SubSeq(Es, 1, j) = Es
  <1> DEFINE es == Es
  <1>1. SubSeq(es, 1, j) \in Seq(Event) /\ SubSeq(es, 1, 0) = <<>> /\ SubSeq(es, 1, Len(es)) = es
    <2> HIDE DEF es
    <2>1. es \in Seq(Event) /\ j \in 0 .. Len(es) BY DEF es
    <2> QED BY <2>1, PrefixEnds
  <1>2. Measurements(<<>>) = <<>> BY DEF Measurements, FlattenSeq
  <1>3. \A s \in Seq(Event) : Measurements(s) \in Seq(Measurement)
    <2> SUFFICES ASSUME NEW s \in Seq(Event) PROVE Measurements(s) \in Seq(Measurement)
      OBVIOUS
    <2>0. \A T : <<>> \in Seq(T) OBVIOUS
    <2>1. CASE s = <<>> BY <1>2, <2>0, <2>1, Zenon
    <2>2. CASE s # <<>>
      <3>1. s[1] \in Event BY <2>2
      <3> QED BY <3>1, MeasurementsAppend
    <2> QED BY <2>1, <2>2
  <1>4. ASSUME j > 0 PROVE Before(j) = Before(j - 1) \o Taken(Es[j], Len(Es[j].digests)) /\ Es[j] \in Event
    <2>1. SubSeq(es, 1, j - 1) \in Seq(Event) /\ es[j] \in Event /\ SubSeq(es, 1, j) = Append(SubSeq(es, 1, j - 1), es[j])
      <3>1. es \in Seq(Event) /\ j \in 1 .. Len(es) BY <1>4
      <3> HIDE DEF es
      <3> QED BY <3>1, PrefixNext
    <2> HIDE DEF es
    <2>2. Measurements(SubSeq(es, 1, j)) = Measurements(SubSeq(es, 1, j - 1)) \o MeasurementsFrom(es[j], 1)
      BY <2>1, MeasurementsAppend
    <2>3. MeasurementsFrom(es[j], 1) = Taken(es[j], Len(es[j].digests))
      BY <2>1, MeasurementsFromIs
    <2> QED BY <2>1, <2>2, <2>3, Zenon DEF Before, es
  <1> QED BY <1>1, <1>2, <1>3, <1>4, Zenon DEF Before

\* A sequence that is not changed by what follows it is followed by nothing.
LEMMA NothingFollows ==
  ASSUME NEW T, NEW a \in Seq(T), NEW b \in Seq(T), a \o b = a
  PROVE  b = <<>>
  <1>1. Len(a \o b) = Len(a) + Len(b) /\ Len(a) \in Nat /\ Len(b) \in Nat OBVIOUS
  <1>2. Len(b) = 0 BY <1>1
  <1> QED BY <1>2

LEMMA PartialType ==
  ASSUME Es \in Seq(Event), NEW n \in Nat, NEW h \in 0 .. Len(Es), NEW ms \in Seq(Measurement)
  PROVE  /\ (IF n = 0 THEN Start(SubSeq(Es, 1, h)) ELSE <<>>) \in Seq(Change)
         /\ Extends(ms, n) \in Seq(Change) /\ Partial(n, h, ms) \in Seq(Change)
  <1>1. SubSeq(Es, 1, h) \in Seq(Event) BY BeforeType
  <1>2. Start(SubSeq(Es, 1, h)) \in Seq(Change) /\ <<>> \in Seq(Change)
    <2>0. \A T : <<>> \in Seq(T) OBVIOUS
    <2> QED BY <1>1, <2>0, StartIs, Zenon
  <1>3. Extends(ms, n) \in Seq(Change) BY ExtendsType
  <1> DEFINE a == IF n = 0 THEN Start(SubSeq(Es, 1, h)) ELSE <<>>
             b == Extends(ms, n)
             T == Change
  <1>4. a \in Seq(T) BY <1>2
  <1>5. b \in Seq(T) BY <1>3
  <1> HIDE DEF a, b, T
  <1>6. a \o b \in Seq(T) BY <1>4, <1>5
  <1> QED BY <1>4, <1>5, <1>6 DEF Partial, a, b, T

LEMMA AppendToChange ==
  ASSUME NEW a \in Seq(Change), NEW b \in Seq(Change), NEW x \in Change
  PROVE  Append(a \o b, x) = a \o Append(b, x)
  <1> DEFINE T == Change
  <1>1. a \in Seq(T) /\ b \in Seq(T) /\ x \in T OBVIOUS
  <1> HIDE DEF T
  <1> QED BY <1>1

LEMMA RegisterStart ==
  ASSUME TypeInv, Untouched, UNCHANGED <<input, replay>>, pc' = "event", k' = 1
  PROVE  RegisterInv'
  <1>1. /\ Es \in Seq(Event) /\ Es' = Es /\ Len(Es) \in Nat
        /\ pending' = FALSE /\ calc' = [n \in Pcr |-> <<>>] /\ pc' \notin OutputLabel
    BY LogInput, InputStays DEF Es, Untouched, replay, OutputLabel
  <1>2. 0 \in 0 .. Len(Es) /\ k' - 1 = 0 /\ Headers' = 0 BY <1>1 DEF Headers
  <1>3. SubSeq(Es, 1, 0) = <<>> /\ Before(0) = <<>> BY <1>1, <1>2, BeforeType
  <1>4. Start(<<>>) = <<>>
    <2>1. \A S : StartLocality(<<>>) = 0 BY DEF StartLocality
    <2> QED BY <2>1 DEF Start
  <1>5. \A n \in Pcr : Partial(n, 0, <<>>) = <<>>
    <2> SUFFICES ASSUME NEW n \in Pcr PROVE Partial(n, 0, <<>>) = <<>> OBVIOUS
    <2>1. <<>> \in Seq(Measurement) /\ n \in Nat BY PcrIs
    <2>2. Extends(<<>>, n) = <<>> BY <2>1, ExtendsType
    <2>3. <<>> \o <<>> = <<>> OBVIOUS
    <2> QED BY <1>3, <1>4, <2>2, <2>3 DEF Partial
  <1>6. /\ \A n \in Pcr : calc'[n] = Partial(n, k - 1, Before(k - 1))'
        /\ calc'[0] = Start(SubSeq(Es, 1, Headers))'
    <2>1. \A n \in Pcr : calc'[n] = Partial(n, 0, Before(0)) BY <1>1, <1>3, <1>5
    <2>2. \A n \in Pcr : Partial(n, k - 1, Before(k - 1))' = Partial(n, 0, Before(0))
      BY <1>1, <1>2, Zenon DEF Partial, Before
    <2>3. calc'[0] = <<>> BY <1>1, PcrIs
    <2> QED BY <1>1, <1>2, <1>3, <1>4, <2>1, <2>2, <2>3, Zenon
  <1> QED BY <1>1, <1>6, Zenon DEF RegisterInv

LEMMA RegisterHeader ==
  ASSUME TypeInv, BufferInv, ProgressInv, RegisterInv, ParseHeader, ~Fail
  PROVE  RegisterInv'
  <1> DEFINE e == Es[k]
             f == Found(e, hcrtm)
             before == Before(k - 1)
             old == SubSeq(Es, 1, k - 1)
             new == SubSeq(Es, 1, k)
  <1>1. /\ k \in 1 .. Len(Es) /\ e \in Event /\ k \in Nat \ {0} /\ e.pcr \in 0 .. MaxTpmPcrs - 1
        /\ pc = "event" /\ Es \in Seq(Event) /\ Len(Es) \in Nat /\ pc' = "digest" /\ d' = 1 /\ k' = k
        /\ calc' = IF f # 0 THEN [calc EXCEPT ![0] = SetLocality(@, f)] ELSE calc
        /\ pending' = (pending \/ e.type = "no action")
        /\ UNCHANGED input BY HeaderStep, Zenon DEF input
  <1>0. k \in 1 .. Len(Es) /\ k \in Nat \ {0} /\ Len(Es) \in Nat /\ Es \in Seq(Event) /\ d' - 1 = 0
    <2>1. k \in 1 .. Len(Es) /\ k \in Nat \ {0} /\ Len(Es) \in Nat /\ Es \in Seq(Event) /\ d' = 1
      BY <1>1, Zenon
    <2> QED BY <2>1
  <1>2. Headers = k - 1 /\ Headers' = k /\ Es' = Es /\ (Exact' <=> Exact)
    <2>1. Headers = k - 1 /\ Headers' = k BY <1>1, Zenon DEF Headers
    <2>2. Input' = Input /\ ReadFails' = ReadFails BY <1>1, InputStays, Zenon
    <2>3. Es' = Es BY <2>2, Zenon DEF Es
    <2> QED BY <2>1, <2>2, <2>3, Zenon DEF Exact
  <1>3. hcrtm = (\E j \in 1 .. k - 1 : Hcrtm(Es[j])) /\ hcrtm \in BOOLEAN
    BY <1>1, <1>2, Zenon DEF ProgressInv, TypeInv, TypeOK
  <1>4. f \in {0, 3, 4} /\ (f # 0 => e.pcr = 0) BY FoundIs
  <1>5. /\ before \in Seq(Measurement) /\ old \in Seq(Event) /\ new \in Seq(Event)
    <2>1. k - 1 \in 0 .. Len(Es) /\ k \in 0 .. Len(Es) BY <1>0
    <2> QED BY <1>0, <2>1, BeforeType
  <1>6. Taken(e, 0) = <<>> BY <1>1, MeasurementsFromIs
  <1>7. Start(new) = IF f # 0 THEN SetLocality(Start(old), f) ELSE Start(old)
    <2> DEFINE es == Es
    <2>1. es \in Seq(Event) /\ k \in 1 .. Len(es) /\ hcrtm \in BOOLEAN /\ (hcrtm <=> \E j \in 1 .. k - 1 : Hcrtm(es[j]))
      BY <1>1, <1>3, Zenon
    <2> HIDE DEF es
    <2>2. Start(SubSeq(es, 1, k)) = IF Found(es[k], hcrtm) # 0 THEN SetLocality(Start(SubSeq(es, 1, k - 1)), Found(es[k], hcrtm))
                                    ELSE Start(SubSeq(es, 1, k - 1))
      BY <2>1, StartNext, Zenon
    <2> QED BY <2>2 DEF es
  <1> SUFFICES ASSUME Exact PROVE
        /\ pending' <=> (e.type = "no action" /\ d' = 1)
        /\ \A n \in Pcr : calc'[n] = Partial(n, k, before \o Taken(e, 0))
        /\ QuietZero(k) => calc'[0] = Start(new)
    <2> DEFINE A == pending' <=> (e.type = "no action" /\ d' = 1)
               B == \A n \in Pcr : calc'[n] = Partial(n, k, before \o Taken(e, 0))
               C == QuietZero(k) => calc'[0] = Start(new)
    <2>1. Exact => A /\ B /\ C OBVIOUS
    <2>2. A => (pending' <=> (Es'[k'].type = "no action" /\ d' = 1)) BY <1>1, <1>2, Zenon
    <2>3. B => \A n \in Pcr : calc'[n] = Partial(n, k, Before(k - 1) \o Taken(Es[k], d - 1))'
      <3>1. \A n : Partial(n, k, Before(k - 1) \o Taken(Es[k], d - 1))' = Partial(n, k, before \o Taken(e, 0))
        <4> QED BY <1>0, <1>1, <1>2, Zenon DEF Partial, Before
      <3> QED BY <3>1, Zenon
    <2>4. C => (QuietZero(Headers)' => calc'[0] = Start(SubSeq(Es, 1, Headers))')
      <3>1. QuietZero(Headers)' <=> QuietZero(k) BY <1>2 DEF QuietZero
      <3> QED BY <1>2, <3>1, Zenon
    <2>5. pc' # "event" /\ pc' \notin OutputLabel BY <1>1 DEF OutputLabel
    <2> HIDE DEF A, B, C
    <2> QED BY <1>2, <2>1, <2>2, <2>3, <2>4, <2>5, Zenon DEF RegisterInv
  <1>8. /\ pending = FALSE
        /\ \A n \in Pcr : calc[n] = Partial(n, k - 1, before)
        /\ QuietZero(k - 1) => calc[0] = Start(old) BY <1>1, <1>2, Zenon DEF RegisterInv
  <1>9. calc \in [Pcr -> Seq(Change)] /\ 0 \in Pcr BY PcrIs DEF TypeInv, TypeOK
  <1>10. before \o <<>> = before BY <1>5, ConcatEmpty
  <1>11. QuietZero(k) => QuietZero(k - 1)
    <2>1. \A j \in 1 .. k - 1 : j \in 1 .. k BY <1>0
    <2> QED BY <2>1, Zenon DEF QuietZero
  <1>12. f # 0 => QuietZero(k - 1)
    <2> SUFFICES ASSUME f # 0 PROVE QuietZero(k - 1) OBVIOUS
    <2>1. SetsLocality(Es, k)
      <3>1. CASE Hcrtm(e) BY <3>1 DEF SetsLocality
      <3>2. CASE ~Hcrtm(e)
        <4>1. ~hcrtm /\ StartupLocality(e) BY <3>2 DEF Found
        <4>2. \A l \in 1 .. k - 1 : ~Hcrtm(Es[l]) BY <1>3, <4>1, Zenon
        <4> QED BY <4>1, <4>2 DEF SetsLocality
      <3> QED BY <3>1, <3>2
    <2>2. k \in DOMAIN Es BY <1>0
    <2> QED BY <2>1, <2>2, Zenon DEF Exact, Replayable, LocalityBeforeExtend, QuietZero
  <1> HIDE DEF e, f, before, old, new
  <1>13. calc'[0] = IF f # 0 THEN SetLocality(calc[0], f) ELSE calc[0] BY <1>1, <1>9
  <1>14. QuietZero(k) => calc'[0] = Start(new)
    <2> SUFFICES ASSUME QuietZero(k) PROVE calc'[0] = Start(new) OBVIOUS
    <2>1. calc[0] = Start(old) BY <1>8, <1>11, Zenon
    <2>2. CASE f = 0 BY <1>7, <1>13, <2>1, <2>2, Zenon
    <2>3. CASE f # 0 BY <1>7, <1>13, <2>1, <2>3, Zenon
    <2> QED BY <2>2, <2>3, Zenon
  <1>15. ASSUME NEW n \in Pcr PROVE calc'[n] = Partial(n, k, before \o Taken(e, 0))
    <2>1. CASE n # 0
      <3>1. calc'[n] = calc[n] BY <1>1, <1>9, <2>1
      <3>2. \A a, b : Partial(n, a, before) = Partial(n, b, before)
        BY <2>1, Zenon DEF Partial
      <3> QED BY <1>6, <1>8, <1>10, <3>1, <3>2, Zenon
    <2>2. CASE n = 0 /\ f = 0
      <3>1. Partial(n, k, before) = Partial(n, k - 1, before)
        BY <1>7, <2>2 DEF Partial, old, new
      <3> QED BY <1>6, <1>8, <1>10, <1>13, <2>2, <3>1, Zenon
    <2>3. CASE n = 0 /\ f # 0
      <3>1. calc[0] = Start(old) /\ calc[0] = Partial(0, k - 1, before)
        BY <1>8, <1>9, <1>12, <2>3, Zenon
      <3>2. Start(old) \in Seq(Change) /\ Start(new) \in Seq(Change) /\ Extends(before, 0) \in Seq(Change)
        <4>1. 0 \in Nat OBVIOUS
        <4> QED BY <1>5, <4>1, StartIs, ExtendsType, Zenon
      <3>3. Extends(before, 0) = <<>>
        <4>1. Start(old) \o Extends(before, 0) = Start(old) BY <3>1, Zenon DEF Partial, old
        <4> QED BY <3>2, <4>1, NothingFollows, Zenon
      <3>4. Partial(0, k, before) = Start(new) \o <<>> BY <3>3, Zenon DEF Partial, new
      <3>5. Start(new) \o <<>> = Start(new) BY <3>2, ConcatEmpty, Zenon
      <3>6. calc'[0] = Start(new) BY <1>7, <1>13, <2>3, <3>1, Zenon
      <3> QED BY <1>6, <1>10, <2>3, <3>4, <3>5, <3>6, Zenon
    <2> QED BY <2>1, <2>2, <2>3
  <1>16. pending' <=> (e.type = "no action" /\ d' = 1) BY <1>1, <1>8, Zenon
  <1> QED BY <1>14, <1>15, <1>16, Zenon

LEMMA RegisterDigest ==
  ASSUME TypeInv, BufferInv, ProgressInv, RegisterInv, ParseDigest, ~Fail
  PROVE  RegisterInv'
  <1> DEFINE e == Es[k]
             x == e.digests[d]
             before == Before(k - 1)
             ch == <<"extend", x>>
             done(i) == before \o Taken(e, i)
  <1>1. /\ k \in 1 .. Len(Es) /\ e \in Event /\ k \in Nat \ {0} /\ Es \in Seq(Event) /\ Len(Es) \in Nat
        /\ pc = "digest" /\ d \in 1 .. Len(e.digests) /\ d' = d + 1 /\ x \in Digest
        /\ UNCHANGED <<input, pc, buf, k, seen, hcrtm, locality, ret>>
        /\ \/ /\ pending /\ pending' = FALSE /\ calc' = calc
           \/ /\ ~pending /\ pending' = pending /\ e.pcr \in Pcr
              /\ calc' = IF x[1] = "sha256" THEN [calc EXCEPT ![e.pcr] = Append(@, ch)] ELSE calc
    BY DigestStep, Zenon
  <1>0. k \in 1 .. Len(Es) /\ k \in Nat \ {0} /\ Len(Es) \in Nat /\ Es \in Seq(Event)
    BY <1>1, Zenon
  <1>2. Headers = k /\ Headers' = k /\ Es' = Es /\ (Exact' <=> Exact) /\ k' = k /\ pc' = "digest"
    BY <1>1, InputStays DEF Headers, Es, Exact
  <1>3. d \in Nat /\ d - 1 \in 0 .. Len(e.digests) /\ d \in 0 .. Len(e.digests) /\ d' - 1 = d /\ d' # 1 /\ d > 0
    <2>1. Len(e.digests) \in Nat BY <1>1, EventIs
    <2> HIDE DEF e
    <2> QED BY <1>1, <2>1
  <1>4. before \in Seq(Measurement)
    <2>1. k - 1 \in 0 .. Len(Es) BY <1>1
    <2> QED BY <1>1, <2>1, BeforeType
  <1> HIDE DEF e, before
  <1>11. \A x1, x2 : x1 = 1 /\ x2 \in 1 .. x1 => x2 = 1 OBVIOUS
  <1>10. Exact /\ e.type = "no action" => d = 1
    <2> SUFFICES ASSUME Exact, e.type = "no action" PROVE d = 1 OBVIOUS
    <2>1. k \in DOMAIN Es BY <1>0, SeqIsFunction, Zenon
    <2>2. Len(e.digests) = 1 BY <2>1, Zenon DEF Exact, Replayable, NoActionsSingle, e
    <2>3. d \in 1 .. Len(e.digests) BY <1>1, Zenon
    <2> QED BY <1>11, <2>2, <2>3, Zenon
  <1> SUFFICES ASSUME Exact PROVE
        /\ pending' = FALSE
        /\ \A n \in Pcr : calc'[n] = Partial(n, k, done(d))
        /\ QuietZero(k) => calc'[0] = calc[0]
    <2> DEFINE A == pending' = FALSE
               B == \A n \in Pcr : calc'[n] = Partial(n, k, done(d))
               C == QuietZero(k) => calc'[0] = calc[0]
    <2>1. Exact => A /\ B /\ C OBVIOUS
    <2>2. A => (pending' <=> (Es'[k'].type = "no action" /\ d' = 1)) BY <1>3, Zenon
    <2>3. B => \A n \in Pcr : calc'[n] = Partial(n, k, Before(k - 1) \o Taken(Es[k], d - 1))'
      <3>1. \A n : Partial(n, k, Before(k - 1) \o Taken(Es[k], d - 1))' = Partial(n, k, done(d))
        BY <1>2, <1>3, Zenon DEF Partial, Before, before, e
      <3> QED BY <3>1, Zenon
    <2>4. Exact /\ C => (QuietZero(Headers)' => calc'[0] = Start(SubSeq(Es, 1, Headers))')
      <3>1. QuietZero(Headers)' <=> QuietZero(k) BY <1>2 DEF QuietZero
      <3>2. Exact => (QuietZero(k) => calc[0] = Start(SubSeq(Es, 1, k)))
        BY <1>1, <1>2, Zenon DEF RegisterInv
      <3> QED BY <1>2, <3>1, <3>2, Zenon
    <2>5. pc' # "event" /\ pc' \notin OutputLabel BY <1>2 DEF OutputLabel
    <2> HIDE DEF A, B, C
    <2> QED BY <1>2, <2>1, <2>2, <2>3, <2>4, <2>5, Zenon DEF RegisterInv
  <1>5. /\ pending <=> (e.type = "no action" /\ d = 1)
        /\ \A n \in Pcr : calc[n] = Partial(n, k, done(d - 1))
    BY <1>1, Zenon DEF RegisterInv, e, before
  <1>6. e.type = "no action" => d = 1 BY <1>10, Zenon
  <1>7. calc \in [Pcr -> Seq(Change)] /\ 0 \in Pcr BY PcrIs DEF TypeInv, TypeOK
  <1>8. CASE pending
    <2>1. e.type = "no action" /\ pending' = FALSE /\ calc' = calc
      BY <1>1, <1>5, <1>8, Zenon
    <2>2. done(d) = done(d - 1) BY <1>1, <1>3, <2>1, TakenType
    <2> QED BY <1>5, <2>1, <2>2
  <1>9. CASE ~pending
    <2>1. e.type # "no action" /\ pending' = pending /\ e.pcr \in Pcr
          /\ calc' = IF x[1] = "sha256" THEN [calc EXCEPT ![e.pcr] = Append(@, ch)] ELSE calc
      BY <1>1, <1>5, <1>6, <1>9, Zenon
    <2>2. pending' = FALSE BY <1>9, <2>1 DEF TypeInv, TypeOK
    <2>3. /\ Taken(e, d) = IF x[1] = "sha256" THEN Append(Taken(e, d - 1), <<e.pcr, x>>) ELSE Taken(e, d - 1)
          /\ Taken(e, d - 1) \in Seq(Measurement) BY <1>1, <1>3, <2>1, TakenType
    <2>4. QuietZero(k) => calc'[0] = calc[0]
      <3> SUFFICES ASSUME QuietZero(k) PROVE calc'[0] = calc[0] OBVIOUS
      <3>1. k \in 1 .. k BY <1>1
      <3>2. e.pcr # 0 BY <2>1, <3>1 DEF QuietZero, e
      <3> QED BY <1>7, <2>1, <3>2
    <2>5. ASSUME NEW n \in Pcr PROVE calc'[n] = Partial(n, k, done(d))
      <3> DEFINE t == Taken(e, d - 1)
                 m == <<e.pcr, x>>
                 D == before \o t
                 a == IF n = 0 THEN Start(SubSeq(Es, 1, k)) ELSE <<>>
      <3>1. e.pcr \in Nat /\ n \in Nat BY <2>1, PcrIs
      <3>2. m \in Measurement BY <1>1, <3>1 DEF Measurement
      <3>3. k \in 0 .. Len(Es) BY <1>1
      <3>4. D \in Seq(Measurement)
        <4> HIDE DEF t, Measurement
        <4>1. t \in Seq(Measurement) BY <2>3 DEF t
        <4> QED BY <1>4, <4>1
      <3>5. a \in Seq(Change) /\ Extends(D, n) \in Seq(Change)
        BY <1>1, <3>1, <3>3, <3>4, PartialType
      <3>6. calc[n] = a \o Extends(D, n) BY <1>5 DEF Partial
      <3>7. CASE x[1] # "sha256"
        <4>1. done(d) = D BY <2>3, <3>7
        <4>2. calc'[n] = calc[n] BY <2>1, <3>7
        <4> QED BY <3>6, <4>1, <4>2 DEF Partial
      <3>8. CASE x[1] = "sha256"
        <4>1. done(d) = Append(D, m)
          <5>1. Taken(e, d) = Append(t, m) /\ t \in Seq(Measurement) BY <2>3, <3>8
          <5> HIDE DEF t, m
          <5>2. before \o Append(t, m) = Append(before \o t, m)
            BY <1>4, <3>2, <5>1, AppendToSecond
          <5> QED BY <5>1, <5>2
        <4>2. Extends(Append(D, <<e.pcr, x>>), n) = IF e.pcr = n THEN Append(Extends(D, n), <<"extend", x>>) ELSE Extends(D, n)
          <5> HIDE DEF D, x
          <5> QED BY <1>1, <3>1, <3>4, ExtendsAppend DEF x
        <4>3. calc'[n] = IF e.pcr = n THEN Append(calc[n], ch) ELSE calc[n]
          <5> HIDE DEF x, ch
          <5> QED BY <1>7, <2>1, <3>8
        <4>4. ch \in Change BY <1>1 DEF Change
        <4> DEFINE b == Extends(D, n)
        <4>5. Append(a \o b, ch) = a \o Append(b, ch)
          <5>1. b \in Seq(Change) /\ a \in Seq(Change) /\ ch \in Change BY <3>5, <4>4, Zenon
          <5> QED BY <5>1, AppendToChange, Zenon
        <4>6. Partial(n, k, done(d)) = a \o (IF e.pcr = n THEN Append(b, ch) ELSE b)
          BY <4>1, <4>2 DEF Partial
        <4> HIDE DEF a, b, ch
        <4> QED BY <3>6, <4>3, <4>5, <4>6 DEF b
      <3> QED BY <3>7, <3>8
    <2> QED BY <2>2, <2>4, <2>5, Zenon
  <1> QED BY <1>8, <1>9, Zenon

LEMMA RegisterBody ==
  ASSUME TypeInv, BufferInv, ProgressInv, RegisterInv, ParseBody, ~Fail
  PROVE  RegisterInv'
  <1> DEFINE e == Es[k]
  <1>1. /\ k \in 1 .. Len(Es) /\ e \in Event /\ k \in Nat \ {0} /\ Es \in Seq(Event) /\ Len(Es) \in Nat
        /\ pc = "digest" /\ d = Len(e.digests) + 1 /\ k' = k + 1 /\ pc' = "event"
        /\ UNCHANGED input /\ calc' = calc /\ pending' = pending
    BY BodyStep, Zenon DEF replay
  <1>0. k \in 1 .. Len(Es) /\ k \in Nat \ {0} /\ Len(Es) \in Nat /\ Es \in Seq(Event)
    BY <1>1, Zenon
  <1>2. Headers = k /\ Headers' = k /\ Es' = Es /\ (Exact' <=> Exact) /\ k' - 1 = k
    BY <1>1, InputStays DEF Headers, Es, Exact
  <1>3. Len(e.digests) \in Nat /\ d - 1 = Len(e.digests)
    <2>1. Len(e.digests) \in Nat BY <1>1, EventIs
    <2> HIDE DEF e
    <2> QED BY <1>1, <2>1
  <1>4. Before(k) = Before(k - 1) \o Taken(e, d - 1)
    <2>1. k \in 0 .. Len(Es) /\ k > 0 BY <1>1
    <2> QED BY <1>1, <1>3, <2>1, BeforeType
  <1>5. Exact => /\ pending <=> (e.type = "no action" /\ d = 1)
                 /\ \A n \in Pcr : calc[n] = Partial(n, k, Before(k))
                 /\ QuietZero(k) => calc[0] = Start(SubSeq(Es, 1, k))
    BY <1>1, <1>2, <1>4, Zenon DEF RegisterInv
  <1>6. Exact => pending = FALSE
    <2> SUFFICES ASSUME Exact PROVE pending = FALSE OBVIOUS
    <2>1. k \in DOMAIN Es BY <1>1
    <2>2. e.type = "no action" => Len(e.digests) = 1
      BY <2>1 DEF Exact, Replayable, NoActionsSingle
    <2>3. e.type = "no action" => d # 1
      <3>1. d = Len(e.digests) + 1 BY <1>1, Zenon
      <3>2. Len(e.digests) = 1 => d # 1
        <4> DEFINE n == Len(e.digests)
        <4> HIDE DEF n
        <4> QED BY <3>1 DEF n
      <3> QED BY <2>2, <3>2, Zenon
    <2> QED BY <1>5, <2>3 DEF TypeInv, TypeOK
  <1>7. \A n : Partial(n, k - 1, Before(k - 1))' = Partial(n, k, Before(k))
    BY <1>2, Zenon DEF Partial, Before
  <1>8. QuietZero(Headers)' <=> QuietZero(k) BY <1>2 DEF QuietZero
  <1>9. pc' # "digest" /\ pc' \notin OutputLabel BY <1>1 DEF OutputLabel
  <1>10. Exact' => /\ pending' = FALSE /\ \A n \in Pcr : calc'[n] = Partial(n, k - 1, Before(k - 1))'
                   /\ QuietZero(Headers)' => calc'[0] = Start(SubSeq(Es, 1, Headers))'
    <2>1. Exact => \A n \in Pcr : calc'[n] = Partial(n, k, Before(k)) BY <1>1, <1>5, Zenon
    <2>2. Exact => (QuietZero(k) => calc'[0] = Start(SubSeq(Es, 1, k))) BY <1>1, <1>5, Zenon
    <2>3. Exact => pending' = FALSE BY <1>1, <1>6, Zenon
    <2> QED BY <1>2, <1>7, <1>8, <2>1, <2>2, <2>3, Zenon
  <1> QED BY <1>9, <1>10, Zenon DEF RegisterInv

LEMMA RegisterDone ==
  ASSUME TypeInv, BufferInv, RegisterInv, ParseEventsDone
  PROVE  RegisterInv'
  <1>1. /\ pc \in {"event", "legacy"} /\ k > Len(buf.events) /\ pc' = "open log" /\ UNCHANGED input /\ calc' = calc
    BY Zenon DEF ParseEventsDone, Goto, replay
  <1>2. Es' = Es /\ (Exact' <=> Exact)
    <2>1. Input' = Input /\ ReadFails' = ReadFails BY <1>1, InputStays, Zenon
    <2>2. Es' = Es BY <2>1, Zenon DEF Es
    <2> QED BY <2>1, <2>2, Zenon DEF Exact
  <1>3. pc' \notin {"event", "digest"} BY <1>1
  <1> SUFFICES ASSUME Exact, NEW n \in Pcr PROVE calc[n] = TpmValue(Es, n)
    <2>1. \A n : TpmValue(Es, n)' = TpmValue(Es, n) BY <1>2, Zenon DEF TpmValue
    <2> QED BY <1>1, <1>2, <1>3, <2>1, Zenon DEF RegisterInv
  <1>4. Input.head = "specid" /\ ~ReadFails /\ pc \notin {"parse", "read", "exited", "crashed"}
    BY <1>1, Zenon DEF Exact
  <1>5. buf.head = "specid" /\ Len(buf.events) = Len(Es)
    BY <1>4, Zenon DEF BufferInv, Stopped, Es
  <1>6. pc = "event"
    <2>1. pc = "legacy" => buf.head = "sha1" BY Zenon DEF BufferInv
    <2> QED BY <1>1, <1>5, <2>1
  <1>7. Es \in Seq(Event) /\ Len(Es) \in Nat /\ n \in Nat BY LogInput, PcrIs DEF Es
  <1>8. k - 1 = Len(Es) /\ k - 1 \in 0 .. Len(Es)
    <2>1. k <= Len(buf.events) + 1 BY <1>6, Zenon DEF BufferInv
    <2>2. k > Len(Es) /\ k <= Len(Es) + 1 BY <1>1, <1>5, <2>1, Zenon
    <2>3. k \in Nat \ {0} BY Zenon DEF TypeInv, TypeOK
    <2> QED BY <1>7, <2>2, <2>3
  <1>9. SubSeq(Es, 1, k - 1) = Es BY <1>7, <1>8, BeforeType
  <1>10. calc[n] = Partial(n, k - 1, Before(k - 1)) BY <1>6, Zenon DEF RegisterInv
  <1>11. TpmValue(Es, n) = (IF n = 0 THEN Start(Es) ELSE <<>>) \o Extends(Measurements(Es), n)
    BY <1>7, TpmValueIs, Zenon
  <1> QED BY <1>9, <1>10, <1>11, Zenon DEF Partial, Before

LEMMA RegisterKept ==
  ASSUME RegisterInv, UNCHANGED <<input, calc>>, pc \in OutputLabel, pc' \notin {"event", "digest"}
  PROVE  RegisterInv'
  <1>1. Input' = Input /\ ReadFails' = ReadFails BY InputStays, Zenon
  <1>2. Es' = Es BY <1>1, Zenon DEF Es
  <1>3. Exact' <=> Exact BY <1>1, <1>2, Zenon DEF Exact
  <1>4. \A n : TpmValue(Es, n)' = TpmValue(Es, n) BY <1>2, Zenon DEF TpmValue
  <1>5. Exact => \A n \in Pcr : calc[n] = TpmValue(Es, n) BY Zenon DEF RegisterInv
  <1>6. Exact' => \A n \in Pcr : calc'[n] = TpmValue(Es, n)' BY <1>3, <1>4, <1>5, Zenon
  <1>7. pc' # "event" /\ pc' # "digest" OBVIOUS
  <1> QED BY <1>6, <1>7, Zenon DEF RegisterInv

LEMMA OutputKeeps ==
  ASSUME Output
  PROVE  UNCHANGED <<input, calc>> /\ pc \in OutputLabel /\ pc' \in OutputLabel \cup {"exited"}
  <1>1. UNCHANGED <<input, calc>>
    BY Zenon DEF Output, OpenLog, PrintLog, LogDone, OpenSummary, PrintRegister, SummaryDone, PrintAggregate, Emit, replay
  <1>2. pc \in OutputLabel BY ParsingPlace
  <1>3. pc' \in OutputLabel \cup {"exited"}
    BY DEF Output, OpenLog, PrintLog, LogDone, OpenSummary, PrintRegister, SummaryDone, PrintAggregate, Emit, Goto, OutputLabel
  <1> QED BY <1>1, <1>2, <1>3

LEMMA RegisterNext ==
  ASSUME TypeInv, StageInv, BufferInv, ProgressInv, RegisterInv, [Next]_vars
  PROVE  RegisterInv'
  <1>0. ASSUME pc' \notin {"event", "digest"}, pc' \notin OutputLabel PROVE RegisterInv'
    <2>1. pc' # "event" /\ pc' # "digest" BY <1>0
    <2> QED BY <1>0, <2>1, Zenon DEF RegisterInv
  <1>1. CASE Fail
    <2>1. pc' = "exited" BY <1>1 DEF Fail
    <2> QED BY <1>0, <2>1 DEF OutputLabel
  <1>2. CASE ParseHeader /\ ~Fail BY <1>2, RegisterHeader
  <1>3. CASE ParseDigest /\ ~Fail BY <1>3, RegisterDigest
  <1>4. CASE ParseBody /\ ~Fail BY <1>4, RegisterBody
  <1>5. CASE ParseEventsDone BY <1>5, RegisterDone
  <1>6. CASE Output
    <2>1. UNCHANGED <<input, calc>> /\ pc \in OutputLabel /\ pc' \in OutputLabel \cup {"exited"}
      BY <1>6, OutputKeeps
    <2>2. pc' \notin {"event", "digest"} BY <2>1 DEF OutputLabel
    <2> QED BY <2>1, <2>2, RegisterKept
  <1>7. CASE ReadHead /\ ~Fail
    <2>1. pc = "head" /\ UNCHANGED <<input, replay>> /\ k' = 1 /\ (pc' = "event" \/ pc' = "legacy")
      BY <1>7, Zenon DEF ReadHead, Goto, SpecidCallback
    <2>2. Untouched BY <2>1 DEF StageInv
    <2>3. CASE pc' = "event" BY <2>1, <2>2, <2>3, RegisterStart
    <2>4. CASE pc' = "legacy" BY <1>0, <2>4 DEF OutputLabel
    <2> QED BY <2>1, <2>3, <2>4
  <1>8. CASE UNCHANGED vars
    <2>1. UNCHANGED <<input, pc, k, d, pending, calc>> BY <1>8 DEF vars, input
    <2>2. Input' = Input /\ ReadFails' = ReadFails /\ Headers' = Headers
      BY <2>1, InputStays, Zenon DEF Headers
    <2>3. Es' = Es BY <2>2, Zenon DEF Es
    <2>4. Exact' <=> Exact BY <2>2, <2>3, Zenon DEF Exact
    <2>5. \A n : TpmValue(Es, n)' = TpmValue(Es, n) BY <2>3, Zenon DEF TpmValue
    <2>6. \A n : Partial(n, k - 1, Before(k - 1))' = Partial(n, k - 1, Before(k - 1))
      BY <2>1, <2>3, Zenon DEF Partial, Before
    <2>7. \A n : Partial(n, k, Before(k - 1) \o Taken(Es[k], d - 1))' = Partial(n, k, Before(k - 1) \o Taken(Es[k], d - 1))
      BY <2>1, <2>3, Zenon DEF Partial, Before
    <2>8. (QuietZero(Headers)' <=> QuietZero(Headers)) /\ Start(SubSeq(Es, 1, Headers))' = Start(SubSeq(Es, 1, Headers))
      BY <2>2, <2>3, Zenon DEF QuietZero
    <2>9. (Es[k].type = "no action" /\ d = 1)' <=> (Es[k].type = "no action" /\ d = 1)
      BY <2>1, <2>3, Zenon
    <2>10. pc' = pc /\ calc' = calc /\ pending' = pending BY <2>1
    <2>11. CASE ~Exact BY <2>4, <2>11, Zenon DEF RegisterInv
    <2>12. CASE Exact
      <3>1. /\ pc = "event" => pending = FALSE /\ \A n \in Pcr : calc[n] = Partial(n, k - 1, Before(k - 1))
            /\ pc = "digest" => /\ pending <=> (Es[k].type = "no action" /\ d = 1)
                                /\ \A n \in Pcr : calc[n] = Partial(n, k, Before(k - 1) \o Taken(Es[k], d - 1))
            /\ pc \in {"event", "digest"} /\ QuietZero(Headers) => calc[0] = Start(SubSeq(Es, 1, Headers))
            /\ pc \in OutputLabel => \A n \in Pcr : calc[n] = TpmValue(Es, n)
        BY <2>12, Zenon DEF RegisterInv
      <3>2. pc' = "event" => pending' = FALSE /\ \A n \in Pcr : calc'[n] = Partial(n, k - 1, Before(k - 1))'
        BY <2>6, <2>10, <3>1, Zenon
      <3>3. pc' = "digest" => /\ pending' <=> (Es[k].type = "no action" /\ d = 1)'
                              /\ \A n \in Pcr : calc'[n] = Partial(n, k, Before(k - 1) \o Taken(Es[k], d - 1))'
        BY <2>7, <2>9, <2>10, <3>1, Zenon
      <3>4. pc' \in {"event", "digest"} /\ QuietZero(Headers)' => calc'[0] = Start(SubSeq(Es, 1, Headers))'
        BY <2>8, <2>10, <3>1, Zenon
      <3>5. pc' \in OutputLabel => \A n \in Pcr : calc'[n] = TpmValue(Es, n)'
        BY <2>5, <2>10, <3>1, Zenon
      <3> QED BY <3>2, <3>3, <3>4, <3>5, Zenon DEF RegisterInv
    <2> QED BY <2>11, <2>12
  <1>9. CASE Parse \/ OutOfMemory \/ ReadLog \/ BadHead \/ ParseLegacyEvent \/ IncompleteEvent \/ IncompleteLegacyEvent
    <2>1. Fail \/ pc' \in {"parse", "read", "head", "legacy", "crashed"}
      <3>1. CASE Parse
        <4>1. pc = "parse" BY <3>1, ParsingPlace
        <4> QED BY <3>1, <4>1 DEF Parse, ParseFlag, ParseFormat, ParsePcrs, ParseIn, ParseInvalid, ParseEnd, Parsing, Parsed, Goto
      <3>2. CASE OutOfMemory BY <3>2 DEF OutOfMemory
      <3>3. CASE ReadLog \/ BadHead \/ ParseLegacyEvent \/ IncompleteEvent \/ IncompleteLegacyEvent
        BY <3>3 DEF ReadLog, BadHead, ParseLegacyEvent, IncompleteEvent, IncompleteLegacyEvent, Goto
      <3> QED BY <1>9, <3>1, <3>2, <3>3
    <2>2. pc' \in {"parse", "read", "head", "legacy", "crashed"} => pc' \notin {"event", "digest"} /\ pc' \notin OutputLabel
      BY DEF OutputLabel
    <2> QED BY <1>0, <1>1, <2>1, <2>2
  <1> QED BY <1>1, <1>2, <1>3, <1>4, <1>5, <1>6, <1>7, <1>8, <1>9, Zenon DEF Next, ParseLog, Terminated

LEMMA RegisterInit == Init => RegisterInv
  <1> SUFFICES ASSUME Init PROVE RegisterInv OBVIOUS
  <1>1. pc = "parse" BY Zenon DEF Init
  <1>2. pc # "event" /\ pc # "digest" /\ pc \notin {"event", "digest"} /\ pc \notin OutputLabel
    BY <1>1 DEF OutputLabel
  <1> QED BY <1>2, Zenon DEF RegisterInv

-----------------------------------------------------------------------------
(* The summary *)

LEMMA SummaryKept == ASSUME SummaryMatchesTpm, UNCHANGED <<input, out>> PROVE SummaryMatchesTpm'
  <1>1. Input' = Input /\ ReadFails' = ReadFails /\ out' = out BY InputStays, Zenon
  <1> QED BY <1>1, Zenon DEF SummaryMatchesTpm

LEMMA SummaryNoise == ASSUME OnlyNoise' PROVE SummaryMatchesTpm'
  <1>1. \A j \in DOMAIN out' : out'[j].t # "pcr" BY DEF OnlyNoise
  <1> QED BY <1>1, Zenon DEF SummaryMatchesTpm

LEMMA SummaryAppends ==
  ASSUME SummaryMatchesTpm, UNCHANGED input, out \in Seq(Tokens), NEW ts \in Seq(Tokens), out' = out \o ts,
         \A j \in DOMAIN ts : ts[j].t = "pcr" /\ Exact => ts[j].value = TpmValue(Es, ts[j].pcr)
  PROVE  SummaryMatchesTpm'
  <1>1. Input' = Input /\ ReadFails' = ReadFails BY InputStays, Zenon
  <1>2. \A j \in DOMAIN (out \o ts) : (\E l \in DOMAIN out : (out \o ts)[j] = out[l]) \/ \E l \in DOMAIN ts : (out \o ts)[j] = ts[l]
    BY ConcatElements
  <1>3. \A j \in DOMAIN out : out[j].t = "pcr" /\ Exact => out[j].value = TpmValue(Es, out[j].pcr)
    BY Zenon DEF SummaryMatchesTpm, Exact, Es
  <1>4. \A j \in DOMAIN out' : out'[j].t = "pcr" /\ Exact => out'[j].value = TpmValue(Es, out'[j].pcr)
    BY <1>2, <1>3, Zenon
  <1> QED BY <1>1, <1>4, Zenon DEF SummaryMatchesTpm, Exact, Es

\* What a step of the output writes.
LEMMA EmitWrites ==
  ASSUME TypeInv, OpenLog \/ LogDone \/ OpenSummary \/ SummaryDone
  PROVE  \E ts \in Seq(Tokens) : out' = out \o ts /\ (ts = <<>> \/ \E t \in {"[", "]"} : ts = <<Token(t, 0, 0, FALSE)>>)
  <1>1. \E ts : out' = out \o ts /\ (ts = <<>> \/ \E t \in {"[", "]", ","} : t # "," /\ ts = Punctuation(t))
    <2>1. CASE OpenLog BY <2>1 DEF OpenLog, Emit
    <2>2. CASE LogDone BY <2>2 DEF LogDone, Emit
    <2>3. CASE OpenSummary BY <2>3 DEF OpenSummary, Emit
    <2>4. CASE SummaryDone BY <2>4 DEF SummaryDone, Emit
    <2> QED BY <2>1, <2>2, <2>3, <2>4
  <1>2. \A T : <<>> \in Seq(T) OBVIOUS
  <1>3. PICK ts : out' = out \o ts /\ (ts = <<>> \/ \E t \in {"[", "]", ","} : t # "," /\ ts = Punctuation(t))
    BY <1>1
  <1>4. CASE ts = <<>> BY <1>2, <1>3, <1>4, Zenon
  <1>5. ASSUME NEW t \in {"[", "]", ","}, t # ",", ts = Punctuation(t)
        PROVE  ts \in Seq(Tokens) /\ (ts = <<>> \/ \E u \in {"[", "]"} : ts = <<Token(u, 0, 0, FALSE)>>)
    <2>1. Punctuation(t) \in Seq(Tokens) /\ (Punctuation(t) = <<>> \/ Punctuation(t) = <<Token(t, 0, 0, FALSE)>>)
      BY PunctuationType
    <2>2. t \in {"[", "]"} BY <1>5
    <2> QED BY <1>5, <2>1, <2>2, Zenon
  <1> QED BY <1>3, <1>4, <1>5, Zenon

LEMMA RegisterWrites ==
  ASSUME TypeInv, PrintRegister
  PROVE  /\ k \in 1 .. Len(opts.pcrs)
         /\ \E ts \in Seq(Tokens) :
              /\ out' = out \o ts
              /\ \/ ts = <<Token("pcr", Printed(k), calc[Printed(k)], FALSE)>> /\ ~(Json /\ k < Len(opts.pcrs))
                 \/ /\ ts = <<Token("pcr", Printed(k), calc[Printed(k)], FALSE), Token(",", 0, 0, FALSE)>>
                    /\ Json /\ k < Len(opts.pcrs)
  <1> DEFINE x == Token("pcr", Printed(k), calc[Printed(k)], FALSE)
             u == IF k < Len(opts.pcrs) THEN Punctuation(",") ELSE <<>>
             y == Token(",", 0, 0, FALSE)
  <1>1. k \in 1 .. Len(opts.pcrs)
    <2>1. k \in Nat \ {0} /\ k <= Len(opts.pcrs) BY DEF PrintRegister, TypeInv, TypeOK
    <2>2. Len(opts.pcrs) \in Nat BY OptionsType DEF TypeInv, TypeOK, OptionsAre
    <2> QED BY <2>1, <2>2
  <1>2. out' = out \o <<x>> \o u BY DEF PrintRegister
  <1>3. x \in Tokens /\ y \in Tokens /\ out \in Seq(Tokens)
    BY <1>1, RegisterTokenType DEF TypeInv, Token, Tokens, TokenType, AnyValue
  <1>4. \/ u = <<>> /\ ~(Json /\ k < Len(opts.pcrs))
        \/ u = <<y>> /\ Json /\ k < Len(opts.pcrs) BY Zenon DEF Punctuation
  <1> HIDE DEF x, u, y
  <1> DEFINE T == Tokens
  <1>5. x \in T /\ y \in T /\ out \in Seq(T) BY <1>3
  <1> HIDE DEF T
  <1>6. CASE u = <<>> /\ ~(Json /\ k < Len(opts.pcrs))
    <2>1. <<x>> \in Seq(T) BY <1>5, SeqOfOne
    <2>2. out' = out \o <<x>>
      <3>1. \A s \in Seq(T) : s \o <<>> = s OBVIOUS
      <3>2. out \o <<x>> \in Seq(T) BY <1>5, <2>1
      <3> QED BY <1>2, <1>6, <3>1, <3>2, Zenon
    <2> QED BY <1>1, <1>6, <2>1, <2>2, Zenon DEF x, T
  <1>7. CASE u = <<y>> /\ Json /\ k < Len(opts.pcrs)
    <2>1. <<x>> \in Seq(T) /\ <<y>> \in Seq(T) /\ <<x, y>> \in Seq(T)
      BY <1>5, SeqOfOne, PairInSeq
    <2>2. <<x>> \o <<y>> = <<x, y>> BY ShortSequences
    <2>3. out' = out \o <<x, y>>
      <3>1. (out \o <<x>>) \o <<y>> = out \o (<<x>> \o <<y>>) BY <1>5, <2>1, ConcatTwice
      <3> QED BY <1>2, <1>7, <2>2, <3>1, Zenon
    <2> QED BY <1>1, <1>7, <2>1, <2>3, Zenon DEF x, y, T
  <1> QED BY <1>4, <1>6, <1>7, Zenon

LEMMA PrintWrites ==
  ASSUME TypeInv, PrintLog
  PROVE  /\ k \in 1 .. Len(opts.pcrs) /\ Printed(k) \in Pcr /\ text[Printed(k)] \in Seq(TextToken)
         /\ \/ text[Printed(k)] = <<>> /\ UNCHANGED <<text, out>>
            \/ /\ text[Printed(k)] # <<>>
               /\ \E ts \in Seq(TextToken) :
                    /\ ts = IF LastLog(k) THEN Clipped(text[Printed(k)]) ELSE text[Printed(k)]
                    /\ out' = out \o ts /\ text' = [text EXCEPT ![Printed(k)] = ts]
         /\ UNCHANGED <<input, pc>> /\ k' = k + 1
  <1> DEFINE n == Printed(k)
             ts == IF LastLog(k) THEN Clipped(text[n]) ELSE text[n]
  <1>1. k \in 1 .. Len(opts.pcrs)
    <2>1. k \in Nat \ {0} /\ k <= Len(opts.pcrs) BY DEF PrintLog, TypeInv, TypeOK
    <2>2. Len(opts.pcrs) \in Nat BY OptionsType DEF TypeInv, TypeOK, OptionsAre
    <2> QED BY <2>1, <2>2
  <1>2. n \in Pcr BY <1>1, PrintedIs
  <1>3. text[n] \in Seq(TextToken) BY <1>2 DEF TypeInv, TypeOK
  <1>4. UNCHANGED <<input, pc>> /\ k' = k + 1 BY Zenon DEF PrintLog
  <1>5. CASE text[n] = <<>>
    <2>1. UNCHANGED <<text, out>> BY <1>5, Zenon DEF PrintLog
    <2> QED BY <1>1, <1>2, <1>3, <1>4, <1>5, <2>1, Zenon
  <1>6. CASE text[n] # <<>>
    <2>1. text' = [text EXCEPT ![n] = ts] /\ out' = out \o ts BY <1>6, Zenon DEF PrintLog
    <2>2. ts \in Seq(TextToken) BY <1>3, <1>6, ClippedType
    <2> QED BY <1>1, <1>2, <1>3, <1>4, <1>6, <2>1, <2>2, Zenon
  <1> QED BY <1>5, <1>6

LEMMA SummaryOutput ==
  ASSUME TypeInv, RegisterInv, SummaryMatchesTpm, Output
  PROVE  SummaryMatchesTpm'
  <1>0. UNCHANGED input /\ pc \in OutputLabel /\ out \in Seq(Tokens)
    BY OutputKeeps, Zenon DEF TypeInv
  <1>1. CASE OpenLog \/ LogDone \/ OpenSummary \/ SummaryDone
    <2>1. PICK ts \in Seq(Tokens) : out' = out \o ts /\ (ts = <<>> \/ \E t \in {"[", "]"} : ts = <<Token(t, 0, 0, FALSE)>>)
      BY <1>1, EmitWrites
    <2>2. \A j \in DOMAIN ts : ts[j].t # "pcr"
      <3>1. ASSUME NEW t \in {"[", "]"} PROVE \A j \in DOMAIN <<Token(t, 0, 0, FALSE)>> : <<Token(t, 0, 0, FALSE)>>[j].t # "pcr"
        <4> DEFINE x == Token(t, 0, 0, FALSE)
        <4>1. x.t # "pcr" BY <3>1 DEF Token
        <4> HIDE DEF x
        <4>2. \A j \in DOMAIN <<x>> : <<x>>[j].t # "pcr" BY <4>1, OneOrTwo
        <4> QED BY <4>2 DEF x
      <3>2. \A j \in DOMAIN <<>> : FALSE BY OneOrTwo
      <3> QED BY <2>1, <3>1, <3>2, Zenon
    <2> QED BY <1>0, <2>1, <2>2, SummaryAppends, Zenon
  <1>2. CASE PrintLog
    <2>1. CASE UNCHANGED <<text, out>> BY <1>0, <2>1, SummaryKept
    <2>2. CASE \E ts \in Seq(TextToken) : out' = out \o ts
      <3>1. PICK ts \in Seq(TextToken) : out' = out \o ts BY <2>2
      <3>2. ts \in Seq(Tokens) /\ \A j \in DOMAIN ts : ts[j].t # "pcr" BY TextTokens
      <3> QED BY <1>0, <3>1, <3>2, SummaryAppends, Zenon
    <2> QED BY <1>2, <2>1, <2>2, PrintWrites, Zenon
  <1>3. CASE PrintRegister
    <2> DEFINE x == Token("pcr", Printed(k), calc[Printed(k)], FALSE)
               y == Token(",", 0, 0, FALSE)
    <2>1. PICK ts \in Seq(Tokens) : out' = out \o ts /\ (ts = <<x>> \/ ts = <<x, y>>)
      BY <1>3, RegisterWrites, Zenon
    <2>2. Printed(k) \in Pcr BY <1>3, RegisterWrites, PrintedIs, Zenon
    <2>3. Exact => calc[Printed(k)] = TpmValue(Es, Printed(k))
      BY <1>0, <2>2, Zenon DEF RegisterInv
    <2>4. x.value = calc[Printed(k)] /\ x.pcr = Printed(k) /\ y.t # "pcr" BY DEF Token
    <2> HIDE DEF x, y
    <2>5. \A j \in DOMAIN ts : ts[j] \in {x, y}
      <3>1. /\ \A j \in DOMAIN <<x>> : <<x>>[j] \in {x, y}
            /\ \A j \in DOMAIN <<x, y>> : <<x, y>>[j] \in {x, y} BY OneOrTwo
      <3> QED BY <2>1, <3>1, Zenon
    <2>6. \A j \in DOMAIN ts : ts[j].t = "pcr" /\ Exact => ts[j].value = TpmValue(Es, ts[j].pcr)
      BY <2>3, <2>4, <2>5, Zenon
    <2> QED BY <1>0, <2>1, <2>6, SummaryAppends, Zenon
  <1>4. CASE PrintAggregate
    <2> DEFINE x == Token("aggregate", 0, [j \in DOMAIN opts.pcrs |-> calc[Printed(j)]], FALSE)
    <2>1. out' = Append(out, x) \/ out' = out BY <1>4 DEF PrintAggregate
    <2>2. x \in Tokens /\ x.t # "pcr" BY AggregateTokenType DEF Token
    <2> HIDE DEF x
    <2>3. CASE out' = Append(out, x)
      <3>1. out' = out \o <<x>> /\ <<x>> \in Seq(Tokens)
        <4>1. Append(out, x) = out \o <<x>> BY <1>0, <2>2, AppendAsConcat, Zenon
        <4> QED BY <2>2, <2>3, <4>1, SeqOfOne
      <3>2. \A j \in DOMAIN <<x>> : <<x>>[j].t # "pcr" BY <2>2, OneOrTwo
      <3> QED BY <1>0, <3>1, <3>2, SummaryAppends, Zenon
    <2> QED BY <1>0, <2>1, <2>3, SummaryKept
  <1> QED BY <1>1, <1>2, <1>3, <1>4 DEF Output

LEMMA SummaryNext ==
  ASSUME TypeInv, StageInv, StageInv', RegisterInv, SummaryMatchesTpm, [Next]_vars
  PROVE  SummaryMatchesTpm'
  <1>1. CASE Output BY <1>1, SummaryOutput
  <1>2. CASE OutOfMemory \/ ParseEventsDone \/ UNCHANGED vars
    <2>1. UNCHANGED <<input, out>>
      BY <1>2, Zenon DEF OutOfMemory, ParseEventsDone, vars, input
    <2> QED BY <2>1, SummaryKept
  <1>3. CASE Fail
    <2>1. ret' = -1 BY <1>3 DEF Fail
    <2>2. OnlyNoise' BY <2>1, Zenon DEF StageInv
    <2> QED BY <2>2, SummaryNoise
  <1>4. CASE (Parse \/ (ParseLog /\ ~ParseEventsDone)) /\ ~Fail
    <2>1. pc' \in {"parse", "read", "head", "event", "digest", "legacy"}
      <3>1. CASE Parse /\ ~Fail
        <4>1. pc = "parse" BY <3>1, ParsingPlace
        <4> QED BY <3>1, <4>1 DEF Parse, ParseFlag, ParseFormat, ParsePcrs, ParseIn, ParseInvalid, ParseEnd, Parsing, Parsed, Goto
      <3>2. CASE ParseLog /\ ~ParseEventsDone /\ ~Fail
        BY <3>2 DEF ParseLog, ReadLog, ReadHead, BadHead, ParseHeader, ParseDigest, ParseBody, ParseLegacyEvent,
             IncompleteEvent, IncompleteLegacyEvent, Goto
      <3> QED BY <1>4, <3>1, <3>2
    <2>2. pc' \notin OutputLabel /\ ~Stopped' BY <2>1 DEF OutputLabel, Stopped
    <2>3. OnlyNoise' BY <2>2, Zenon DEF StageInv
    <2> QED BY <2>3, SummaryNoise
  <1> QED BY <1>1, <1>2, <1>3, <1>4, Zenon DEF Next, ParseLog, Terminated

LEMMA SummaryInit == Init => SummaryMatchesTpm
  <1> SUFFICES ASSUME Init PROVE SummaryMatchesTpm OBVIOUS
  <1>1. out = <<>> BY Zenon DEF Init
  <1> QED BY <1>1 DEF SummaryMatchesTpm

-----------------------------------------------------------------------------
(* The printed documents *)

Links == {p \in Tokens \X Tokens : Follows(p[1], p[2])}

Chained(ts) == ts \in Seq(Tokens) /\ ts # <<>> /\ Linked(ts, Links)

LEMMA ChainedOne ==
  ASSUME NEW x \in Tokens
  PROVE  Chained(<<x>>) /\ <<x>>[1] = x /\ Last(<<x>>) = x /\ <<x>> \in Seq(Tokens) /\ <<x>> # <<>>
  <1>1. <<x>>[1] = x /\ Last(<<x>>) = x /\ <<x>> # <<>> BY OneOrTwo DEF Last
  <1>2. Linked(<<x>>, Links) BY LinkedOne, Zenon
  <1>3. <<x>> \in Seq(Tokens) BY SeqOfOne, Zenon
  <1> QED BY <1>1, <1>2, <1>3 DEF Chained

LEMMA LastIs ==
  ASSUME NEW T, NEW ts \in Seq(T), ts # <<>>
  PROVE  Last(ts) \in T /\ ts[1] \in T /\ Len(ts) \in Nat \ {0} /\ Last(ts) = ts[Len(ts)]
  BY DEF Last

LEMMA ChainedConcat ==
  ASSUME NEW a, NEW b, Chained(a), Chained(b), Follows(Last(a), b[1])
  PROVE  Chained(a \o b) /\ (a \o b)[1] = a[1] /\ Last(a \o b) = Last(b)
  <1> DEFINE T == Tokens
  <1>1. a \in Seq(T) /\ a # <<>> /\ b \in Seq(T) /\ b # <<>> /\ Linked(a, Links) /\ Linked(b, Links)
    BY DEF Chained
  <1> HIDE DEF T
  <1>2. Last(a) \in T /\ b[1] \in T /\ Last(a) = a[Len(a)] /\ Last(b) = b[Len(b)]
    BY <1>1, LastIs
  <1>3. <<a[Len(a)], b[1]>> \in Links BY <1>2 DEF Links, T
  <1>4. /\ Linked(a \o b, Links) /\ a \o b \in Seq(T) /\ a \o b # <<>>
        /\ (a \o b)[1] = a[1] /\ (a \o b)[Len(a \o b)] = b[Len(b)]
    BY <1>1, <1>3, LinkedConcat, Zenon
  <1>5. Last(a \o b) = Last(b) BY <1>2, <1>4, Zenon DEF Last
  <1> QED BY <1>4, <1>5, Zenon DEF Chained, T

\* One token more.
LEMMA ChainedMore ==
  ASSUME NEW a, Chained(a), NEW x \in Tokens, Follows(Last(a), x)
  PROVE  Chained(a \o <<x>>) /\ (a \o <<x>>)[1] = a[1] /\ Last(a \o <<x>>) = x
  <1>1. Chained(<<x>>) /\ <<x>>[1] = x /\ Last(<<x>>) = x BY ChainedOne, Zenon
  <1> DEFINE b == <<x>>
  <1>2. Chained(b) /\ Follows(Last(a), b[1]) /\ Last(b) = x BY <1>1, Zenon
  <1> HIDE DEF b
  <1>3. Chained(a \o b) /\ (a \o b)[1] = a[1] /\ Last(a \o b) = Last(b)
    BY <1>2, ChainedConcat, Zenon
  <1> QED BY <1>2, <1>3, Zenon DEF b

LEMMA ChainedClipped ==
  ASSUME NEW ts \in Seq(TextToken), Chained(ts)
  PROVE  /\ Chained(Clipped(ts)) /\ Clipped(ts)[1].t = ts[1].t
         /\ Last(Clipped(ts)).t = Last(ts).t /\ Last(Clipped(ts)).comma = FALSE
  <1> DEFINE c == Clipped(ts)
             n == Len(ts)
  <1>0. ts # <<>> /\ Linked(ts, Links) /\ ts \in Seq(Tokens) BY DEF Chained
  <1>1. /\ c \in Seq(TextToken) /\ c # <<>> /\ Len(c) = n
        /\ \A j \in 1 .. n : c[j].t = ts[j].t /\ (j < n => c[j] = ts[j])
        /\ c[n].comma = FALSE BY <1>0, ClippedType, Zenon
  <1>2. n \in Nat \ {0} BY <1>0, LastIs, Zenon
  <1>3. c \in Seq(Tokens) BY <1>1, TextTokens, Zenon
  <1> HIDE DEF c, n
  <1>4. \A j \in 1 .. n : ts[j] \in Tokens /\ c[j] \in Tokens
    <2> DEFINE T == Tokens
    <2>1. ts \in Seq(T) /\ c \in Seq(T) BY <1>0, <1>3
    <2> HIDE DEF T
    <2>2. \A j \in 1 .. n : ts[j] \in T /\ c[j] \in T BY <1>1, <2>1 DEF n
    <2> QED BY <2>2 DEF T
  <1>5. ASSUME NEW j \in 1 .. n - 1 PROVE <<c[j], c[j + 1]>> \in Links
    <2>1. j \in 1 .. n /\ j + 1 \in 1 .. n /\ j < n BY <1>2, <1>5
    <2>2. <<ts[j], ts[j + 1]>> \in Links BY <1>0, <1>5, Zenon DEF Linked, n
    <2>3. Follows(ts[j], ts[j + 1]) BY <1>4, <2>1, <2>2 DEF Links
    <2>4. c[j] = ts[j] /\ c[j + 1].t = ts[j + 1].t BY <1>1, <2>1, Zenon
    <2>5. Follows(c[j], c[j + 1]) BY <2>3, <2>4, Zenon DEF Follows
    <2> QED BY <1>4, <2>1, <2>5 DEF Links
  <1>6. Linked(c, Links) BY <1>1, <1>5, Zenon DEF Linked
  <1>7. 1 \in 1 .. n /\ n \in 1 .. n BY <1>2
  <1>8. Chained(c) BY <1>1, <1>3, <1>6, Zenon DEF Chained
  <1>9. Last(c) = c[n] /\ Last(ts) = ts[n] BY <1>1, Zenon DEF Last, n
  <1> QED BY <1>1, <1>7, <1>8, <1>9, Zenon DEF c

\* A text of a PCR: it starts with the initial value, its last token is one of S
\* and carries its comma.
Object(ts, S) == Chained(ts) /\ ts[1].t = "init" /\ Last(ts).t \in S /\ Last(ts).comma = TRUE

LEMMA ObjectMore ==
  ASSUME NEW ts, NEW S, Object(ts, S), NEW x \in Tokens, Follows(Last(ts), x), x.comma = TRUE
  PROVE  Object(ts \o <<x>>, {x.t})
  <1>1. Chained(ts \o <<x>>) /\ (ts \o <<x>>)[1] = ts[1] /\ Last(ts \o <<x>>) = x
    BY ChainedMore, Zenon DEF Object
  <1>2. ts[1].t = "init" BY Zenon DEF Object
  <1> QED BY <1>1, <1>2, Zenon DEF Object

LEMMA ObjectStart ==
  ASSUME NEW x \in Tokens, x.t = "init", x.comma = TRUE
  PROVE  Object(<<x>>, Whole)
  <1>1. Chained(<<x>>) /\ <<x>>[1] = x /\ Last(<<x>>) = x BY ChainedOne, Zenon
  <1> QED BY <1>1 DEF Object, Whole

\* The description of an event that can be described.
LEMMA DescribedText ==
  ASSUME NEW e \in Event, e.type # "no action", e.data # "empty",
         e.type \in {"image", "action"} => e.data # "long",
         e.type \in {"ipl", "action", "gpt"} => e.data # "quoted"
  PROVE  DescriptionTokens(e) = <<Token("close", e.pcr, 0, TRUE)>>
  <1>1. e.type \in Type BY EventIs
  <1>2. e.type \in {"hcrtm", "variable", "blob", "image", "gpt", "ipl", "action", "other"}
    BY <1>1 DEF Type
  <1>3. CASE e.type = "variable" BY <1>3 DEF DescriptionTokens, VariableText, Description
  <1>4. CASE e.type = "blob" BY <1>4 DEF DescriptionTokens, BlobText, Description
  <1>5. CASE e.type = "gpt" BY <1>5 DEF DescriptionTokens, GptText, Verbatim
  <1>6. CASE e.type = "image" BY <1>6 DEF DescriptionTokens, ImageText, Description
  <1>7. CASE e.type = "action" BY <1>7 DEF DescriptionTokens, ActionText, Verbatim
  <1>8. CASE e.type = "ipl" BY <1>8 DEF DescriptionTokens, IplText, Verbatim
  <1>9. CASE e.type = "hcrtm" \/ e.type = "other" BY <1>9 DEF DescriptionTokens, Description
  <1> QED BY <1>2, <1>3, <1>4, <1>5, <1>6, <1>7, <1>8, <1>9

Nice == Json /\ Input.head = "specid" /\ Describable(Es)

\* A PCR of the list from the j-th on has a text to be printed.
Later(j) == \E l \in j .. Len(opts.pcrs) : text[Printed(l)] # <<>>

Texts(S) == \A n \in Requested : text[n] = <<>> \/ Object(text[n], S[n])
AllWhole == [n \in Pcr |-> Whole]

\* Where the text of a PCR ends while the digests of event e are parsed.
Ends(e) == [n \in Pcr |-> IF n = e.pcr /\ e.type # "no action" THEN {"open", "digest"} ELSE Whole]

Document(ts) == ts = <<>> \/ (Chained(ts) /\ ts[1].t = "[" /\ Last(ts).t = "]")
Opened(ts) == Chained(ts) /\ ts[1].t = "["

JsonInv ==
  Nice =>
    /\ pc = "event" => pending = FALSE /\ out = <<>> /\ Texts(AllWhole)
    /\ pc = "digest" => /\ pending <=> (Es[k].type = "no action" /\ d = 1)
                        /\ out = <<>> /\ Texts(Ends(Es[k]))
    /\ pc = "open log" => out = <<>> /\ Texts(AllWhole)
    /\ pc = "print log" =>
         /\ Opened(out)
         /\ Last(out).t = "[" \/ (Last(out).t \in Whole /\ (Last(out).comma <=> Later(k)))
         /\ Later(k) => Texts(AllWhole)
    /\ pc \in {"open summary", "print aggregate"} => Document(out)
    /\ pc = "print summary" =>
         Opened(out) /\ Last(out).t \in (IF k <= Len(opts.pcrs) THEN {"[", ","} ELSE {"[", "pcr"})

LEMMA NiceStays ==
  ASSUME UNCHANGED input
  PROVE  Es' = Es /\ (Nice' <=> Nice) /\ Requested' = Requested
  <1>1. Input' = Input /\ Json' = Json /\ Requested' = Requested BY InputStays, Zenon
  <1>2. Es' = Es BY <1>1, Zenon DEF Es
  <1> QED BY <1>1, <1>2, Zenon DEF Nice

\* The events of a log that can be described.
LEMMA NiceEvent ==
  ASSUME TypeInv, Nice, k \in 1 .. Len(Es)
  PROVE  /\ Es[k].type = "no action" => Len(Es[k].digests) = 1
         /\ Es[k].type # "no action" =>
              /\ Es[k].data # "empty"
              /\ Es[k].type \in {"image", "action"} => Es[k].data # "long"
              /\ Es[k].type \in {"ipl", "action", "gpt"} => Es[k].data # "quoted"
              /\ \A l \in DOMAIN Es[k].digests : Es[k].digests[l][1] # "sm3"
  <1>1. Es \in Seq(Event) BY LogInput DEF Es
  <1>2. k \in DOMAIN Es BY <1>1, SeqIsFunction, Zenon
  <1> QED BY <1>2, Zenon DEF Nice, Describable, NoActionsSingle

LEMMA JsonHeader ==
  ASSUME TypeInv, BufferInv, ProgressInv, JsonInv, ParseHeader, ~Fail
  PROVE  JsonInv'
  <1> DEFINE e == Es[k]
             h == HeaderTokens(e)
             i == InitToken(e.pcr, Now(e))
             ts == (IF e.pcr \notin seen THEN <<i>> ELSE <<>>) \o h
             o == Token("open", e.pcr, 0, TRUE)
  <1>1. /\ k \in 1 .. Len(Es) /\ e \in Event /\ e.pcr \in 0 .. MaxTpmPcrs - 1
        /\ pc = "event" /\ pc' = "digest" /\ d' = 1 /\ k' = k
        /\ text' = Logged(e.pcr, ts)
        /\ pending' = (pending \/ e.type = "no action")
        /\ UNCHANGED <<input, out>> BY HeaderStep, Zenon DEF input
  <1>2. Es' = Es /\ (Nice' <=> Nice) /\ Requested' = Requested BY <1>1, NiceStays, Zenon
  <1>3. \A n \in Requested : n \in Pcr /\ (n \in seen <=> text[n] # <<>>)
    BY <1>1, RequestedIs DEF ProgressInv
  <1>4. Now(e) \in {0, 3, 4} BY FoundIs DEF Now, TypeInv, TypeOK
  <1>5. h \in Seq(TextToken) /\ i \in TextToken /\ ts \in Seq(TextToken)
    BY <1>1, <1>4, HeaderTokensType
  <1>6. i \in Tokens /\ i.t = "init" /\ i.comma = TRUE /\ o \in Tokens /\ o.t = "open" /\ o.comma = TRUE
        /\ h = (IF e.type = "no action" THEN <<>> ELSE <<o>>)
    <2>1. e.pcr \in Nat BY <1>1, EventIs
    <2>2. o \in Tokens BY <2>1, TokenIs DEF TokenType, AnyValue
    <2>3. o.t = "open" /\ o.comma = TRUE BY DEF Token
    <2>4. i.t = "init" /\ i.comma = TRUE BY DEF InitToken, Token
    <2>5. i \in Tokens BY <1>5, TextIsOutput
    <2>6. h = (IF e.type = "no action" THEN <<>> ELSE <<o>>) BY Zenon DEF HeaderTokens
    <2> QED BY <2>2, <2>3, <2>4, <2>5, <2>6
  <1> HIDE DEF h, i, o
  <1>7. ASSUME Nice, NEW n \in Requested
        PROVE  text'[n] = <<>> \/ Object(text'[n], Ends(e)[n])
    <2>1. n \in Pcr /\ (n \in seen <=> text[n] # <<>>) /\ (text[n] = <<>> \/ Object(text[n], Whole))
      <3>1. n \in Pcr /\ (n \in seen <=> text[n] # <<>>) BY <1>3
      <3>2. text[n] = <<>> \/ Object(text[n], AllWhole[n])
        BY <1>1, <1>7, Zenon DEF JsonInv, Texts
      <3>3. AllWhole[n] = Whole BY <3>1 DEF AllWhole
      <3> QED BY <3>1, <3>2, <3>3
    <2>2. /\ text'[n] = IF n = e.pcr /\ n \in Requested THEN text[n] \o ts ELSE text[n]
          /\ text[n] \in Seq(TextToken) BY <1>1, <1>5, <2>1, LoggedText, Zenon
    <2>3. Ends(e)[n] = IF n = e.pcr /\ e.type # "no action" THEN {"open", "digest"} ELSE Whole
      BY <2>1 DEF Ends
    <2> HIDE DEF e
    <2>4. CASE n # e.pcr BY <2>1, <2>2, <2>3, <2>4, Zenon
    <2>5. CASE n = e.pcr
      <3> DEFINE a == IF n \in seen THEN text[n] ELSE <<i>>
      <3>1. Object(a, Whole)
        <4>1. CASE n \in seen BY <2>1, <4>1, Zenon
        <4>2. CASE n \notin seen
          <5>1. Object(<<i>>, Whole) BY <1>6, ObjectStart, Zenon
          <5> QED BY <4>2, <5>1, Zenon
        <4> QED BY <4>1, <4>2
      <3>2. text'[n] = a \o h
        <4>1. CASE n \in seen
          <5>1. ts = <<>> \o h /\ <<>> \o h = h BY <1>5, <2>5, <4>1, ConcatEmpty
          <5> QED BY <1>7, <2>2, <2>5, <4>1, <5>1, Zenon
        <4>2. CASE n \notin seen
          <5>1. text[n] = <<>> /\ ts = <<i>> \o h BY <2>1, <2>5, <4>2, Zenon
          <5>2. <<>> \o ts = ts
            <6> HIDE DEF ts
            <6> QED BY <1>5, ConcatEmpty
          <5> QED BY <1>7, <2>2, <2>5, <4>2, <5>1, <5>2, Zenon
        <4> QED BY <4>1, <4>2
      <3> HIDE DEF a, ts
      <3>3. CASE e.type = "no action"
        <4>1. a \o <<>> = a BY <3>1, ConcatEmpty DEF Object, Chained
        <4> QED BY <1>6, <2>3, <3>1, <3>2, <3>3, <4>1, Zenon
      <3>4. CASE e.type # "no action"
        <4>1. Follows(Last(a), o) BY <1>6, <3>1 DEF Object, Follows
        <4>2. Object(a \o <<o>>, {o.t}) BY <1>6, <3>1, <4>1, ObjectMore, Zenon
        <4>3. Object(a \o <<o>>, {"open", "digest"}) BY <1>6, <4>2 DEF Object
        <4> QED BY <1>6, <2>3, <2>5, <3>2, <3>4, <4>3, Zenon
      <3> QED BY <3>3, <3>4
    <2> QED BY <2>4, <2>5
  <1>8. Nice => Texts(Ends(Es[k]))'
    <2>1. Ends(Es[k])' = Ends(Es[k]) BY <1>1, <1>2, Zenon DEF Ends
    <2> QED BY <1>2, <1>7, <2>1, Zenon DEF Texts
  <1>9. Nice => out' = <<>> /\ (pending' <=> (Es'[k'].type = "no action" /\ d' = 1))
    <2>1. Nice => pending = FALSE /\ out = <<>> BY <1>1, Zenon DEF JsonInv
    <2> QED BY <1>1, <1>2, <2>1, Zenon
  <1>10. pc' \notin {"event", "open log", "print log", "open summary", "print aggregate", "print summary"}
    BY <1>1
  <1> HIDE DEF e, ts
  <1>11. /\ pc' # "event" /\ pc' # "open log" /\ pc' # "print log" /\ pc' \notin {"open summary", "print aggregate"}
         /\ pc' # "print summary" BY <1>10
  <1> QED BY <1>2, <1>8, <1>9, <1>11, Zenon DEF JsonInv

\* The places JsonInv speaks about.
Written == {"event", "digest", "open log", "print log", "open summary", "print aggregate", "print summary"}

LEMMA JsonElsewhere ==
  ASSUME pc' \notin Written
  PROVE  JsonInv'
  <1>1. /\ pc' # "event" /\ pc' # "digest" /\ pc' # "open log" /\ pc' # "print log"
        /\ pc' \notin {"open summary", "print aggregate"} /\ pc' # "print summary"
    BY DEF Written
  <1> QED BY <1>1, Zenon DEF JsonInv

LEMMA JsonStart ==
  ASSUME TypeInv, Untouched, UNCHANGED <<input, replay, text, out>>, pc' = "event"
  PROVE  JsonInv'
  <1>1. text' = [n \in Pcr |-> <<>>] /\ Requested \subseteq Pcr /\ Requested' = Requested
    BY RequestedIs, InputStays, Zenon DEF Untouched
  <1>2. \A n \in Requested' : text'[n] = <<>> BY <1>1
  <1>3. Texts(AllWhole)' BY <1>2, Zenon DEF Texts
  <1>4. pending' = FALSE /\ out' = <<>> BY Zenon DEF Untouched, replay
  <1>5. /\ pc' # "digest" /\ pc' # "open log" /\ pc' # "print log"
        /\ pc' \notin {"open summary", "print aggregate"} /\ pc' # "print summary" OBVIOUS
  <1> QED BY <1>3, <1>4, <1>5, Zenon DEF JsonInv

LEMMA JsonDigest ==
  ASSUME TypeInv, BufferInv, ProgressInv, JsonInv, ParseDigest, ~Fail
  PROVE  JsonInv'
  <1> DEFINE e == Es[k]
             x == Token("digest", e.pcr, e.digests[d], TRUE)
  <1>1. /\ k \in 1 .. Len(Es) /\ e \in Event
        /\ pc = "digest" /\ d \in 1 .. Len(e.digests) /\ d' = d + 1 /\ e.digests[d] \in Digest
        /\ UNCHANGED <<input, pc, k>>
        /\ \/ pending /\ pending' = FALSE /\ UNCHANGED <<text, out>>
           \/ /\ ~pending /\ pending' = pending
              /\ text' = Logged(e.pcr, <<x>>)
              /\ out' = out \o Noise(e.digests[d][1]) BY DigestStep, Zenon
  <1>2. Es' = Es /\ (Nice' <=> Nice) /\ Requested' = Requested /\ Requested \subseteq Pcr
    BY <1>1, NiceStays, RequestedIs, Zenon
  <1>3. d' # 1 /\ d \in DOMAIN e.digests
    <2>1. d \in 1 .. Len(e.digests) /\ d' = d + 1 BY <1>1, Zenon
    <2>2. e.digests \in Seq(Digest) BY <1>1, EventIs
    <2> HIDE DEF e
    <2> QED BY <2>1, <2>2
  <1> SUFFICES ASSUME Nice
               PROVE  pending' = FALSE /\ out' = <<>> /\ Texts(Ends(Es[k]))'
    <2>1. pc' = "digest" /\ k' = k BY <1>1, Zenon
    <2>2. /\ pc' # "event" /\ pc' # "open log" /\ pc' # "print log"
          /\ pc' \notin {"open summary", "print aggregate"} /\ pc' # "print summary" BY <2>1
    <2>3. ASSUME Nice => pending' = FALSE /\ out' = <<>> /\ Texts(Ends(Es[k]))'
          PROVE  JsonInv' BY <1>2, <1>3, <2>1, <2>2, <2>3, Zenon DEF JsonInv
    <2> QED BY <2>3, Zenon
  <1>4. /\ pending <=> (e.type = "no action" /\ d = 1)
        /\ out = <<>> /\ Texts(Ends(e)) BY <1>1, Zenon DEF JsonInv
  <1>5. Ends(Es[k])' = Ends(e) BY <1>1, <1>2, Zenon DEF Ends
  <1>6. CASE pending /\ pending' = FALSE /\ UNCHANGED <<text, out>>
    <2>1. Texts(Ends(Es[k]))' BY <1>2, <1>4, <1>5, <1>6, Zenon DEF Texts
    <2> QED BY <1>4, <1>6, <2>1, Zenon
  <1>7. CASE ~pending /\ pending' = pending /\ text' = Logged(e.pcr, <<x>>) /\ out' = out \o Noise(e.digests[d][1])
    <2>1. e.type # "no action"
      <3>1. e.type = "no action" => Len(e.digests) = 1 BY <1>1, NiceEvent, Zenon
      <3>2. Len(e.digests) = 1 => d = 1
        <4>1. d \in 1 .. Len(e.digests) BY <1>1, Zenon
        <4> HIDE DEF e
        <4> QED BY <4>1
      <3> QED BY <1>4, <1>7, <3>1, <3>2, Zenon
    <2>2. out' = <<>>
      <3>1. e.digests[d][1] # "sm3" BY <1>1, <1>3, <2>1, NiceEvent, Zenon
      <3>2. Noise(e.digests[d][1]) = <<>> BY <3>1, NoiseType, Zenon
      <3>3. <<>> \o <<>> = <<>> OBVIOUS
      <3> QED BY <1>4, <1>7, <3>2, <3>3, Zenon
    <2>3. <<x>> \in Seq(TextToken) /\ x \in Tokens /\ x.t = "digest" /\ x.comma = TRUE
      <3>1. e.pcr \in Nat /\ e.digests[d] \in Digest BY <1>1, EventIs
      <3>2. <<x>> \in Seq(TextToken) BY <3>1, DigestTokenType, Zenon
      <3>3. x \in Tokens
        <4> DEFINE v == e.digests[d]
        <4>1. v \in AnyValue BY <3>1 DEF AnyValue
        <4>2. "digest" \in TokenType BY DEF TokenType
        <4>3. TRUE \in BOOLEAN OBVIOUS
        <4> QED BY <3>1, <4>1, <4>2, <4>3, TokenIs, Zenon
      <3>4. x.t = "digest" /\ x.comma = TRUE BY DEF Token
      <3> QED BY <3>2, <3>3, <3>4
    <2> HIDE DEF x
    <2>4. ASSUME NEW n \in Requested PROVE text'[n] = <<>> \/ Object(text'[n], Ends(e)[n])
      <3>1. n \in Pcr /\ (text[n] = <<>> \/ Object(text[n], Ends(e)[n]))
        BY <1>2, <1>4, Zenon DEF Texts
      <3>2. text'[n] = IF n = e.pcr /\ n \in Requested THEN text[n] \o <<x>> ELSE text[n]
        BY <1>7, <2>3, <3>1, LoggedText, Zenon
      <3>3. CASE n # e.pcr BY <3>1, <3>2, <3>3, Zenon
      <3>4. CASE n = e.pcr
        <4>1. Ends(e)[n] = {"open", "digest"} BY <2>1, <3>1, <3>4 DEF Ends
        <4>2. Object(text[n], {"open", "digest"})
          <5>1. n \in seen /\ pc \in {"event", "digest"}
            <6>1. e.pcr \in seen BY DigestStep, Zenon
            <6>2. pc \in {"event", "digest"} BY <1>1, Zenon
            <6> QED BY <3>4, <6>1, <6>2, Zenon
          <5>2. text[n] # <<>> BY <2>4, <5>1, Zenon DEF ProgressInv
          <5> QED BY <3>1, <4>1, <5>2, Zenon
        <4>3. Follows(Last(text[n]), x) BY <2>3, <4>2 DEF Object, Follows
        <4>4. Object(text[n] \o <<x>>, {x.t}) BY <2>3, <4>2, <4>3, ObjectMore, Zenon
        <4>5. Object(text[n] \o <<x>>, {"open", "digest"}) BY <2>3, <4>4 DEF Object
        <4> QED BY <2>4, <3>2, <3>4, <4>1, <4>5, Zenon
      <3> QED BY <3>3, <3>4
    <2>5. Texts(Ends(Es[k]))' BY <1>2, <1>5, <2>4, Zenon DEF Texts
    <2>6. pending' = FALSE
      <3>1. pending \in BOOLEAN BY Zenon DEF TypeInv, TypeOK
      <3> QED BY <1>7, <3>1, Zenon
    <2> QED BY <2>2, <2>5, <2>6
  <1> QED BY <1>1, <1>6, <1>7, Zenon

LEMMA JsonBody ==
  ASSUME TypeInv, BufferInv, ProgressInv, JsonInv, ParseBody, ~Fail
  PROVE  JsonInv'
  <1> DEFINE e == Es[k]
             ts == DescriptionTokens(e)
  <1>1. /\ k \in 1 .. Len(Es) /\ e \in Event
        /\ pc = "digest" /\ d = Len(e.digests) + 1 /\ pc' = "event"
        /\ UNCHANGED <<input, replay, out>> /\ e.pcr \in seen
        /\ text' = Logged(e.pcr, ts) BY BodyStep, Zenon
  <1>2. Es' = Es /\ (Nice' <=> Nice) /\ Requested' = Requested /\ Requested \subseteq Pcr
    BY <1>1, NiceStays, RequestedIs, Zenon
  <1> SUFFICES ASSUME Nice
               PROVE  pending' = FALSE /\ out' = <<>> /\ Texts(AllWhole)'
    <2>1. pc' = "event" BY <1>1, Zenon
    <2>2. /\ pc' # "digest" /\ pc' # "open log" /\ pc' # "print log"
          /\ pc' \notin {"open summary", "print aggregate"} /\ pc' # "print summary" BY <2>1
    <2> QED BY <1>2, <2>1, <2>2, Zenon DEF JsonInv
  <1>4. /\ pending <=> (e.type = "no action" /\ d = 1)
        /\ out = <<>> /\ Texts(Ends(e)) BY <1>1, Zenon DEF JsonInv
  <1>5. e.type = "no action" => d # 1
    <2>1. e.type = "no action" => Len(e.digests) = 1 BY <1>1, NiceEvent, Zenon
    <2>2. Len(e.digests) = 1 => d # 1
      <3>1. d = Len(e.digests) + 1 BY <1>1, Zenon
      <3> HIDE DEF e
      <3> QED BY <3>1
    <2> QED BY <2>1, <2>2, Zenon
  <1>6. pending' = FALSE /\ out' = <<>>
    <2>1. pending \in BOOLEAN BY Zenon DEF TypeInv, TypeOK
    <2>2. pending' = pending /\ out' = out BY <1>1, Zenon DEF replay
    <2> QED BY <1>4, <1>5, <2>1, <2>2, Zenon
  <1>7. ts \in Seq(TextToken) BY <1>1, DescriptionType, Zenon
  <1>8. ASSUME NEW n \in Requested PROVE text'[n] = <<>> \/ Object(text'[n], Whole)
    <2>1. n \in Pcr /\ (text[n] = <<>> \/ Object(text[n], Ends(e)[n]))
      BY <1>2, <1>4, Zenon DEF Texts
    <2>2. text'[n] = IF n = e.pcr /\ n \in Requested THEN text[n] \o ts ELSE text[n]
      BY <1>1, <1>7, <2>1, LoggedText, Zenon
    <2>3. Ends(e)[n] = IF n = e.pcr /\ e.type # "no action" THEN {"open", "digest"} ELSE Whole
      BY <2>1 DEF Ends
    <2>4. CASE n # e.pcr BY <2>1, <2>2, <2>3, <2>4, Zenon
    <2>5. CASE n = e.pcr /\ e.type = "no action"
      <3>1. ts = <<>> BY <2>5, Zenon DEF DescriptionTokens
      <3>2. text[n] \o <<>> = text[n]
        <4>1. text[n] \in Seq(TextToken) BY <2>1 DEF TypeInv, TypeOK
        <4> QED BY <4>1, ConcatEmpty
      <3> QED BY <2>1, <2>2, <2>3, <2>5, <3>1, <3>2, Zenon
    <2>6. CASE n = e.pcr /\ e.type # "no action"
      <3> DEFINE x == Token("close", e.pcr, 0, TRUE)
      <3>1. ts = <<x>>
        <4>1. e.data # "empty" /\ (e.type \in {"image", "action"} => e.data # "long")
              /\ (e.type \in {"ipl", "action", "gpt"} => e.data # "quoted")
          BY <1>1, <2>6, NiceEvent, Zenon
        <4> QED BY <1>1, <2>6, <4>1, DescribedText, Zenon
      <3>2. x \in Tokens /\ x.t = "close" /\ x.comma = TRUE
        <4>1. e.pcr \in Nat BY <1>1, EventIs
        <4>2. x \in Tokens BY <4>1, TokenIs DEF TokenType, AnyValue
        <4> QED BY <4>2 DEF Token
      <3> HIDE DEF x
      <3>3. Object(text[n], {"open", "digest"})
        <4>1. n \in seen /\ pc \in {"event", "digest"}
          <5>1. pc \in {"event", "digest"} BY <1>1, Zenon
          <5> QED BY <1>1, <2>6, <5>1, Zenon
        <4>2. text[n] # <<>> BY <1>8, <4>1, Zenon DEF ProgressInv
        <4> QED BY <2>1, <2>3, <2>6, <4>2, Zenon
      <3>4. Follows(Last(text[n]), x) BY <3>2, <3>3 DEF Object, Follows
      <3>5. Object(text[n] \o <<x>>, {x.t}) BY <3>2, <3>3, <3>4, ObjectMore, Zenon
      <3>6. Object(text[n] \o <<x>>, Whole) BY <3>2, <3>5 DEF Object, Whole
      <3> QED BY <1>8, <2>2, <2>6, <3>1, <3>6, Zenon
    <2> QED BY <2>4, <2>5, <2>6
  <1>9. Texts(AllWhole)'
    <2>1. \A n \in Requested : AllWhole[n] = Whole BY <1>2 DEF AllWhole
    <2>2. AllWhole' = AllWhole BY Zenon DEF AllWhole
    <2> QED BY <1>2, <1>8, <2>1, <2>2, Zenon DEF Texts
  <1> QED BY <1>6, <1>9

LEMMA JsonDone ==
  ASSUME TypeInv, BufferInv, JsonInv, ParseEventsDone
  PROVE  JsonInv'
  <1>1. /\ UNCHANGED <<input, text, out>> /\ pc' = "open log" /\ (pc = "event" \/ pc = "legacy")
    BY Zenon DEF ParseEventsDone, Goto
  <1>2. Es' = Es /\ (Nice' <=> Nice) /\ Requested' = Requested BY <1>1, NiceStays, Zenon
  <1>3. /\ pc' # "event" /\ pc' # "digest" /\ pc' # "print log"
        /\ pc' \notin {"open summary", "print aggregate"} /\ pc' # "print summary" BY <1>1
  <1>4. Nice => pc = "event"
    <2>1. CASE pc = "legacy"
      <3>1. ~Stopped /\ pc \notin {"parse", "read"} BY <2>1 DEF Stopped
      <3>2. buf.head = "sha1" /\ buf.head = Input.head
        <4>1. buf.head = "sha1" BY <2>1, Zenon DEF BufferInv
        <4>2. buf.head \in {"specid", "sha1"} BY <4>1
        <4> QED BY <3>1, <4>1, <4>2, Zenon DEF BufferInv
      <3>3. Input.head # "specid" BY <3>2
      <3> QED BY <3>3, Zenon DEF Nice
    <2> QED BY <1>1, <2>1
  <1>5. Nice => out' = <<>> /\ Texts(AllWhole)'
    <2>1. Nice => out = <<>> /\ Texts(AllWhole) BY <1>4, Zenon DEF JsonInv
    <2>2. AllWhole' = AllWhole BY Zenon DEF AllWhole
    <2> QED BY <1>1, <1>2, <2>1, <2>2, Zenon DEF Texts
  <1> QED BY <1>2, <1>3, <1>5, Zenon DEF JsonInv

\* What a step of the output appends.
LEMMA EmitNice ==
  ASSUME TypeInv, Json, NEW t \in {"[", "]"}, NEW l, Emit(Punctuation(t), l)
  PROVE  /\ \E x \in Tokens : x.t = t /\ x.comma = FALSE /\ out' = out \o <<x>>
         /\ pc' = l /\ k' = 1 /\ UNCHANGED <<input, text>>
  <1> DEFINE x == Token(t, 0, 0, FALSE)
  <1>1. x \in Tokens /\ x.t = t /\ x.comma = FALSE
    <2>1. t \in TokenType /\ 0 \in Nat /\ 0 \in AnyValue /\ FALSE \in BOOLEAN
      BY DEF TokenType, AnyValue
    <2>2. x \in Tokens BY <2>1, TokenIs, Zenon
    <2> QED BY <2>2 DEF Token
  <1>2. Punctuation(t) = <<x>> BY Zenon DEF Punctuation
  <1> HIDE DEF x
  <1>3. out' = out \o <<x>> /\ pc' = l /\ k' = 1 /\ UNCHANGED <<input, text>>
    BY <1>2, Zenon DEF Emit, Goto
  <1> QED BY <1>1, <1>3, Zenon

LEMMA EmitNothing ==
  ASSUME TypeInv, NEW l, Emit(<<>>, l)
  PROVE  out' = out /\ pc' = l /\ k' = 1 /\ UNCHANGED <<input, text>>
  <1>1. out \o <<>> = out BY ConcatEmpty DEF TypeInv
  <1> QED BY <1>1, Zenon DEF Emit, Goto

LEMMA OpenedMore ==
  ASSUME NEW ts, Opened(ts), NEW x \in Tokens, Follows(Last(ts), x)
  PROVE  Opened(ts \o <<x>>) /\ Last(ts \o <<x>>) = x BY ChainedMore, Zenon DEF Opened

LEMMA OpenedOne ==
  ASSUME NEW x \in Tokens, x.t = "["
  PROVE  Opened(<<>> \o <<x>>) /\ Last(<<>> \o <<x>>) = x
  <1>1. Chained(<<x>>) /\ <<x>>[1] = x /\ Last(<<x>>) = x /\ <<x>> \in Seq(Tokens)
    BY ChainedOne, Zenon
  <1>2. <<>> \o <<x>> = <<x>> BY <1>1, ConcatEmpty
  <1> QED BY <1>1, <1>2, Zenon DEF Opened

LEMMA JsonOpenLog ==
  ASSUME TypeInv, JsonInv, OpenLog
  PROVE  JsonInv'
  <1>0. UNCHANGED input /\ pc = "open log" /\ pc' \in {"print log", "open summary"}
    BY DEF OpenLog, Emit, Goto
  <1>1. Es' = Es /\ (Nice' <=> Nice) /\ Requested' = Requested BY <1>0, NiceStays, Zenon
  <1>2. Nice => out = <<>> /\ Texts(AllWhole) /\ Json BY <1>0, Zenon DEF JsonInv, Nice
  <1>3. CASE opts.flag["eventlog"]
    <2>1. Emit(Punctuation("["), "print log") BY <1>3, Zenon DEF OpenLog
    <2>2. /\ pc' = "print log"
          /\ pc' # "event" /\ pc' # "digest" /\ pc' # "open log"
          /\ pc' \notin {"open summary", "print aggregate"} /\ pc' # "print summary"
      BY <2>1 DEF Emit, Goto
    <2>3. ASSUME Nice
          PROVE  Opened(out') /\ Last(out').t = "[" /\ Texts(AllWhole)'
      <3>1. "[" \in {"[", "]"} OBVIOUS
      <3>2. UNCHANGED <<input, text>> /\ \E x \in Tokens : x.t = "[" /\ x.comma = FALSE /\ out' = out \o <<x>>
        BY <1>2, <2>1, <2>3, <3>1, EmitNice, Zenon
      <3>3. PICK x \in Tokens : x.t = "[" /\ out' = out \o <<x>> BY <3>2, Zenon
      <3>4. Opened(out') /\ Last(out').t = "[" BY <1>2, <2>3, <3>3, OpenedOne, Zenon
      <3>5. AllWhole' = AllWhole BY Zenon DEF AllWhole
      <3>6. Texts(AllWhole)' BY <1>1, <1>2, <2>3, <3>2, <3>5, Zenon DEF Texts
      <3> QED BY <3>4, <3>6
    <2> QED BY <1>1, <2>2, <2>3, Zenon DEF JsonInv
  <1>4. CASE ~opts.flag["eventlog"]
    <2>1. Emit(<<>>, "open summary") BY <1>4, Zenon DEF OpenLog
    <2>2. /\ pc' # "event" /\ pc' # "digest" /\ pc' # "open log" /\ pc' # "print log"
          /\ pc' # "print summary" BY <2>1 DEF Emit, Goto
    <2>3. Nice => Document(out') BY <1>2, <2>1, EmitNothing, Zenon DEF Document
    <2>4. Document(out)' <=> Document(out') BY Zenon DEF Document, Chained
    <2> QED BY <1>1, <2>2, <2>3, <2>4, Zenon DEF JsonInv
  <1> QED BY <1>3, <1>4

LEMMA LaterIs ==
  ASSUME TypeInv, NEW j \in 1 .. Len(opts.pcrs)
  PROVE  /\ Later(j) <=> (text[Printed(j)] # <<>> \/ Later(j + 1))
         /\ LastLog(j) <=> ~Later(j + 1)
  <1>1. Len(opts.pcrs) \in Nat BY OptionsType DEF TypeInv, TypeOK, OptionsAre
  <1>2. j .. Len(opts.pcrs) = {j} \cup (j + 1 .. Len(opts.pcrs)) BY <1>1
  <1> QED BY <1>2, Zenon DEF Later, LastLog

LEMMA JsonPrintLog ==
  ASSUME TypeInv, JsonInv, PrintLog
  PROVE  JsonInv'
  <1> DEFINE n == Printed(k)
  <1>1. /\ k \in 1 .. Len(opts.pcrs) /\ n \in Pcr /\ text[n] \in Seq(TextToken)
        /\ \/ text[n] = <<>> /\ UNCHANGED <<text, out>>
           \/ /\ text[n] # <<>>
              /\ \E ts \in Seq(TextToken) :
                   /\ ts = IF LastLog(k) THEN Clipped(text[n]) ELSE text[n]
                   /\ out' = out \o ts /\ text' = [text EXCEPT ![n] = ts]
        /\ UNCHANGED <<input, pc>> /\ k' = k + 1 BY PrintWrites, Zenon
  <1>2. pc = "print log" BY DEF PrintLog
  <1>3. Es' = Es /\ (Nice' <=> Nice) /\ Requested' = Requested /\ opts' = opts /\ \A j : Printed(j)' = Printed(j)
    BY <1>1, NiceStays, InputStays, Zenon
  <1>4. /\ pc' = "print log" /\ pc' # "event" /\ pc' # "digest" /\ pc' # "open log"
        /\ pc' \notin {"open summary", "print aggregate"} /\ pc' # "print summary"
    BY <1>1, <1>2
  <1> SUFFICES ASSUME Nice
               PROVE  /\ Opened(out')
                      /\ Last(out').t = "[" \/ (Last(out').t \in Whole /\ (Last(out').comma <=> Later(k)'))
                      /\ Later(k)' => Texts(AllWhole)' BY <1>3, <1>4, Zenon DEF JsonInv
  <1>5. /\ Opened(out)
        /\ Last(out).t = "[" \/ (Last(out).t \in Whole /\ (Last(out).comma <=> Later(k)))
        /\ Later(k) => Texts(AllWhole) BY <1>2, Zenon DEF JsonInv
  <1>6. AllWhole' = AllWhole /\ AllWhole[n] = Whole BY <1>1 DEF AllWhole
  <1>7. /\ Later(k) <=> (text[n] # <<>> \/ Later(k + 1))
        /\ LastLog(k) <=> ~Later(k + 1) BY <1>1, LaterIs, Zenon
  <1>8. Later(k)' <=> \E l \in k + 1 .. Len(opts.pcrs) : text'[Printed(l)] # <<>>
    BY <1>1, <1>3, Zenon DEF Later
  <1>9. CASE text[n] = <<>> /\ UNCHANGED <<text, out>>
    <2>1. Later(k)' <=> Later(k + 1) BY <1>8, <1>9, Zenon DEF Later
    <2>2. Later(k)' <=> Later(k) BY <1>7, <1>9, <2>1, Zenon
    <2>3. Texts(AllWhole) => Texts(AllWhole)' BY <1>3, <1>6, <1>9, Zenon DEF Texts
    <2> QED BY <1>5, <1>9, <2>2, <2>3, Zenon
  <1>10. ASSUME text[n] # <<>>, NEW ts \in Seq(TextToken),
                ts = IF LastLog(k) THEN Clipped(text[n]) ELSE text[n],
                out' = out \o ts, text' = [text EXCEPT ![n] = ts]
         PROVE  /\ Opened(out')
                /\ Last(out').t \in Whole /\ (Last(out').comma <=> Later(k)')
                /\ Later(k)' => Texts(AllWhole)'
    <2>1. Later(k) /\ Texts(AllWhole) BY <1>5, <1>7, <1>10, Zenon
    <2>2. n \in Requested
      <3>1. k \in DOMAIN opts.pcrs BY <1>1, OptionsType DEF TypeInv, TypeOK, OptionsAre
      <3> QED BY <3>1, Zenon DEF Requested, Printed
    <2>3. Object(text[n], Whole) BY <1>6, <1>10, <2>1, <2>2, Zenon DEF Texts
    <2>4. /\ Chained(ts) /\ ts[1].t = "init" /\ Last(ts).t \in Whole
          /\ Last(ts).comma <=> ~LastLog(k)
          /\ ts # <<>>
      <3>1. CASE LastLog(k)
        <4>1. /\ Chained(Clipped(text[n])) /\ Clipped(text[n])[1].t = text[n][1].t
              /\ Last(Clipped(text[n])).t = Last(text[n]).t /\ Last(Clipped(text[n])).comma = FALSE
          BY <1>1, <2>3, ChainedClipped, Zenon DEF Object
        <4> QED BY <1>10, <2>3, <3>1, <4>1, Zenon DEF Object, Chained
      <3>2. CASE ~LastLog(k) BY <1>10, <2>3, <3>2, Zenon DEF Object
      <3> QED BY <3>1, <3>2
    <2>5. Follows(Last(out), ts[1])
      <3>1. Last(out).t = "[" \/ (Last(out).t \in Whole /\ Last(out).comma)
        BY <1>5, <2>1, Zenon
      <3>2. ts[1].t \in {"init", "open", "entry", "pcr", "]"} /\ ts[1].t \in {"init", "open", "entry"}
        BY <2>4
      <3> QED BY <3>1, <3>2, Zenon DEF Follows
    <2>6. Opened(out') /\ Last(out') = Last(ts)
      BY <1>5, <1>10, <2>4, <2>5, ChainedConcat, Zenon DEF Opened
    <2>7. \A m \in Pcr : text'[m] = IF m = n THEN ts ELSE text[m]
      BY <1>1, <1>10 DEF TypeInv, TypeOK
    <2>8. \A l \in k + 1 .. Len(opts.pcrs) : Printed(l) \in Pcr
      <3>1. \A l \in k + 1 .. Len(opts.pcrs) : l \in 1 .. Len(opts.pcrs)
        <4>1. Len(opts.pcrs) \in Nat BY OptionsType DEF TypeInv, TypeOK, OptionsAre
        <4> QED BY <1>1, <4>1
      <3> QED BY <3>1, PrintedIs
    <2>9. Later(k)' <=> Later(k + 1) BY <1>8, <1>10, <2>4, <2>7, <2>8, Zenon DEF Later
    <2>10. Later(k)' => Texts(AllWhole)'
      <3>1. Later(k)' => ts = text[n] BY <1>7, <1>10, <2>9, Zenon
      <3>2. ts = text[n] => \A m \in Pcr : text'[m] = text[m] BY <2>7, Zenon
      <3>3. Requested \subseteq Pcr BY RequestedIs, Zenon
      <3> QED BY <1>3, <1>6, <2>1, <3>1, <3>2, <3>3, Zenon DEF Texts
    <2> QED BY <1>7, <2>4, <2>6, <2>9, <2>10, Zenon
  <1> QED BY <1>1, <1>9, <1>10, Zenon

LEMMA JsonLogDone ==
  ASSUME TypeInv, JsonInv, LogDone
  PROVE  JsonInv'
  <1>0. UNCHANGED input /\ pc = "print log" /\ pc' = "open summary" /\ k > Len(opts.pcrs)
    BY DEF LogDone, Emit, Goto
  <1>1. Es' = Es /\ (Nice' <=> Nice) /\ Requested' = Requested BY <1>0, NiceStays, Zenon
  <1>2. /\ pc' # "event" /\ pc' # "digest" /\ pc' # "open log" /\ pc' # "print log"
        /\ pc' # "print summary" BY <1>0
  <1> SUFFICES ASSUME Nice PROVE Document(out') BY <1>1, <1>2, Zenon DEF JsonInv
  <1>3. Opened(out) /\ (Last(out).t = "[" \/ (Last(out).t \in Whole /\ (Last(out).comma <=> Later(k)))) /\ Json
    BY <1>0, Zenon DEF JsonInv, Nice
  <1>4. ~Later(k)
    <2>1. Len(opts.pcrs) \in Nat /\ k \in Nat BY OptionsType DEF TypeInv, TypeOK, OptionsAre
    <2>2. k > Len(opts.pcrs) BY <1>0, Zenon
    <2>3. \A l \in k .. Len(opts.pcrs) : FALSE BY <2>1, <2>2
    <2> QED BY <2>3, Zenon DEF Later
  <1>5. "]" \in {"[", "]"} OBVIOUS
  <1>6. PICK x \in Tokens : x.t = "]" /\ out' = out \o <<x>>
    BY <1>3, <1>5, EmitNice, Zenon DEF LogDone
  <1>7. Follows(Last(out), x)
    <2>1. Last(out).t = "[" \/ (Last(out).t \in Whole /\ ~Last(out).comma)
      BY <1>3, <1>4, Zenon
    <2>2. x.t \in {"init", "open", "entry", "pcr", "]"} /\ x.t = "]" BY <1>6
    <2> QED BY <2>1, <2>2, Zenon DEF Follows
  <1>8. Opened(out') /\ Last(out') = x BY <1>3, <1>6, <1>7, OpenedMore, Zenon
  <1> QED BY <1>6, <1>8, Zenon DEF Document, Opened

LEMMA JsonOpenSummary ==
  ASSUME TypeInv, JsonInv, OpenSummary
  PROVE  JsonInv'
  <1>0. UNCHANGED input /\ pc = "open summary" /\ pc \in {"open summary", "print aggregate"}
    BY DEF OpenSummary, Emit, Goto
  <1>1. Es' = Es /\ (Nice' <=> Nice) /\ Requested' = Requested /\ opts' = opts
    BY <1>0, NiceStays, InputStays, Zenon
  <1>2. Nice => Document(out) /\ Json BY <1>0, Zenon DEF JsonInv, Nice
  <1>3. CASE opts.flag["summary"]
    <2>1. Emit(Punctuation("["), "print summary") BY <1>3, Zenon DEF OpenSummary
    <2>2. /\ pc' # "event" /\ pc' # "digest" /\ pc' # "open log" /\ pc' # "print log"
          /\ pc' \notin {"open summary", "print aggregate"} BY <2>1 DEF Emit, Goto
    <2>3. ASSUME Nice
          PROVE  Opened(out') /\ Last(out').t = "["
      <3>1. "[" \in {"[", "]"} OBVIOUS
      <3>2. PICK x \in Tokens : x.t = "[" /\ out' = out \o <<x>>
        BY <1>2, <2>1, <2>3, <3>1, EmitNice, Zenon
      <3>3. CASE out = <<>> BY <3>2, <3>3, OpenedOne, Zenon
      <3>4. CASE Chained(out) /\ out[1].t = "[" /\ Last(out).t = "]"
        <4>1. Follows(Last(out), x) BY <3>2, <3>4 DEF Follows
        <4>2. Opened(out') /\ Last(out') = x
          BY <3>2, <3>4, <4>1, OpenedMore, Zenon DEF Opened
        <4> QED BY <3>2, <4>2, Zenon
      <3> QED BY <1>2, <2>3, <3>3, <3>4, Zenon DEF Document
    <2>4. Last(out').t = "[" =>
            Last(out').t \in (IF k' <= Len(opts'.pcrs) THEN {"[", ","} ELSE {"[", "pcr"})
      BY Zenon
    <2> QED BY <1>1, <2>2, <2>3, <2>4, Zenon DEF JsonInv, Opened, Chained
  <1>4. CASE ~opts.flag["summary"]
    <2>1. Emit(<<>>, "print aggregate") BY <1>4, Zenon DEF OpenSummary
    <2>2. /\ pc' # "event" /\ pc' # "digest" /\ pc' # "open log" /\ pc' # "print log"
          /\ pc' # "print summary" BY <2>1 DEF Emit, Goto
    <2>3. out' = out BY <2>1, EmitNothing, Zenon
    <2> QED BY <1>1, <1>2, <2>2, <2>3, Zenon DEF JsonInv, Document, Chained
  <1> QED BY <1>3, <1>4

LEMMA JsonRegister ==
  ASSUME TypeInv, JsonInv, PrintRegister
  PROVE  JsonInv'
  <1> DEFINE x == Token("pcr", Printed(k), calc[Printed(k)], FALSE)
             y == Token(",", 0, 0, FALSE)
  <1>0. UNCHANGED <<input, pc>> /\ pc = "print summary" /\ k' = k + 1
    BY Zenon DEF PrintRegister
  <1>1. Es' = Es /\ (Nice' <=> Nice) /\ Requested' = Requested /\ opts' = opts
    BY <1>0, NiceStays, InputStays, Zenon
  <1>2. /\ pc' # "event" /\ pc' # "digest" /\ pc' # "open log" /\ pc' # "print log"
        /\ pc' \notin {"open summary", "print aggregate"} BY <1>0
  <1>3. k \in 1 .. Len(opts.pcrs) /\ Len(opts.pcrs) \in Nat
    <2>1. Len(opts.pcrs) \in Nat BY OptionsType DEF TypeInv, TypeOK, OptionsAre
    <2> QED BY <2>1, RegisterWrites, Zenon
  <1>31. k' <= Len(opts.pcrs) <=> k < Len(opts.pcrs)
    <2>1. k' = k + 1 BY <1>0, Zenon
    <2>2. k \in Nat BY <1>3
    <2> QED BY <1>3, <2>1, <2>2
  <1>4. PICK ts \in Seq(Tokens) :
          /\ out' = out \o ts
          /\ (ts = <<x>> /\ ~(Json /\ k < Len(opts.pcrs))) \/ (ts = <<x, y>> /\ Json /\ k < Len(opts.pcrs))
    BY RegisterWrites, Zenon
  <1>5. x \in Tokens /\ y \in Tokens /\ x.t = "pcr" /\ y.t = ","
    <2>1. x \in Tokens BY <1>3, RegisterTokenType, Zenon
    <2>2. y \in Tokens BY TokenIs DEF TokenType, AnyValue
    <2>3. x.t = "pcr" /\ y.t = "," BY DEF Token
    <2> QED BY <2>1, <2>2, <2>3
  <1> HIDE DEF x, y
  <1> SUFFICES ASSUME Nice
               PROVE  Opened(out') /\ Last(out').t = (IF k < Len(opts.pcrs) THEN "," ELSE "pcr")
    <2>1. k' <= Len(opts.pcrs) <=> k < Len(opts.pcrs) BY <1>31, Zenon
    <2>2. ASSUME NEW t PROVE t = (IF k < Len(opts.pcrs) THEN "," ELSE "pcr")
                               => t \in (IF k' <= Len(opts.pcrs) THEN {"[", ","} ELSE {"[", "pcr"})
      BY <2>1
    <2> QED BY <1>1, <1>2, <2>2, Zenon DEF JsonInv, Opened, Chained
  <1>6. Opened(out) /\ Last(out).t \in {"[", ","} /\ Json
    <2>1. k <= Len(opts.pcrs) BY <1>3
    <2> QED BY <1>0, <2>1, Zenon DEF JsonInv, Nice
  <1>7. Follows(Last(out), x) BY <1>5, <1>6 DEF Follows
  <1>8. Opened(out \o <<x>>) /\ Last(out \o <<x>>) = x
    BY <1>5, <1>6, <1>7, OpenedMore, Zenon
  <1>9. CASE ts = <<x>> /\ ~(Json /\ k < Len(opts.pcrs))
    BY <1>4, <1>5, <1>6, <1>8, <1>9, Zenon
  <1>10. CASE ts = <<x, y>> /\ Json /\ k < Len(opts.pcrs)
    <2> DEFINE o == out \o <<x>>
    <2>1. Opened(o) /\ Last(o) = x BY <1>8
    <2>2. out' = o \o <<y>>
      <3> DEFINE T == Tokens
      <3>1. out \in Seq(T) /\ x \in T /\ y \in T BY <1>5 DEF TypeInv
      <3> HIDE DEF T
      <3>2. <<x>> \in Seq(T) /\ <<y>> \in Seq(T) BY <3>1, SeqOfOne
      <3>3. (out \o <<x>>) \o <<y>> = out \o (<<x>> \o <<y>>) BY <3>1, <3>2, ConcatTwice
      <3>4. <<x>> \o <<y>> = <<x, y>> BY ShortSequences
      <3> QED BY <1>4, <1>10, <3>3, <3>4, Zenon
    <2> HIDE DEF o
    <2>3. Follows(Last(o), y) BY <1>5, <2>1 DEF Follows
    <2>4. Opened(out') /\ Last(out') = y BY <1>5, <2>1, <2>2, <2>3, OpenedMore, Zenon
    <2> QED BY <1>5, <1>10, <2>4, Zenon
  <1> QED BY <1>4, <1>9, <1>10

LEMMA JsonSummaryDone ==
  ASSUME TypeInv, JsonInv, SummaryDone
  PROVE  JsonInv'
  <1>0. UNCHANGED input /\ pc = "print summary" /\ pc' = "print aggregate" /\ k > Len(opts.pcrs)
    BY DEF SummaryDone, Emit, Goto
  <1>1. Es' = Es /\ (Nice' <=> Nice) /\ Requested' = Requested BY <1>0, NiceStays, Zenon
  <1>2. /\ pc' # "event" /\ pc' # "digest" /\ pc' # "open log" /\ pc' # "print log"
        /\ pc' # "print summary" BY <1>0
  <1> SUFFICES ASSUME Nice PROVE Document(out') BY <1>1, <1>2, Zenon DEF JsonInv
  <1>3. Opened(out) /\ Last(out).t \in {"[", "pcr"} /\ Json
    <2>1. ~(k <= Len(opts.pcrs))
      <3>1. k > Len(opts.pcrs) BY <1>0, Zenon
      <3>2. k \in Nat /\ Len(opts.pcrs) \in Nat
        BY OptionsType DEF TypeInv, TypeOK, OptionsAre
      <3> QED BY <3>1, <3>2
    <2> QED BY <1>0, <2>1, Zenon DEF JsonInv, Nice
  <1>5. "]" \in {"[", "]"} OBVIOUS
  <1>6. PICK x \in Tokens : x.t = "]" /\ out' = out \o <<x>>
    BY <1>3, <1>5, EmitNice, Zenon DEF SummaryDone
  <1>7. Follows(Last(out), x) BY <1>3, <1>6 DEF Follows
  <1>8. Opened(out') /\ Last(out') = x BY <1>3, <1>6, <1>7, OpenedMore, Zenon
  <1> QED BY <1>6, <1>8, Zenon DEF Document, Opened

LEMMA JsonStays ==
  ASSUME JsonInv, UNCHANGED vars
  PROVE  JsonInv'
  <1>1. UNCHANGED <<input, pc, k, d, pending, text, out>> /\ UNCHANGED input
    BY Zenon DEF vars, input
  <1>2. Es' = Es /\ (Nice' <=> Nice) /\ Requested' = Requested /\ opts' = opts /\ \A j : Printed(j)' = Printed(j)
    BY <1>1, NiceStays, InputStays, Zenon
  <1>3. (Later(k)' <=> Later(k)) /\ (Texts(AllWhole)' <=> Texts(AllWhole))
        /\ (Texts(Ends(Es[k]))' <=> Texts(Ends(Es[k]))) /\ (Document(out)' <=> Document(out))
        /\ (Opened(out)' <=> Opened(out))
    BY <1>1, <1>2, Zenon DEF Later, Texts, AllWhole, Ends, Document, Opened, Chained
  <1> QED BY <1>1, <1>2, <1>3, Zenon DEF JsonInv

LEMMA JsonNext ==
  ASSUME TypeInv, StageInv, BufferInv, ProgressInv, JsonInv, [Next]_vars
  PROVE  JsonInv'
  <1>0. ASSUME pc' \in {"parse", "read", "head", "legacy", "crashed", "exited"} PROVE JsonInv'
    <2>1. pc' \notin Written BY <1>0 DEF Written
    <2> QED BY <2>1, JsonElsewhere
  <1>1. CASE Fail
    <2>1. pc' \in {"parse", "read", "head", "legacy", "crashed", "exited"} BY <1>1 DEF Fail
    <2> QED BY <1>0, <2>1
  <1>2. CASE ParseHeader /\ ~Fail BY <1>2, JsonHeader
  <1>3. CASE ParseDigest /\ ~Fail BY <1>3, JsonDigest
  <1>4. CASE ParseBody /\ ~Fail BY <1>4, JsonBody
  <1>5. CASE ParseEventsDone BY <1>5, JsonDone
  <1>6. CASE ReadHead /\ ~Fail
    <2>1. \/ pc = "head" /\ pc' = "event" /\ UNCHANGED <<input, replay, text, out>>
          \/ pc' = "legacy" BY <1>6, Zenon DEF ReadHead, SpecidCallback, Goto
    <2>2. CASE pc = "head" /\ pc' = "event" /\ UNCHANGED <<input, replay, text, out>>
      <3>1. pc \in {"parse", "read", "head"} BY <2>2
      <3>2. Untouched BY <3>1, Zenon DEF StageInv
      <3> QED BY <2>2, <3>2, JsonStart, Zenon
    <2>3. CASE pc' = "legacy" BY <1>0, <2>3
    <2> QED BY <2>1, <2>2, <2>3
  <1>7. CASE Parse \/ OutOfMemory \/ ReadLog \/ BadHead \/ ParseLegacyEvent \/ IncompleteEvent \/ IncompleteLegacyEvent
    <2>1. Fail \/ pc' \in {"parse", "read", "head", "legacy", "crashed"}
      <3>1. CASE Parse
        <4>1. pc = "parse" BY <3>1, ParsingPlace
        <4> QED BY <3>1, <4>1 DEF Parse, ParseFlag, ParseFormat, ParsePcrs, ParseIn, ParseInvalid, ParseEnd, Parsing, Parsed, Goto
      <3>2. CASE OutOfMemory BY <3>2 DEF OutOfMemory
      <3>3. CASE ReadLog \/ BadHead \/ ParseLegacyEvent \/ IncompleteEvent \/ IncompleteLegacyEvent
        BY <3>3 DEF ReadLog, BadHead, ParseLegacyEvent, IncompleteEvent, IncompleteLegacyEvent, Goto
      <3> QED BY <1>7, <3>1, <3>2, <3>3
    <2>2. CASE pc' \in {"parse", "read", "head", "legacy", "crashed"}
      <3>1. pc' \in {"parse", "read", "head", "legacy", "crashed", "exited"} BY <2>2
      <3> QED BY <1>0, <3>1
    <2> QED BY <1>1, <2>1, <2>2
  <1>8. CASE Output
    <2>1. CASE PrintAggregate
      <3>1. pc' \in {"parse", "read", "head", "legacy", "crashed", "exited"}
        BY <2>1 DEF PrintAggregate
      <3> QED BY <1>0, <3>1
    <2> QED BY <1>8, <2>1, JsonOpenLog, JsonPrintLog, JsonLogDone, JsonOpenSummary, JsonRegister, JsonSummaryDone, Zenon DEF Output
  <1>9. CASE UNCHANGED vars BY <1>9, JsonStays
  <1> QED BY <1>1, <1>2, <1>3, <1>4, <1>5, <1>6, <1>7, <1>8, <1>9, Zenon DEF Next, ParseLog, Terminated

LEMMA JsonInit == Init => JsonInv
  <1> SUFFICES ASSUME Init PROVE JsonInv OBVIOUS
  <1>1. pc = "parse" BY Zenon DEF Init
  <1>2. /\ pc # "event" /\ pc # "digest" /\ pc # "open log" /\ pc # "print log"
        /\ pc \notin {"open summary", "print aggregate"} /\ pc # "print summary" BY <1>1
  <1> QED BY <1>2, Zenon DEF JsonInv

\* Documents, with an aggregate behind them or without.
LEMMA ChainedDocuments ==
  ASSUME NEW ts, Chained(ts), ts[1].t = "[", Last(ts).t \in {"]", "aggregate"}
  PROVE  JsonDocuments(ts)
  <1>1. ts \in Seq(Tokens) /\ ts # <<>> /\ Linked(ts, Links) BY Zenon DEF Chained
  <1>2. Last(ts) = ts[Len(ts)] BY <1>1, LastIs, Zenon
  <1>3. ASSUME NEW j \in 1 .. Len(ts) - 1 PROVE Follows(ts[j], ts[j + 1])
    <2>1. <<ts[j], ts[j + 1]>> \in Links BY <1>1, <1>3, Zenon DEF Linked
    <2> QED BY <2>1 DEF Links
  <1> QED BY <1>2, <1>3, Zenon DEF JsonDocuments

LEMMA AggregateDocuments ==
  ASSUME NEW x \in Tokens, x.t = "aggregate"
  PROVE  JsonDocuments(<<x>>)
  <1>1. <<x>>[1] = x /\ Len(<<x>>) = 1 BY OneOrTwo
  <1>2. \A j \in 1 .. Len(<<x>>) - 1 : FALSE BY <1>1
  <1> QED BY <1>1, <1>2, Zenon DEF JsonDocuments

LEMMA WellFormedAggregate ==
  ASSUME TypeInv, JsonInv, PrintAggregate
  PROVE  JsonWellFormed'
  <1> DEFINE x == Token("aggregate", 0, [j \in DOMAIN opts.pcrs |-> calc[Printed(j)]], FALSE)
  <1>0. pc \in {"open summary", "print aggregate"} /\ UNCHANGED input BY DEF PrintAggregate
  <1>1. Es' = Es /\ (Nice' <=> Nice) BY <1>0, NiceStays, Zenon
  <1>2. Nice => Document(out) BY <1>0, Zenon DEF JsonInv
  <1>3. out' = Append(out, x) \/ out' = out BY DEF PrintAggregate
  <1>4. x \in Tokens /\ x.t = "aggregate" /\ out \in Seq(Tokens)
    BY AggregateTokenType DEF Token, TypeInv
  <1> HIDE DEF x
  <1>5. ASSUME Nice PROVE JsonDocuments(out')
    <2>1. CASE out' = Append(out, x)
      <3>1. out' = out \o <<x>> BY <1>4, <2>1, AppendAsConcat, Zenon
      <3>2. CASE out = <<>>
        <4>1. <<>> \o <<x>> = <<x>> BY <1>4, ChainedOne, ConcatEmpty
        <4> QED BY <1>4, <3>1, <3>2, <4>1, AggregateDocuments, Zenon
      <3>3. CASE Chained(out) /\ out[1].t = "[" /\ Last(out).t = "]"
        <4>1. Follows(Last(out), x) BY <1>4, <3>3 DEF Follows
        <4>2. Opened(out') /\ Last(out') = x
          BY <1>4, <3>1, <3>3, <4>1, OpenedMore, Zenon DEF Opened
        <4>3. x.t \in {"]", "aggregate"} BY <1>4
        <4> QED BY <4>2, <4>3, ChainedDocuments, Zenon DEF Opened
      <3> QED BY <1>2, <1>5, <3>2, <3>3, Zenon DEF Document
    <2>2. CASE out' = out
      <3>1. CASE out = <<>>
        <4>1. \A j \in 1 .. Len(<<>>) - 1 : FALSE BY OneOrTwo
        <4> QED BY <2>2, <3>1, <4>1, Zenon DEF JsonDocuments
      <3>2. CASE Chained(out) /\ out[1].t = "[" /\ Last(out).t = "]"
        <4>1. Last(out).t \in {"]", "aggregate"} BY <3>2
        <4> QED BY <2>2, <3>2, <4>1, ChainedDocuments, Zenon
      <3> QED BY <1>2, <1>5, <3>1, <3>2, Zenon DEF Document
    <2> QED BY <1>3, <2>1, <2>2
  <1> QED BY <1>1, <1>5, Zenon DEF JsonWellFormed, Nice, Es

LEMMA WellFormedNext ==
  ASSUME TypeInv, StageInv', JsonInv, JsonWellFormed, [Next]_vars
  PROVE  JsonWellFormed'
  <1>1. CASE UNCHANGED vars
    <2>1. UNCHANGED input /\ ret' = ret /\ out' = out BY <1>1, Zenon DEF vars, input
    <2>2. Input' = Input /\ Json' = Json BY <2>1, InputStays, Zenon
    <2>3. opts' = opts BY <2>1, Zenon DEF input
    <2> QED BY <2>1, <2>2, <2>3, Zenon DEF JsonWellFormed
  <1>2. CASE PrintAggregate BY <1>2, WellFormedAggregate
  <1>3. ASSUME ret' # 0 PROVE JsonWellFormed' BY <1>3, Zenon DEF JsonWellFormed
  <1>4. CASE Fail
    <2>1. ret' # 0 BY <1>4 DEF Fail
    <2> QED BY <1>3, <2>1
  <1>5. CASE pc' # "exited"
    <2>1. ret' = 1 BY <1>5, Zenon DEF StageInv
    <2>2. ret' # 0 BY <2>1
    <2> QED BY <1>3, <2>2
  <1>6. CASE (Parse \/ ParseLog) /\ ~Fail
    <2>1. pc' # "exited"
      <3>1. CASE Parse
        <4>1. pc = "parse" BY <3>1, ParsingPlace
        <4> QED BY <1>6, <3>1, <4>1 DEF Parse, ParseFlag, ParseFormat, ParsePcrs, ParseIn, ParseInvalid, ParseEnd, Parsing, Parsed, Goto
      <3>2. CASE ParseLog BY <1>6, <3>2, ParseLogStatus, Zenon
      <3> QED BY <1>6, <3>1, <3>2
    <2> QED BY <1>5, <2>1
  <1>7. CASE Output /\ ~PrintAggregate
    <2>1. pc' # "exited"
      <3>1. pc # "exited" BY <1>7, ParsingPlace DEF OutputLabel
      <3> QED BY <1>7, <3>1 DEF Output, OpenLog, PrintLog, LogDone, OpenSummary, PrintRegister, SummaryDone, Emit, Goto
    <2> QED BY <1>5, <2>1
  <1>8. CASE OutOfMemory
    <2>1. pc' # "exited" BY <1>8 DEF OutOfMemory
    <2> QED BY <1>5, <2>1
  <1> QED BY <1>1, <1>2, <1>4, <1>6, <1>7, <1>8, Zenon DEF Next, Terminated

LEMMA WellFormedInit == Init => JsonWellFormed
  <1> SUFFICES ASSUME Init PROVE JsonWellFormed OBVIOUS
  <1>1. ret = 1 BY Zenon DEF Init
  <1>2. ret # 0 BY <1>1
  <1> QED BY <1>2, Zenon DEF JsonWellFormed

-----------------------------------------------------------------------------
(* The theorems *)

\* What holds in every state: what the program keeps while it parses, and what
\* it has printed.
IInv ==
  /\ TypeInv /\ StageInv /\ BufferInv /\ ProgressInv
  /\ RegisterInv /\ SummaryMatchesTpm /\ LogReplays
  /\ JsonInv /\ JsonWellFormed /\ RejectsOnlyMalformed

LEMMA IInvInit == Init => IInv
  BY TypeInit, StageInit, ProgressInit, RegisterInit, SummaryInit, ReplaysInit, JsonInit, WellFormedInit, RejectInit, Zenon
  DEF IInv

LEMMA IInvNext == IInv /\ [Next]_vars => IInv'
  <1> SUFFICES ASSUME IInv, [Next]_vars PROVE IInv' OBVIOUS
  <1>1. /\ TypeInv /\ StageInv /\ BufferInv /\ ProgressInv
        /\ RegisterInv /\ SummaryMatchesTpm /\ LogReplays
        /\ JsonInv /\ JsonWellFormed /\ RejectsOnlyMalformed BY Zenon DEF IInv
  <1>2. TypeInv'
    <2>1. OneDigest /\ (pc = "digest" => k <= Len(buf.events))
      BY <1>1, LegacyHasDigest, Zenon DEF BufferInv
    <2> QED BY <1>1, <2>1, TypeNext, Zenon
  <1>3. StageInv' /\ BufferInv' BY <1>1, StageNext, Zenon
  <1>4. ProgressInv' /\ RegisterInv' /\ JsonInv' /\ RejectsOnlyMalformed'
    BY <1>1, ProgressNext, RegisterNext, JsonNext, RejectNext, Zenon
  <1>5. SummaryMatchesTpm' /\ LogReplays' /\ JsonWellFormed'
    BY <1>1, <1>2, <1>3, SummaryNext, ReplaysNext, WellFormedNext, Zenon
  <1> QED BY <1>2, <1>3, <1>4, <1>5, Zenon DEF IInv

LEMMA IInvAlways == Spec => []IInv
  BY IInvInit, IInvNext, PTL DEF Spec

\* The registers of the summary are those of the TPM that wrote the log, and the
\* event log replays to them, for every log, command line and number of
\* registers (eventcb.c:214-262, main.c:207-265).
THEOREM RegistersAreSound == Spec => []RegistersSound
  <1>1. IInv => RegistersSound BY Zenon DEF IInv, TypeInv, RegistersSound
  <1> QED BY <1>1, IInvAlways, PTL

\* What a run prints is well-formed JSON, for every list of PCRs and every log
\* whose events can be described, and a run that fails has printed nothing of a
\* result (main.c:207-275).
THEOREM OutputIsSound == Spec => []OutputSound
  <1>1. IInv => OutputSound
    <2>1. StageInv => FailureIsSilent
      <3>1. pc = "crashed" => pc # "exited" OBVIOUS
      <3> QED BY <3>1, Zenon DEF StageInv, FailureIsSilent, OnlyNoise, NoAggregate
    <2> QED BY <2>1, Zenon DEF IInv, OutputSound
  <1> QED BY <1>1, IInvAlways, PTL

\* Without faults a complete log is refused only for an event that is malformed
\* in the file, or for one whose text has no end (tpm2_eventlog.c, eventcb.c:387).
THEOREM RejectsForReasonOnly == Spec => []RejectsOnlyMalformed
  <1>1. IInv => RejectsOnlyMalformed BY Zenon DEF IInv
  <1> QED BY <1>1, IInvAlways, PTL

-----------------------------------------------------------------------------
(* Refinement *)

-----------------------------------------------------------------------------
(* The measurements still to come *)

\* The first element of a sequence that is selected from or mapped.
LEMMA OnlyFirst ==
  ASSUME NEW T, NEW s \in Seq(T), s # <<>>, NEW S
  PROVE  Only(s, S) = (IF s[1] \in S THEN <<s[1]>> ELSE <<>>) \o Only(SubSeq(s, 2, Len(s)), S)
  <1> DEFINE n == Len(s)
             t == SubSeq(s, 2, n)
             a == Kept(s, S)
             b == Kept(t, S)
             U == T \cap S
             c == SubSeq(a, 2, Len(a))
  <1>1. n \in Nat /\ n >= 1 /\ 1 \in DOMAIN s /\ DOMAIN s = 1 .. n OBVIOUS
  <1>2. t \in Seq(T) /\ Len(t) = n - 1 /\ \A i \in 1 .. n - 1 : t[i] = s[i + 1]
    <2> HIDE DEF n
    <2>1. s \in Seq(T) /\ n = Len(s) BY DEF n
    <2>2. (n + 1) - 2 = n - 1 /\ \A i \in 1 .. n - 1 : (i + 2) - 1 = i + 1 BY <1>1
    <2> QED BY <1>1, <2>1, <2>2
  <1> HIDE DEF t
  <1>3. a \in Seq(Seq(U)) /\ Len(a) = n /\ b \in Seq(Seq(U)) /\ Len(b) = n - 1
    BY <1>2, KeptType
  <1>4. a[1] = IF s[1] \in S THEN <<s[1]>> ELSE <<>> BY <1>1 DEF Kept
  <1>5. \A i \in 1 .. n - 1 : b[i] = a[i + 1]
    <2> SUFFICES ASSUME NEW i \in 1 .. n - 1 PROVE b[i] = a[i + 1] OBVIOUS
    <2>1. i \in DOMAIN t /\ i + 1 \in DOMAIN s /\ t[i] = s[i + 1]
      <3>1. DOMAIN t = 1 .. Len(t) BY <1>2, SeqIsFunction
      <3> QED BY <1>1, <1>2, <3>1
    <2>2. b[i] = IF t[i] \in S THEN <<t[i]>> ELSE <<>> BY <2>1 DEF Kept
    <2>3. a[i + 1] = IF s[i + 1] \in S THEN <<s[i + 1]>> ELSE <<>> BY <2>1 DEF Kept
    <2> QED BY <2>1, <2>2, <2>3
  <1> HIDE DEF a, b, U
  <1>6. FlattenSeq(a) = a[1] \o FlattenSeq(c)
    <2>1. a # <<>>
      <3>1. Len(a) # 0 BY <1>1, <1>3
      <3> QED BY <3>1
    <2> HIDE DEF c
    <2> QED BY <1>3, <2>1, FlattenFirst DEF c
  <1>7. c = b
    <2> DEFINE V == Seq(U)
    <2>1. a \in Seq(V) /\ b \in Seq(V) BY <1>3
    <2> HIDE DEF V
    <2> DEFINE m == Len(a)
    <2>2. m \in Nat /\ m = n /\ Len(b) = m - 1 BY <1>1, <1>3
    <2>3. (m + 1) - 2 = m - 1 /\ \A i \in 1 .. m - 1 : (i + 2) - 1 = i + 1 BY <1>1, <2>2
    <2>4. c \in Seq(V) /\ Len(c) = m - 1 /\ \A i \in 1 .. m - 1 : c[i] = a[i + 1]
      <3> HIDE DEF n
      <3>1. m >= 1 BY <1>1, <2>2
      <3> QED BY <2>1, <2>2, <2>3, <3>1
    <2>5. \A i \in 1 .. m - 1 : c[i] = b[i] BY <1>5, <2>2, <2>4
    <2> HIDE DEF c, m, n
    <2> QED BY <2>1, <2>2, <2>4, <2>5
  <1>8. Only(s, S) = FlattenSeq(a) /\ Only(t, S) = FlattenSeq(b) BY DEF Only, Kept, a, b
  <1> HIDE DEF c
  <1> QED BY <1>4, <1>6, <1>7, <1>8, Zenon DEF t

LEMMA MapFirst ==
  ASSUME NEW T, NEW U, NEW G \in [T -> U], NEW s \in Seq(T), NEW x \in T
  PROVE  Mapped(<<x>> \o s, G) = <<G[x]>> \o Mapped(s, G)
  <1> DEFINE a == <<x>> \o s
             m == Mapped(s, G)
             l == Mapped(a, G)
             r == <<G[x]>> \o m
             n == Len(s)
  <1>0. <<x>> \in Seq(T) /\ <<G[x]>> \in Seq(U) /\ G[x] \in U OBVIOUS
  <1>1. n \in Nat /\ a \in Seq(T) /\ Len(a) = n + 1 /\ DOMAIN a = 1 .. n + 1 /\ a[1] = x
        /\ DOMAIN s = 1 .. n /\ \A i \in 1 .. n : a[i + 1] = s[i] OBVIOUS
  <1>2. m \in Seq(U) /\ Len(m) = n /\ l \in Seq(U) /\ Len(l) = n + 1
    <2> HIDE DEF n
    <2>0. \A u \in Seq(T) : Mapped(u, G) \in Seq(U) /\ Len(Mapped(u, G)) = Len(u)
      <3> SUFFICES ASSUME NEW u \in Seq(T) PROVE Mapped(u, G) \in Seq(U) /\ Len(Mapped(u, G)) = Len(u)
        OBVIOUS
      <3>1. DOMAIN u = 1 .. Len(u) /\ Len(u) \in Nat /\ \A i \in DOMAIN u : u[i] \in T
        BY SeqIsFunction, Zenon
      <3>2. Mapped(u, G) \in [1 .. Len(u) -> U] BY <3>1 DEF Mapped
      <3> QED BY <3>1, <3>2, FunctionIsSeq, Zenon
    <2>1. m \in Seq(U) /\ Len(m) = Len(s) BY <2>0
    <2> HIDE DEF a
    <2>2. l \in Seq(U) /\ Len(l) = Len(a) BY <1>1, <2>0
    <2> QED BY <1>1, <2>1, <2>2 DEF n
  <1>3. r \in Seq(U) /\ Len(r) = n + 1 /\ r[1] = G[x] /\ \A i \in 1 .. n : r[i + 1] = m[i]
    <2> HIDE DEF m, n
    <2> DEFINE y == G[x]
    <2> HIDE DEF y
    <2>1. y \in U /\ m \in Seq(U) /\ Len(m) = n BY <1>0, <1>2 DEF y
    <2> QED BY <2>1 DEF y
  <1>4. l[1] = G[x] /\ \A i \in 1 .. n : l[i + 1] = m[i]
    <2>1. 1 \in DOMAIN a /\ \A i \in 1 .. n : i + 1 \in DOMAIN a BY <1>1
    <2>2. l[1] = G[a[1]] /\ \A i \in 1 .. n : l[i + 1] = G[a[i + 1]]
      <3> HIDE DEF a, n
      <3> QED BY <2>1 DEF Mapped
    <2>3. \A i \in 1 .. n : m[i] = G[s[i]]
      <3> HIDE DEF n
      <3> QED BY <1>1 DEF Mapped
    <2> HIDE DEF a, l, m, n
    <2> QED BY <1>1, <2>2, <2>3
  <1> HIDE DEF a, l, m, r, n
  <1>5. \A i \in 1 .. n + 1 : l[i] = r[i]
    <2> SUFFICES ASSUME NEW i \in 1 .. n + 1 PROVE l[i] = r[i] OBVIOUS
    <2>1. CASE i = 1 BY <1>3, <1>4, <2>1
    <2>2. CASE i # 1
      <3>1. i - 1 \in 1 .. n /\ (i - 1) + 1 = i BY <1>1, <2>2
      <3>2. l[(i - 1) + 1] = m[i - 1] /\ r[(i - 1) + 1] = m[i - 1] BY <1>3, <1>4, <3>1
      <3> QED BY <3>1, <3>2
    <2> QED BY <2>1, <2>2
  <1>6. l = r BY <1>1, <1>2, <1>3, <1>5
  <1> QED BY <1>6 DEF l, r, a, m

LEMMA PairsFirst ==
  ASSUME NEW n \in Nat, NEW s \in Seq(Digest), s # <<>>
  PROVE  Pairs(n, s) = (IF s[1][1] = "sha256" THEN <<<<n, s[1]>>>> ELSE <<>>) \o Pairs(n, SubSeq(s, 2, Len(s)))
         /\ s[1] \in Digest
  <1> DEFINE G == [v \in Digest |-> <<n, v>>]
             x == s[1]
             t == SubSeq(s, 2, Len(s))
             o == Only(t, Sha256Digest)
  <1>1. x \in Digest OBVIOUS
  <1>2. t \in Seq(Digest)
    <2> DEFINE T == Digest
    <2>1. s \in Seq(T) OBVIOUS
    <2> HIDE DEF T
    <2>2. t \in Seq(T) BY <2>1
    <2> QED BY <2>2 DEF T
  <1>3. Only(s, Sha256Digest) = (IF x \in Sha256Digest THEN <<x>> ELSE <<>>) \o o
    BY OnlyFirst
  <1> HIDE DEF t
  <1>4. o \in Seq(Digest) BY <1>2, OnlyType
  <1>5. G \in [Digest -> Measurement] /\ G[x] = <<n, x>> BY <1>1 DEF Measurement
  <1> HIDE DEF x, o, G
  <1>6. x \in Sha256Digest <=> x[1] = "sha256" BY <1>1 DEF Sha256Digest, Digest
  <1>7. Mapped(<<x>> \o o, G) = <<G[x]>> \o Mapped(o, G) /\ <<>> \o o = o
        /\ <<>> \o Mapped(o, G) = Mapped(o, G)
    <2>1. Mapped(<<x>> \o o, G) = <<G[x]>> \o Mapped(o, G) BY <1>1, <1>4, <1>5, MapFirst
    <2>2. Mapped(o, G) \in Seq(Measurement) BY <1>4, <1>5, MapType
    <2> DEFINE q == Mapped(o, G)
    <2> HIDE DEF q
    <2>3. <<>> \o q = q BY <2>2, ConcatEmpty DEF q
    <2>4. <<>> \o o = o BY <1>4, ConcatEmpty
    <2> QED BY <2>1, <2>3, <2>4 DEF q
  <1>8. Pairs(n, s) = Mapped(Only(s, Sha256Digest), G) /\ Pairs(n, t) = Mapped(o, G)
    BY DEF Pairs, G, o
  <1>9. CASE x[1] = "sha256"
    <2>1. Only(s, Sha256Digest) = <<x>> \o o BY <1>3, <1>6, <1>9
    <2> QED BY <1>1, <1>5, <1>7, <1>8, <1>9, <2>1 DEF x, t
  <1>10. CASE x[1] # "sha256"
    <2>1. Only(s, Sha256Digest) = o BY <1>3, <1>6, <1>7, <1>10
    <2> QED BY <1>1, <1>7, <1>8, <1>10, <2>1 DEF x, t
  <1> QED BY <1>9, <1>10

\* What the digests of an event from the j-th on make it measure.
Rest(e, j) == IF e.type = "no action" THEN <<>> ELSE Pairs(e.pcr, SubSeq(e.digests, j, Len(e.digests)))

LEMMA MeasurementsFromRest ==
  ASSUME NEW e \in Event, NEW j \in 1 .. Len(e.digests) + 1
  PROVE  MeasurementsFrom(e, j) = Rest(e, j) /\ Rest(e, j) \in Seq(Measurement)
  <1> DEFINE s == e.digests
             t == SubSeq(s, j, Len(s))
             f == [e EXCEPT !.digests = SubSeq(@, j, Len(@))]
             rest == Sha256(f)
             G == [v \in Digest |-> <<e.pcr, v>>]
  <1>1. s \in Seq(Digest) /\ e.pcr \in Nat /\ Len(s) \in Nat BY EventIs
  <1>2. t \in Seq(Digest)
    <2> DEFINE T == Digest
    <2>1. s \in Seq(T) /\ j \in 1 .. Len(s) + 1 BY <1>1
    <2> HIDE DEF T, s
    <2>2. t \in Seq(T) BY <2>1
    <2> QED BY <2>2 DEF T
  <1>3. f.type = e.type /\ f.digests = t
    <2>1. f = [e EXCEPT !.digests = t] OBVIOUS
    <2> HIDE DEF t, f
    <2> QED BY <2>1 DEF Event
  <1>4. MeasurementsFrom(e, j) = [l \in DOMAIN rest |-> <<e.pcr, rest[l]>>]
    BY DEF MeasurementsFrom
  <1>5. CASE e.type = "no action"
    <2>1. rest = <<>> BY <1>3, <1>5 DEF Sha256
    <2> HIDE DEF rest
    <2>2. MeasurementsFrom(e, j) = <<>> BY <1>4, <2>1
    <2>3. <<>> \in Seq(Measurement) OBVIOUS
    <2> QED BY <1>5, <2>2, <2>3, Zenon DEF Rest
  <1>6. CASE e.type # "no action"
    <2>1. rest = Only(t, Sha256Digest)
      <3> HIDE DEF t, f
      <3> QED BY <1>3, <1>6 DEF Sha256, Sha256Digest
    <2>2. rest \in Seq(Digest)
      <3> HIDE DEF t, rest
      <3> QED BY <1>2, <2>1, OnlyType
    <2> HIDE DEF rest, t
    <2>3. \A l \in DOMAIN rest : rest[l] \in Digest BY <2>2, SeqIsFunction
    <2>4. Mapped(rest, G) = [l \in DOMAIN rest |-> <<e.pcr, rest[l]>>] BY <2>3 DEF Mapped
    <2>5. MeasurementsFrom(e, j) = Pairs(e.pcr, t) BY <1>4, <2>1, <2>4 DEF Pairs
    <2>6. Pairs(e.pcr, t) \in Seq(Measurement) BY <1>1, <1>2, PairsType
    <2> QED BY <1>6, <2>5, <2>6 DEF Rest, t
  <1> QED BY <1>5, <1>6

LEMMA RestNext ==
  ASSUME NEW e \in Event
  PROVE  /\ Rest(e, Len(e.digests) + 1) = <<>>
         /\ \A j \in 1 .. Len(e.digests) : e.type # "no action" =>
              Rest(e, j) = (IF e.digests[j][1] = "sha256" THEN <<<<e.pcr, e.digests[j]>>>> ELSE <<>>) \o Rest(e, j + 1)
         /\ \A j : e.type = "no action" => Rest(e, j) = <<>>
  <1> DEFINE s == e.digests
             n == Len(s)
  <1>1. s \in Seq(Digest) /\ e.pcr \in Nat /\ n \in Nat BY EventIs
  <1>2. Rest(e, n + 1) = <<>>
    <2>1. SubSeq(s, n + 1, n) = <<>>
      <3> HIDE DEF s
      <3> QED BY <1>1
    <2>2. Pairs(e.pcr, <<>>) = <<>>
      <3>1. <<>> \in Seq(Digest) OBVIOUS
      <3> QED BY <1>1, <3>1, PairsType
    <2> HIDE DEF s
    <2> QED BY <2>1, <2>2 DEF Rest, s
  <1>3. ASSUME NEW j \in 1 .. n, e.type # "no action"
        PROVE  Rest(e, j) = (IF s[j][1] = "sha256" THEN <<<<e.pcr, s[j]>>>> ELSE <<>>) \o Rest(e, j + 1)
    <2> DEFINE u == SubSeq(s, j, n)
               v == SubSeq(s, j + 1, n)
    <2>1. u \in Seq(Digest) /\ u # <<>> /\ u[1] = s[j] /\ SubSeq(u, 2, Len(u)) = v
      <3> HIDE DEF s
      <3>1. j \in 1 .. Len(s) /\ s \in Seq(Digest) BY <1>1
      <3> QED BY <3>1, SuffixNext
    <2>2. Rest(e, j) = Pairs(e.pcr, u) /\ Rest(e, j + 1) = Pairs(e.pcr, v) BY <1>3 DEF Rest
    <2> HIDE DEF u, v, s
    <2>3. Pairs(e.pcr, u) = (IF u[1][1] = "sha256" THEN <<<<e.pcr, u[1]>>>> ELSE <<>>) \o Pairs(e.pcr, SubSeq(u, 2, Len(u)))
      BY <1>1, <2>1, PairsFirst
    <2> QED BY <2>1, <2>2, <2>3
  <1>4. e.type = "no action" => \A j : Rest(e, j) = <<>> BY DEF Rest
  <1> QED BY <1>2, <1>3, <1>4

\* The measurements of the first event come before those of the others.
LEMMA MeasurementsFirst ==
  ASSUME NEW es \in Seq(Event), es # <<>>
  PROVE  /\ Measurements(es) = MeasurementsFrom(es[1], 1) \o Measurements(SubSeq(es, 2, Len(es)))
         /\ es[1] \in Event
  <1> DEFINE G == [o \in Event |-> MeasurementsFrom(o, 1)]
             U == Seq(Measurement)
             n == Len(es)
             t == SubSeq(es, 2, n)
             a == Mapped(es, G)
             b == Mapped(t, G)
             c == SubSeq(a, 2, Len(a))
  <1>1. \A o \in Event : G[o] \in U /\ G[o] = MeasurementsFrom(o, 1) BY MeasurementsFromIs
  <1>2. \A s \in Seq(Event) : Measurements(s) = FlattenSeq(Mapped(s, G))
    <2> SUFFICES ASSUME NEW s \in Seq(Event) PROVE Measurements(s) = FlattenSeq(Mapped(s, G))
      OBVIOUS
    <2>1. \A j \in DOMAIN s : s[j] \in Event BY SeqIsFunction
    <2>2. Mapped(s, G) = [j \in DOMAIN s |-> MeasurementsFrom(s[j], 1)] BY <2>1 DEF Mapped
    <2> QED BY <2>2 DEF Measurements
  <1> HIDE DEF G, U
  <1>3. n \in Nat /\ n >= 1 /\ es[1] \in Event /\ DOMAIN es = 1 .. n OBVIOUS
  <1>4. t \in Seq(Event) /\ Len(t) = n - 1 /\ \A i \in 1 .. n - 1 : t[i] = es[i + 1]
    <2> HIDE DEF n
    <2>1. es \in Seq(Event) /\ n = Len(es) BY DEF n
    <2>2. (n + 1) - 2 = n - 1 /\ \A i \in 1 .. n - 1 : (i + 2) - 1 = i + 1 BY <1>3
    <2> QED BY <1>3, <2>1, <2>2
  <1> HIDE DEF t
  <1>5. \A u \in Seq(Event) : Mapped(u, G) \in Seq(U) /\ Len(Mapped(u, G)) = Len(u)
                              /\ \A i \in DOMAIN u : Mapped(u, G)[i] = G[u[i]]
    <2> SUFFICES ASSUME NEW u \in Seq(Event)
                 PROVE  Mapped(u, G) \in Seq(U) /\ Len(Mapped(u, G)) = Len(u)
                        /\ \A i \in DOMAIN u : Mapped(u, G)[i] = G[u[i]] OBVIOUS
    <2>1. DOMAIN u = 1 .. Len(u) /\ Len(u) \in Nat /\ \A i \in DOMAIN u : u[i] \in Event
      BY SeqIsFunction, Zenon
    <2>2. \A i \in DOMAIN u : G[u[i]] \in U BY <1>1, <2>1
    <2>3. Mapped(u, G) \in [1 .. Len(u) -> U] BY <2>1, <2>2 DEF Mapped
    <2>4. \A i \in DOMAIN u : Mapped(u, G)[i] = G[u[i]] BY DEF Mapped
    <2> QED BY <2>1, <2>3, <2>4, FunctionIsSeq, Zenon
  <1>6. a \in Seq(U) /\ Len(a) = n /\ b \in Seq(U) /\ Len(b) = n - 1 /\ a[1] = MeasurementsFrom(es[1], 1)
    <2>1. 1 \in DOMAIN es BY <1>3
    <2>2. a \in Seq(U) /\ Len(a) = n /\ b \in Seq(U) /\ Len(b) = n - 1 BY <1>4, <1>5
    <2>3. a[1] = G[es[1]] BY <1>5, <2>1
    <2> QED BY <1>1, <1>3, <2>2, <2>3
  <1>7. \A i \in 1 .. n - 1 : b[i] = a[i + 1]
    <2> SUFFICES ASSUME NEW i \in 1 .. n - 1 PROVE b[i] = a[i + 1] OBVIOUS
    <2>1. i \in DOMAIN t /\ i + 1 \in DOMAIN es /\ t[i] = es[i + 1]
      <3>1. DOMAIN t = 1 .. Len(t) BY <1>4, SeqIsFunction
      <3> QED BY <1>3, <1>4, <3>1
    <2>2. b[i] = G[t[i]] /\ a[i + 1] = G[es[i + 1]] BY <1>4, <1>5, <2>1
    <2> QED BY <2>1, <2>2
  <1> HIDE DEF a, b
  <1>8. FlattenSeq(a) = a[1] \o FlattenSeq(c)
    <2>1. a # <<>>
      <3>1. Len(a) # 0 BY <1>3, <1>6
      <3> QED BY <3>1
    <2>2. a \in Seq(Seq(Measurement)) BY <1>6 DEF U
    <2> HIDE DEF c
    <2> QED BY <2>1, <2>2, FlattenFirst DEF c
  <1>9. c = b
    <2> DEFINE m == Len(a)
    <2>2. m \in Nat /\ m = n /\ Len(b) = m - 1 BY <1>3, <1>6
    <2>3. (m + 1) - 2 = m - 1 /\ \A i \in 1 .. m - 1 : (i + 2) - 1 = i + 1 BY <1>3, <2>2
    <2>4. c \in Seq(U) /\ Len(c) = m - 1 /\ \A i \in 1 .. m - 1 : c[i] = a[i + 1]
      <3> HIDE DEF n
      <3>1. m >= 1 BY <1>3, <2>2
      <3> QED BY <1>6, <2>2, <2>3, <3>1
    <2>5. \A i \in 1 .. m - 1 : c[i] = b[i] BY <1>7, <2>2, <2>4
    <2>6. b \in Seq(U) BY <1>6
    <2> HIDE DEF c, m, n
    <2> QED BY <2>2, <2>4, <2>5, <2>6
  <1> HIDE DEF c
  <1>10. Measurements(es) = FlattenSeq(a) /\ Measurements(t) = FlattenSeq(b)
    BY <1>2, <1>4 DEF a, b
  <1> QED BY <1>3, <1>6, <1>8, <1>9, <1>10, Zenon DEF t, n

LEMMA StartNotExtended ==
  ASSUME NEW es \in Seq(Event)
  PROVE  ~Extended(Start(es))
  <1> DEFINE x == <<"locality", StartLocality(es)>>
  <1>1. Start(es) = <<>> \/ Start(es) = <<x>> BY DEF Start
  <1>2. x[1] # "extend" OBVIOUS
  <1> HIDE DEF x
  <1>3. DOMAIN <<x>> = {1} /\ <<x>>[1] = x /\ DOMAIN <<>> = {} BY OneOrTwo
  <1>4. CASE Start(es) = <<>> BY <1>3, <1>4, Zenon DEF Extended
  <1>5. CASE Start(es) = <<x>>
    <2>1. \A j \in DOMAIN <<x>> : <<x>>[j] = x BY <1>3
    <2> QED BY <1>2, <1>5, <2>1, Zenon DEF Extended
  <1> QED BY <1>1, <1>4, <1>5

\* A register that holds an extension of the measurements has been extended.
LEMMA ExtensionsExtend ==
  ASSUME NEW a \in Seq(Change), NEW ms \in Seq(Measurement), NEW n \in Nat, ~Extended(a \o Extends(ms, n))
  PROVE  a \o Extends(ms, n) = a
  <1> DEFINE own == Only(ms, {n} \X Digest)
             G == [m \in Measurement |-> <<"extend", m[2]>>]
             b == Extends(ms, n)
  <1>1. own \in Seq(Measurement) BY OnlyType
  <1>2. b = Mapped(own, G) /\ b \in Seq(Change) BY ExtendsType DEF Extends
  <1>3. \A m \in Measurement : G[m][1] = "extend" OBVIOUS
  <1> HIDE DEF own, G, b
  <1>4. \A j \in DOMAIN b : b[j][1] = "extend"
    <2> SUFFICES ASSUME NEW j \in DOMAIN b PROVE b[j][1] = "extend" OBVIOUS
    <2>1. DOMAIN b = DOMAIN own /\ b[j] = G[own[j]] BY <1>2 DEF Mapped
    <2>2. own[j] \in Measurement BY <1>1, <2>1, SeqIsFunction
    <2> QED BY <1>3, <2>1, <2>2
  <1>5. b = <<>>
    <2> SUFFICES ASSUME b # <<>> PROVE FALSE OBVIOUS
    <2> DEFINE T == Change
    <2>1. a \in Seq(T) /\ b \in Seq(T) BY <1>2
    <2> HIDE DEF T
    <2>2. 1 \in DOMAIN b BY <2>1
    <2>3. \E i \in DOMAIN (a \o b) : (a \o b)[i] = b[1] BY <2>1, <2>2, ConcatKeeps
    <2>4. Extended(a \o b) BY <1>4, <2>2, <2>3, Zenon DEF Extended
    <2> QED BY <2>4 DEF b
  <1>6. a \o <<>> = a BY ConcatEmpty
  <1> QED BY <1>5, <1>6 DEF b

LEMMA AppendExtends ==
  ASSUME NEW v \in Seq(Change), NEW x \in Digest
  PROVE  Extended(Append(v, <<"extend", x>>)) /\ Append(v, <<"extend", x>>) \in Seq(Change)
  <1> DEFINE T == Change
             y == <<"extend", x>>
             u == Append(v, y)
             n == Len(v) + 1
  <1>1. y \in T /\ v \in Seq(T) /\ y[1] = "extend" BY DEF Change
  <1> HIDE DEF T, y
  <1>2. u \in Seq(T) /\ n \in DOMAIN u /\ u[n] = y BY <1>1
  <1> HIDE DEF u, n
  <1>3. Extended(u) BY <1>1, <1>2, Zenon DEF Extended
  <1> QED BY <1>2, <1>3 DEF u, y, T

LEMMA RangesIn ==
  ASSUME NEW n \in Nat, NEW i \in 1 .. n
  PROVE  /\ \A j \in 1 .. n : j \notin 1 .. i => i \in 1 .. j - 1
         /\ \A l \in 1 .. i : l \in 1 .. n
         /\ \A j \in 1 .. n : \A l \in 1 .. j - 1 : l \in 1 .. n OBVIOUS

LEMMA PrefixIs ==
  ASSUME NEW T, NEW s \in Seq(T), NEW i \in 1 .. Len(s)
  PROVE  DOMAIN SubSeq(s, 1, i) = 1 .. i /\ \A l \in 1 .. i : SubSeq(s, 1, i)[l] = s[l]
  OBVIOUS

\* Once PCR 0 is measured into no locality is written any more.
LEMMA StartFinal ==
  ASSUME NEW es \in Seq(Event), NEW i \in 1 .. Len(es), LocalityBeforeExtend(es),
         es[i].pcr = 0, es[i].type # "no action"
  PROVE  Start(SubSeq(es, 1, i)) = Start(es)
  <1> DEFINE b == SubSeq(es, 1, i)
             n == Len(es)
  <1>1. n \in Nat /\ i \in 1 .. n /\ DOMAIN es = 1 .. n BY SeqIsFunction
  <1>2. DOMAIN b = 1 .. i /\ \A l \in 1 .. i : b[l] = es[l] BY PrefixIs
  <1> HIDE DEF b, n
  <1>3. \A j \in DOMAIN es : SetsLocality(es, j) => j \in 1 .. i
    <2> SUFFICES ASSUME NEW j \in DOMAIN es, SetsLocality(es, j), j \notin 1 .. i PROVE FALSE
      OBVIOUS
    <2>0. j \in 1 .. n BY <1>1, Zenon
    <2>1. i \in 1 .. j - 1 BY <1>1, <2>0, RangesIn, Zenon
    <2> QED BY <2>1, Zenon DEF LocalityBeforeExtend
  <1>4. \A l \in 1 .. i : l \in DOMAIN es
    <2>1. \A l \in 1 .. i : l \in 1 .. n BY <1>1, RangesIn, Zenon
    <2> QED BY <1>1, <2>1, Zenon
  <1>5. (\E j \in DOMAIN es : Hcrtm(es[j])) <=> (\E j \in DOMAIN b : Hcrtm(b[j]))
    BY <1>2, <1>3, <1>4, Zenon DEF SetsLocality
  <1>6. CASE \E j \in DOMAIN es : Hcrtm(es[j])
    <2>1. StartLocality(es) = 4 /\ StartLocality(b) = 4
      BY <1>5, <1>6, Zenon DEF StartLocality
    <2> QED BY <2>1 DEF Start, b
  <1>7. CASE ~\E j \in DOMAIN es : Hcrtm(es[j])
    <2>1. \A j \in DOMAIN es : \A l \in 1 .. j - 1 : ~Hcrtm(es[l])
      <3>0. \A j \in 1 .. n : \A l \in 1 .. j - 1 : l \in 1 .. n BY <1>1, RangesIn, Zenon
      <3>1. \A j \in DOMAIN es : \A l \in 1 .. j - 1 : l \in DOMAIN es BY <1>1, <3>0, Zenon
      <3> QED BY <1>7, <3>1, Zenon
    <2>2. (\E j \in DOMAIN es : StartupLocality(es[j])) <=> (\E j \in DOMAIN b : StartupLocality(b[j]))
      BY <1>2, <1>3, <1>4, <2>1, Zenon DEF SetsLocality
    <2>3. StartLocality(es) = StartLocality(b) BY <1>5, <1>7, <2>2, Zenon DEF StartLocality
    <2> QED BY <2>3 DEF Start, b
  <1> QED BY <1>6, <1>7

\* Events of the SHA-1 format measure nothing.
LEMMA LegacyMeasuresNothing ==
  ASSUME NEW es \in Seq(Event), \A j \in DOMAIN es : \E v \in Value : es[j].digests = <<<<"sha1", v>>>>
  PROVE  Measurements(es) = <<>> /\ \A j \in DOMAIN es : MeasurementsFrom(es[j], 1) = <<>>
  <1> DEFINE n == Len(es)
             f == [j \in DOMAIN es |-> MeasurementsFrom(es[j], 1)]
  <1>1. n \in Nat /\ DOMAIN es = 1 .. n /\ \A j \in DOMAIN es : es[j] \in Event
    BY SeqIsFunction
  <1>2. \A j \in DOMAIN es : MeasurementsFrom(es[j], 1) = <<>>
    <2> SUFFICES ASSUME NEW j \in DOMAIN es PROVE MeasurementsFrom(es[j], 1) = <<>> OBVIOUS
    <2> DEFINE e == es[j]
    <2>1. e \in Event BY <1>1
    <2>2. PICK v \in Value : e.digests = <<<<"sha1", v>>>> OBVIOUS
    <2> HIDE DEF e
    <2> DEFINE x == <<"sha1", v>>
    <2>3. x[1] # "sha256" OBVIOUS
    <2> HIDE DEF x
    <2>4. Len(e.digests) = 1 /\ e.digests[1] = x BY <2>2 DEF x
    <2>5. MeasurementsFrom(e, 1) = Rest(e, 1)
      <3>1. 1 \in 1 .. Len(e.digests) + 1 BY <2>4
      <3> QED BY <2>1, <3>1, MeasurementsFromRest
    <2>6. Rest(e, 1) = <<>>
      <3>1. CASE e.type = "no action" BY <2>1, <3>1, RestNext
      <3>2. CASE e.type # "no action"
        <4>1. 1 \in 1 .. Len(e.digests) /\ 1 + 1 = Len(e.digests) + 1 BY <2>4
        <4>2. Rest(e, 1) = <<>> \o Rest(e, 1 + 1) BY <2>1, <2>3, <2>4, <3>2, <4>1, RestNext
        <4>3. Rest(e, 1 + 1) = <<>> BY <2>1, <4>1, RestNext
        <4>4. <<>> \o <<>> = <<>> OBVIOUS
        <4> QED BY <4>2, <4>3, <4>4
      <3> QED BY <3>1, <3>2
    <2> QED BY <2>5, <2>6 DEF e
  <1>3. f \in [1 .. n -> {<<>>}] BY <1>1, <1>2
  <1> HIDE DEF f
  <1>4. FlattenSeq(f) = <<>> BY <1>1, <1>3, FlattenEmpty
  <1> QED BY <1>2, <1>4 DEF Measurements, f

-----------------------------------------------------------------------------
(* The parser goes through the states of the TPM *)

Regs == [n \in Pcr |-> TpmRegister(n)]
ToCome == IF Maps THEN Todo ELSE <<>>
Remaining ==
  IF k > Len(Es) THEN <<>> ELSE MeasurementsFrom(Es[k], d) \o Measurements(SubSeq(Es, k + 1, Len(Es)))

\* Between two events no digest has been parsed.
PlaceInv == pc \in {"event", "legacy"} => d = 1

LEMMA TodoIs == Todo = IF pc \in OutputLabel \/ ret = 0 THEN <<>> ELSE Remaining
  BY Zenon DEF Todo, Remaining, Es

LEMMA PlaceInit == Init => PlaceInv
  BY DEF Init, PlaceInv

LEMMA PlaceNext == ASSUME PlaceInv, [Next]_vars PROVE PlaceInv'
  <1>1. CASE Fail BY <1>1 DEF Fail, PlaceInv
  <1>2. CASE Parse
    <2>1. Fail \/ pc' \in {"parse", "read"}
      <3>1. pc = "parse" BY <1>2, ParsingPlace
      <3> QED BY <1>2, <3>1 DEF Parse, ParseFlag, ParseFormat, ParsePcrs, ParseIn, ParseInvalid, ParseEnd, Parsing, Parsed, Goto
    <2> QED BY <1>1, <2>1 DEF PlaceInv
  <1>3. CASE ReadLog \/ ReadHead \/ BadHead \/ IncompleteEvent \/ IncompleteLegacyEvent \/ ParseEventsDone
    <2>1. Fail \/ d' = 1
      BY <1>3 DEF ReadLog, ReadHead, BadHead, IncompleteEvent, IncompleteLegacyEvent, ParseEventsDone, Goto
    <2> QED BY <1>1, <2>1 DEF PlaceInv
  <1>4. CASE ParseHeader \/ ParseBody
    <2>1. Fail \/ d' = 1 BY <1>4, Zenon DEF ParseHeader, ParseBody
    <2> QED BY <1>1, <2>1 DEF PlaceInv
  <1>5. CASE ParseDigest
    <2>1. Fail \/ (pc = "digest" /\ pc' = pc) BY <1>5, Zenon DEF ParseDigest
    <2> QED BY <1>1, <2>1 DEF PlaceInv
  <1>6. CASE ParseLegacyEvent
    <2>1. Fail \/ (pc' = pc /\ d' = d) BY <1>6, Zenon DEF ParseLegacyEvent
    <2> QED BY <1>1, <2>1 DEF PlaceInv
  <1>7. CASE Output
    <2>1. pc' \in OutputLabel \cup {"exited"} BY <1>7, OutputKeeps
    <2> QED BY <2>1 DEF PlaceInv, OutputLabel
  <1>8. CASE OutOfMemory BY <1>8 DEF OutOfMemory, PlaceInv
  <1>9. CASE UNCHANGED vars BY <1>9 DEF vars, PlaceInv
  <1> QED BY <1>1, <1>2, <1>3, <1>4, <1>5, <1>6, <1>7, <1>8, <1>9, Zenon DEF Next, ParseLog, Terminated

\* The file is the one the command line names from the start.
LEMMA InputParse == ASSUME TypeInv, Parse PROVE Input' = Input /\ faults' = faults
  <1>1. CASE UNCHANGED input BY <1>1, InputStays
  <1>2. CASE argv # <<>> /\ argv' = Tail(argv) /\ UNCHANGED <<fs, faults>>
             /\ \/ argv[1].opt # "in" /\ opts'.path = opts.path
                \/ argv[1].opt = "in" /\ opts'.path = "in"
    <2> DEFINE a == argv
               b == argv'
    <2>1. a \in Seq(Argument) /\ a # <<>> /\ b = Tail(a) BY <1>2 DEF TypeInv, TypeOK
    <2> DEFINE n == Len(a)
    <2> HIDE DEF a, b
    <2>2. n \in Nat /\ n >= 1 /\ DOMAIN a = 1 .. n /\ DOMAIN b = 1 .. n - 1 /\ \A j \in 1 .. n - 1 : b[j] = a[j + 1]
      BY <2>1
    <2> HIDE DEF n
    <2>3. (\E j \in DOMAIN a : a[j].opt = "in") <=> a[1].opt = "in" \/ \E j \in DOMAIN b : b[j].opt = "in"
      <3>1. (1 \in 1 .. n) /\ (\A j \in 1 .. n - 1 : j + 1 \in 1 .. n) /\ \A j \in 1 .. n : j = 1 \/ (j - 1 \in 1 .. n - 1 /\ (j - 1) + 1 = j)
        BY <2>2
      <3>2. ASSUME NEW j \in DOMAIN a, a[j].opt = "in", j # 1 PROVE \E i \in DOMAIN b : b[i].opt = "in"
        <4>1. j - 1 \in DOMAIN b /\ b[j - 1] = a[j] BY <2>2, <3>1, <3>2
        <4> QED BY <3>2, <4>1
      <3>3. ASSUME NEW j \in DOMAIN b, b[j].opt = "in" PROVE \E i \in DOMAIN a : a[i].opt = "in"
        <4>1. j + 1 \in DOMAIN a /\ b[j] = a[j + 1] BY <2>2, <3>1
        <4> QED BY <3>3, <4>1
      <3>4. 1 \in DOMAIN a BY <2>2, <3>1
      <3> QED BY <3>2, <3>3, <3>4, Zenon
    <2>4. InputPath = IF \E j \in DOMAIN a : a[j].opt = "in" THEN "in" ELSE opts.path
      BY DEF InputPath, a
    <2>5. InputPath' = IF \E j \in DOMAIN b : b[j].opt = "in" THEN "in" ELSE opts'.path
      BY DEF InputPath, b
    <2>6. InputPath' = InputPath
      <3>1. CASE a[1].opt = "in"
        <4>1. opts'.path = "in" BY <1>2, <3>1 DEF a
        <4> QED BY <2>3, <2>4, <2>5, <3>1, <4>1
      <3>2. CASE a[1].opt # "in"
        <4>1. opts'.path = opts.path BY <1>2, <3>2 DEF a
        <4> QED BY <2>3, <2>4, <2>5, <3>2, <4>1
      <3> QED BY <3>1, <3>2
    <2> QED BY <1>2, <2>6 DEF Input
  <1>3. ASSUME NEW o \in Options, Parsing, Parsed(o),
               (argv[1].opt # "in" /\ o.path = opts.path) \/ (argv[1].opt = "in" /\ o.path = "in")
        PROVE  Input' = Input /\ faults' = faults
    <2>1. /\ argv # <<>> /\ argv' = Tail(argv) /\ UNCHANGED <<fs, faults>> /\ opts' = o
      BY <1>3, Zenon DEF Parsing, Parsed
    <2> QED BY <1>2, <1>3, <2>1, Zenon
  <1>4. opts \in Options BY DEF TypeInv, TypeOK
  <1>5. Fail => UNCHANGED input BY DEF Fail
  <1>6. CASE ParseFlag
    <2>1. [opts EXCEPT !.flag[NextArg.opt] = TRUE] \in Options /\ [opts EXCEPT !.flag[NextArg.opt] = TRUE].path = opts.path
      BY <1>4, <1>6 DEF ParseFlag, Options
    <2>2. argv[1].opt # "in" BY <1>6 DEF ParseFlag, NextArg, FlagOption
    <2> DEFINE o == [opts EXCEPT !.flag[NextArg.opt] = TRUE]
    <2>3. Parsing /\ Parsed(o) BY <1>6, Zenon DEF ParseFlag
    <2>4. o \in Options /\ o.path = opts.path BY <2>1
    <2> HIDE DEF o
    <2> QED BY <1>3, <2>2, <2>3, <2>4
  <1>7. CASE ParseFormat
    <2> DEFINE v == (NextArg.val = "json")
    <2>1. v \in BOOLEAN OBVIOUS
    <2> HIDE DEF v
    <2>2. [opts EXCEPT !.flag["json"] = v] \in Options /\ [opts EXCEPT !.flag["json"] = v].path = opts.path
      BY <1>4, <2>1 DEF Options
    <2>3. argv[1].opt # "in" BY <1>7 DEF ParseFormat, NextArg
    <2> DEFINE o == [opts EXCEPT !.flag["json"] = v]
    <2>4. Parsing /\ Parsed(o) BY <1>7, Zenon DEF ParseFormat, v
    <2>5. o \in Options /\ o.path = opts.path BY <2>2
    <2> HIDE DEF o
    <2> QED BY <1>3, <2>3, <2>4, <2>5
  <1>8. CASE ParsePcrs
    <2> DEFINE u == opts.pcrs \o NextArg.val
    <2>1. CASE Parsed([opts EXCEPT !.pcrs = u])
      <3>1. NextArg \in Argument /\ NextArg.opt = "pcrs"
        BY <1>8 DEF ParsePcrs, Parsing, NextArg, TypeInv, TypeOK
      <3>2. NextArg.val \in Seq(Pcr) BY <3>1 DEF Argument, FlagOption
      <3>3. opts.pcrs \in Seq(Pcr) BY <1>4 DEF Options
      <3>4. u \in Seq(Pcr) BY <3>2, <3>3
      <3> HIDE DEF u
      <3>5. [opts EXCEPT !.pcrs = u] \in Options /\ [opts EXCEPT !.pcrs = u].path = opts.path
        BY <1>4, <3>4 DEF Options
      <3>6. argv[1].opt # "in" BY <3>1 DEF NextArg
      <3> DEFINE o == [opts EXCEPT !.pcrs = u]
      <3>7. Parsing /\ Parsed(o) BY <1>8, <2>1, Zenon DEF ParsePcrs, u
      <3>8. o \in Options /\ o.path = opts.path BY <3>5
      <3> HIDE DEF o
      <3> QED BY <1>3, <3>6, <3>7, <3>8
    <2> QED BY <1>1, <1>5, <1>8, <2>1 DEF ParsePcrs
  <1>9. CASE ParseIn
    <2>1. CASE Parsed([opts EXCEPT !.path = "in"])
      <3>1. [opts EXCEPT !.path = "in"] \in Options /\ [opts EXCEPT !.path = "in"].path = "in"
        BY <1>4 DEF Options, Path
      <3>2. argv[1].opt = "in" BY <1>9 DEF ParseIn, NextArg
      <3> DEFINE o == [opts EXCEPT !.path = "in"]
      <3>3. Parsing /\ Parsed(o) BY <1>9, <2>1, Zenon DEF ParseIn
      <3>4. o \in Options /\ o.path = "in" BY <3>1
      <3> HIDE DEF o
      <3> QED BY <1>3, <3>2, <3>3, <3>4
    <2> QED BY <1>1, <1>5, <1>9, <2>1 DEF ParseIn
  <1>10. CASE ParseInvalid \/ ParseEnd
    <2>1. UNCHANGED input BY <1>5, <1>10 DEF ParseInvalid, ParseEnd
    <2> QED BY <1>1, <2>1
  <1> QED BY <1>6, <1>7, <1>8, <1>9, <1>10 DEF Parse

LEMMA InputFixed == ASSUME TypeInv, [Next]_vars PROVE Input' = Input /\ faults' = faults
  <1>1. CASE Parse BY <1>1, InputParse
  <1>2. CASE ParseLog \/ Output \/ OutOfMemory \/ UNCHANGED vars
    <2>1. UNCHANGED input
      <3>1. CASE ParseLog BY <3>1, ParseLogStatus DEF Fail
      <3>2. CASE Output BY <3>2, OutputKeeps
      <3>3. CASE OutOfMemory BY <3>3 DEF OutOfMemory
      <3>4. CASE UNCHANGED vars BY <3>4 DEF vars, input
      <3> QED BY <1>2, <3>1, <3>2, <3>3, <3>4
    <2> QED BY <2>1, InputStays
  <1> QED BY <1>1, <1>2 DEF Next, Terminated

LEMMA TpmVarsAre == Tpm!tpmVars = <<Regs, ToCome>>
  BY DEF Tpm!tpmVars, Regs, ToCome

LEMMA MapsStay ==
  ASSUME Input' = Input, faults' = faults
  PROVE  (Maps' <=> Maps) /\ Es' = Es
  <1>1. Es' = Es BY DEF Es
  <1> QED BY <1>1, Zenon DEF Maps

\* A step that changes neither the registers nor the measurements to come.
LEMMA Stutters ==
  ASSUME Input' = Input, faults' = faults,
         Maps => Todo' = Todo /\ \A n \in Pcr : TpmRegister(n)' = TpmRegister(n)
  PROVE  UNCHANGED Tpm!tpmVars
  <1>1. Maps' <=> Maps BY MapsStay
  <1>2. ToCome' = ToCome BY <1>1, Zenon DEF ToCome
  <1>3. \A n \in Pcr : TpmRegister(n)' = TpmRegister(n)
    <2>1. CASE Maps BY <2>1
    <2>2. CASE ~Maps BY <1>1, <2>2, Zenon DEF TpmRegister
    <2> QED BY <2>1, <2>2
  <1>4. Regs' = Regs BY <1>3, Zenon DEF Regs
  <1> QED BY <1>2, <1>4, Zenon DEF Tpm!tpmVars, Regs, ToCome

LEMMA SameRegisters ==
  ASSUME Input' = Input, faults' = faults, calc' = calc
  PROVE  \A n \in Pcr : TpmRegister(n)' = TpmRegister(n)
  <1>1. Maps' <=> Maps BY MapsStay
  <1>2. Start(Input.events)' = Start(Input.events) BY Zenon DEF Start, StartLocality
  <1>3. Extended(calc[0])' <=> Extended(calc[0]) BY Zenon DEF Extended
  <1> QED BY <1>1, <1>2, <1>3, Zenon DEF TpmRegister

LEMMA SameTodo ==
  ASSUME Input' = Input, k' = k, d' = d, pc \notin OutputLabel, ret # 0, pc' \notin OutputLabel, ret' # 0
  PROVE  Todo' = Todo
  <1>1. Todo = Remaining /\ Todo' = Remaining' BY Zenon DEF Todo, Remaining, Es
  <1>2. Es' = Es BY DEF Es
  <1>3. Remaining' = Remaining BY <1>2, Zenon DEF Remaining
  <1> QED BY <1>1, <1>3, Zenon

\* The steps before the events and those that give up.
LEMMA TpmFail ==
  ASSUME Fail, pc \notin OutputLabel, ret = 1
  PROVE  UNCHANGED Tpm!tpmVars
  <1>1. Input' = Input /\ faults' = faults /\ calc' = calc /\ k' = k /\ d' = d /\ pc' = "exited" /\ ret' = -1
    BY InputStays DEF Fail, replay
  <1>2. pc' \notin OutputLabel /\ ret # 0 /\ ret' # 0
    <2>1. ret # 0 /\ ret' # 0 BY <1>1
    <2>2. pc' = "exited" BY <1>1, Zenon
    <2>3. pc' \notin OutputLabel BY <2>2 DEF OutputLabel
    <2> QED BY <2>1, <2>3
  <1>3. Todo' = Todo BY <1>1, <1>2, SameTodo, Zenon
  <1>4. \A n \in Pcr : TpmRegister(n)' = TpmRegister(n) BY <1>1, SameRegisters, Zenon
  <1> QED BY <1>1, <1>3, <1>4, Stutters, Zenon

\* Before the first event the TPM is as it was at the start.
LEMMA TpmBefore ==
  ASSUME TypeInv, StageInv, [Next]_vars, pc \in {"parse", "read", "head"}, Parse \/ ReadLog \/ ReadHead, ~Fail
  PROVE  UNCHANGED Tpm!tpmVars
  <1>1. Input' = Input /\ faults' = faults BY InputFixed
  <1>2. k = 1 /\ d = 1 /\ ret = 1 BY DEF StageInv, Untouched
  <1>3. calc' = calc /\ k' = 1 /\ d' = 1 /\ ret' = ret /\ pc' \in {"parse", "read", "head", "event", "legacy"}
    <2>1. CASE Parse
      <3>1. pc = "parse" BY <2>1, ParsingPlace
      <3>2. calc' = calc /\ ret' = ret
        BY <2>1, Zenon DEF Parse, ParseFlag, ParseFormat, ParsePcrs, ParseIn, ParseInvalid, ParseEnd, Parsed, replay
      <3>3. k' = 1 /\ d' = 1
        BY <1>2, <2>1, Zenon DEF Parse, ParseFlag, ParseFormat, ParsePcrs, ParseIn, ParseInvalid, ParseEnd, Parsed, Goto
      <3>4. pc' \in {"parse", "read"}
        BY <2>1, <3>1 DEF Parse, ParseFlag, ParseFormat, ParsePcrs, ParseIn, ParseInvalid, ParseEnd, Parsing, Parsed, Goto
      <3> QED BY <3>2, <3>3, <3>4
    <2>2. CASE ReadLog
      <3>1. calc' = calc /\ k' = 1 /\ d' = 1 /\ ret' = ret /\ pc' = "head"
        BY <2>2, Zenon DEF ReadLog, Goto, replay
      <3> QED BY <3>1
    <2>3. CASE ReadHead
      <3>1. calc' = calc /\ k' = 1 /\ d' = 1 /\ ret' = ret /\ (pc' = "event" \/ pc' = "legacy")
        BY <2>3, Zenon DEF ReadHead, SpecidCallback, Goto, replay
      <3> QED BY <3>1
    <2> QED BY <2>1, <2>2, <2>3
  <1>4. pc \notin OutputLabel /\ pc' \notin OutputLabel /\ ret # 0 /\ ret' # 0
    <2>1. pc \notin OutputLabel BY DEF OutputLabel
    <2>2. pc' \notin OutputLabel BY <1>3 DEF OutputLabel
    <2> QED BY <1>2, <1>3, <2>1, <2>2
  <1>5. Todo' = Todo BY <1>1, <1>2, <1>3, <1>4, SameTodo, Zenon
  <1>6. \A n \in Pcr : TpmRegister(n)' = TpmRegister(n) BY <1>1, <1>3, SameRegisters, Zenon
  <1> QED BY <1>1, <1>5, <1>6, Stutters, Zenon

\* While the events of a replayed log are parsed its registers are exact.
LEMMA MapsExact ==
  ASSUME BufferInv, Maps
  PROVE  /\ ~ReadFails /\ ~MemoryFails /\ Replayable(Es)
         /\ pc \in {"event", "digest"} => Exact
         /\ pc \in {"event", "legacy"} => Len(buf.events) = Len(Es)
  <1>1. ~ReadFails /\ ~MemoryFails /\ Replayable(Es) BY DEF Maps, ReadFails, MemoryFails, Es
  <1>2. pc \in {"event", "digest"} => buf.head = "specid" BY DEF BufferInv
  <1>3. pc \in {"event", "digest", "legacy"} => pc \notin {"parse", "read", "exited", "crashed"}
    OBVIOUS
  <1>4. pc \in {"event", "digest", "legacy"} => buf.head = Input.head /\ Len(buf.events) = Len(Es)
    BY <1>1, <1>3, Zenon DEF BufferInv, Stopped, Es
  <1>5. pc \in {"event", "digest"} => Input.head = "specid"
    <2>1. pc \in {"event", "digest"} => pc \in {"event", "digest", "legacy"} OBVIOUS
    <2> QED BY <1>2, <1>4, <2>1
  <1>6. pc \in {"event", "legacy"} => pc \in {"event", "digest", "legacy"} OBVIOUS
  <1> QED BY <1>1, <1>4, <1>5, <1>6, Zenon DEF Exact

\* The header of an event leaves the TPM as it is, also when it writes the
\* locality to PCR 0: the TPM has had it from the start.
LEMMA TpmHeader ==
  ASSUME TypeInv, StageInv, BufferInv, ProgressInv, RegisterInv, PlaceInv, [Next]_vars, ParseHeader, ~Fail
  PROVE  UNCHANGED Tpm!tpmVars
  <1>1. Input' = Input /\ faults' = faults BY InputFixed
  <1> DEFINE e == Es[k]
             f == Found(e, hcrtm)
  <1>2. /\ k \in 1 .. Len(Es) /\ e \in Event /\ Es \in Seq(Event) /\ Len(Es) \in Nat /\ k \in Nat \ {0}
        /\ pc = "event" /\ pc' = "digest" /\ d' = 1 /\ k' = k /\ ret' = ret
        /\ calc' = IF f # 0 THEN [calc EXCEPT ![0] = SetLocality(@, f)] ELSE calc
    BY HeaderStep, Zenon
  <1>3. d = 1 /\ ret = 1 BY <1>2 DEF PlaceInv, StageInv
  <1>4. pc \notin OutputLabel /\ pc' \notin OutputLabel /\ ret # 0 /\ ret' # 0
    BY <1>2, <1>3 DEF OutputLabel
  <1>5. Todo' = Todo BY <1>1, <1>2, <1>3, <1>4, SameTodo, Zenon
  <1> HIDE DEF e, f
  <1>6. ASSUME Maps PROVE \A n \in Pcr : TpmRegister(n)' = TpmRegister(n)
    <2>1. CASE f = 0 BY <1>1, <1>2, <2>1, SameRegisters, Zenon
    <2>2. CASE f # 0
      <3>1. Exact /\ Replayable(Es) BY <1>2, <1>6, MapsExact
      <3>2. k \in DOMAIN Es BY <1>2, SeqIsFunction, Zenon
      <3>3. Headers = k - 1 /\ hcrtm = (\E j \in 1 .. k - 1 : Hcrtm(Es[j]))
        <4>1. Headers = k - 1 BY <1>2 DEF Headers
        <4> QED BY <1>2, <4>1 DEF ProgressInv
      <3>4. \A l \in 1 .. k - 1 : Hcrtm(Es[l]) => hcrtm BY <3>3, Zenon
      <3>5. SetsLocality(Es, k)
        <4>1. Hcrtm(e) \/ (~hcrtm /\ StartupLocality(e)) BY <2>2, Zenon DEF f, Found
        <4> QED BY <3>4, <4>1, Zenon DEF SetsLocality, e
      <3>6. QuietZero(k - 1)
        BY <3>1, <3>2, <3>5, Zenon DEF Replayable, LocalityBeforeExtend, QuietZero
      <3>7. calc[0] = Start(SubSeq(Es, 1, k - 1))
        <4>1. pc \in {"event", "digest"} BY <1>2
        <4> QED BY <3>1, <3>3, <3>6, <4>1, Zenon DEF RegisterInv
      <3>8. calc'[0] = Start(SubSeq(Es, 1, k))
        <4>1. Start(SubSeq(Es, 1, k)) = SetLocality(Start(SubSeq(Es, 1, k - 1)), f)
          <5>1. hcrtm \in BOOLEAN BY DEF TypeInv, TypeOK
          <5>2. hcrtm <=> \E l \in 1 .. k - 1 : Hcrtm(Es[l]) BY <3>3
          <5>3. f = Found(Es[k], hcrtm) BY DEF f, e
          <5> DEFINE es == Es
          <5>4. es \in Seq(Event) /\ k \in 1 .. Len(es) /\ (hcrtm <=> \E l \in 1 .. k - 1 : Hcrtm(es[l]))
            BY <1>2, <5>2
          <5> HIDE DEF es
          <5>5. Start(SubSeq(es, 1, k)) = IF Found(es[k], hcrtm) # 0
                                          THEN SetLocality(Start(SubSeq(es, 1, k - 1)), Found(es[k], hcrtm))
                                          ELSE Start(SubSeq(es, 1, k - 1))
            BY <5>1, <5>4, StartNext
          <5> QED BY <2>2, <5>3, <5>5, Zenon DEF es
        <4>2. calc'[0] = SetLocality(calc[0], f)
          <5>1. calc \in [Pcr -> Seq(Change)] /\ 0 \in Pcr BY PcrIs DEF TypeInv, TypeOK
          <5> QED BY <1>2, <2>2, <5>1
        <4> QED BY <3>7, <4>1, <4>2
      <3>9. ~Extended(calc[0]) /\ ~Extended(calc[0])'
        <4>1. SubSeq(Es, 1, k) \in Seq(Event) /\ SubSeq(Es, 1, k - 1) \in Seq(Event)
          <5>1. k \in 0 .. Len(Es) /\ k - 1 \in 0 .. Len(Es) BY <1>2
          <5> QED BY <1>2, <5>1, BeforeType
        <4>2. ~Extended(calc[0]) /\ ~Extended(calc'[0])
          BY <3>7, <3>8, <4>1, StartNotExtended, Zenon
        <4> QED BY <4>2, Zenon DEF Extended
      <3>10. \A n \in Pcr : n # 0 => calc'[n] = calc[n]
        <4>1. calc \in [Pcr -> Seq(Change)] BY DEF TypeInv, TypeOK
        <4> QED BY <1>2, <2>2, <4>1
      <3>11. Start(Input.events)' = Start(Input.events)
        BY <1>1, Zenon DEF Start, StartLocality
      <3>12. Maps' BY <1>1, <1>6, MapsStay
      <3> QED BY <1>6, <3>9, <3>10, <3>11, <3>12, Zenon DEF TpmRegister
    <2> QED BY <2>1, <2>2
  <1> QED BY <1>1, <1>5, <1>6, Stutters, Zenon

LEMMA MeasureIs ==
  ASSUME NEW n \in Pcr, NEW x, NEW ms, NEW T, <<n, x>> \in T, ms \in Seq(T), ToCome = <<<<n, x>>>> \o ms,
         ToCome' = ms, Regs' = [Regs EXCEPT ![n] = Append(@, <<"extend", x>>)]
  PROVE  Tpm!Measure
  <1> DEFINE m == <<n, x>>
  <1>1. m[1] = n /\ m[2] = x /\ m \in T OBVIOUS
  <1> HIDE DEF m
  <1> DEFINE all == <<m>> \o ms
  <1>2. all # <<>> /\ Head(all) = m /\ Tail(all) = ms BY <1>1
  <1>3. ToCome = all BY DEF m
  <1> HIDE DEF all
  <1>4. /\ ToCome # <<>> /\ Head(ToCome)[1] \in Pcr
        /\ Regs' = [Regs EXCEPT ![Head(ToCome)[1]] = Append(@, <<"extend", Head(ToCome)[2]>>)]
        /\ ToCome' = Tail(ToCome) BY <1>1, <1>2, <1>3
  <1> QED BY <1>4, Zenon DEF Tpm!Measure, Regs, ToCome

\* What is left to be measured at a digest.
LEMMA RemainingAt ==
  ASSUME Es \in Seq(Event), k \in 1 .. Len(Es), Len(Es) \in Nat, Es[k] \in Event, d \in 1 .. Len(Es[k].digests) + 1
  PROVE  /\ Remaining = Rest(Es[k], d) \o Measurements(SubSeq(Es, k + 1, Len(Es)))
         /\ Measurements(SubSeq(Es, k + 1, Len(Es))) \in Seq(Measurement) /\ Rest(Es[k], d) \in Seq(Measurement)
         /\ SubSeq(Es, k + 1, Len(Es)) \in Seq(Event)
  <1> DEFINE es == Es
             u == SubSeq(es, k + 1, Len(es))
  <1>1. u \in Seq(Event)
    <2>1. es \in Seq(Event) /\ k \in 1 .. Len(es) OBVIOUS
    <2> HIDE DEF es
    <2> QED BY <2>1, SuffixNext
  <1>2. ~(k > Len(Es)) OBVIOUS
  <1>3. Measurements(u) \in Seq(Measurement)
    <2> HIDE DEF u
    <2> QED BY <1>1, MeasurementsAppend
  <1>4. MeasurementsFrom(Es[k], d) = Rest(Es[k], d) /\ Rest(Es[k], d) \in Seq(Measurement)
    BY MeasurementsFromRest
  <1> QED BY <1>1, <1>2, <1>3, <1>4, Zenon DEF Remaining

\* A digest that is extended is the next measurement; one that is not (the
\* first callback of an event, another bank) leaves the TPM as it is.
LEMMA TpmDigest ==
  ASSUME TypeInv, StageInv, BufferInv, ProgressInv, RegisterInv, [Next]_vars, ParseDigest, ~Fail
  PROVE  Tpm!Measure \/ UNCHANGED Tpm!tpmVars
  <1>1. Input' = Input /\ faults' = faults /\ Es' = Es /\ (Maps' <=> Maps)
    BY InputFixed, MapsStay
  <1> DEFINE e == Es[k]
             x == e.digests[d]
             n == e.pcr
             ch == <<"extend", x>>
             M == Measurements(SubSeq(Es, k + 1, Len(Es)))
  <1>2. /\ k \in 1 .. Len(Es) /\ e \in Event /\ Es \in Seq(Event) /\ Len(Es) \in Nat /\ k \in Nat \ {0}
        /\ pc = "digest" /\ d \in 1 .. Len(e.digests) /\ d' = d + 1 /\ x \in Digest
        /\ pc' = pc /\ k' = k /\ ret' = ret
        /\ \/ /\ pending /\ pending' = FALSE /\ calc' = calc
           \/ /\ ~pending /\ n \in Pcr
              /\ calc' = IF x[1] = "sha256" THEN [calc EXCEPT ![n] = Append(@, ch)] ELSE calc
    BY DigestStep, Zenon
  <1>3. ret = 1 /\ pc \notin OutputLabel BY <1>2 DEF StageInv, OutputLabel
  <1>4. Todo = Remaining /\ Todo' = Remaining'
    <2>1. ret # 0 /\ ret' # 0 BY <1>2, <1>3
    <2>2. pc' \notin OutputLabel BY <1>2, <1>3, Zenon
    <2> QED BY <1>3, <2>1, <2>2, Zenon DEF Todo, Remaining, Es
  <1>5. Len(e.digests) \in Nat /\ d \in 1 .. Len(e.digests) + 1 /\ d + 1 \in 1 .. Len(e.digests) + 1
    <2>1. Len(e.digests) \in Nat BY <1>2, EventIs
    <2> DEFINE h == Len(e.digests)
    <2>2. h \in Nat /\ d \in 1 .. h BY <1>2, <2>1
    <2> HIDE DEF h
    <2>3. d \in 1 .. h + 1 /\ d + 1 \in 1 .. h + 1 BY <2>2
    <2> QED BY <2>2, <2>3 DEF h
  <1>6. Remaining = Rest(e, d) \o M /\ M \in Seq(Measurement)
    BY <1>2, <1>5, RemainingAt, Zenon
  <1>7. Remaining' = Rest(e, d + 1) \o M
    <2>1. MeasurementsFrom(e, d + 1) = Rest(e, d + 1)
      BY <1>2, <1>5, MeasurementsFromRest, Zenon
    <2>2. ~(k > Len(Es))
      <3> DEFINE h == Len(Es)
      <3>1. h \in Nat /\ k \in 1 .. h BY <1>2
      <3> HIDE DEF h
      <3>2. ~(k > h) BY <3>1
      <3> QED BY <3>2 DEF h
    <2> QED BY <1>1, <1>2, <2>1, <2>2, Zenon DEF Remaining
  <1>8. Rest(e, d + 1) \in Seq(Measurement) BY <1>2, <1>5, MeasurementsFromRest, Zenon
  <1> HIDE DEF e, M
  <1> SUFFICES ASSUME Maps PROVE Tpm!Measure \/ UNCHANGED Tpm!tpmVars
    BY <1>1, Stutters, Zenon
  <1>9. ASSUME calc' = calc, Rest(e, d) = Rest(e, d + 1)
        PROVE  UNCHANGED Tpm!tpmVars
    <2>1. Todo' = Todo BY <1>4, <1>6, <1>7, <1>9
    <2> QED BY <1>1, <1>9, <2>1, SameRegisters, Stutters, Zenon
  <1>10. Exact /\ Replayable(Es)
    <2>1. pc \in {"event", "digest"} BY <1>2
    <2> QED BY <2>1, MapsExact
  <1>11. /\ pending <=> (e.type = "no action" /\ d = 1)
         /\ \A r \in Pcr : calc[r] = Partial(r, k, Before(k - 1) \o Taken(e, d - 1))
    BY <1>2, <1>10, Zenon DEF RegisterInv, e
  <1>12. CASE e.type = "no action"
    <2>1. k \in DOMAIN Es BY <1>2, SeqIsFunction, Zenon
    <2>2. Len(e.digests) = 1 BY <1>10, <1>12, <2>1, Zenon DEF Replayable, NoActionsSingle, e
    <2>3. d = 1
      <3>1. d \in 1 .. 1 BY <1>2, <2>2
      <3> QED BY <3>1
    <2>4. calc' = calc BY <1>2, <1>11, <1>12, <2>3, Zenon
    <2>5. Rest(e, d) = Rest(e, d + 1) BY <1>2, <1>12, RestNext
    <2> QED BY <1>9, <2>4, <2>5
  <1>13. CASE e.type # "no action"
    <2>1. n \in Pcr /\ calc' = IF x[1] = "sha256" THEN [calc EXCEPT ![n] = Append(@, ch)] ELSE calc
      BY <1>2, <1>11, <1>13, Zenon
    <2>2. Rest(e, d) = (IF x[1] = "sha256" THEN <<<<n, x>>>> ELSE <<>>) \o Rest(e, d + 1)
      BY <1>2, <1>13, RestNext
    <2>3. CASE x[1] # "sha256"
      <3>1. Rest(e, d) = Rest(e, d + 1)
        <4> DEFINE r == Rest(e, d + 1)
        <4> HIDE DEF r
        <4>1. r \in Seq(Measurement) /\ Rest(e, d) = <<>> \o r BY <1>8, <2>2, <2>3 DEF r
        <4>2. <<>> \o r = r BY <4>1, ConcatEmpty
        <4> QED BY <4>1, <4>2 DEF r
      <3> QED BY <1>9, <2>1, <2>3, <3>1
    <2>4. CASE x[1] = "sha256"
      <3> DEFINE r == Rest(e, d + 1)
                 m == <<n, x>>
      <3>1. m \in Measurement /\ n \in Nat BY <1>2, <2>1, PcrIs DEF Measurement
      <3>2. ToCome = <<m>> \o (r \o M) /\ ToCome' = r \o M /\ r \o M \in Seq(Measurement)
        <4>1. Rest(e, d) = <<m>> \o r BY <2>2, <2>4
        <4> HIDE DEF r, m
        <4>2. r \in Seq(Measurement) /\ <<m>> \in Seq(Measurement) /\ M \in Seq(Measurement)
          BY <1>6, <1>8, <3>1, SeqOfOne DEF r
        <4>3. (<<m>> \o r) \o M = <<m>> \o (r \o M)
          <5>1. \A a, b, c \in Seq(Measurement) : (a \o b) \o c = a \o (b \o c)
            BY ConcatThree
          <5> QED BY <4>2, <5>1, Zenon
        <4>4. r \o M \in Seq(Measurement) BY <4>2, ConcatElements, Zenon
        <4>5. ToCome = Todo /\ ToCome' = Todo' BY <1>1, Zenon DEF ToCome
        <4>6. Todo' = r \o M BY <1>4, <1>7, Zenon DEF r
        <4> QED BY <1>4, <1>6, <4>1, <4>3, <4>4, <4>5, <4>6
      <3>3. calc \in [Pcr -> Seq(Change)] /\ 0 \in Pcr BY PcrIs DEF TypeInv, TypeOK
      <3>4. calc' = [calc EXCEPT ![n] = Append(@, ch)] BY <2>1, <2>4
      <3>5. Start(Input.events)' = Start(Input.events)
        BY <1>1, Zenon DEF Start, StartLocality
      <3>6. \A v \in Seq(Change) : Extended(Append(v, ch)) BY <1>2, AppendExtends
      <3>7. n = 0 /\ ~Extended(calc[0]) => calc[0] = Start(Es)
        <4> SUFFICES ASSUME n = 0, ~Extended(calc[0]) PROVE calc[0] = Start(Es) OBVIOUS
        <4> DEFINE a == Start(SubSeq(Es, 1, k))
                   D == Before(k - 1) \o Taken(e, d - 1)
        <4>1. k \in 0 .. Len(Es) /\ k - 1 \in 0 .. Len(Es) /\ d - 1 \in 0 .. Len(e.digests)
          <5>1. d - 1 \in 0 .. Len(e.digests)
            <6> DEFINE h == Len(e.digests)
            <6>1. h \in Nat /\ d \in 1 .. h BY <1>2, <1>5
            <6> HIDE DEF h
            <6>2. d - 1 \in 0 .. h BY <6>1
            <6> QED BY <6>2 DEF h
          <5> DEFINE g == Len(Es)
          <5>2. g \in Nat /\ k \in 1 .. g BY <1>2
          <5> HIDE DEF g
          <5>3. k \in 0 .. g /\ k - 1 \in 0 .. g BY <5>2
          <5> QED BY <5>1, <5>3 DEF g
        <4>2. Before(k - 1) \in Seq(Measurement) /\ Taken(e, d - 1) \in Seq(Measurement)
          BY <1>2, <4>1, BeforeType, TakenType
        <4>3. D \in Seq(Measurement) BY <4>2, ConcatElements, Zenon
        <4>4. SubSeq(Es, 1, k) \in Seq(Event) BY <1>2, <4>1, BeforeType
        <4>5. a \in Seq(Change) BY <4>4, StartIs
        <4>6. calc[0] = a \o Extends(D, 0) BY <1>11, <3>3, Zenon DEF Partial
        <4> HIDE DEF a, D
        <4>7. a \o Extends(D, 0) = a BY <4>3, <4>5, <4>6, ExtensionsExtend
        <4>8. a = Start(Es)
          <5> DEFINE es == Es
          <5>1. /\ es \in Seq(Event) /\ k \in 1 .. Len(es) /\ LocalityBeforeExtend(es)
                /\ es[k].pcr = 0 /\ es[k].type # "no action"
            BY <1>2, <1>10, <1>13, Zenon DEF Replayable, e
          <5> HIDE DEF es
          <5>2. Start(SubSeq(es, 1, k)) = Start(es) BY <5>1, StartFinal
          <5> QED BY <5>2 DEF a, es
        <4> QED BY <4>6, <4>7, <4>8
      <3> DEFINE R == Append(Regs[n], ch)
      <3>8. \A i \in Pcr : TpmRegister(i)' = IF i = n THEN Append(TpmRegister(n), ch) ELSE TpmRegister(i)
        <4> SUFFICES ASSUME NEW i \in Pcr
                     PROVE  TpmRegister(i)' = IF i = n THEN Append(TpmRegister(n), ch) ELSE TpmRegister(i)
          OBVIOUS
        <4> HIDE DEF ch, n, x
        <4>1. calc'[i] = IF i = n THEN Append(calc[n], ch) ELSE calc[i] BY <2>1, <3>3, <3>4
        <4>2. calc'[0] = IF n = 0 THEN Append(calc[0], ch) ELSE calc[0] BY <2>1, <3>3, <3>4
        <4>3. Extended(calc[0])' <=> Extended(calc'[0]) BY Zenon DEF Extended
        <4>4. n = 0 => Extended(calc'[0]) BY <3>3, <3>6, <4>2
        <4>5. TpmRegister(i)' = IF i = 0 /\ ~Extended(calc'[0]) THEN Start(Es) ELSE calc'[i]
          BY <1>1, <3>5, <4>3, Zenon DEF TpmRegister, Es
        <4>6. /\ TpmRegister(i) = IF i = 0 /\ ~Extended(calc[0]) THEN Start(Es) ELSE calc[i]
              /\ TpmRegister(n) = IF n = 0 /\ ~Extended(calc[0]) THEN Start(Es) ELSE calc[n]
          BY Zenon DEF TpmRegister, Es
        <4>7. CASE i = n /\ n = 0
          <5>1. TpmRegister(i)' = Append(calc[0], ch) BY <4>1, <4>4, <4>5, <4>7
          <5>2. TpmRegister(n) = calc[0] BY <3>7, <4>6, <4>7
          <5> QED BY <4>7, <5>1, <5>2
        <4>8. CASE i = n /\ n # 0 BY <4>1, <4>5, <4>6, <4>8
        <4>9. CASE i # n /\ n = 0 BY <4>1, <4>5, <4>6, <4>9
        <4>10. CASE i # n /\ n # 0 BY <4>1, <4>2, <4>5, <4>6, <4>10
        <4> QED BY <4>7, <4>8, <4>9, <4>10
      <3>9. Regs' = [Regs EXCEPT ![n] = Append(@, ch)]
        <4> HIDE DEF ch, n, x
        <4>1. Regs' = [i \in Pcr |-> TpmRegister(i)'] BY Zenon DEF Regs
        <4>2. Regs = [i \in Pcr |-> TpmRegister(i)] BY DEF Regs
        <4>3. [Regs EXCEPT ![n] = Append(@, ch)] = [i \in Pcr |-> IF i = n THEN Append(TpmRegister(n), ch) ELSE TpmRegister(i)]
          BY <2>1, <4>2
        <4> QED BY <3>8, <4>1, <4>3, Zenon
      <3>10. n \in Pcr /\ n \in Nat /\ <<n, x>> \in Measurement BY <2>1, <3>1
      <3> HIDE DEF r, M, n, x
      <3> QED BY <3>2, <3>9, <3>10, MeasureIs
    <2> QED BY <2>3, <2>4
  <1> QED BY <1>12, <1>13

\* Behind the last digest of an event nothing of it is left to be measured: the
\* parser comes to the next event, and what is to come stays as it is.
LEMMA TpmBody ==
  ASSUME TypeInv, StageInv, BufferInv, ProgressInv, [Next]_vars, ParseBody, ~Fail
  PROVE  UNCHANGED Tpm!tpmVars
  <1>1. Input' = Input /\ faults' = faults /\ Es' = Es BY InputFixed, MapsStay
  <1> DEFINE e == Es[k]
             g == Len(Es)
             M == Measurements(SubSeq(Es, k + 1, g))
  <1>2. /\ k \in 1 .. g /\ e \in Event /\ Es \in Seq(Event) /\ g \in Nat /\ k \in Nat \ {0}
        /\ pc = "digest" /\ d = Len(e.digests) + 1 /\ d' = 1 /\ k' = k + 1 /\ pc' = "event"
        /\ calc' = calc /\ ret' = ret BY BodyStep, Zenon DEF replay
  <1>3. ret = 1 /\ pc \notin OutputLabel /\ pc' \notin OutputLabel
    BY <1>2 DEF StageInv, OutputLabel
  <1>4. Todo = Remaining /\ Todo' = Remaining'
    <2>1. ret # 0 /\ ret' # 0 BY <1>2, <1>3
    <2> QED BY <1>3, <2>1, Zenon DEF Todo, Remaining, Es
  <1>5. Remaining = M
    <2>1. Len(e.digests) \in Nat BY <1>2, EventIs
    <2>2. d \in 1 .. Len(e.digests) + 1
      <3> DEFINE h == Len(e.digests)
      <3>1. h \in Nat /\ d = h + 1 BY <1>2, <2>1
      <3> HIDE DEF h
      <3>2. d \in 1 .. h + 1 BY <3>1
      <3> QED BY <3>2 DEF h
    <2>3. Remaining = Rest(e, d) \o M /\ M \in Seq(Measurement)
      BY <1>2, <2>2, RemainingAt, Zenon
    <2>4. Rest(e, d) = <<>> BY <1>2, RestNext
    <2> HIDE DEF M
    <2>5. <<>> \o M = M BY <2>3, ConcatEmpty
    <2> QED BY <2>3, <2>4, <2>5
  <1>6. Remaining' = M
    <2>1. Remaining' = IF k + 1 > g THEN <<>> ELSE MeasurementsFrom(Es[k + 1], 1) \o Measurements(SubSeq(Es, (k + 1) + 1, g))
      BY <1>1, <1>2, Zenon DEF Remaining
    <2> DEFINE es == Es
    <2>2. es \in Seq(Event) /\ k \in 1 .. Len(es) /\ g = Len(es) BY <1>2
    <2> HIDE DEF g, es
    <2>3. CASE k + 1 > g
      <3>1. SubSeq(es, k + 1, g) = <<>> BY <1>2, <2>2, <2>3
      <3>2. Measurements(<<>>) = <<>> BY DEF Measurements, FlattenSeq
      <3> QED BY <2>1, <2>3, <3>1, <3>2 DEF es
    <2>4. CASE ~(k + 1 > g)
      <3> DEFINE u == SubSeq(es, k + 1, g)
                 i == k + 1
      <3>1. i \in 1 .. Len(es) BY <1>2, <2>2, <2>4
      <3> HIDE DEF i
      <3>2. /\ SubSeq(es, i, Len(es)) \in Seq(Event) /\ SubSeq(es, i, Len(es)) # <<>> /\ SubSeq(es, i, Len(es))[1] = es[i]
            /\ SubSeq(SubSeq(es, i, Len(es)), 2, Len(SubSeq(es, i, Len(es)))) = SubSeq(es, i + 1, Len(es))
        BY <2>2, <3>1, SuffixNext
      <3>3. u \in Seq(Event) /\ u # <<>> /\ u[1] = es[i] /\ SubSeq(u, 2, Len(u)) = SubSeq(es, i + 1, g)
        BY <2>2, <3>2 DEF i
      <3> HIDE DEF u
      <3>4. Measurements(u) = MeasurementsFrom(u[1], 1) \o Measurements(SubSeq(u, 2, Len(u)))
        BY <3>3, MeasurementsFirst
      <3> QED BY <2>1, <2>4, <3>3, <3>4 DEF u, i, es
    <2> QED BY <2>3, <2>4
  <1>7. Todo' = Todo BY <1>4, <1>5, <1>6
  <1> QED BY <1>1, <1>2, <1>7, SameRegisters, Stutters, Zenon

\* The events of a file of the SHA-1 format.
LEMMA LegacyDigests ==
  ASSUME TypeInv, StageInv, Input.head = "sha1"
  PROVE  \A j \in DOMAIN Es : \E v \in Value : Es[j].digests = <<<<"sha1", v>>>>
  <1>1. PICK s \in Scenarios : fs = s.fs BY DEF StageInv
  <1>2. Input = fs[InputPath] /\ fs[InputPath] # Absent BY DEF Input, EmptyLog
  <1>3. InputPath \in Path BY OptionsType DEF InputPath, Path, TypeInv, TypeOK, OptionsAre
  <1>4. \A p \in Path : s.fs[p] # Absent /\ s.fs[p].head = "sha1" =>
          \A i \in DOMAIN s.fs[p].events : \E v \in Value : s.fs[p].events[i].digests = <<<<"sha1", v>>>>
    BY InputAssumption
  <1> QED BY <1>1, <1>2, <1>3, <1>4, Zenon DEF Es

LEMMA SuffixIs ==
  ASSUME NEW T, NEW s \in Seq(T), NEW i \in 1 .. Len(s)
  PROVE  LET u == SubSeq(s, i + 1, Len(s))
         IN  u \in Seq(T) /\ Len(u) = Len(s) - i /\ \A j \in 1 .. Len(s) - i : u[j] = s[i + j]
  OBVIOUS

\* An event of the SHA-1 format extends no register, and measures none.
LEMMA TpmLegacy ==
  ASSUME TypeInv, StageInv, BufferInv, PlaceInv, [Next]_vars, ParseLegacyEvent, ~Fail
  PROVE  UNCHANGED Tpm!tpmVars
  <1>1. Input' = Input /\ faults' = faults /\ Es' = Es BY InputFixed, MapsStay
  <1>2. pc = "legacy" /\ pc' = pc /\ k' = k + 1 /\ d' = d /\ calc' = calc /\ ret' = ret /\ k <= Len(buf.events)
    BY Zenon DEF ParseLegacyEvent, replay
  <1>3. ret = 1 /\ pc \notin OutputLabel /\ pc' \notin OutputLabel /\ d = 1
    BY <1>2 DEF StageInv, OutputLabel, PlaceInv
  <1>4. Todo = Remaining /\ Todo' = Remaining'
    <2>1. ret # 0 /\ ret' # 0 BY <1>2, <1>3
    <2> QED BY <1>3, <2>1, Zenon DEF Todo, Remaining, Es
  <1>5. Input.head = "sha1" BY <1>2 DEF BufferInv, Stopped
  <1>6. \A j \in DOMAIN Es : \E v \in Value : Es[j].digests = <<<<"sha1", v>>>>
    BY <1>5, LegacyDigests
  <1>7. Es \in Seq(Event) /\ Len(Es) \in Nat /\ k \in Nat \ {0}
    BY LogInput DEF Es, TypeInv, TypeOK
  <1> DEFINE es == Es
  <1>8. \A i \in Nat \ {0} : (IF i > Len(es) THEN <<>> ELSE MeasurementsFrom(es[i], 1) \o Measurements(SubSeq(es, i + 1, Len(es)))) = <<>>
    <2> SUFFICES ASSUME NEW i \in Nat \ {0}, ~(i > Len(es))
                 PROVE  MeasurementsFrom(es[i], 1) \o Measurements(SubSeq(es, i + 1, Len(es))) = <<>>
      OBVIOUS
    <2> DEFINE u == SubSeq(es, i + 1, Len(es))
               n == Len(es)
    <2>1. es \in Seq(Event) /\ n \in Nat /\ \A j \in DOMAIN es : \E v \in Value : es[j].digests = <<<<"sha1", v>>>>
      BY <1>6, <1>7
    <2> HIDE DEF es
    <2>2. i \in 1 .. n /\ i \in 1 .. Len(es) /\ DOMAIN es = 1 .. n
      <3>1. DOMAIN es = 1 .. n BY <2>1, SeqIsFunction, Zenon
      <3> HIDE DEF n
      <3>2. i \in 1 .. n BY <2>1 DEF n
      <3> QED BY <3>1, <3>2 DEF n
    <2>3. MeasurementsFrom(es[i], 1) = <<>>
      <3>1. i \in DOMAIN es BY <2>2, Zenon
      <3> QED BY <2>1, <3>1, LegacyMeasuresNothing
    <2>4. u \in Seq(Event) /\ DOMAIN u = 1 .. n - i /\ \A j \in 1 .. n - i : u[j] = es[i + j] /\ i + j \in 1 .. n
      <3>1. u \in Seq(Event) /\ Len(u) = n - i /\ \A j \in 1 .. n - i : u[j] = es[i + j] /\ i + j \in 1 .. n
        <4> HIDE DEF n
        <4>1. n = Len(es) BY DEF n
        <4>2. (n - (i + 1)) + 1 = n - i /\ \A j \in 1 .. n - i : (i + 1) + j - 1 = i + j /\ i + j \in 1 .. n
          BY <2>1, <2>2
        <4>3. es \in Seq(Event) /\ i \in 1 .. Len(es) BY <2>1, <2>2
        <4>4. /\ u \in Seq(Event) /\ Len(u) = Len(es) - i
              /\ \A j \in 1 .. Len(es) - i : u[j] = es[i + j] BY <4>3, SuffixIs
        <4> HIDE DEF u
        <4> QED BY <4>1, <4>2, <4>4
      <3>2. DOMAIN u = 1 .. Len(u) BY <3>1, SeqIsFunction
      <3> QED BY <3>1, <3>2
    <2> HIDE DEF u, n
    <2>5. \A j \in DOMAIN u : \E v \in Value : u[j].digests = <<<<"sha1", v>>>>
      BY <2>1, <2>2, <2>4, Zenon
    <2>6. Measurements(u) = <<>> BY <2>4, <2>5, LegacyMeasuresNothing
    <2>7. <<>> \o <<>> = <<>> OBVIOUS
    <2> QED BY <2>3, <2>6, <2>7 DEF u
  <1>9. Remaining = <<>> BY <1>3, <1>7, <1>8, Zenon DEF Remaining
  <1>10. Remaining' = <<>>
    <2>1. k' \in Nat \ {0} /\ d' = 1 BY <1>2, <1>3, <1>7
    <2> QED BY <1>1, <1>8, <2>1, Zenon DEF Remaining
  <1> QED BY <1>1, <1>2, <1>4, <1>9, <1>10, SameRegisters, Stutters, Zenon

\* Behind the last event nothing is left to be measured.
LEMMA TpmDone ==
  ASSUME TypeInv, StageInv, BufferInv, [Next]_vars, ParseEventsDone
  PROVE  UNCHANGED Tpm!tpmVars
  <1>1. Input' = Input /\ faults' = faults BY InputFixed
  <1>2. pc \in {"event", "legacy"} /\ k > Len(buf.events) /\ pc' = "open log" /\ calc' = calc
    BY Zenon DEF ParseEventsDone, Goto, replay
  <1>3. Maps => Todo = <<>>
    <2> SUFFICES ASSUME Maps PROVE Todo = <<>> OBVIOUS
    <2>1. Len(buf.events) = Len(Es) BY <1>2, MapsExact
    <2>2. k > Len(Es) BY <1>2, <2>1
    <2> QED BY <2>2, Zenon DEF Todo, Es
  <1>4. Todo' = <<>>
    <2>1. pc' \in OutputLabel BY <1>2 DEF OutputLabel
    <2> QED BY <2>1, Zenon DEF Todo
  <1> QED BY <1>1, <1>2, <1>3, <1>4, SameRegisters, Stutters, Zenon

\* The output leaves the registers alone.
LEMMA TpmOutput ==
  ASSUME TypeInv, [Next]_vars, Output
  PROVE  UNCHANGED Tpm!tpmVars
  <1>1. Input' = Input /\ faults' = faults BY InputFixed
  <1>2. calc' = calc /\ pc \in OutputLabel BY OutputKeeps
  <1>3. pc' \in OutputLabel \/ ret' = 0
    BY DEF Output, OpenLog, PrintLog, LogDone, OpenSummary, PrintRegister, SummaryDone, PrintAggregate, Emit, Goto, OutputLabel
  <1>4. Todo' = <<>> /\ Todo = <<>> BY <1>2, <1>3, Zenon DEF Todo
  <1> QED BY <1>1, <1>2, <1>4, SameRegisters, Stutters, Zenon

\* Every step is a measurement or leaves the TPM as it is.
LEMMA TpmStep ==
  ASSUME TypeInv, StageInv, BufferInv, ProgressInv, RegisterInv, PlaceInv, [Next]_vars
  PROVE  Tpm!Measure \/ UNCHANGED Tpm!tpmVars
  <1>1. CASE Parse \/ ParseLog
    <2>1. pc \in {"parse", "read", "head", "event", "digest", "legacy"}
      BY <1>1, ParsingPlace
    <2>2. pc \notin OutputLabel /\ ret = 1 BY <2>1 DEF OutputLabel, StageInv
    <2>3. CASE Fail BY <2>2, <2>3, TpmFail
    <2>4. CASE ~Fail
      <3>1. CASE Parse
        <4>1. pc \in {"parse", "read", "head"} BY <3>1, ParsingPlace
        <4> QED BY <2>4, <3>1, <4>1, TpmBefore
      <3>2. CASE ReadLog \/ ReadHead
        <4>1. pc \in {"parse", "read", "head"} BY <3>2 DEF ReadLog, ReadHead
        <4> QED BY <2>4, <3>2, <4>1, TpmBefore
      <3>3. ~(BadHead \/ IncompleteEvent \/ IncompleteLegacyEvent)
        BY <2>4 DEF BadHead, IncompleteEvent, IncompleteLegacyEvent
      <3> QED BY <1>1, <2>4, <3>1, <3>2, <3>3, TpmHeader, TpmDigest, TpmBody, TpmLegacy, TpmDone, Zenon DEF ParseLog
    <2> QED BY <2>3, <2>4
  <1>2. CASE Output BY <1>2, TpmOutput
  <1>3. CASE OutOfMemory
    <2>1. Input' = Input /\ faults' = faults BY InputFixed
    <2>2. ~Maps BY <1>3, MapsExact DEF OutOfMemory
    <2> QED BY <2>1, <2>2, Stutters, Zenon
  <1>4. CASE UNCHANGED vars
    <2>1. Input' = Input /\ faults' = faults BY InputFixed
    <2>2. calc' = calc /\ pc' = pc /\ ret' = ret /\ k' = k /\ d' = d BY <1>4 DEF vars
    <2>3. Todo' = Todo BY <2>1, <2>2, Zenon DEF Todo
    <2> QED BY <2>1, <2>2, <2>3, SameRegisters, Stutters, Zenon
  <1> QED BY <1>1, <1>2, <1>3, <1>4, Zenon DEF Next, Terminated

\* The program starts where the TPM has been started and nothing is measured.
LEMMA TpmStart == Init => Tpm!TpmInit
  <1> SUFFICES ASSUME Init PROVE Tpm!TpmInit OBVIOUS
  <1>1. TypeInv /\ StageInv BY TypeInit, StageInit
  <1>2. k = 1 /\ d = 1 /\ pc = "parse" /\ ret = 1 /\ calc = [n \in Pcr |-> <<>>]
    BY Zenon DEF Init
  <1> DEFINE start == IF Maps THEN Start(Es) ELSE <<>>
             ms == IF Maps THEN Measurements(Es) ELSE <<>>
  <1>3. Es \in Seq(Event) /\ Len(Es) \in Nat BY <1>1, LogInput DEF Es
  <1>4. Measurements(<<>>) = <<>> BY DEF Measurements, FlattenSeq
  <1>5. Remaining = Measurements(Es)
    <2>1. CASE Es = <<>>
      <3>1. k > Len(Es) BY <1>2, <2>1
      <3> QED BY <1>4, <2>1, <3>1 DEF Remaining
    <2>2. CASE Es # <<>>
      <3> DEFINE es == Es
      <3>1. es \in Seq(Event) /\ es # <<>> BY <1>3, <2>2
      <3> HIDE DEF es
      <3>2. ~(k > Len(es)) /\ k + 1 = 2 BY <1>2, <3>1
      <3>3. Measurements(es) = MeasurementsFrom(es[1], 1) \o Measurements(SubSeq(es, 2, Len(es)))
        BY <3>1, MeasurementsFirst
      <3>4. Remaining = IF k > Len(es) THEN <<>> ELSE MeasurementsFrom(es[k], d) \o Measurements(SubSeq(es, k + 1, Len(es)))
        BY Zenon DEF Remaining, es
      <3> QED BY <1>2, <3>2, <3>3, <3>4 DEF es
    <2> QED BY <2>1, <2>2
  <1>6. ToCome = ms
    <2>1. pc \notin OutputLabel BY <1>2 DEF OutputLabel
    <2>2. ret # 0 BY <1>2
    <2>3. Todo = Remaining BY <2>1, <2>2, Zenon DEF Todo, Remaining, Es
    <2> QED BY <1>5, <2>3, Zenon DEF ToCome
  <1>7. Regs = [n \in Pcr |-> IF n = 0 THEN start ELSE <<>>]
    <2>1. calc[0] = <<>> /\ \A n \in Pcr : calc[n] = <<>> BY <1>2, PcrIs
    <2>2. ~Extended(calc[0])
      <3>1. DOMAIN <<>> = {} OBVIOUS
      <3> QED BY <2>1, <3>1, Zenon DEF Extended
    <2>3. \A n \in Pcr : TpmRegister(n) = IF n = 0 THEN start ELSE <<>>
      BY <2>1, <2>2, Zenon DEF TpmRegister, Es
    <2> QED BY <2>3, Zenon DEF Regs
  <1>8. <<start, ms>> \in Boots
    <2>1. <<<<>>, <<>>>> \in Boots BY DEF Boots
    <2>2. CASE ~Maps BY <2>1, <2>2
    <2>3. CASE Maps /\ fs[InputPath] = Absent
      <3>1. Es = <<>> BY <2>3 DEF Es, Input, EmptyLog
      <3>2. StartLocality(<<>>) = 0 BY DEF StartLocality
      <3>3. Start(<<>>) = <<>> BY <3>2 DEF Start
      <3> QED BY <1>4, <2>1, <2>3, <3>1, <3>3
    <2>4. CASE Maps /\ fs[InputPath] # Absent
      <3>1. PICK s \in Scenarios : fs = s.fs BY <1>1 DEF StageInv
      <3>2. InputPath \in Path
        BY <1>1, OptionsType DEF InputPath, Path, TypeInv, TypeOK, OptionsAre
      <3> DEFINE all == (UNION {{q.fs[p] : p \in Path} : q \in Scenarios}) \ {Absent}
      <3>3. Input \in all
        <4>1. Input = s.fs[InputPath] /\ Input # Absent BY <2>4, <3>1 DEF Input
        <4>2. Input \in {s.fs[p] : p \in Path} /\ {s.fs[p] : p \in Path} \in {{q.fs[p] : p \in Path} : q \in Scenarios}
          BY <3>2, <4>1, Zenon
        <4> DEFINE F == {s.fs[p] : p \in Path}
                   S == {{q.fs[p] : p \in Path} : q \in Scenarios}
        <4>3. Input \in F /\ F \in S BY <4>2
        <4> HIDE DEF F, S
        <4>4. Input \in UNION S BY <4>3
        <4> QED BY <4>1, <4>4 DEF S
      <3> HIDE DEF all
      <3>4. BootOf(Input.events) = <<Start(Es), Measurements(Es)>>
        BY <2>4, Zenon DEF BootOf, Maps, Es
      <3>5. BootOf(Input.events) \in Boots
        <4>1. Boots = {<<<<>>, <<>>>>} \cup {BootOf(l.events) : l \in all}
          BY Zenon DEF Boots, all
        <4> HIDE DEF start, ms
        <4> QED BY <3>3, <4>1, Zenon
      <3> QED BY <2>4, <3>4, <3>5
    <2> QED BY <2>2, <2>3, <2>4
  <1> HIDE DEF start, ms
  <1>9. start \in {boot[1] : boot \in Boots}
    <2> DEFINE b == <<start, ms>>
    <2>1. b \in Boots /\ b[1] = start BY <1>8
    <2> HIDE DEF b
    <2> QED BY <2>1, Zenon
  <1> QED BY <1>6, <1>7, <1>8, <1>9, Zenon DEF Tpm!TpmInit, Regs, ToCome

\* PlaceInv holds of every run.
LEMMA PlaceAlways == Spec => []PlaceInv
  BY PlaceInit, PlaceNext, PTL DEF Spec

\* The replay of parse-srtm-pcrs goes through the states of the TPM that
\* measured the boot: the registers are those of a TPM started from the same
\* locality, each step of a callback that extends one is the next measurement
\* of the log, in its order, and every other step of the program leaves them and
\* what is still to be measured alone (eventcb.c:214-262 under the iteration of
\* tpm2_eventlog.c). A log that does not follow the profile, a fault or a
\* refusal stops the comparison.
THEOREM ImplementsMeasuredBoot == Spec => ImplementsTpm
  <1>1. Init => Tpm!TpmInit BY TpmStart
  <1>2. IInv /\ PlaceInv /\ [Next]_vars => [Tpm!Measure]_(Tpm!tpmVars)
    BY TpmStep, Zenon DEF IInv
  <1> QED BY <1>1, <1>2, IInvAlways, PlaceAlways, PTL DEF Spec, ImplementsTpm, Tpm!TpmSpec
=============================================================================
