--------------------------- MODULE TdxMrs_proofs ---------------------------
(***************************************************************************)
(* Proofs about calculate-tdx-mrs, for every set of files, every state of  *)
(* them and every command line: the registers it prints are the reference  *)
(* values, the event log replays to the registers, a run that fails prints *)
(* none, its JSON is well formed, and the calculator implements registers  *)
(* with a journal.                                                         *)
(***************************************************************************)
EXTENDS TdxReference, SequenceLemmas, FiniteSetTheorems, TLAPS

-----------------------------------------------------------------------------
(* The inductive invariant *)

Rtmr0Label == {"td hob", "cfv", "secureboot", "separator", "acpi", "bootorder", "bootxxxx",
               "last separator"}

Rtmr1Label == {"kernel", "dump kernel", "boot action", "boot separator", "exit boot", "boot exited"}

HandlerLabel == {"tdx module", "ovmf", "cmdline", "empty"} \cup Rtmr0Label \cup Rtmr1Label

OutputLabel == {"open log", "print log", "open summary", "print summary"}

ParseLabel == {"start", "parse", "validate"}

\* The steps of the handler at a position of HandlerOrder.
AtTurn(t, label) ==
  \/ t = 1 /\ label = "tdx module"
  \/ t = 2 /\ label = "ovmf"
  \/ t = 3 /\ label \in Rtmr0Label
  \/ t = 4 /\ label \in Rtmr1Label
  \/ t = 5 /\ label = "cmdline"
  \/ t = 6 /\ label = "empty"

TokenSet == [t : TokenType, mr : Mr, value : Seq(Digest) \cup {Unset}]

TypeInput ==
  /\ argv \in Seq(Argument) /\ opts \in Options
  /\ fs \in [File -> FileState] /\ short \in BOOLEAN

TypeData ==
  /\ bank \in [Mr -> Seq(Digest) \cup {Unset}]
  /\ log \in [Mr -> Seq(Entry)]
  /\ out \in Seq(TokenSet)

TypeControl == pc \in Label /\ turn \in 1 .. 7 /\ i \in Nat \ {0} /\ ret \in {-1, 0, 1}

TypeInv == TypeInput /\ TypeData /\ TypeControl

\* A handler works on its register, which main has reset; the request has been
\* validated before.
ControlInv ==
  /\ pc \in HandlerLabel => AtTurn(turn, pc) /\ Cur \in Requested /\ bank[Cur] # Unset
  /\ pc \in ParseLabel => turn = 1
  /\ pc \in OutputLabel => turn = 7
  /\ pc \in HandlerLabel \cup OutputLabel \cup {"dispatch"} => ValidRequest
  /\ pc # "exited" => ret = 1

\* A register whose handler has not been called is untouched, one whose handler
\* has returned is not.
TurnsInv ==
  \A t \in 1 .. 6 :
    /\ t > turn \/ (t = turn /\ pc \in ParseLabel \cup {"dispatch"}) =>
         bank[HandlerOrder[t]] = Unset /\ log[HandlerOrder[t]] = <<>>
    /\ t < turn /\ HandlerOrder[t] \in Requested => bank[HandlerOrder[t]] # Unset

\* No register has been printed before the summary, those that have been are
\* what they were.
SilentInv == pc # "print summary" /\ ret # 0 => \A k \in DOMAIN out : out[k].t # "mr"

PrintedInv ==
  \A k \in DOMAIN out : out[k].t = "mr" => out[k].mr \in Requested /\ out[k].value = bank[out[k].mr]

IInv == TypeInv /\ ControlInv /\ TurnsInv /\ SilentInv /\ PrintedInv /\ LogReplays

-----------------------------------------------------------------------------
(* The registers and their turns *)

LEMMA Order ==
  /\ Len(HandlerOrder) = 6
  /\ HandlerOrder[1] = MRSEAM /\ HandlerOrder[2] = MRTD /\ HandlerOrder[3] = RTMR0
  /\ HandlerOrder[4] = RTMR1 /\ HandlerOrder[5] = RTMR2 /\ HandlerOrder[6] = RTMR3
  BY DEF HandlerOrder

LEMMA OrderInjective ==
  /\ \A t \in 1 .. 6 : HandlerOrder[t] \in Mr
  /\ \A t, u \in 1 .. 6 : HandlerOrder[t] = HandlerOrder[u] => t = u
  /\ \A n \in Mr : \E t \in 1 .. 6 : HandlerOrder[t] = n
  <1>1. \A t \in 1 .. 6 : t \in {1, 2, 3, 4, 5, 6} OBVIOUS
  <1>2. \A n \in Mr : n \in {0, 1, 2, 3, 4, 5} BY DEF Mr
  <1> QED BY <1>1, <1>2, Order DEF MRSEAM, MRTD, RTMR0, RTMR1, RTMR2, RTMR3, Mr

LEMMA Running ==
  ASSUME IInv, pc # "exited"
  PROVE  ret = 1 /\ ret # 0
  <1>1. 1 # 0 OBVIOUS
  <1> QED BY <1>1, Zenon DEF IInv, ControlInv

LEMMA HandlerTurn ==
  ASSUME IInv, pc \in HandlerLabel
  PROVE  /\ turn \in 1 .. 6 /\ AtTurn(turn, pc) /\ Cur \in Mr /\ Cur \in Requested
         /\ bank[Cur] \in Seq(Digest) /\ bank[Cur] # Unset /\ log[Cur] \in Seq(Entry)
         /\ ValidRequest /\ ret = 1 /\ ret # 0
  <1>1. AtTurn(turn, pc) /\ Cur \in Requested /\ bank[Cur] # Unset /\ ValidRequest
    BY DEF IInv, ControlInv
  <1>2. turn \in 1 .. 6
    <2>1. turn \in {1, 2, 3, 4, 5, 6} BY <1>1, Zenon DEF AtTurn
    <2> QED BY <2>1
  <1>3. Cur \in Mr BY <1>2, OrderInjective DEF Cur
  <1>4. ret = 1 /\ ret # 0 BY Running DEF HandlerLabel, Rtmr0Label, Rtmr1Label
  <1> QED BY <1>1, <1>2, <1>3, <1>4 DEF IInv, TypeInv, TypeData

LEMMA Distinct ==
  /\ HandlerLabel \cap OutputLabel = {} /\ HandlerLabel \cap ParseLabel = {}
  /\ HandlerLabel \cap {"dispatch", "exited", "crashed"} = {}
  /\ HandlerLabel \subseteq Label /\ OutputLabel \subseteq Label /\ ParseLabel \subseteq Label
  /\ \A t, label : AtTurn(t, label) => label \in HandlerLabel
  BY DEF HandlerLabel, OutputLabel, ParseLabel, Rtmr0Label, Rtmr1Label, Label, AtTurn

-----------------------------------------------------------------------------
(* The forms of a step *)

Stops == Fail \/ Crash

\* Register and event log stay, with or without a diagnostic.
Idle == UNCHANGED <<environment, bank, log, out, ret>>

Moves == Again \/ Return \/ \E label : AtTurn(turn, label) /\ Goto(label)

HandlerStep ==
  /\ pc \in HandlerLabel
  /\ Idle \/ \E d \in Digest, text \in Text : LogAndExtend(d, text)
  /\ Moves

\* The program ends.
LEMMA StopsKeeps ==
  ASSUME IInv, pc \notin OutputLabel \cup {"exited", "crashed"}, Stops
  PROVE  IInv'
  <1>1. /\ pc' \in {"exited", "crashed"} /\ ret' \in {ret, -1}
        /\ UNCHANGED <<argv, opts, fs, short, turn, i, bank, log, out>>
    BY DEF Stops, Fail, Crash, environment
  <1>2. ret = 1 /\ ret # 0 /\ pc # "print summary" BY Running DEF OutputLabel
  <1>3. TypeInv' BY <1>1 DEF IInv, TypeInv, TypeInput, TypeData, TypeControl, Label
  <1>4. ControlInv'
    <2>1. pc' \notin HandlerLabel \cup OutputLabel \cup ParseLabel \cup {"dispatch"}
      BY <1>1 DEF HandlerLabel, Rtmr0Label, Rtmr1Label, ParseLabel, OutputLabel
    <2>2. pc' # "exited" => ret' = ret BY DEF Stops, Fail, Crash
    <2> QED BY <1>2, <2>1, <2>2 DEF ControlInv
  <1>5. TurnsInv' BY <1>1 DEF IInv, TurnsInv, ParseLabel, Requested
  <1>6. SilentInv' /\ PrintedInv' BY <1>1, <1>2 DEF IInv, SilentInv, PrintedInv, Requested
  <1>7. LogReplays' BY <1>1 DEF IInv, LogReplays, Journal, Digests
  <1> QED BY <1>3, <1>4, <1>5, <1>6, <1>7 DEF IInv

\* What a step of a handler leaves of the other registers.
LEMMA TurnsKept ==
  ASSUME IInv, pc \in HandlerLabel, turn' \in {turn, turn + 1}, opts' = opts,
         bank' \in [Mr -> Seq(Digest) \cup {Unset}], bank'[Cur] # Unset,
         \A n \in Mr : n # Cur => bank'[n] = bank[n] /\ log'[n] = log[n],
         pc' \in {"dispatch"} => turn' = turn + 1,
         pc' \notin ParseLabel
  PROVE  TurnsInv'
  <1>1. turn \in 1 .. 6 /\ Cur = HandlerOrder[turn] BY HandlerTurn DEF Cur
  <1> SUFFICES ASSUME NEW t \in 1 .. 6
               PROVE  /\ t > turn' \/ (t = turn' /\ pc' \in ParseLabel \cup {"dispatch"}) =>
                           bank'[HandlerOrder[t]] = Unset /\ log'[HandlerOrder[t]] = <<>>
                      /\ t < turn' /\ HandlerOrder[t] \in Requested' => bank'[HandlerOrder[t]] # Unset
    BY DEF TurnsInv
  <1>2. HandlerOrder[t] \in Mr BY OrderInjective
  <1>3. CASE t = turn
    <2>1. ~(t > turn') /\ ~(t = turn' /\ pc' \in ParseLabel \cup {"dispatch"}) BY <1>1, <1>3
    <2> QED BY <1>1, <1>3, <2>1
  <1>4. CASE t > turn
    <2>1. HandlerOrder[t] # Cur BY <1>1, <1>4, OrderInjective
    <2>2. bank'[HandlerOrder[t]] = Unset /\ log'[HandlerOrder[t]] = <<>>
      BY <1>2, <1>4, <2>1 DEF IInv, TurnsInv
    <2>3. ~(t < turn') BY <1>1, <1>4
    <2> QED BY <2>2, <2>3
  <1>5. CASE t < turn
    <2>1. HandlerOrder[t] # Cur BY <1>1, <1>5, OrderInjective
    <2>2. Requested' = Requested BY DEF Requested
    <2>3. HandlerOrder[t] \in Requested => bank'[HandlerOrder[t]] # Unset
      BY <1>2, <1>5, <2>1 DEF IInv, TurnsInv
    <2>4. ~(t > turn') /\ ~(t = turn' /\ pc' \in ParseLabel \cup {"dispatch"}) BY <1>1, <1>5
    <2> QED BY <2>2, <2>3, <2>4
  <1> QED BY <1>1, <1>3, <1>4, <1>5

\* Where a handler goes.
LEMMA MovesTo ==
  ASSUME IInv, pc \in HandlerLabel, Moves
  PROVE  /\ pc' \in HandlerLabel \cup {"dispatch"} /\ turn' \in {turn, turn + 1}
         /\ pc' \in HandlerLabel => AtTurn(turn', pc') /\ turn' = turn
         /\ pc' = "dispatch" => turn' = turn + 1
         /\ turn' \in 1 .. 7 /\ i' \in Nat \ {0} /\ pc' \in Label
  <1>1. turn \in 1 .. 6 /\ i \in Nat \ {0} /\ AtTurn(turn, pc)
    BY HandlerTurn DEF IInv, TypeInv, TypeControl
  <1>2. "dispatch" \notin HandlerLabel /\ "dispatch" \in Label BY Distinct DEF Label
  <1>3. CASE Again BY <1>1, <1>2, <1>3, Distinct DEF Again
  <1>4. CASE Return BY <1>1, <1>2, <1>4 DEF Return
  <1>5. ASSUME NEW label, AtTurn(turn, label), Goto(label)
        PROVE  pc' \in HandlerLabel /\ pc' \in Label /\ pc' = label /\ turn' = turn /\ i' = 1
    BY <1>5, Distinct DEF Goto
  <1> QED BY <1>1, <1>2, <1>3, <1>4, <1>5 DEF Moves

\* What a measurement does to register and log.
LEMMA Measured ==
  ASSUME IInv, pc \in HandlerLabel, NEW d \in Digest, NEW text \in Text, LogAndExtend(d, text)
  PROVE  /\ bank' \in [Mr -> Seq(Digest) \cup {Unset}] /\ log' \in [Mr -> Seq(Entry)]
         /\ bank'[Cur] = Append(bank[Cur], d) /\ bank'[Cur] # Unset
         /\ \A n \in Mr : n # Cur => bank'[n] = bank[n] /\ log'[n] = log[n]
         /\ ~short => log'[Cur] = Append(log[Cur], [digest |-> d, text |-> text])
         /\ UNCHANGED <<argv, opts, fs, short, out, ret>>
  <1>1. /\ Cur \in Mr /\ bank[Cur] \in Seq(Digest) /\ log[Cur] \in Seq(Entry)
        /\ bank \in [Mr -> Seq(Digest) \cup {Unset}] /\ log \in [Mr -> Seq(Entry)]
    BY HandlerTurn DEF IInv, TypeInv, TypeData
  <1>2. [digest |-> d, text |-> text] \in Entry BY DEF Entry
  <1>3. Append(bank[Cur], d) \in Seq(Digest) /\ Append(bank[Cur], d) # Unset
    BY <1>1, FilesAssumption
  <1>4. Append(log[Cur], [digest |-> d, text |-> text]) \in Seq(Entry) /\ <<>> \in Seq(Entry)
    BY <1>1, <1>2
  <1>5. bank' = [bank EXCEPT ![Cur] = Append(bank[Cur], d)] BY DEF LogAndExtend, HashExtend
  <1>6. \/ log' = [log EXCEPT ![Cur] = Append(log[Cur], [digest |-> d, text |-> text])]
        \/ short /\ log' = [log EXCEPT ![Cur] = <<>>]
    BY DEF LogAndExtend, EvlogAdd, WithEntry
  <1>7. UNCHANGED <<argv, opts, fs, short, out, ret>> BY DEF LogAndExtend, environment
  <1> HIDE DEF Cur
  <1> QED BY <1>1, <1>3, <1>4, <1>5, <1>6, <1>7

LEMMA DigestsAppend ==
  ASSUME NEW l \in Seq(Entry), NEW d \in Digest, NEW text \in Text
  PROVE  Digests(Append(l, [digest |-> d, text |-> text])) = Append(Digests(l), d)
  <1>1. Digests(l) \in Seq(Digest) /\ Len(Digests(l)) = Len(l)
    <2>0. Len(l) \in Nat /\ DOMAIN l = 1 .. Len(l) /\ \A k \in 1 .. Len(l) : l[k] \in Entry
      OBVIOUS
    <2>1. \A k \in 1 .. Len(l) : l[k].digest \in Digest BY <2>0, Zenon DEF Entry
    <2>2. Digests(l) \in [1 .. Len(l) -> Digest] BY <2>0, <2>1 DEF Digests
    <2> QED BY <2>0, <2>2, FunctionIsSeq
  <1>2. Append(l, [digest |-> d, text |-> text]) \in Seq(Entry) BY DEF Entry
  <1>3. Append(Digests(l), d) = [k \in 1 .. Len(l) + 1 |-> IF k \in 1 .. Len(l) THEN l[k].digest ELSE d]
    BY <1>1 DEF Digests
  <1>4. Digests(Append(l, [digest |-> d, text |-> text]))
          = [k \in 1 .. Len(l) + 1 |-> IF k \in 1 .. Len(l) THEN l[k].digest ELSE d]
    BY <1>2 DEF Digests
  <1> QED BY <1>3, <1>4

LEMMA HandlerKeeps ==
  ASSUME IInv, HandlerStep
  PROVE  IInv'
  <1>1. pc \in HandlerLabel /\ Moves BY DEF HandlerStep
  <1>2. /\ turn \in 1 .. 6 /\ Cur \in Mr /\ Cur \in Requested /\ ValidRequest /\ ret = 1 /\ ret # 0
        /\ bank[Cur] # Unset /\ bank[Cur] \in Seq(Digest) /\ log[Cur] \in Seq(Entry)
    BY <1>1, HandlerTurn
  <1>3. /\ pc' \in HandlerLabel \cup {"dispatch"} /\ turn' \in {turn, turn + 1}
        /\ pc' \in HandlerLabel => AtTurn(turn', pc') /\ turn' = turn
        /\ pc' = "dispatch" => turn' = turn + 1
        /\ turn' \in 1 .. 7 /\ i' \in Nat \ {0} /\ pc' \in Label BY <1>1, MovesTo
  <1>4. /\ bank' \in [Mr -> Seq(Digest) \cup {Unset}] /\ log' \in [Mr -> Seq(Entry)]
        /\ bank'[Cur] # Unset
        /\ \A n \in Mr : n # Cur => bank'[n] = bank[n] /\ log'[n] = log[n]
        /\ UNCHANGED <<argv, opts, fs, short, out, ret>>
    <2>1. CASE Idle BY <1>2, <2>1 DEF Idle, environment, IInv, TypeInv, TypeData
    <2>2. CASE \E d \in Digest, text \in Text : LogAndExtend(d, text)
      BY <1>1, <2>2, Measured
    <2> QED BY <2>1, <2>2 DEF HandlerStep
  <1>5. ~short => Digests(log'[Cur]) = bank'[Cur]
    <2>1. ~short => Digests(log[Cur]) = bank[Cur] BY <1>2 DEF IInv, LogReplays, Journal
    <2>2. CASE Idle BY <2>1, <2>2 DEF Idle
    <2>3. ASSUME NEW d \in Digest, NEW text \in Text, LogAndExtend(d, text)
          PROVE  ~short => Digests(log'[Cur]) = bank'[Cur]
      <3>1. /\ bank'[Cur] = Append(bank[Cur], d)
            /\ ~short => log'[Cur] = Append(log[Cur], [digest |-> d, text |-> text])
        BY <1>1, <2>3, Measured
      <3>2. Digests(Append(log[Cur], [digest |-> d, text |-> text])) = Append(Digests(log[Cur]), d)
        BY <1>2, DigestsAppend
      <3> QED BY <2>1, <3>1, <3>2
    <2> QED BY <2>2, <2>3 DEF HandlerStep
  <1>6. TypeInv' BY <1>3, <1>4 DEF IInv, TypeInv, TypeInput, TypeData, TypeControl
  <1>7. ValidRequest' /\ Requested' = Requested
    BY <1>2, <1>4 DEF ValidRequest, Requested, Given
  <1>8. pc' \notin OutputLabel \cup ParseLabel \cup {"exited"}
    BY <1>3, Distinct DEF OutputLabel, ParseLabel
  <1>9. ControlInv'
    <2>1. pc' \in HandlerLabel => Cur' = Cur BY <1>3 DEF Cur
    <2>2. ret' = 1 BY <1>2, <1>4
    <2> QED BY <1>2, <1>3, <1>4, <1>7, <1>8, <2>1, <2>2 DEF ControlInv
  <1>10. TurnsInv' BY <1>1, <1>3, <1>4, <1>8, TurnsKept
  <1>11. \A k \in DOMAIN out : out[k].t # "mr"
    BY <1>1, <1>2, Distinct DEF IInv, SilentInv, OutputLabel
  <1>12. SilentInv' /\ PrintedInv' BY <1>4, <1>11 DEF SilentInv, PrintedInv
  <1>13. LogReplays'
    <2> SUFFICES ASSUME ~short, NEW n \in Mr, bank'[n] # Unset
                 PROVE  Digests(log'[n]) = bank'[n] BY <1>4 DEF LogReplays, Journal
    <2>1. CASE n = Cur BY <1>5, <2>1
    <2>2. CASE n # Cur BY <1>4, <2>2 DEF IInv, LogReplays, Journal
    <2> QED BY <2>1, <2>2
  <1> QED BY <1>6, <1>9, <1>10, <1>12, <1>13 DEF IInv

-----------------------------------------------------------------------------
(* Every action has one of these forms *)

LEMMA OptsType ==
  ASSUME TypeInv
  PROVE  /\ \A o \in FileOption : opts.file[o] \in Name
         /\ \A o \in ListOption : opts.list[o] \in Seq(Name)
         /\ opts.mrs \in Seq(Nat) /\ opts.flag \in [FlagOption \cup {"json"} -> BOOLEAN]
  BY DEF TypeInv, TypeInput, Options

\* The forms of the digests that are measured.
LEMMA DigestType ==
  /\ \A kind \in Kind : <<kind, <<>>>> \in Digest
  /\ \A kind \in Kind, f \in Name : <<kind, <<f>>>> \in Digest
  /\ \A kind \in Kind, f, g \in Name : <<kind, <<f, g>>>> \in Digest
  /\ \A kind \in Kind, s \in Seq(Name) : <<kind, s>> \in Digest
  <1>1. \A f, g \in Name : <<f>> \in Seq(Name) /\ <<f, g>> \in Seq(Name) OBVIOUS
  <1>2. <<>> \in Seq(Name) OBVIOUS
  <1> QED BY <1>1, <1>2 DEF Digest

LEMMA TextKinds ==
  "plain" \in Text /\ \A f : NameOf(f) \in Text /\ PathOf(f) \in Text
  BY DEF Text, NameOf, PathOf

LEMMA MeasureMoves ==
  ASSUME pc \in HandlerLabel, Moves
  PROVE  /\ \A d \in Digest : Measure(d) => HandlerStep
         /\ \A d \in Digest : \A f : MeasureText(d, NameOf(f)) \/ MeasureText(d, PathOf(f)) => HandlerStep
         /\ Literal("garbage") \in Digest /\ MeasureGarbage => HandlerStep
  <1>1. \A d \in Digest, text \in Text : LogAndExtend(d, text) => HandlerStep
    BY DEF HandlerStep
  <1> QED BY <1>1, TextKinds, Zenon DEF Measure, MeasureText, MeasureGarbage

LEMMA SkipMoves ==
  ASSUME pc \in HandlerLabel, Skip \/ Warn, Moves
  PROVE  HandlerStep
  <1>1. Idle BY DEF Skip, Warn, Idle
  <1> QED BY <1>1 DEF HandlerStep

LEMMA FirmwareForm ==
  ASSUME IInv, MeasureTdxModule \/ MeasureFirmware
  PROVE  HandlerStep \/ Stops
  <1>1. \A o \in FileOption : opts.file[o] \in Name BY OptsType DEF IInv
  <1>2. CASE MeasureTdxModule
    <2>1. pc \in HandlerLabel BY <1>2 DEF MeasureTdxModule, HandlerLabel
    <2>2. <<"tdx module", <<opts.file["tdxmodule"]>>>> \in Digest
      BY <1>1, DigestType DEF FileOption, ValueOption, Kind
    <2> QED BY <1>2, <2>1, <2>2, MeasureMoves DEF MeasureTdxModule, Moves, Stops
  <1>3. CASE MeasureFirmware
    <2>1. pc \in HandlerLabel BY <1>3 DEF MeasureFirmware, HandlerLabel
    <2>2. <<"ovmf", <<Firmware, Qemu>>>> \in Digest /\ Literal("garbage") \in Digest
      BY <1>1, DigestType DEF FileOption, ValueOption, Kind, Firmware, Qemu, Literal
    <2> QED BY <1>3, <2>1, <2>2, MeasureMoves, Zenon DEF MeasureFirmware, Moves, Stops
  <1> QED BY <1>2, <1>3

\* The points of calculate_rtmr0 and calculate_rtmr1.
LEMMA RtmrLabels ==
  ASSUME IInv
  PROVE  /\ pc \in Rtmr0Label => \A label \in Rtmr0Label : AtTurn(turn, label)
         /\ pc \in Rtmr1Label => \A label \in Rtmr1Label : AtTurn(turn, label)
  <1>1. pc \in Rtmr0Label \cup Rtmr1Label => AtTurn(turn, pc)
    BY DEF IInv, ControlInv, HandlerLabel
  <1> QED BY <1>1 DEF AtTurn, Rtmr0Label, Rtmr1Label

LEMMA SecureBootVarType ==
  ASSUME NEW k \in 1 .. 5
  PROVE  SecureBootVars[k] \in Kind /\ SecureBootVars[k] \in FileOption
  <1>1. k \in {1, 2, 3, 4, 5} OBVIOUS
  <1>2. SecureBootVars[k] \in {"secureboot", "pk", "kek", "db", "dbx"}
    BY <1>1 DEF SecureBootVars
  <1> QED BY <1>2 DEF Kind, FileOption, ValueOption

LEMMA Rtmr0Form ==
  ASSUME IInv, CalculateRtmr0
  PROVE  HandlerStep \/ Stops
  <1>1. /\ \A o \in FileOption : opts.file[o] \in Name
        /\ \A o \in ListOption : opts.list[o] \in Seq(Name) BY OptsType DEF IInv
  <1>2. pc \in Rtmr0Label /\ pc \in HandlerLabel
    BY DEF CalculateRtmr0, MeasureTdHob, MeasureCfv, MeasureSecureBootVar, SecureBootDone, MeasureSeparator,
       MeasureAcpi, AcpiDone, MeasureBootOrder, MeasureDefaultBootOption, MeasureBootOption, BootOptionsDone,
       MeasureLastSeparator, Rtmr0Label, HandlerLabel
  <1>3. \A label \in Rtmr0Label : Goto(label) => Moves BY <1>2, RtmrLabels DEF Moves
  <1>4. /\ Goto("cfv") => Moves
        /\ Goto("secureboot") => Moves
        /\ Goto("separator") => Moves
        /\ Goto("acpi") => Moves
        /\ Goto("bootorder") => Moves
        /\ Goto("bootxxxx") => Moves
        /\ Goto("last separator") => Moves
        /\ Again => Moves
        /\ Return => Moves
    <2>1. {"cfv", "secureboot", "separator", "acpi", "bootorder", "bootxxxx", "last separator"}
            \subseteq Rtmr0Label BY DEF Rtmr0Label
    <2> QED BY <1>3, <2>1, Zenon DEF Moves
  <1>5. /\ \A d \in Digest : Measure(d) /\ Moves => HandlerStep
        /\ MeasureGarbage /\ Moves => HandlerStep
    <2>1. Literal("garbage") \in Digest BY DigestType DEF Literal, Kind
    <2> QED BY <1>2, <2>1, MeasureMoves
  <1>6. (Skip \/ Warn) /\ Moves => HandlerStep BY <1>2, SkipMoves
  <1>7. Literal("td hob") \in Digest /\ Separator \in Digest /\ DefaultLoadOption \in Digest
          /\ Literal("garbage") \in Digest
    BY DigestType DEF Literal, Separator, DefaultLoadOption, Kind
  <1>8. CASE MeasureTdHob BY <1>4, <1>5, <1>7, <1>8 DEF MeasureTdHob
  <1>9. CASE MeasureCfv
    <2>1. <<"cfv", <<Firmware>>>> \in Digest
      BY <1>1, DigestType DEF Firmware, FileOption, ValueOption, Kind
    <2> QED BY <1>4, <1>5, <1>6, <1>7, <1>9, <2>1 DEF MeasureCfv, FailUninitialised, Stops
  <1>10. CASE MeasureSecureBootVar
    <2>1. i \in 1 .. 5
      BY <1>10 DEF MeasureSecureBootVar, SecureBootVars, IInv, TypeInv, TypeControl
    <2>2. SecureBootVars[i] \in Kind /\ SecureBootVars[i] \in FileOption
      BY <2>1, SecureBootVarType
    <2>3. <<SecureBootVars[i], <<>>>> \in Digest
          /\ <<SecureBootVars[i], <<opts.file[SecureBootVars[i]]>>>> \in Digest
      BY <1>1, <2>2, DigestType
    <2> QED BY <1>4, <1>5, <1>10, <2>3 DEF MeasureSecureBootVar, FailUninitialised, Stops
  <1>11. CASE SecureBootDone BY <1>4, <1>6, <1>11 DEF SecureBootDone
  <1>12. CASE MeasureSeparator
    BY <1>4, <1>5, <1>6, <1>7, <1>12 DEF MeasureSeparator, ReturnUnmeasured
  <1>13. CASE MeasureAcpi
    <2>1. i \in 1 .. 3 BY <1>13 DEF MeasureAcpi, AcpiOrder, IInv, TypeInv, TypeControl
    <2>2. AcpiOrder[i] \in FileOption BY <2>1 DEF AcpiOrder, FileOption, AcpiOption
    <2>3. Content(opts.file[AcpiOrder[i]]) \in Digest
      BY <1>1, <2>2, DigestType DEF Content, Kind
    <2> QED BY <1>4, <1>5, <1>6, <1>13, <2>3 DEF MeasureAcpi
  <1>14. CASE AcpiDone BY <1>4, <1>6, <1>14 DEF AcpiDone
  <1>15. CASE MeasureBootOrder
    <2>1. <<"bootorder", opts.list["bootorder"]>> \in Digest
      BY <1>1, DigestType DEF ListOption, Kind
    <2> QED BY <1>4, <1>5, <1>15, <2>1 DEF MeasureBootOrder
  <1>16. CASE MeasureDefaultBootOption
    BY <1>4, <1>5, <1>7, <1>16 DEF MeasureDefaultBootOption, Stops
  <1>17. CASE MeasureBootOption
    <2>1. opts.list["bootxxxx"][i] \in Name
      BY <1>1, <1>17 DEF MeasureBootOption, ListOption, IInv, TypeInv, TypeControl
    <2>2. <<"efivar", <<opts.list["bootxxxx"][i]>>>> \in Digest BY <2>1, DigestType DEF Kind
    <2> QED BY <1>4, <1>5, <1>17, <2>2 DEF MeasureBootOption, Stops
  <1>18. CASE BootOptionsDone BY <1>4, <1>6, <1>18 DEF BootOptionsDone
  <1>19. CASE MeasureLastSeparator BY <1>4, <1>5, <1>6, <1>7, <1>19 DEF MeasureLastSeparator
  <1> QED BY <1>8, <1>9, <1>10, <1>11, <1>12, <1>13, <1>14, <1>15, <1>16, <1>17, <1>18, <1>19 DEF CalculateRtmr0

LEMMA Rtmr1Form ==
  ASSUME IInv, CalculateRtmr1
  PROVE  HandlerStep \/ Stops
  <1>1. \A o \in FileOption : opts.file[o] \in Name BY OptsType DEF IInv
  <1>2. pc \in Rtmr1Label /\ pc \in HandlerLabel
    BY DEF CalculateRtmr1, MeasureKernel, DumpKernel, MeasureBootAction, MeasureBootSeparator,
       MeasureExitBoot, MeasureBootExited, Rtmr1Label, HandlerLabel
  <1>3. \A label \in Rtmr1Label : Goto(label) => Moves BY <1>2, RtmrLabels DEF Moves
  <1>4. /\ Goto("dump kernel") => Moves
        /\ Goto("boot action") => Moves
        /\ Goto("boot separator") => Moves
        /\ Goto("exit boot") => Moves
        /\ Goto("boot exited") => Moves
        /\ Return => Moves
    <2>1. {"dump kernel", "boot action", "boot separator", "exit boot", "boot exited"} \subseteq Rtmr1Label
      BY DEF Rtmr1Label
    <2> QED BY <1>3, <2>1, Zenon DEF Moves
  <1>5. \A d \in Digest : \A f : (Measure(d) \/ MeasureText(d, NameOf(f))) /\ Moves => HandlerStep
    BY <1>2, MeasureMoves
  <1>6. (Skip \/ Warn) /\ Moves => HandlerStep BY <1>2, SkipMoves
  <1>7. Literal("calling efi application") \in Digest /\ Separator \in Digest
          /\ Literal("exit boot invocation") \in Digest /\ Literal("exit boot returned") \in Digest
    BY DigestType DEF Literal, Separator, Kind
  <1>8. CASE MeasureKernel
    <2> DEFINE k == opts.file["kernel"]
               c == opts.file["config"]
    <2>1. <<"pe", <<k>>>> \in Digest /\ <<"pe", <<k, c>>>> \in Digest
      BY <1>1, DigestType DEF FileOption, ValueOption, Kind
    <2>2. <<"pe", IF c = NoFile THEN <<k>> ELSE <<k, c>>>> \in Digest BY <2>1
    <2> QED BY <1>4, <1>5, <1>6, <1>8, <2>2 DEF MeasureKernel, ReturnUnmeasured, FailUninitialised, Stops
  <1>9. CASE DumpKernel BY <1>4, <1>6, <1>9 DEF DumpKernel, ReturnUnmeasured, Stops
  <1>10. CASE MeasureBootAction BY <1>4, <1>5, <1>7, <1>10 DEF MeasureBootAction
  <1>11. CASE MeasureBootSeparator
    BY <1>4, <1>5, <1>6, <1>7, <1>11 DEF MeasureBootSeparator, ReturnUnmeasured
  <1>12. CASE MeasureExitBoot BY <1>4, <1>5, <1>7, <1>12 DEF MeasureExitBoot
  <1>13. CASE MeasureBootExited BY <1>4, <1>5, <1>7, <1>13 DEF MeasureBootExited
  <1> QED BY <1>8, <1>9, <1>10, <1>11, <1>12, <1>13 DEF CalculateRtmr1

LEMMA LinuxForm ==
  ASSUME IInv, MeasureCmdline \/ MeasureNothing
  PROVE  HandlerStep \/ Stops
  <1>1. \A o \in FileOption : opts.file[o] \in Name BY OptsType DEF IInv
  <1>2. CASE MeasureCmdline
    <2>1. pc \in HandlerLabel BY <1>2 DEF MeasureCmdline, HandlerLabel
    <2>2. WideText(opts.file["cmdline"], opts.file["addzeros"]) \in Digest
      BY <1>1, DigestType DEF FileOption, ValueOption, Kind, WideText
    <2> QED BY <1>2, <2>1, <2>2, MeasureMoves, Zenon DEF MeasureCmdline, Moves, Stops
  <1>3. CASE MeasureNothing
    <2>1. pc \in HandlerLabel BY <1>3 DEF MeasureNothing, HandlerLabel
    <2> QED BY <1>3, <2>1, SkipMoves DEF MeasureNothing, Moves
  <1> QED BY <1>2, <1>3

\* A step of a handler either ends the program or measures for its register
\* at most one digest and goes on.
LEMMA HandlerForm ==
  ASSUME IInv,
         CalculateMrseam \/ CalculateMrtd \/ CalculateRtmr0 \/ CalculateRtmr1 \/ CalculateRtmr2
           \/ CalculateRtmr3
  PROVE  HandlerStep \/ Stops
  BY FirmwareForm, Rtmr0Form, Rtmr1Form, LinuxForm DEF CalculateMrseam, CalculateMrtd, CalculateRtmr2, CalculateRtmr3

-----------------------------------------------------------------------------
(* main, in front of the handlers *)

LEMMA ArgumentType ==
  ASSUME TypeInv, Parsing
  PROVE  /\ NextArg \in Argument /\ Tail(argv) \in Seq(Argument)
         /\ NextArg.opt = "mrs" /\ NextArg.val # NoFile => NextArg.val \in Seq(Nat)
         /\ NextArg.opt \in FileOption \cup ListOption => NextArg.val \in Name
  <1>1. argv \in Seq(Argument) /\ argv # <<>> BY DEF TypeInv, TypeInput, Parsing
  <1>2. NextArg \in Argument /\ Tail(argv) \in Seq(Argument)
    BY <1>1, HeadTailProperties, ElementOfSeq, EmptySeq DEF NextArg
  <1>3. NextArg.opt = "mrs" /\ NextArg.val # NoFile => NextArg.val \in Seq(Nat)
    BY <1>2 DEF Argument, FileOption, ValueOption, AcpiOption, ListOption
  <1>4. NextArg.opt \in FileOption \cup ListOption => NextArg.val \in Name
    BY <1>2 DEF Argument, FileOption, ValueOption, AcpiOption, ListOption, Name
  <1> QED BY <1>2, <1>3, <1>4

\* A step of the option loop reaches no register; nothing has been printed yet.
LEMMA MainKeeps ==
  ASSUME IInv, pc \in ParseLabel, TypeInput', UNCHANGED <<short, turn, bank, log, out, ret>>,
         pc' \in ParseLabel \cup {"dispatch"}, pc' = "dispatch" => ValidRequest', i' \in Nat \ {0}
  PROVE  IInv'
  <1>1. turn = 1 /\ ret = 1 /\ ret # 0 /\ pc # "print summary"
    <2>1. turn = 1 BY DEF IInv, ControlInv
    <2> QED BY <2>1, Running, Zenon DEF ParseLabel
  <1>2. pc' \notin HandlerLabel /\ pc' \notin OutputLabel /\ pc' # "exited" /\ pc' \in Label
    BY Distinct DEF ParseLabel, OutputLabel, Label
  <1>3. TypeInv' BY <1>2 DEF IInv, TypeInv, TypeData, TypeControl
  <1>4. ControlInv' BY <1>1, <1>2 DEF ControlInv
  <1>5. \A t \in 1 .. 6 : bank[HandlerOrder[t]] = Unset /\ log[HandlerOrder[t]] = <<>>
    <2> SUFFICES ASSUME NEW t \in 1 .. 6
                 PROVE  bank[HandlerOrder[t]] = Unset /\ log[HandlerOrder[t]] = <<>> OBVIOUS
    <2>1. t > 1 \/ t = 1 OBVIOUS
    <2>2. t > turn \/ t = turn BY <1>1, <2>1, Zenon
    <2> QED BY <2>2 DEF IInv, TurnsInv
  <1>6. TurnsInv'
    <2>1. \A t \in 1 .. 6 : ~(t < 1) OBVIOUS
    <2>2. turn' = 1 BY <1>1
    <2> QED BY <1>5, <2>1, <2>2 DEF TurnsInv
  <1>7. \A k \in DOMAIN out : out[k].t # "mr" BY <1>1 DEF IInv, SilentInv
  <1>8. SilentInv' /\ PrintedInv' BY <1>7 DEF SilentInv, PrintedInv
  <1>9. LogReplays' BY DEF IInv, LogReplays, Journal, Digests
  <1> QED BY <1>3, <1>4, <1>6, <1>8, <1>9 DEF IInv

LEMMA ParsedKeeps ==
  ASSUME IInv, Parsing, NEW newOpts \in Options, Parsed(newOpts)
  PROVE  IInv'
  <1>1. TypeInput' BY ArgumentType DEF Parsed, IInv, TypeInv, TypeInput
  <1>2. pc \in ParseLabel /\ pc' = pc /\ pc # "dispatch" BY DEF Parsing, Parsed, ParseLabel
  <1>3. i' \in Nat \ {0} /\ UNCHANGED <<short, turn, bank, log, out, ret>>
    BY DEF Parsed, IInv, TypeInv, TypeControl
  <1> QED BY <1>1, <1>2, <1>3, MainKeeps

LEMMA GotoKeeps ==
  ASSUME IInv, pc \in ParseLabel, NEW label \in ParseLabel \cup {"dispatch"}, Goto(label), Skip,
         label = "dispatch" => ValidRequest
  PROVE  IInv'
  <1>1. pc' = label /\ i' = 1 /\ UNCHANGED <<argv, opts, fs, short, turn, bank, log, out, ret>>
    BY DEF Goto, Skip, environment
  <1>2. TypeInput' /\ (pc' = "dispatch" => ValidRequest')
    BY <1>1 DEF IInv, TypeInv, TypeInput, ValidRequest, Requested, Given
  <1> QED BY <1>1, <1>2, MainKeeps

LEMMA ParseKeeps ==
  ASSUME IInv, Parse
  PROVE  IInv'
  <1>a. /\ opts \in Options /\ opts.flag \in [FlagOption \cup {"json"} -> BOOLEAN]
        /\ opts.file \in [FileOption -> Name] /\ opts.list \in [ListOption -> Seq(Name)]
        /\ opts.mrs \in Seq(Nat) /\ TypeInv BY DEF IInv, TypeInv, TypeInput, Options
  <1>b. /\ {"start", "parse", "validate"} = ParseLabel
        /\ pc \in ParseLabel => pc \notin OutputLabel \cup {"exited", "crashed"}
    BY DEF ParseLabel, OutputLabel
  <1>c. ASSUME pc \in ParseLabel, Fail
        PROVE  IInv' BY <1>b, <1>c, StopsKeeps DEF Stops
  <1>f. ASSUME NEW o \in FileOption, NEW v \in Name
        PROVE  [opts EXCEPT !.file[o] = v] \in Options BY <1>a DEF Options
  <1>1. CASE Start BY <1>1, <1>b, <1>c, GotoKeeps DEF Start
  <1>2. CASE ParseFlag
    <2>1. [opts EXCEPT !.flag[NextArg.opt] = TRUE] \in Options
      BY <1>2, <1>a DEF ParseFlag, IsFlag, Options
    <2> QED BY <1>2, <2>1, ParsedKeeps DEF ParseFlag
  <1>3. CASE ParseFormat
    <2>1. (NextArg.val = "json") \in BOOLEAN OBVIOUS
    <2>2. [opts EXCEPT !.flag["json"] = (NextArg.val = "json")] \in Options
      BY <2>1, <1>a DEF Options
    <2> QED BY <1>3, <2>2, ParsedKeeps DEF ParseFormat
  <1>4. CASE ParseMrs
    <2>1. opts.mrs \o NextArg.val \in Seq(Nat)
      BY <1>4, <1>a, ArgumentType, ConcatProperties DEF ParseMrs, HasValue
    <2>2. [opts EXCEPT !.mrs = @ \o NextArg.val] \in Options BY <2>1, <1>a DEF Options
    <2> QED BY <1>4, <1>b, <1>c, <2>2, ParsedKeeps DEF ParseMrs, Parsing
  <1>5. CASE ParseValue
    <2>1. NextArg.opt \in FileOption /\ NextArg.val \in Name
      BY <1>5, <1>a, ArgumentType DEF ParseValue, FileOption
    <2> QED BY <1>5, <1>f, <2>1, ParsedKeeps DEF ParseValue
  <1>6. CASE ParseDump
    <2>1. "dumpkernel" \in FileOption /\ NextArg.val \in Name
      BY <1>6, <1>a, ArgumentType DEF ParseDump, FileOption
    <2> QED BY <1>6, <1>f, <2>1, ParsedKeeps DEF ParseDump
  <1>7. CASE ParseList
    <2>1. NextArg.opt \in ListOption /\ NextArg.val \in Name
      BY <1>7, <1>a, ArgumentType DEF ParseList
    <2>2. Append(opts.list[NextArg.opt], NextArg.val) \in Seq(Name) BY <1>a, <2>1
    <2>3. [opts EXCEPT !.list[NextArg.opt] = Append(@, NextArg.val)] \in Options
      BY <1>a, <2>1, <2>2 DEF Options
    <2> QED BY <1>7, <1>b, <1>c, <2>3, ParsedKeeps DEF ParseList, Parsing
  <1>8. CASE ParseAcpi
    <2>1. NextArg.opt \in FileOption /\ NextArg.val \in Name /\ NoFile \in Name
      BY <1>8, <1>a, ArgumentType DEF ParseAcpi, FileOption, Name
    <2> QED BY <1>8, <1>b, <1>c, <1>f, <2>1, ParsedKeeps DEF ParseAcpi, Parsing
  <1>9. CASE ParseInvalid BY <1>9, <1>b, <1>c DEF ParseInvalid, Parsing
  <1>10. CASE ParseEnd BY <1>10, <1>b, GotoKeeps DEF ParseEnd
  <1>11. CASE Validate BY <1>11, <1>b, <1>c, GotoKeeps DEF Validate
  <1> QED BY <1>1, <1>2, <1>3, <1>4, <1>5, <1>6, <1>7, <1>8, <1>9, <1>10, <1>11 DEF Parse

-----------------------------------------------------------------------------
(* main, between the handlers *)

LEMMA FirstStepLabel ==
  ASSUME NEW t \in 1 .. 6
  PROVE  AtTurn(t, FirstStep[t])
  <1>1. t \in {1, 2, 3, 4, 5, 6} OBVIOUS
  <1>2. /\ FirstStep[1] = "tdx module" /\ FirstStep[2] = "ovmf" /\ FirstStep[3] = "td hob"
        /\ FirstStep[4] = "kernel" /\ FirstStep[5] = "cmdline" /\ FirstStep[6] = "empty"
    BY DEF FirstStep
  <1> QED BY <1>1, <1>2 DEF AtTurn, Rtmr0Label, Rtmr1Label

LEMMA DispatchKeeps ==
  ASSUME IInv, Dispatch
  PROVE  IInv'
  <1>1. pc = "dispatch" /\ ValidRequest /\ turn \in 1 .. 7
    BY DEF IInv, ControlInv, TypeInv, TypeControl, Dispatch, NotRequested, CallHandler, AllCalculated
  <1>2. pc \notin HandlerLabel \cup OutputLabel \cup ParseLabel /\ pc # "print summary" /\ ret = 1 /\ ret # 0
    BY <1>1, Distinct, Running, Zenon DEF OutputLabel, ParseLabel
  <1>3. /\ UNCHANGED <<argv, opts, fs, short, log, out, ret>> /\ i' = 1
        /\ ValidRequest' /\ Requested' = Requested
    BY <1>1 DEF Dispatch, NotRequested, CallHandler, AllCalculated, Skip, Return, Goto, environment,
                ValidRequest, Requested, Given
  <1>4. \A k \in DOMAIN out : out[k].t # "mr" BY <1>2 DEF IInv, SilentInv
  <1>5. SilentInv' /\ PrintedInv' BY <1>3, <1>4 DEF SilentInv, PrintedInv
  <1>6. CASE NotRequested
    <2>1. turn \in 1 .. 6 /\ turn' = turn + 1 /\ pc' = "dispatch" /\ bank' = bank /\ Cur \notin Requested
      BY <1>1, <1>6 DEF NotRequested, Return, Skip
    <2>2. TypeInv'
      <3>1. turn' \in 1 .. 7 BY <2>1
      <3>2. 1 \in Nat \ {0} OBVIOUS
      <3>3. TypeControl'
        BY <1>3, <2>1, <3>1, <3>2, Zenon DEF IInv, TypeInv, TypeControl, Label
      <3> QED BY <1>3, <2>1, <3>3 DEF IInv, TypeInv, TypeInput, TypeData
    <2>3. ControlInv' BY <1>1, <1>2, <1>3, <2>1 DEF ControlInv
    <2>4. TurnsInv'
      <3> SUFFICES ASSUME NEW t \in 1 .. 6
                   PROVE  /\ t > turn' \/ t = turn' =>
                               bank'[HandlerOrder[t]] = Unset /\ log'[HandlerOrder[t]] = <<>>
                          /\ t < turn' /\ HandlerOrder[t] \in Requested' => bank'[HandlerOrder[t]] # Unset
        BY <2>1 DEF TurnsInv
      <3>1. CASE t > turn
        <4>1. bank[HandlerOrder[t]] = Unset /\ log[HandlerOrder[t]] = <<>>
          BY <3>1 DEF IInv, TurnsInv
        <4>2. ~(t < turn') BY <2>1, <3>1
        <4> QED BY <1>3, <2>1, <4>1, <4>2
      <3>2. CASE t = turn
        <4>1. HandlerOrder[t] \notin Requested' BY <1>3, <2>1, <3>2 DEF Cur
        <4>2. ~(t > turn') /\ t # turn' BY <2>1, <3>2
        <4> QED BY <4>1, <4>2
      <3>3. CASE t < turn
        <4>1. HandlerOrder[t] \in Requested => bank[HandlerOrder[t]] # Unset
          BY <3>3 DEF IInv, TurnsInv
        <4>2. ~(t > turn') /\ t # turn' BY <2>1, <3>3
        <4> QED BY <1>3, <2>1, <4>1, <4>2
      <3> QED BY <2>1, <3>1, <3>2, <3>3
    <2>5. LogReplays' BY <1>3, <2>1 DEF IInv, LogReplays, Journal, Digests
    <2> QED BY <1>5, <2>2, <2>3, <2>4, <2>5 DEF IInv
  <1>7. CASE CallHandler
    <2>1. /\ turn \in 1 .. 6 /\ turn' = turn /\ pc' = FirstStep[turn] /\ Cur \in Requested
          /\ bank' = [bank EXCEPT ![Cur] = <<>>] BY <1>1, <1>7 DEF CallHandler, Goto
    <2>2. AtTurn(turn, pc') /\ pc' \in HandlerLabel /\ pc' \in Label
      BY <2>1, FirstStepLabel, Distinct
    <2>3. Cur \in Mr /\ Cur' = Cur /\ Cur = HandlerOrder[turn]
      BY <2>1, OrderInjective DEF Cur
    <2>4. /\ bank' \in [Mr -> Seq(Digest) \cup {Unset}] /\ bank'[Cur] = <<>> /\ bank'[Cur] # Unset
          /\ \A n \in Mr : n # Cur => bank'[n] = bank[n]
      <3>0. <<>> \in Seq(Digest) OBVIOUS
      <3>1. <<>> \in Seq(Digest) /\ <<>> # Unset BY <3>0, FilesAssumption, Zenon
      <3>2. bank \in [Mr -> Seq(Digest) \cup {Unset}] BY DEF IInv, TypeInv, TypeData
      <3> HIDE DEF Cur
      <3> QED BY <2>1, <2>3, <3>1, <3>2
    <2>5. log[Cur] = <<>> BY <1>1, <2>1, <2>3 DEF IInv, TurnsInv
    <2>6. TypeInv'
      BY <1>1, <1>3, <2>1, <2>2, <2>4 DEF IInv, TypeInv, TypeInput, TypeData, TypeControl
    <2>7. ControlInv'
      <3>1. pc' \notin OutputLabel \cup ParseLabel \cup {"exited"} BY <2>2, Distinct
      <3> QED BY <1>2, <1>3, <2>1, <2>2, <2>3, <2>4, <3>1 DEF ControlInv
    <2>8. TurnsInv'
      <3>1. pc' \notin ParseLabel \cup {"dispatch"} BY <2>2, Distinct
      <3> SUFFICES ASSUME NEW t \in 1 .. 6
                   PROVE  /\ t > turn => bank'[HandlerOrder[t]] = Unset /\ log'[HandlerOrder[t]] = <<>>
                          /\ t < turn /\ HandlerOrder[t] \in Requested => bank'[HandlerOrder[t]] # Unset
        BY <1>3, <2>1, <3>1 DEF TurnsInv
      <3>2. t # turn => HandlerOrder[t] # Cur /\ bank'[HandlerOrder[t]] = bank[HandlerOrder[t]]
        BY <2>1, <2>3, <2>4, OrderInjective
      <3>3. t > turn \/ t < turn => t # turn BY <2>1
      <3> QED BY <1>3, <3>2, <3>3 DEF IInv, TurnsInv
    <2>9. LogReplays'
      <3> SUFFICES ASSUME ~short, NEW n \in Mr, bank'[n] # Unset
                   PROVE  Digests(log'[n]) = bank'[n] BY <1>3 DEF LogReplays, Journal
      <3>1. CASE n = Cur
        <4>1. Digests(<<>>) = <<>> BY DEF Digests
        <4> QED BY <1>3, <2>4, <2>5, <3>1, <4>1
      <3>2. CASE n # Cur BY <1>3, <2>4, <3>2 DEF IInv, LogReplays, Journal
      <3> QED BY <3>1, <3>2
    <2> QED BY <1>5, <2>6, <2>7, <2>8, <2>9 DEF IInv
  <1>8. CASE AllCalculated
    <2>0. turn = 7
      <3>1. turn > 6 BY <1>8 DEF AllCalculated
      <3> QED BY <1>1, <3>1
    <2>1. turn = 7 /\ turn' = 7 /\ pc' = "open log" /\ bank' = bank
      BY <1>8, <2>0 DEF AllCalculated, Goto, Skip
    <2>2. pc' \in OutputLabel /\ pc' \notin HandlerLabel \cup ParseLabel \cup {"dispatch", "exited"}
      BY <2>1, Distinct DEF OutputLabel, ParseLabel
    <2>3. TypeInv'
      <3>1. 7 \in 1 .. 7 /\ 1 \in Nat \ {0} OBVIOUS
      <3>2. TypeControl' BY <1>3, <2>1, <3>1, Zenon DEF IInv, TypeInv, TypeControl, Label
      <3> QED BY <1>3, <2>1, <3>2 DEF IInv, TypeInv, TypeInput, TypeData
    <2>4. ControlInv' BY <1>1, <1>2, <1>3, <2>1, <2>2 DEF ControlInv
    <2>5. TurnsInv'
      <3>0. \A t \in 1 .. 6 : ~(t > 7) OBVIOUS
      <3>1. \A t \in 1 .. 6 : ~(t > turn') BY <2>1, <3>0, Zenon
      <3> QED BY <1>3, <2>1, <2>2, <3>1 DEF IInv, TurnsInv
    <2>6. LogReplays' BY <1>3, <2>1 DEF IInv, LogReplays, Journal, Digests
    <2> QED BY <1>5, <2>3, <2>4, <2>5, <2>6 DEF IInv
  <1> QED BY <1>6, <1>7, <1>8 DEF Dispatch

-----------------------------------------------------------------------------
(* main, the output *)

\* The tokens of the event log.
LogToken == {tok \in TokenSet : tok.t # "mr"}

LEMMA TokenType0 ==
  ASSUME NEW t \in TokenType, NEW n \in Mr, NEW v \in Seq(Digest) \cup {Unset}
  PROVE  /\ Token(t, n, v) \in TokenSet
         /\ Token(t, n, v).t = t /\ Token(t, n, v).mr = n /\ Token(t, n, v).value = v
  BY DEF Token, TokenSet

Mark == {"[", "]", ","}

LEMMA MarkType ==
  /\ "[" \in Mark /\ "]" \in Mark /\ "," \in Mark
  /\ \A t \in Mark : t \in TokenType /\ t # "mr" BY Zenon DEF Mark, TokenType

LEMMA PunctuationType ==
  ASSUME NEW t \in Mark
  PROVE  Punctuation(t) \in Seq(LogToken)
  <1>1. t \in TokenType /\ t # "mr" BY MarkType
  <1>2. 0 \in Mr /\ <<>> \in Seq(Digest) \cup {Unset}
    <2>1. 0 \in Mr BY DEF Mr
    <2>2. <<>> \in Seq(Digest) OBVIOUS
    <2> QED BY <2>1, <2>2
  <1>3. Token(t, 0, <<>>) \in LogToken
    <2>1. Token(t, 0, <<>>) \in TokenSet /\ Token(t, 0, <<>>).t = t
      <3>1. \A u \in TokenType, n \in Mr, v \in Seq(Digest) \cup {Unset} :
              Token(u, n, v) \in TokenSet /\ Token(u, n, v).t = u BY TokenType0
      <3> QED BY <1>1, <1>2, <3>1, Zenon
    <2> QED BY <1>1, <2>1, Zenon DEF LogToken
  <1>4. <<>> \in Seq(LogToken) /\ <<Token(t, 0, <<>>)>> \in Seq(LogToken)
    BY <1>3, SeqOfOne, Zenon
  <1> QED BY <1>4, Zenon DEF Punctuation

LEMMA LogTokensType ==
  ASSUME TypeInv, NEW n \in Mr
  PROVE  LogTokens(n) \in Seq(LogToken)
  <1>1. log[n] \in Seq(Entry) BY DEF TypeInv, TypeData
  <1>2. ASSUME NEW e \in Entry, NEW last \in BOOLEAN
        PROVE  EntryTokens(n, e, last) \in Seq(LogToken)
    <2>1. <<e.digest>> \in Seq(Digest) BY DEF Entry
    <2>2. \A t \in {"event", "broken", "cut"} : t \in TokenType /\ t # "mr" BY DEF TokenType
    <2>3. \A t \in {"event", "broken", "cut"} : Token(t, n, <<e.digest>>) \in LogToken
      <3>1. <<e.digest>> \in Seq(Digest) \cup {Unset} BY <2>1, Zenon
      <3>2. \A u \in TokenType, m \in Mr, v \in Seq(Digest) \cup {Unset} :
              Token(u, m, v) \in TokenSet /\ Token(u, m, v).t = u BY TokenType0
      <3>3. \A t \in {"event", "broken", "cut"} :
              Token(t, n, <<e.digest>>) \in TokenSet /\ Token(t, n, <<e.digest>>).t # "mr"
        BY <2>2, <3>1, <3>2, Zenon
      <3> QED BY <3>3, Zenon DEF LogToken
    <2> DEFINE t == IF Json /\ e.text = "raw" THEN "broken" ELSE "event"
    <2>a. Token(t, n, <<e.digest>>) \in LogToken /\ Token("cut", n, <<e.digest>>) \in LogToken
      BY <2>3, Zenon
    <2>4. Punctuation("]") \in Seq(LogToken) /\ Punctuation(",") \in Seq(LogToken)
      BY PunctuationType, MarkType, Zenon
    <2>5. Punctuation(IF last THEN "]" ELSE ",") \in Seq(LogToken) BY <2>4, Zenon
    <2>6. /\ <<Token("cut", n, <<e.digest>>)>> \in Seq(LogToken)
          /\ <<Token(t, n, <<e.digest>>)>> \o Punctuation(IF last THEN "]" ELSE ",") \in Seq(LogToken)
      BY <2>5, <2>a, SeqOfOne, ConcatElements, Zenon
    <2> QED BY <2>6, Zenon DEF EntryTokens
  <1> DEFINE parts == [k \in DOMAIN log[n] |-> EntryTokens(n, log[n][k], LastLog(n) /\ k = Len(log[n]))]
  <1>3. Len(log[n]) \in Nat /\ DOMAIN log[n] = 1 .. Len(log[n]) /\ \A k \in 1 .. Len(log[n]) : log[n][k] \in Entry
    BY <1>1
  <1>4. \A k : (LastLog(n) /\ k = Len(log[n])) \in BOOLEAN OBVIOUS
  <1>5. \A k \in 1 .. Len(log[n]) :
          EntryTokens(n, log[n][k], LastLog(n) /\ k = Len(log[n])) \in Seq(LogToken)
    BY <1>2, <1>3, <1>4, Zenon
  <1>6. parts \in [1 .. Len(log[n]) -> Seq(LogToken)] BY <1>3, <1>5
  <1>7. parts \in Seq(Seq(LogToken))
    <2> HIDE DEF parts
    <2> QED BY <1>3, <1>6, FunctionIsSeq
  <1> QED BY <1>7, FlattenType DEF LogTokens

IsConcat(s, a, b) ==
  \A k \in DOMAIN s : (\E j \in DOMAIN a : j = k /\ s[k] = a[j]) \/ \E j \in DOMAIN b : s[k] = b[j]

LEMMA TokensConcat ==
  ASSUME NEW a \in Seq(TokenSet), NEW b \in Seq(TokenSet)
  PROVE  IsConcat(a \o b, a, b) BY ConcatElements DEF IsConcat

LEMMA TokensKept ==
  ASSUME NEW a \in Seq(TokenSet), NEW b \in Seq(TokenSet)
  PROVE  /\ \A j \in DOMAIN a : j \in DOMAIN (a \o b) /\ (a \o b)[j] = a[j]
         /\ \A j \in DOMAIN b : \E k \in DOMAIN (a \o b) : (a \o b)[k] = b[j] BY ConcatKeeps

\* A step of the output adds tokens; registers are among them in the summary
\* only, with their values.
LEMMA OutputStepKeeps ==
  ASSUME IInv, pc \in OutputLabel, UNCHANGED <<argv, opts, fs, short, bank, log, turn>>,
         NEW ts \in Seq(TokenSet), out' = out \o ts,
         \A k \in DOMAIN ts : ts[k].t = "mr" =>
           pc = "print summary" /\ ts[k].mr \in Requested /\ ts[k].value = bank[ts[k].mr],
         pc = "print summary" => pc' = "print summary" \/ ret' = 0,
         \/ pc' \in OutputLabel /\ ret' = ret
         \/ pc' = "exited" /\ ret' = 0,
         i' \in Nat \ {0}
  PROVE  IInv'
  <1>1. ValidRequest /\ ret = 1 /\ ret # 0 /\ turn = 7
    <2>1. ValidRequest /\ turn = 7 BY DEF IInv, ControlInv
    <2> QED BY <2>1, Running, Zenon DEF OutputLabel
  <1>2. ValidRequest' /\ Requested' = Requested BY <1>1 DEF ValidRequest, Requested, Given
  <1>3. pc' \notin HandlerLabel \cup ParseLabel /\ pc' # "dispatch" /\ pc' \in Label
    BY Distinct DEF OutputLabel, ParseLabel, Label
  <1>4. pc \notin ParseLabel /\ pc # "dispatch" BY DEF OutputLabel, ParseLabel
  <1>5. TypeInv'
    <2>1. out' \in Seq(TokenSet) BY ConcatProperties DEF IInv, TypeInv, TypeData
    <2>2. TypeControl' BY <1>3 DEF IInv, TypeInv, TypeControl
    <2> QED BY <2>1, <2>2 DEF IInv, TypeInv, TypeInput, TypeData
  <1>6. ControlInv'
    <2>1. pc' # "exited" => ret' = 1 BY <1>1 DEF OutputLabel
    <2> QED BY <1>1, <1>2, <1>3, <2>1, Zenon DEF ControlInv, OutputLabel
  <1>7. TurnsInv' BY <1>2, <1>3, <1>4 DEF IInv, TurnsInv
  <1>8. \A k \in DOMAIN out' : (\E j \in DOMAIN out : j = k /\ out'[k] = out[j])
                               \/ \E j \in DOMAIN ts : out'[k] = ts[j]
    <2>1. out \in Seq(TokenSet) BY DEF IInv, TypeInv, TypeData
    <2>2. IsConcat(out \o ts, out, ts) BY <2>1, TokensConcat, Zenon
    <2> QED BY <2>2 DEF IsConcat
  <1>9. SilentInv'
    <2> SUFFICES ASSUME pc' # "print summary", ret' # 0, NEW k \in DOMAIN out'
                 PROVE  out'[k].t # "mr" BY DEF SilentInv
    <2>1. pc # "print summary" OBVIOUS
    <2>2. \A j \in DOMAIN out : out[j].t # "mr" BY <1>1, <2>1 DEF IInv, SilentInv
    <2> QED BY <1>8, <2>1, <2>2
  <1>10. PrintedInv'
    <2> SUFFICES ASSUME NEW k \in DOMAIN out', out'[k].t = "mr"
                 PROVE  out'[k].mr \in Requested /\ out'[k].value = bank[out'[k].mr]
      BY <1>2 DEF PrintedInv
    <2> QED BY <1>8 DEF IInv, PrintedInv
  <1>11. LogReplays' BY DEF IInv, LogReplays, Journal, Digests
  <1> QED BY <1>5, <1>6, <1>7, <1>9, <1>10, <1>11 DEF IInv

LEMMA LogTokenSeq ==
  ASSUME NEW ts \in Seq(LogToken)
  PROVE  ts \in Seq(TokenSet) /\ \A k \in DOMAIN ts : ts[k].t # "mr"
  <1>1. Len(ts) \in Nat /\ DOMAIN ts = 1 .. Len(ts) /\ \A k \in DOMAIN ts : ts[k] \in LogToken
    BY SeqIsFunction, Zenon
  <1>2. ts \in [1 .. Len(ts) -> LogToken] BY SeqIsFunction, Zenon
  <1>3. LogToken \subseteq TokenSet /\ \A tok \in LogToken : tok.t # "mr" BY DEF LogToken
  <1>4. ts \in [1 .. Len(ts) -> TokenSet] BY <1>1, <1>2, <1>3
  <1> QED BY <1>1, <1>3, <1>4, FunctionIsSeq

\* A step of the output that prints no register.
LEMMA LogStepKeeps ==
  ASSUME IInv, pc \in OutputLabel, UNCHANGED <<argv, opts, fs, short, bank, log, turn>>,
         NEW ts \in Seq(LogToken), out' = out \o ts,
         pc = "print summary" => pc' = "print summary" \/ ret' = 0,
         \/ pc' \in OutputLabel /\ ret' = ret
         \/ pc' = "exited" /\ ret' = 0,
         i' \in Nat \ {0}
  PROVE  IInv' BY LogTokenSeq, OutputStepKeeps

LEMMA PrintedMr ==
  ASSUME IInv, pc \in OutputLabel, i <= Len(opts.mrs)
  PROVE  opts.mrs[i] \in Mr /\ opts.mrs[i] \in Requested
  <1>1. opts.mrs \in Seq(Nat) /\ i \in Nat \ {0}
    BY DEF IInv, TypeInv, TypeInput, TypeControl, Options
  <1>2. i \in DOMAIN opts.mrs BY <1>1
  <1>3. Requested \subseteq Mr BY DEF IInv, ControlInv, ValidRequest
  <1> QED BY <1>2, <1>3 DEF Requested

\* Every step of the output but PrintRegister prints no register.
LEMMA OutputForm ==
  ASSUME IInv, Output
  PROVE  /\ pc \in OutputLabel
         /\ UNCHANGED <<argv, opts, fs, short, bank, log, turn>>
         /\ i' \in Nat \ {0}
         /\ pc = "print summary" => pc' = "print summary" \/ ret' = 0
         /\ \/ pc' \in OutputLabel /\ ret' = ret
            \/ pc' = "exited" /\ ret' = 0
         /\ PrintRegister \/ \E ts \in Seq(LogToken) : out' = out \o ts
  <1>1. pc \in OutputLabel
    BY DEF Output, OpenLog, PrintLog, LogDone, OpenSummary, PrintRegister, SummaryDone, OutputLabel
  <1>2. /\ UNCHANGED <<argv, opts, fs, short, bank, log, turn>> /\ out \in Seq(TokenSet)
        /\ i' \in Nat \ {0}
    <2>1. UNCHANGED <<argv, opts, fs, short, bank, log, turn>> /\ i' \in {1, i, i + 1}
      BY Zenon DEF Output, OpenLog, PrintLog, LogDone, OpenSummary, PrintRegister, SummaryDone, Emit,
         Skip, Goto, Again, environment
    <2>2. out \in Seq(TokenSet) /\ i \in Nat \ {0}
      BY DEF IInv, TypeInv, TypeControl, TypeData
    <2>3. i' \in Nat \ {0} BY <2>1, <2>2
    <2> QED BY <2>1, <2>2, <2>3
  <1>3. out \o <<>> = out /\ <<>> \in Seq(LogToken) BY <1>2, ConcatEmpty
  <1>4. {"print log", "open summary", "print summary"} \subseteq OutputLabel
    BY DEF OutputLabel
  <1>5. CASE OpenLog
    <2>1. Punctuation("[") \in Seq(LogToken) BY PunctuationType, MarkType, Zenon
    <2>2. \E ts \in Seq(LogToken) : out' = out \o ts
      BY <1>3, <1>5, <2>1, Zenon DEF OpenLog, Emit, Skip
    <2>3. pc # "print summary" /\ pc' \in OutputLabel /\ ret' = ret
      BY <1>4, <1>5, Zenon DEF OpenLog, Emit, Skip, Goto
    <2> QED BY <1>1, <1>2, <2>2, <2>3
  <1>6. CASE PrintLog
    <2>1. LogTokens(opts.mrs[i]) \in Seq(LogToken)
      BY <1>1, <1>6, PrintedMr, LogTokensType DEF PrintLog, IInv
    <2>2. /\ pc # "print summary" /\ pc' \in OutputLabel /\ ret' = ret
          /\ out' = out \o LogTokens(opts.mrs[i]) BY <1>1, <1>6 DEF PrintLog, Again, Emit
    <2> QED BY <1>1, <1>2, <2>1, <2>2
  <1>7. CASE LogDone
    <2>1. /\ pc # "print summary" /\ pc' \in OutputLabel /\ ret' = ret
          /\ out' = out \o <<>> BY <1>3, <1>4, <1>7 DEF LogDone, Goto, Skip
    <2> QED BY <1>1, <1>2, <1>3, <2>1
  <1>8. CASE OpenSummary
    <2>1. Punctuation("[") \in Seq(LogToken) BY PunctuationType, MarkType, Zenon
    <2>2. \E ts \in Seq(LogToken) : out' = out \o ts
      BY <1>3, <1>8, <2>1, Zenon DEF OpenSummary, Emit
    <2>3. /\ pc # "print summary"
          /\ \/ pc' \in OutputLabel /\ ret' = ret
             \/ pc' = "exited" /\ ret' = 0 BY <1>4, <1>8 DEF OpenSummary, Emit, Goto
    <2> QED BY <1>1, <1>2, <2>2, <2>3
  <1>9. CASE PrintRegister
    <2>1. pc' = pc /\ ret' = ret BY <1>9 DEF PrintRegister, Again, Emit
    <2> QED BY <1>1, <1>2, <1>9, <2>1
  <1>10. CASE SummaryDone
    <2>1. Punctuation("]") \in Seq(LogToken) BY PunctuationType, MarkType, Zenon
    <2>2. pc' = "exited" /\ ret' = 0 /\ out' = out \o Punctuation("]")
      BY <1>10 DEF SummaryDone
    <2> QED BY <1>1, <1>2, <2>1, <2>2
  <1> QED BY <1>5, <1>6, <1>7, <1>8, <1>9, <1>10 DEF Output

\* The tokens of one line of the summary.
Line(ts, n) ==
  /\ \A k \in DOMAIN ts : ts[k].t = "mr" => ts[k].mr = n /\ ts[k].value = bank[n]
  /\ \E k \in DOMAIN ts : ts[k].t = "mr" /\ ts[k].mr = n

LEMMA PrintForm ==
  ASSUME IInv, PrintRegister
  PROVE  \E n \in Mr, ts \in Seq(TokenSet) :
           n \in Requested /\ pc = "print summary" /\ pc' = pc /\ out' = out \o ts /\ Line(ts, n)
  <1> DEFINE n == opts.mrs[i]
             line == Token("mr", n, bank[n])
             rest == IF i < Len(opts.mrs) THEN Punctuation(",") ELSE <<>>
             ts == <<line>> \o rest
  <1>0. pc \in OutputLabel BY DEF PrintRegister, OutputLabel
  <1>1. n \in Mr /\ n \in Requested BY <1>0, PrintedMr DEF PrintRegister
  <1>2. bank[n] \in Seq(Digest) \cup {Unset} BY <1>1 DEF IInv, TypeInv, TypeData
  <1>3. line \in TokenSet /\ line.t = "mr" /\ line.mr = n /\ line.value = bank[n]
    <2>1. "mr" \in TokenType BY DEF TokenType
    <2> HIDE DEF n
    <2> QED BY <1>1, <1>2, <2>1, TokenType0
  <1>4. rest \in Seq(LogToken)
    <2>1. <<>> \in Seq(LogToken) OBVIOUS
    <2> QED BY <2>1, PunctuationType, MarkType, Zenon
  <1>5. rest \in Seq(TokenSet) /\ \A k \in DOMAIN rest : rest[k].t # "mr"
    <2> HIDE DEF rest
    <2> QED BY <1>4, LogTokenSeq
  <1>6. /\ ts \in Seq(TokenSet)
        /\ \A k \in DOMAIN ts : ts[k] = line \/ \E j \in DOMAIN rest : ts[k] = rest[j]
        /\ 1 \in DOMAIN ts /\ ts[1] = line
    <2> HIDE DEF line, rest
    <2> QED BY <1>3, <1>5
  <1>7. Line(ts, n)
    <2> HIDE DEF ts, line, rest, n
    <2>1. \A k \in DOMAIN ts : ts[k].t = "mr" => ts[k].mr = n /\ ts[k].value = bank[n]
      BY <1>3, <1>5, <1>6
    <2> QED BY <1>3, <1>6, <2>1 DEF Line
  <1>8. pc = "print summary" /\ pc' = pc /\ out' = out \o ts
    BY DEF PrintRegister, Again, Emit
  <1> HIDE DEF ts, n
  <1> QED BY <1>1, <1>6, <1>7, <1>8

LEMMA OutputKeeps ==
  ASSUME IInv, Output
  PROVE  IInv'
  <1>1. CASE PrintRegister
    <2>1. PICK n \in Mr, ts \in Seq(TokenSet) :
            n \in Requested /\ pc = "print summary" /\ pc' = pc /\ out' = out \o ts /\ Line(ts, n)
      BY <1>1, PrintForm
    <2>2. \A k \in DOMAIN ts : ts[k].t = "mr" =>
            pc = "print summary" /\ ts[k].mr \in Requested /\ ts[k].value = bank[ts[k].mr]
      BY <2>1 DEF Line
    <2> QED BY <2>1, <2>2, OutputForm, OutputStepKeeps
  <1>2. ASSUME NEW ts \in Seq(LogToken), out' = out \o ts
        PROVE  IInv' BY <1>2, OutputForm, LogStepKeeps
  <1> QED BY <1>1, <1>2, OutputForm

-----------------------------------------------------------------------------
(* The invariant *)

LEMMA InitInv == Init => IInv
  <1> SUFFICES ASSUME Init PROVE IInv OBVIOUS
  <1>1. TypeInput
    <2>1. argv \in Seq(Argument) BY CommandLinesAssumption DEF Init
    <2>2. fs \in [File -> FileState] /\ short \in BOOLEAN BY FilesAssumption DEF Init
    <2>3. opts \in Options
      <3>1. NoFile \in Name /\ <<>> \in Seq(Name) /\ <<>> \in Seq(Nat) BY DEF Name
      <3> QED BY <3>1 DEF Init, Options
    <2> QED BY <2>1, <2>2, <2>3 DEF TypeInput
  <1>2. TypeData
    <2>1. <<>> \in Seq(Entry) /\ <<>> \in Seq(TokenSet) OBVIOUS
    <2> QED BY <2>1 DEF Init, TypeData
  <1>3. TypeControl
    <2>1. turn = 1 /\ i = 1 /\ ret = 1 /\ pc = "start" BY DEF Init
    <2>2. 1 \in 1 .. 7 /\ 1 \in Nat \ {0} /\ 1 \in {-1, 0, 1} OBVIOUS
    <2> QED BY <2>1, <2>2, Zenon DEF TypeControl, Label
  <1>4. /\ turn = 1 /\ ret = 1 /\ ret # 0 /\ pc = "start" /\ out = <<>>
        /\ \A n \in Mr : bank[n] = Unset /\ log[n] = <<>> BY DEF Init
  <1>5. ControlInv BY <1>4, Distinct, Zenon DEF ControlInv, ParseLabel, OutputLabel
  <1>6. TurnsInv
    <2>1. \A t \in 1 .. 6 : ~(t < 1) OBVIOUS
    <2> QED BY <1>4, <2>1, OrderInjective DEF TurnsInv
  <1>7. SilentInv /\ PrintedInv BY <1>4 DEF SilentInv, PrintedInv
  <1>8. LogReplays BY <1>4 DEF LogReplays
  <1> QED BY <1>1, <1>2, <1>3, <1>5, <1>6, <1>7, <1>8 DEF IInv, TypeInv

LEMMA NextInv == IInv /\ [Next]_vars => IInv'
  <1> SUFFICES ASSUME IInv, [Next]_vars PROVE IInv' OBVIOUS
  <1>1. CASE Parse BY <1>1, ParseKeeps
  <1>2. CASE Dispatch BY <1>2, DispatchKeeps
  <1>3. CASE CalculateMrseam \/ CalculateMrtd \/ CalculateRtmr0 \/ CalculateRtmr1 \/ CalculateRtmr2
               \/ CalculateRtmr3
    <2>1. CASE HandlerStep BY <2>1, HandlerKeeps
    <2>2. CASE Stops
      <3>1. pc \in HandlerLabel
        BY <1>3 DEF CalculateMrseam, CalculateMrtd, CalculateRtmr0, CalculateRtmr1, CalculateRtmr2,
           CalculateRtmr3, MeasureTdxModule, MeasureFirmware, MeasureTdHob, MeasureCfv,
           MeasureSecureBootVar, SecureBootDone, MeasureSeparator, MeasureAcpi, AcpiDone,
           MeasureBootOrder, MeasureDefaultBootOption, MeasureBootOption, BootOptionsDone,
           MeasureLastSeparator, MeasureKernel, DumpKernel, MeasureBootAction, MeasureBootSeparator,
           MeasureExitBoot, MeasureBootExited, MeasureCmdline, MeasureNothing, HandlerLabel,
           Rtmr0Label, Rtmr1Label
      <3>2. pc \notin OutputLabel \cup {"exited", "crashed"} BY <3>1, Distinct
      <3> QED BY <2>2, <3>2, StopsKeeps
    <2> QED BY <1>3, <2>1, <2>2, HandlerForm
  <1>4. CASE Output BY <1>4, OutputKeeps
  <1>5. CASE OutOfMemory
    <2>1. pc \notin OutputLabel \cup {"exited", "crashed"}
      BY <1>5 DEF OutOfMemory, OutputLabel
    <2> QED BY <1>5, <2>1, StopsKeeps DEF OutOfMemory, Stops
  <1>6. CASE UNCHANGED vars
    <2>1. UNCHANGED <<argv, opts, fs, short, pc, turn, i, bank, log, out, ret>>
      BY <1>6 DEF vars
    <2>2. TypeInv' BY <2>1 DEF IInv, TypeInv, TypeInput, TypeData, TypeControl
    <2>3. ControlInv' /\ TurnsInv' /\ SilentInv' /\ PrintedInv'
      BY <2>1 DEF IInv, ControlInv, TurnsInv, SilentInv, PrintedInv, ValidRequest, Requested, Cur, Given
    <2>4. LogReplays' BY <2>1 DEF IInv, LogReplays, Journal, Digests
    <2> QED BY <2>2, <2>3, <2>4 DEF IInv
  <1> QED BY <1>1, <1>2, <1>3, <1>4, <1>5, <1>6 DEF Next, Terminated

\* The invariant of every run: which handler runs and on which register, that
\* the registers of the later handlers are untouched, that nothing has been
\* printed before the summary, and that the log replays (main.c:281-480).
THEOREM InvariantHolds == Spec => []IInv
  BY InitInv, NextInv, PTL DEF Spec

\* Every variable keeps its range, and whoever replays the event log of a
\* register gets the register, also while its handler runs and after the error
\* paths that return success, unless an allocation failed (mrs.c:55-401,
\* main.c:385-430).
THEOREM LogsAreSound == Spec => []LogsSound
  <1>1. IInv => LogsSound
    <2> SUFFICES ASSUME IInv PROVE LogsSound OBVIOUS
    <2>1. \A k \in DOMAIN out : out[k].t \in TokenType /\ out[k].mr \in Mr
      <3>1. \A k \in DOMAIN out : out[k] \in TokenSet BY DEF IInv, TypeInv, TypeData
      <3> QED BY <3>1 DEF TokenSet
    <2> QED BY <2>1 DEF IInv, TypeInv, TypeInput, TypeData, TypeControl, LogsSound, TypeOK
  <1> QED BY <1>1, InvariantHolds, PTL

\* A run that fails or is killed has printed no register: what reaches the
\* output is never the beginning of a result (main.c:387-430).
THEOREM FailuresAreSilent == Spec => []FailureIsSilent
  <1>1. IInv => FailureIsSilent
    <2> SUFFICES ASSUME IInv, ret = -1 \/ pc = "crashed"
                 PROVE  \A k \in DOMAIN out : out[k].t # "mr" BY DEF FailureIsSilent
    <2>1. ret # 0 /\ pc # "print summary"
      <3>1. CASE ret = -1
        <4>1. -1 # 1 /\ -1 # 0 OBVIOUS
        <4> QED BY <3>1, <4>1, Zenon DEF IInv, ControlInv
      <3>2. CASE pc = "crashed"
        <4>1. 1 # 0 OBVIOUS
        <4> QED BY <3>2, <4>1, Zenon DEF IInv, ControlInv
      <3> QED BY <3>1, <3>2
    <2> QED BY <2>1 DEF IInv, SilentInv
  <1> QED BY <1>1, InvariantHolds, PTL

-----------------------------------------------------------------------------
(* The calculator implements registers with a journal *)

\* The journal and the published registers of the mapping.
Listed == IF short THEN [n \in Mr |-> IF bank[n] = Unset THEN <<>> ELSE bank[n]] ELSE Journal

Shown == {n \in Mr : \E k \in DOMAIN out : out[k].t = "mr" /\ out[k].mr = n}

\* What a step does to registers and journal: one register is reset, extended
\* or printed, or none.
Resets(n) == bank[n] = Unset /\ bank' = [bank EXCEPT ![n] = <<>>] /\ UNCHANGED <<Listed, Shown>>

Extends(n, d) ==
  /\ bank[n] # Unset /\ n \notin Shown
  /\ bank' = [bank EXCEPT ![n] = Append(@, d)] /\ Listed' = [Listed EXCEPT ![n] = Append(@, d)]
  /\ Shown' = Shown

Shows(n) == bank[n] # Unset /\ Shown' = Shown \cup {n} /\ UNCHANGED <<bank, Listed>>

LEMMA ListedIsBank ==
  ASSUME IInv, NEW n \in Mr, bank[n] # Unset
  PROVE  Listed[n] = bank[n] /\ bank[n] \in Seq(Digest)
  <1>1. bank[n] \in Seq(Digest) BY DEF IInv, TypeInv, TypeData
  <1>2. CASE short
    <2>1. Listed = [m \in Mr |-> IF bank[m] = Unset THEN <<>> ELSE bank[m]]
      BY <1>2, Zenon DEF Listed
    <2> QED BY <1>1, <2>1
  <1>3. CASE ~short
    <2>1. Listed = Journal /\ Journal[n] = bank[n]
      BY <1>3, Zenon DEF Listed, IInv, LogReplays
    <2> QED BY <1>1, <2>1
  <1> QED BY <1>1, <1>2, <1>3, Zenon

LEMMA ListedType ==
  ASSUME IInv
  PROVE  DOMAIN Listed = Mr /\ Listed = [n \in Mr |-> Listed[n]] BY DEF Listed, Journal

LEMMA ShownSilent ==
  ASSUME IInv, pc # "print summary", ret # 0
  PROVE  Shown = {} BY DEF IInv, SilentInv, Shown

LEMMA Untouched ==
  ASSUME UNCHANGED <<bank, log, out, short>>
  PROVE  UNCHANGED <<bank, Listed, Shown>> BY DEF Listed, Shown, Journal, Digests

LEMMA MeasureExtends ==
  ASSUME IInv, pc \in HandlerLabel, NEW d \in Digest, NEW text \in Text, LogAndExtend(d, text)
  PROVE  Cur \in Mr /\ Extends(Cur, d)
  <1>1. /\ Cur \in Mr /\ bank[Cur] # Unset /\ bank[Cur] \in Seq(Digest) /\ log[Cur] \in Seq(Entry)
        /\ ret # 0 /\ pc # "print summary" BY HandlerTurn, Distinct DEF OutputLabel
  <1>2. /\ bank'[Cur] = Append(bank[Cur], d) /\ bank'[Cur] # Unset
        /\ \A n \in Mr : n # Cur => bank'[n] = bank[n] /\ log'[n] = log[n]
        /\ ~short => log'[Cur] = Append(log[Cur], [digest |-> d, text |-> text])
        /\ short' = short /\ out' = out BY Measured
  <1>3. Shown = {} /\ Shown' = Shown BY <1>1, <1>2, ShownSilent DEF Shown
  <1>4. bank' = [bank EXCEPT ![Cur] = Append(bank[Cur], d)] BY DEF LogAndExtend, HashExtend
  <1>5. Listed[Cur] = bank[Cur] BY <1>1, ListedIsBank
  <1>6. Listed'[Cur] = Append(Listed[Cur], d)
    <2>1. CASE short
      <3>1. Listed'[Cur] = bank'[Cur] BY <1>1, <1>2, <2>1 DEF Listed
      <3> QED BY <1>2, <1>5, <3>1
    <2>2. CASE ~short
      <3>1. Listed'[Cur] = Digests(log'[Cur]) /\ Listed[Cur] = Digests(log[Cur])
        BY <1>1, <1>2, <2>2 DEF Listed, Journal
      <3> QED BY <1>1, <1>2, <2>2, <3>1, DigestsAppend
    <2> QED BY <2>1, <2>2
  <1>7. \A n \in Mr : n # Cur => Listed'[n] = Listed[n] BY <1>2 DEF Listed, Journal
  <1>8. DOMAIN Listed' = Mr /\ Listed' = [n \in Mr |-> Listed'[n]] BY DEF Listed, Journal
  <1>9. Listed' = [Listed EXCEPT ![Cur] = Append(Listed[Cur], d)]
    <2>1. DOMAIN Listed = Mr BY ListedType
    <2> QED BY <1>1, <1>6, <1>7, <1>8, <2>1
  <1> QED BY <1>1, <1>3, <1>4, <1>9 DEF Extends

LEMMA OutputShows ==
  ASSUME IInv, Output
  PROVE  UNCHANGED <<bank, Listed, Shown>> \/ \E n \in Mr : Shows(n)
  <1>1. pc \in OutputLabel /\ UNCHANGED <<short, bank, log>> /\ out \in Seq(TokenSet)
    <2>1. pc \in OutputLabel
      BY DEF Output, OpenLog, PrintLog, LogDone, OpenSummary, PrintRegister, SummaryDone, OutputLabel
    <2>2. UNCHANGED <<short, bank, log>>
      BY Zenon DEF Output, OpenLog, PrintLog, LogDone, OpenSummary, PrintRegister, SummaryDone, Emit, Skip,
         environment
    <2> QED BY <2>1, <2>2 DEF IInv, TypeInv, TypeData
  <1>2. UNCHANGED <<bank, Listed>> BY <1>1 DEF Listed, Journal, Digests
  <1>3. ASSUME NEW ts \in Seq(LogToken), out' = out \o ts
        PROVE  Shown' = Shown
    <2>1. ts \in Seq(TokenSet) /\ \A k \in DOMAIN ts : ts[k].t # "mr" BY LogTokenSeq
    <2>2. IsConcat(out', out, ts) BY <1>1, <1>3, <2>1, TokensConcat
    <2>3. \A j \in DOMAIN out : j \in DOMAIN out' /\ out'[j] = out[j]
      BY <1>1, <1>3, <2>1, TokensKept
    <2>4. Shown \subseteq Shown' BY <2>3 DEF Shown
    <2>5. Shown' \subseteq Shown BY <2>1, <2>2 DEF Shown, IsConcat
    <2> QED BY <2>4, <2>5
  <1>4. CASE PrintRegister
    <2>1. PICK n \in Mr, ts \in Seq(TokenSet) :
            n \in Requested /\ pc = "print summary" /\ pc' = pc /\ out' = out \o ts /\ Line(ts, n)
      BY <1>4, PrintForm
    <2>2. IsConcat(out', out, ts) BY <1>1, <2>1, TokensConcat
    <2>3. /\ \A j \in DOMAIN out : j \in DOMAIN out' /\ out'[j] = out[j]
          /\ \A j \in DOMAIN ts : \E k \in DOMAIN out' : out'[k] = ts[j]
      BY <1>1, <2>1, TokensKept
    <2>4. Shown' = Shown \cup {n}
      <3>1. n \in Shown' /\ Shown \subseteq Shown'
        <4>1. PICK l \in DOMAIN ts : ts[l].t = "mr" /\ ts[l].mr = n BY <2>1, Zenon DEF Line
        <4>2. PICK k \in DOMAIN out' : out'[k] = ts[l] BY <2>3, Zenon
        <4>3. n \in Shown' BY <4>1, <4>2, Zenon DEF Shown
        <4>4. Shown \subseteq Shown' BY <2>3, Zenon DEF Shown
        <4> QED BY <4>3, <4>4
      <3>2. Shown' \subseteq Shown \cup {n} BY <2>1, <2>2 DEF Shown, Line, IsConcat
      <3> QED BY <3>1, <3>2
    <2>5. bank[n] # Unset
      <3>1. turn = 7 BY <1>1 DEF IInv, ControlInv
      <3>2. PICK t \in 1 .. 6 : HandlerOrder[t] = n BY OrderInjective
      <3>3. t < turn BY <3>1
      <3> QED BY <2>1, <3>2, <3>3 DEF IInv, TurnsInv
    <2> QED BY <1>2, <2>4, <2>5 DEF Shows
  <1>5. CASE \E ts \in Seq(LogToken) : out' = out \o ts BY <1>2, <1>3, <1>5
  <1> QED BY <1>4, <1>5, OutputForm

\* Every step resets, extends or prints one register, or none.
LEMMA StepOfRegisters ==
  ASSUME IInv, [Next]_vars
  PROVE  \/ UNCHANGED <<bank, Listed, Shown>>
         \/ \E n \in Mr : Resets(n) \/ Shows(n)
         \/ \E n \in Mr, d \in Digest : Extends(n, d)
  <1>1. CASE Parse
    <2>1. UNCHANGED <<bank, log, out, short>>
      BY <1>1, Zenon DEF Parse, Start, ParseFlag, ParseFormat, ParseMrs, ParseValue, ParseDump, ParseList,
         ParseAcpi, ParseInvalid, ParseEnd, Validate, Parsed, Fail, Skip, environment
    <2> QED BY <2>1, Untouched
  <1>2. CASE NotRequested \/ AllCalculated
    <2>1. UNCHANGED <<bank, log, out, short>>
      BY <1>2, Zenon DEF NotRequested, AllCalculated, Skip, environment
    <2> QED BY <2>1, Untouched
  <1>3. CASE CallHandler
    <2>1. turn \in 1 .. 6 /\ bank' = [bank EXCEPT ![Cur] = <<>>] /\ UNCHANGED <<short, log, out>>
      BY <1>3 DEF CallHandler, environment, IInv, TypeInv, TypeControl
    <2>2. Cur \in Mr /\ Cur = HandlerOrder[turn] BY <2>1, OrderInjective DEF Cur
    <2>3. bank[Cur] = Unset /\ pc = "dispatch"
      BY <1>3, <2>1, <2>2 DEF IInv, TurnsInv, CallHandler
    <2>4. Shown' = Shown BY <2>1 DEF Shown
    <2>5. Listed' = Listed
      <3>1. CASE short
        <4>1. bank \in [Mr -> Seq(Digest) \cup {Unset}] BY DEF IInv, TypeInv, TypeData
        <4>2. \A n \in Mr : n # Cur => bank'[n] = bank[n]
          <5> HIDE DEF Cur
          <5> QED BY <2>1, <2>2, <4>1
        <4>3. bank'[Cur] = <<>>
          <5> HIDE DEF Cur
          <5> QED BY <2>1, <2>2, <4>1
        <4>4. \A n \in Mr : (IF bank'[n] = Unset THEN <<>> ELSE bank'[n]) = IF bank[n] = Unset THEN <<>> ELSE bank[n]
          <5> HIDE DEF Cur
          <5> QED BY <2>2, <2>3, <4>2, <4>3
        <4> QED BY <2>1, <3>1, <4>4, Zenon DEF Listed
      <3>2. CASE ~short BY <2>1, <3>2 DEF Listed, Journal, Digests
      <3> QED BY <3>1, <3>2
    <2> QED BY <2>1, <2>2, <2>3, <2>4, <2>5 DEF Resets
  <1>4. CASE CalculateMrseam \/ CalculateMrtd \/ CalculateRtmr0 \/ CalculateRtmr1 \/ CalculateRtmr2
               \/ CalculateRtmr3
    <2>1. CASE HandlerStep
      <3>1. CASE Idle BY <3>1, Untouched DEF Idle, environment
      <3>2. CASE \E d \in Digest, text \in Text : LogAndExtend(d, text)
        BY <2>1, <3>2, MeasureExtends DEF HandlerStep
      <3> QED BY <2>1, <3>1, <3>2 DEF HandlerStep
    <2>2. CASE Stops BY <2>2, Untouched DEF Stops, Fail, Crash, environment
    <2> QED BY <1>4, <2>1, <2>2, HandlerForm
  <1>5. CASE Output BY <1>5, OutputShows
  <1>6. CASE OutOfMemory BY <1>6, Untouched DEF OutOfMemory, Crash, environment
  <1>7. CASE UNCHANGED vars BY <1>7, Untouched DEF vars
  <1> QED BY <1>1, <1>2, <1>3, <1>4, <1>5, <1>6, <1>7 DEF Next, Dispatch, Terminated

LEMMA TimesReflexive ==
  ASSUME NEW s \in Seq(Digest)
  PROVE  Registers!Accounts(s, s) /\ Registers!Balanced(s, s)
  <1>1. ASSUME NEW d
        PROVE  Registers!Times(d, s) \in Nat
    <2>1. Len(s) \in Nat /\ DOMAIN s = 1 .. Len(s) OBVIOUS
    <2>2. IsFiniteSet(1 .. Len(s)) BY <2>1, FS_Interval
    <2>3. IsFiniteSet({k \in DOMAIN s : s[k] = d}) BY <2>1, <2>2, FS_Subset
    <2>4. Cardinality({k \in DOMAIN s : s[k] = d}) \in Nat BY <2>3, FS_CardinalityType
    <2>5. Registers!Cardinality({k \in DOMAIN s : s[k] = d}) = Cardinality({k \in DOMAIN s : s[k] = d})
      BY Zenon DEF Registers!Cardinality, Cardinality
    <2> QED BY <2>4, <2>5 DEF Registers!Times
  <1>2. \A d : Registers!Times(d, s) <= Registers!Times(d, s) BY <1>1
  <1> QED BY <1>2 DEF Registers!Accounts, Registers!Balanced

LEMMA AddedOne ==
  ASSUME NEW s \in Seq(Digest), NEW d \in Digest
  PROVE  Registers!Added(s, Append(s, d)) = <<d>> /\ s \o <<d>> = Append(s, d)
  <1>1. SubSeq(Append(s, d), Len(s) + 1, Len(Append(s, d))) = <<d>>
    <2> DEFINE t == Append(s, d)
               n == Len(s)
    <2>1. t \in Seq(Digest) /\ n \in Nat /\ Len(t) = n + 1 /\ t[n + 1] = d OBVIOUS
    <2> HIDE DEF t, n
    <2>2. /\ SubSeq(t, n + 1, n + 1) \in Seq(Digest) /\ Len(SubSeq(t, n + 1, n + 1)) = 1
          /\ SubSeq(t, n + 1, n + 1)[1] = t[n + 1] BY <2>1
    <2>3. \A x \in Seq(Digest) : Len(x) = 1 => x = <<x[1]>> OBVIOUS
    <2>4. SubSeq(t, n + 1, n + 1) = <<t[n + 1]>> BY <2>2, <2>3, Zenon
    <2> QED BY <2>1, <2>4 DEF t, n
  <1>2. s \o <<d>> = Append(s, d) OBVIOUS
  <1> QED BY <1>1, <1>2 DEF Registers!Added

\* The calculator implements registers with a journal: a digest is journalled
\* and extended in one step, into a register that has been reset and not been
\* printed, and a register is printed when the journal accounts for all of it
\* (mrs.c:55-401, main.c:385-480).  When an allocation may fail the log can be
\* lost with what it lists, see Registers in TdxReference.
THEOREM ImplementsJournal == Spec => ImplementsRegisters
  <1>1. Init => Registers!AbsInit
    <2> SUFFICES ASSUME Init PROVE Registers!AbsInit OBVIOUS
    <2>1. \A n \in Mr : bank[n] = Unset /\ log[n] = <<>> BY DEF Init
    <2>2. Shown = {} BY DEF Init, Shown
    <2>3. Listed = [n \in Mr |-> <<>>]
      <3>1. Digests(<<>>) = <<>> BY DEF Digests
      <3>2. CASE short BY <2>1, <3>2 DEF Listed
      <3>3. CASE ~short BY <2>1, <3>1, <3>3 DEF Listed, Journal
      <3> QED BY <3>2, <3>3
    <2>4. bank = [n \in Mr |-> Unset] BY DEF Init
    <2> QED BY <2>2, <2>3, <2>4, Zenon DEF Registers!AbsInit, Listed, Shown
  <1>2. IInv /\ [Next]_vars => [Registers!AbsNext]_(Registers!absVars)
    <2> SUFFICES ASSUME IInv, [Next]_vars
                 PROVE  [Registers!AbsNext]_(Registers!absVars) OBVIOUS
    <2>1. CASE UNCHANGED <<bank, Listed, Shown>>
      BY <2>1, Zenon DEF Registers!absVars, Listed, Shown
    <2>2. ASSUME NEW n \in Mr, Resets(n)
          PROVE  Registers!Reset(n)
      BY <2>2, Zenon DEF Registers!Reset, Resets, Listed, Shown
    <2>3. ASSUME NEW n \in Mr, Shows(n)
          PROVE  Registers!Publish({n})
      <3>1. Listed[n] = bank[n] /\ bank[n] \in Seq(Digest) /\ bank[n] # Unset
        BY <2>3, ListedIsBank DEF Shows
      <3>2. Registers!Balanced(bank[n], Listed[n]) BY <3>1, TimesReflexive
      <3> QED BY <2>3, <3>1, <3>2, Zenon DEF Registers!Publish, Shows, Listed, Shown
    <2>4. ASSUME NEW n \in Mr, NEW d \in Digest, Extends(n, d)
          PROVE  Registers!AbsNext
      <3> DEFINE js == Registers!Added(Listed[n], Listed'[n])
                 es == Registers!Added(bank[n], bank'[n])
      <3>1. Listed[n] = bank[n] /\ bank[n] \in Seq(Digest) /\ bank[n] # Unset
        BY <2>4, ListedIsBank DEF Extends
      <3>2. Listed'[n] = Append(Listed[n], d) /\ bank'[n] = Append(bank[n], d)
        <4>1. DOMAIN Listed = Mr /\ DOMAIN bank = Mr
          BY ListedType DEF IInv, TypeInv, TypeData
        <4>2. Listed' = [Listed EXCEPT ![n] = Append(Listed[n], d)] /\ bank' = [bank EXCEPT ![n] = Append(bank[n], d)]
          BY <2>4 DEF Extends
        <4> QED BY <4>1, <4>2
      <3>3. js = <<d>> /\ es = <<d>> BY <3>1, <3>2, AddedOne
      <3>4. bank[n] \o <<d>> = Append(bank[n], d) /\ Listed[n] \o <<d>> = Append(Listed[n], d)
        BY <3>1, AddedOne
      <3>5. Registers!Accounts(Listed[n] \o <<d>>, bank[n] \o <<d>>)
        <4>1. Append(bank[n], d) \in Seq(Digest) BY <3>1
        <4> QED BY <3>1, <3>4, <4>1, TimesReflexive
      <3>6. Listed' = [Listed EXCEPT ![n] = Listed[n] \o <<d>>] /\ bank' = [bank EXCEPT ![n] = bank[n] \o <<d>>]
        BY <2>4, <3>4 DEF Extends
      <3>7. /\ Registers!Accounts(Listed[n] \o js, bank[n] \o es)
            /\ Listed' = [Listed EXCEPT ![n] = Listed[n] \o js] /\ bank' = [bank EXCEPT ![n] = bank[n] \o es]
        <4> HIDE DEF js, es
        <4> QED BY <3>3, <3>5, <3>6
      <3>8. n \notin Shown /\ UNCHANGED Shown /\ bank[n] # Unset BY <2>4 DEF Extends
      <3> DEFINE Adds(r) ==
                   /\ bank[r] # Unset /\ r \notin Shown
                   /\ Registers!Accounts(Listed[r] \o Registers!Added(Listed[r], Listed'[r]),
                                         bank[r] \o Registers!Added(bank[r], bank'[r]))
                   /\ Listed' = [Listed EXCEPT ![r] = @ \o Registers!Added(Listed[r], Listed'[r])]
                   /\ bank' = [bank EXCEPT ![r] = @ \o Registers!Added(bank[r], bank'[r])]
                   /\ UNCHANGED Shown
      <3>9. Adds(n) BY <3>7, <3>8, Zenon
      <3>10. \E r \in Mr : Adds(r) BY <3>9, Zenon
      <3> QED BY <3>10, Zenon DEF Registers!AbsNext, Registers!Advance, Listed, Shown
    <2>6. ASSUME NEW n \in Mr, Resets(n) \/ Shows(n)
          PROVE  Registers!AbsNext BY <2>2, <2>3, <2>6, Zenon DEF Registers!AbsNext
    <2> QED BY <2>1, <2>4, <2>6, StepOfRegisters
  <1> QED BY <1>1, <1>2, InvariantHolds, PTL DEF Spec, ImplementsRegisters, Registers!AbsSpec

-----------------------------------------------------------------------------
(* The registers are the reference values *)

\* The parts of RTMR0, in the order in which calculate_rtmr0 measures them.
FirstPart == <<Literal("td hob")>> \o Each("cfv", Optional("ovmf"))

SecureBoot == [k \in 1 .. 5 |-> <<SecureBootVars[k], Optional(SecureBootVars[k])>>]

AcpiFiles == Optional("tableloader") \o Optional("acpirsdp") \o Optional("acpitables")

\* The first k - 1 of the ACPI files.
AcpiBefore(k) ==
  IF k = 1 THEN <<>>
  ELSE IF k = 2 THEN Optional("tableloader")
  ELSE IF k = 3 THEN Optional("tableloader") \o Optional("acpirsdp")
  ELSE AcpiFiles

Start0 == FirstPart \o SecureBoot \o <<Separator>>

Middle == Start0 \o Each("content", AcpiFiles)

Order0 == <<"bootorder", opts.list["bootorder"]>>

Kernel1 == <<"pe", Optional("kernel") \o Optional("config")>>

Action1 == Literal("calling efi application")

\* What the register of the handler that runs holds at each of its steps.
SoFar(label, k, s) ==
  /\ label \in {"tdx module", "ovmf", "td hob", "kernel", "cmdline", "empty"} => s = <<>>
  /\ label = "cfv" => s = <<Literal("td hob")>>
  /\ label = "secureboot" => k <= 6 /\ s = FirstPart \o SubSeq(SecureBoot, 1, k - 1)
  /\ label = "separator" => s = FirstPart \o SecureBoot
  /\ label = "acpi" => k <= 4 /\ s = Start0 \o Each("content", AcpiBefore(k))
  /\ label = "bootorder" => s = Middle
  /\ label = "bootxxxx" =>
       /\ k <= Len(opts.list["bootxxxx"]) + 1
       /\ s = Middle \o (<<Order0>> \o Each("efivar", SubSeq(opts.list["bootxxxx"], 1, k - 1)))
  /\ label = "last separator" => s = Middle \o BootOptions
  /\ label \in {"dump kernel", "boot action"} => s = <<Kernel1>>
  /\ label = "boot separator" => s = <<Kernel1, Action1>>
  /\ label = "exit boot" => s = <<Kernel1, Action1>> \o If(~Old, <<Separator>>)
  /\ label = "boot exited" =>
       s = <<Kernel1, Action1>> \o If(~Old, <<Separator>>) \o <<Literal("exit boot invocation")>>
  /\ label = "dispatch" => s = Reference(Cur)

\* The register of the handler that runs is as far as its step.
RunningInv == pc \in HandlerLabel /\ ~Unnoticed(Cur) => SoFar(pc, i, bank[Cur])

\* The registers of the handlers that have returned are the reference values.
FinishedInv ==
  \A t \in 1 .. 6 :
    t < turn /\ HandlerOrder[t] \in Requested /\ ~Unnoticed(HandlerOrder[t]) =>
      bank[HandlerOrder[t]] = Reference(HandlerOrder[t])

ReferenceInv == RunningInv /\ FinishedInv /\ (ret = 0 => turn = 7)

LEMMA SoFarIntro ==
  ASSUME NEW k, NEW s
  PROVE  /\ s = <<>> => \A label \in {"tdx module", "ovmf", "td hob", "kernel", "cmdline", "empty"} : SoFar(label, k, s)
         /\ s = <<Literal("td hob")>> => SoFar("cfv", k, s)
         /\ k <= 6 /\ s = FirstPart \o SubSeq(SecureBoot, 1, k - 1) => SoFar("secureboot", k, s)
         /\ s = FirstPart \o SecureBoot => SoFar("separator", k, s)
         /\ k <= 4 /\ s = Start0 \o Each("content", AcpiBefore(k)) => SoFar("acpi", k, s)
         /\ s = Middle => SoFar("bootorder", k, s)
         /\ /\ k <= Len(opts.list["bootxxxx"]) + 1
            /\ s = Middle \o (<<Order0>> \o Each("efivar", SubSeq(opts.list["bootxxxx"], 1, k - 1)))
            => SoFar("bootxxxx", k, s)
         /\ s = Middle \o BootOptions => SoFar("last separator", k, s)
         /\ s = <<Kernel1>> => SoFar("dump kernel", k, s) /\ SoFar("boot action", k, s)
         /\ s = <<Kernel1, Action1>> => SoFar("boot separator", k, s)
         /\ s = <<Kernel1, Action1>> \o If(~Old, <<Separator>>) => SoFar("exit boot", k, s)
         /\ s = <<Kernel1, Action1>> \o If(~Old, <<Separator>>) \o <<Literal("exit boot invocation")>>
              => SoFar("boot exited", k, s)
         /\ s = Reference(Cur) => SoFar("dispatch", k, s) BY Zenon DEF SoFar

LEMMA ReferenceIs ==
  /\ Reference(MRSEAM) = Each("tdx module", Optional("tdxmodule"))
  /\ Reference(MRTD) = <<<<"ovmf", <<Firmware, Qemu>>>>>>
  /\ Reference(RTMR0) = Middle \o BootOptions \o If(Old, <<Separator>>)
  /\ Reference(RTMR1) = <<Kernel1, Action1>> \o If(~Old, <<Separator>>) \o <<Literal("exit boot invocation"), Literal("exit boot returned")>>
  /\ Reference(RTMR2) = <<WideText(opts.file["cmdline"], opts.file["addzeros"])>>
  /\ Reference(RTMR3) = <<>>
  <1>1. /\ MRSEAM # MRTD /\ MRSEAM # RTMR0 /\ MRSEAM # RTMR1 /\ MRSEAM # RTMR2 /\ MRSEAM # RTMR3
        /\ MRTD # RTMR0 /\ MRTD # RTMR1 /\ MRTD # RTMR2 /\ MRTD # RTMR3
        /\ RTMR0 # RTMR1 /\ RTMR0 # RTMR2 /\ RTMR0 # RTMR3
        /\ RTMR1 # RTMR2 /\ RTMR1 # RTMR3 /\ RTMR2 # RTMR3
    BY DEF MRSEAM, MRTD, RTMR0, RTMR1, RTMR2, RTMR3
  <1>2. Reference(MRSEAM) = Each("tdx module", Optional("tdxmodule"))
    BY <1>1, Zenon DEF Reference
  <1>3. Reference(MRTD) = <<<<"ovmf", <<Firmware, Qemu>>>>>> BY <1>1, Zenon DEF Reference
  <1>4. Reference(RTMR0) = Middle \o BootOptions \o If(Old, <<Separator>>)
    BY <1>1, Zenon DEF Reference, Middle, Start0, FirstPart, SecureBoot, AcpiFiles
  <1>5. Reference(RTMR1) = <<Kernel1, Action1>> \o If(~Old, <<Separator>>) \o <<Literal("exit boot invocation"), Literal("exit boot returned")>>
    BY <1>1, Zenon DEF Reference, Kernel1, Action1
  <1>6. Reference(RTMR2) = <<WideText(opts.file["cmdline"], opts.file["addzeros"])>>
    BY <1>1, Zenon DEF Reference, WideText
  <1>7. Reference(RTMR3) = <<>> BY <1>1, Zenon DEF Reference
  <1> QED BY <1>2, <1>3, <1>4, <1>5, <1>6, <1>7

LEMMA CurAt ==
  ASSUME IInv
  PROVE  /\ pc = "tdx module" => Cur = MRSEAM
         /\ pc = "ovmf" => Cur = MRTD
         /\ pc \in Rtmr0Label => Cur = RTMR0
         /\ pc \in Rtmr1Label => Cur = RTMR1
         /\ pc = "cmdline" => Cur = RTMR2
         /\ pc = "empty" => Cur = RTMR3
  <1>1. pc \in HandlerLabel => AtTurn(turn, pc) BY DEF IInv, ControlInv
  <1>2. /\ pc = "tdx module" => turn = 1
        /\ pc = "ovmf" => turn = 2
        /\ pc \in Rtmr0Label => turn = 3
        /\ pc \in Rtmr1Label => turn = 4
        /\ pc = "cmdline" => turn = 5
        /\ pc = "empty" => turn = 6
    BY <1>1, Zenon DEF AtTurn, Rtmr0Label, Rtmr1Label, HandlerLabel
  <1> QED BY <1>2, Order DEF Cur

\* What a measurement of any digest does to the register.
LEMMA MeasureValue ==
  ASSUME IInv, pc \in HandlerLabel, NEW d, NEW text, MeasureText(d, text)
  PROVE  bank'[Cur] = Append(bank[Cur], d)
  <1>1. Cur \in Mr /\ DOMAIN bank = Mr BY HandlerTurn DEF IInv, TypeInv, TypeData
  <1>2. bank' = [bank EXCEPT ![Cur] = Append(bank[Cur], d)]
    BY DEF MeasureText, LogAndExtend, HashExtend
  <1> HIDE DEF Cur
  <1> QED BY <1>1, <1>2

\* The forms of the reference values.
LEMMA EachForm ==
  ASSUME NEW kind \in Kind
  PROVE  /\ Each(kind, <<>>) = <<>>
         /\ \A f \in Name : Each(kind, <<f>>) = <<<<kind, <<f>>>>>>
         /\ \A s \in Seq(Name) : Each(kind, s) \in Seq(Digest) /\ Len(Each(kind, s)) = Len(s)
         /\ \A s \in Seq(Name), f \in Name : Each(kind, Append(s, f)) = Append(Each(kind, s), <<kind, <<f>>>>)
  <1>1. Each(kind, <<>>) = <<>> BY DEF Each
  <1>2. ASSUME NEW f \in Name PROVE Each(kind, <<f>>) = <<<<kind, <<f>>>>>> BY DEF Each
  <1>3. ASSUME NEW s \in Seq(Name) PROVE Each(kind, s) \in Seq(Digest) /\ Len(Each(kind, s)) = Len(s)
    <2>1. Len(s) \in Nat /\ DOMAIN s = 1 .. Len(s) /\ \A k \in 1 .. Len(s) : s[k] \in Name
      OBVIOUS
    <2>2. Each(kind, s) \in [1 .. Len(s) -> Digest] BY <2>1, DigestType DEF Each
    <2> QED BY <2>1, <2>2, FunctionIsSeq
  <1>4. ASSUME NEW s \in Seq(Name), NEW f \in Name
        PROVE  Each(kind, Append(s, f)) = Append(Each(kind, s), <<kind, <<f>>>>)
    <2>1. Append(s, f) \in Seq(Name) /\ Len(Append(s, f)) = Len(s) + 1 OBVIOUS
    <2>2. Append(Each(kind, s), <<kind, <<f>>>>)
            = [k \in 1 .. Len(s) + 1 |-> IF k \in 1 .. Len(s) THEN <<kind, <<s[k]>>>> ELSE <<kind, <<f>>>>]
      <3> DEFINE e == Each(kind, s)
                 d == <<kind, <<f>>>>
      <3>1. e \in Seq(Digest) /\ Len(e) = Len(s) /\ \A k \in 1 .. Len(s) : e[k] = <<kind, <<s[k]>>>>
        BY <1>3 DEF Each
      <3>2. d \in Digest /\ Len(s) \in Nat BY DigestType
      <3>3. Append(e, d) = [k \in 1 .. Len(s) + 1 |-> IF k \in 1 .. Len(s) THEN e[k] ELSE d]
        <4> HIDE DEF e, d
        <4>1. Append(e, d) = [k \in 1 .. Len(e) + 1 |-> IF k \in 1 .. Len(e) THEN e[k] ELSE d]
          BY <3>1, <3>2, AppendIsFunction
        <4> QED BY <3>1, <4>1, Zenon
      <3> QED BY <3>1, <3>3
    <2>3. Each(kind, Append(s, f))
            = [k \in 1 .. Len(s) + 1 |-> IF k \in 1 .. Len(s) THEN <<kind, <<s[k]>>>> ELSE <<kind, <<f>>>>]
      BY <2>1 DEF Each
    <2> QED BY <2>2, <2>3
  <1> QED BY <1>1, <1>2, <1>3, <1>4

LEMMA PartTypes ==
  ASSUME IInv
  PROVE  /\ \A o \in FileOption : Optional(o) \in Seq(Name) /\ Len(Optional(o)) \in {0, 1}
         /\ FirstPart \in Seq(Digest) /\ SecureBoot \in Seq(Digest) /\ Len(SecureBoot) = 5
         /\ Separator \in Digest /\ Start0 \in Seq(Digest)
         /\ \A k : AcpiBefore(k) \in Seq(Name)
         /\ Middle \in Seq(Digest) /\ Order0 \in Digest
         /\ Kernel1 \in Digest /\ Action1 \in Digest
         /\ \A s \in Seq(Name) : Each("efivar", s) \in Seq(Digest)
  <1>1. /\ \A o \in FileOption : opts.file[o] \in Name
        /\ \A o \in ListOption : opts.list[o] \in Seq(Name) BY OptsType DEF IInv
  <1>2. ASSUME NEW o \in FileOption
        PROVE  Optional(o) \in Seq(Name) /\ Len(Optional(o)) \in {0, 1}
    <2>1. <<opts.file[o]>> \in Seq(Name) /\ <<>> \in Seq(Name) BY <1>1, SeqOfOne, Zenon
    <2>2. Len(<<opts.file[o]>>) = 1 /\ Len(<<>>) = 0 OBVIOUS
    <2> QED BY <2>1, <2>2, Zenon DEF Optional
  <1>3. /\ "cfv" \in Kind /\ "content" \in Kind /\ "efivar" \in Kind /\ "bootorder" \in Kind /\ "pe" \in Kind
        /\ "ovmf" \in FileOption /\ "tableloader" \in FileOption /\ "acpirsdp" \in FileOption
        /\ "acpitables" \in FileOption /\ "kernel" \in FileOption /\ "config" \in FileOption
        /\ "bootorder" \in ListOption
    BY DEF Kind, FileOption, ValueOption, AcpiOption, ListOption
  <1>4. Literal("td hob") \in Digest /\ Separator \in Digest /\ Action1 \in Digest
    BY DigestType DEF Literal, Separator, Action1, Kind
  <1>5. \A kind \in {"cfv", "content", "efivar"} : \A s \in Seq(Name) : Each(kind, s) \in Seq(Digest)
    BY <1>3, EachForm
  <1>6. FirstPart \in Seq(Digest)
    <2>1. Each("cfv", Optional("ovmf")) \in Seq(Digest) BY <1>2, <1>3, <1>5
    <2>2. <<Literal("td hob")>> \in Seq(Digest) BY <1>4, SeqOfOne
    <2> QED BY <2>1, <2>2, ConcatProperties DEF FirstPart
  <1>7. SecureBoot \in Seq(Digest) /\ Len(SecureBoot) = 5
    <2>1. ASSUME NEW k \in 1 .. 5
          PROVE  <<SecureBootVars[k], Optional(SecureBootVars[k])>> \in Digest
      <3>1. SecureBootVars[k] \in Kind /\ SecureBootVars[k] \in FileOption
        BY SecureBootVarType
      <3> QED BY <1>2, <3>1, DigestType
    <2>2. SecureBoot \in [1 .. 5 -> Digest] BY <2>1 DEF SecureBoot
    <2>3. 5 \in Nat OBVIOUS
    <2> QED BY <2>2, <2>3, FunctionIsSeq
  <1>8. Start0 \in Seq(Digest)
    <2>1. <<Separator>> \in Seq(Digest) BY <1>4, SeqOfOne
    <2> QED BY <1>6, <1>7, <2>1, ConcatProperties DEF Start0
  <1>9. AcpiFiles \in Seq(Name) /\ Optional("tableloader") \o Optional("acpirsdp") \in Seq(Name)
    BY <1>2, <1>3, ConcatProperties DEF AcpiFiles
  <1>10. \A k : AcpiBefore(k) \in Seq(Name)
    <2>1. <<>> \in Seq(Name) /\ Optional("tableloader") \in Seq(Name) BY <1>2, <1>3
    <2> QED BY <1>9, <2>1, Zenon DEF AcpiBefore
  <1>11. Middle \in Seq(Digest)
    <2>1. Each("content", AcpiFiles) \in Seq(Digest) BY <1>5, <1>9
    <2> QED BY <1>8, <2>1, ConcatProperties DEF Middle
  <1>12. Order0 \in Digest BY <1>1, <1>3, DigestType DEF Order0
  <1>13. Kernel1 \in Digest
    <2>1. Optional("kernel") \o Optional("config") \in Seq(Name)
      BY <1>2, <1>3, ConcatProperties
    <2> QED BY <1>3, <2>1, DigestType DEF Kernel1
  <1>14. \A s \in Seq(Name) : Each("efivar", s) \in Seq(Digest) BY <1>5
  <1> QED BY <1>2, <1>4, <1>6, <1>7, <1>8, <1>10, <1>11, <1>12, <1>13, <1>14

\* Optional parts, element by element.
LEMMA OptionalForm ==
  ASSUME IInv, NEW o \in FileOption
  PROVE  /\ opts.file[o] = NoFile => Optional(o) = <<>>
         /\ opts.file[o] # NoFile => Optional(o) = <<opts.file[o]>>
  BY Zenon DEF Optional, Given

LEMMA FirmwareValue ==
  ASSUME IInv, RunningInv, ~Unnoticed(Cur), MeasureTdxModule \/ MeasureFirmware
  PROVE  SoFar(pc', i', bank'[Cur]) \/ Stops
  <1>1. \A o \in FileOption : opts.file[o] \in Name BY OptsType DEF IInv
  <1>2. CASE MeasureTdxModule
    <2>1. pc \in HandlerLabel /\ pc = "tdx module" /\ Cur = MRSEAM
      BY <1>2, CurAt DEF MeasureTdxModule, HandlerLabel
    <2>2. bank[Cur] = <<>> BY <2>1, Zenon DEF RunningInv, SoFar
    <2>3. opts.file["tdxmodule"] # NoFile BY <2>1, HandlerTurn DEF ValidRequest, Given
    <2> DEFINE f == opts.file["tdxmodule"]
    <2>4. Each("tdx module", Optional("tdxmodule")) = <<<<"tdx module", <<f>>>>>>
      <3>1. "tdxmodule" \in FileOption /\ "tdx module" \in Kind
        BY DEF FileOption, ValueOption, Kind
      <3>2. Optional("tdxmodule") = <<f>> /\ f \in Name BY <1>1, <2>3, <3>1, OptionalForm
      <3> QED BY <3>1, <3>2, EachForm
    <2>5. CASE Measure(<<"tdx module", <<f>>>>) /\ Return
      <3>1. bank'[Cur] = Append(<<>>, <<"tdx module", <<f>>>>)
        BY <2>1, <2>2, <2>5, MeasureValue DEF Measure
      <3>2. bank'[Cur] = Reference(Cur)
        BY <2>1, <2>4, <3>1, ReferenceIs, ShortSequences, Zenon
      <3>3. pc' = "dispatch" BY <2>5 DEF Return
      <3> QED BY <3>2, <3>3, SoFarIntro
    <2> QED BY <1>2, <2>5 DEF MeasureTdxModule, Stops
  <1>3. CASE MeasureFirmware
    <2>1. pc \in HandlerLabel /\ pc = "ovmf" /\ Cur = MRTD
      BY <1>3, CurAt DEF MeasureFirmware, HandlerLabel
    <2>2. bank[Cur] = <<>> BY <2>1, Zenon DEF RunningInv, SoFar
    <2>3. opts.file["ovmf"] # NoFile BY <2>1, HandlerTurn DEF ValidRequest, Given
    <2>4. fs[Firmware] # "unsound" /\ ~UnknownQemu /\ ~short
      BY <2>1, <2>3, Zenon DEF Unnoticed, Given, Firmware
    <2>5. CASE Measure(<<"ovmf", <<Firmware, Qemu>>>>) /\ Return
      <3>1. bank'[Cur] = Append(<<>>, <<"ovmf", <<Firmware, Qemu>>>>)
        BY <2>1, <2>2, <2>5, MeasureValue DEF Measure
      <3>2. bank'[Cur] = Reference(Cur) BY <2>1, <3>1, ReferenceIs, ShortSequences, Zenon
      <3>3. pc' = "dispatch" BY <2>5 DEF Return
      <3> QED BY <3>2, <3>3, SoFarIntro
    <2> QED BY <1>3, <2>4, <2>5 DEF MeasureFirmware, Stops
  <1> QED BY <1>2, <1>3

LEMMA LinuxValue ==
  ASSUME IInv, RunningInv, ~Unnoticed(Cur), MeasureCmdline \/ MeasureNothing
  PROVE  SoFar(pc', i', bank'[Cur]) \/ Stops
  <1>1. CASE MeasureCmdline
    <2>1. pc \in HandlerLabel /\ pc = "cmdline" /\ Cur = RTMR2
      BY <1>1, CurAt DEF MeasureCmdline, HandlerLabel
    <2>2. bank[Cur] = <<>> BY <2>1, Zenon DEF RunningInv, SoFar
    <2> DEFINE d == WideText(opts.file["cmdline"], opts.file["addzeros"])
    <2>3. ASSUME NEW text, MeasureText(d, text), Return
          PROVE  SoFar(pc', i', bank'[Cur])
      <3>1. bank' = [bank EXCEPT ![Cur] = Append(bank[Cur], d)] /\ Cur \in Mr /\ DOMAIN bank = Mr
        BY <2>1, <2>3, HandlerTurn DEF MeasureText, LogAndExtend, HashExtend, IInv, TypeInv, TypeData
      <3>2. bank'[Cur] = Append(<<>>, d)
        <4> HIDE DEF Cur, d
        <4> QED BY <2>2, <3>1
      <3>3. bank'[Cur] = Reference(Cur) BY <2>1, <3>2, ReferenceIs, ShortSequences, Zenon
      <3>4. pc' = "dispatch" BY <2>3 DEF Return
      <3> QED BY <3>3, <3>4, SoFarIntro
    <2> QED BY <1>1, <2>3 DEF MeasureCmdline, Stops
  <1>2. CASE MeasureNothing
    <2>1. pc \in HandlerLabel /\ pc = "empty" /\ Cur = RTMR3
      BY <1>2, CurAt DEF MeasureNothing, HandlerLabel
    <2>2. bank[Cur] = <<>> BY <2>1, Zenon DEF RunningInv, SoFar
    <2>3. bank' = bank /\ pc' = "dispatch" BY <1>2 DEF MeasureNothing, Skip, Return
    <2>4. bank'[Cur] = Reference(Cur) BY <2>1, <2>2, <2>3, ReferenceIs
    <2> QED BY <2>3, <2>4, SoFarIntro
  <1> QED BY <1>1, <1>2

LEMMA IfForm ==
  ASSUME NEW s
  PROVE  If(TRUE, s) = s /\ If(FALSE, s) = <<>> BY DEF If

LEMMA Rtmr1Value ==
  ASSUME IInv, RunningInv, ~Unnoticed(Cur), CalculateRtmr1
  PROVE  SoFar(pc', i', bank'[Cur]) \/ Stops
  <1>1. /\ \A o \in FileOption : opts.file[o] \in Name
        /\ "kernel" \in FileOption /\ "config" \in FileOption
    BY OptsType DEF IInv, FileOption, ValueOption
  <1>2. pc \in Rtmr1Label /\ pc \in HandlerLabel /\ Cur = RTMR1
    <2>1. pc \in Rtmr1Label /\ pc \in HandlerLabel
      BY DEF CalculateRtmr1, MeasureKernel, DumpKernel, MeasureBootAction, MeasureBootSeparator,
         MeasureExitBoot, MeasureBootExited, Rtmr1Label, HandlerLabel
    <2> QED BY <2>1, CurAt
  <1>3. SoFar(pc, i, bank[Cur]) BY <1>2 DEF RunningInv
  <1>4. Given("kernel") /\ ~short /\ fs[opts.file["kernel"]] # "bad"
        /\ (opts.file["dumpkernel"] # NoFile => fs[opts.file["dumpkernel"]] # "locked")
    <2>1. Given("kernel") BY <1>2, HandlerTurn DEF ValidRequest
    <2> QED BY <1>2, <2>1, Zenon DEF Unnoticed, Given
  <1>5. \A d : Measure(d) => bank'[Cur] = Append(bank[Cur], d)
    BY <1>2, MeasureValue DEF Measure
  <1>6. Skip => bank'[Cur] = bank[Cur] BY DEF Skip
  <1>7. \A label : Goto(label) => pc' = label BY DEF Goto
  <1>8. Return => pc' = "dispatch" BY DEF Return
  <1>9. /\ OvmfVersion = Stable202408 => If(~Old, <<Separator>>) = <<>>
        /\ OvmfVersion # Stable202408 => If(~Old, <<Separator>>) = <<Separator>>
    BY Zenon DEF If, Old
  <1>10. Kernel1 \in Digest /\ Action1 \in Digest /\ Separator \in Digest BY PartTypes
  <1>11. CASE MeasureKernel
    <2> DEFINE k == opts.file["kernel"]
               c == opts.file["config"]
    <2>1. bank[Cur] = <<>> BY <1>3, <1>11, Zenon DEF MeasureKernel, SoFar
    <2>2. Kernel1 = <<"pe", IF c = NoFile THEN <<k>> ELSE <<k, c>>>>
      <3>1. Optional("kernel") = <<k>> BY <1>1, <1>4, OptionalForm DEF Given
      <3>2. c = NoFile => Optional("kernel") \o Optional("config") = <<k>>
        <4>1. c = NoFile => Optional("config") = <<>> BY <1>1, OptionalForm
        <4> QED BY <3>1, <4>1, ShortSequences, Zenon
      <3>3. c # NoFile => Optional("kernel") \o Optional("config") = <<k, c>>
        <4>1. c # NoFile => Optional("config") = <<c>> BY <1>1, OptionalForm
        <4> QED BY <3>1, <4>1, ShortSequences, Zenon
      <3> QED BY <3>2, <3>3, Zenon DEF Kernel1
    <2>3. CASE /\ MeasureText(<<"pe", IF c = NoFile THEN <<k>> ELSE <<k, c>>>>, NameOf(k))
               /\ Goto("dump kernel")
      <3>1. MeasureText(Kernel1, NameOf(k)) /\ pc' = "dump kernel" BY <1>7, <2>2, <2>3
      <3>2. bank'[Cur] = Append(<<>>, Kernel1) BY <1>2, <2>1, <3>1, MeasureValue
      <3>3. bank'[Cur] = <<Kernel1>> BY <3>2
      <3> QED BY <3>1, <3>3, SoFarIntro
    <2> QED BY <1>4, <1>11, <2>3 DEF MeasureKernel, FailUninitialised, Stops
  <1>12. CASE DumpKernel
    <2>1. bank[Cur] = <<Kernel1>> BY <1>3, <1>12, Zenon DEF DumpKernel, SoFar
    <2>2. Skip /\ Goto("boot action") BY <1>4, <1>12 DEF DumpKernel
    <2>3. bank'[Cur] = <<Kernel1>> /\ pc' = "boot action" BY <1>6, <1>7, <2>1, <2>2
    <2> QED BY <2>3, SoFarIntro
  <1>13. CASE MeasureBootAction
    <2>1. bank[Cur] = <<Kernel1>> BY <1>3, <1>13, Zenon DEF MeasureBootAction, SoFar
    <2>2. Measure(Action1) /\ pc' = "boot separator"
      BY <1>7, <1>13 DEF MeasureBootAction, Action1
    <2>3. bank'[Cur] = <<Kernel1, Action1>>
      <3>1. bank'[Cur] = Append(<<Kernel1>>, Action1) BY <1>5, <2>1, <2>2
      <3> QED BY <3>1, ShortSequences, Zenon
    <2> QED BY <2>2, <2>3, SoFarIntro
  <1>14. CASE MeasureBootSeparator
    <2> DEFINE b == <<Kernel1, Action1>>
    <2>1. bank[Cur] = b BY <1>3, <1>14, Zenon DEF MeasureBootSeparator, SoFar
    <2>2. b \in Seq(Digest) BY <1>10
    <2>3. pc' = "exit boot" /\ bank'[Cur] = b \o If(~Old, <<Separator>>)
      <3>1. CASE OvmfVersion # Stable202408
        <4>1. Measure(Separator) /\ pc' = "exit boot"
          BY <1>4, <1>7, <1>14, <3>1 DEF MeasureBootSeparator
        <4>2. bank'[Cur] = Append(b, Separator) BY <1>5, <2>1, <4>1
        <4> HIDE DEF b
        <4> QED BY <1>9, <1>10, <2>2, <3>1, <4>1, <4>2, AppendAsConcat
      <3>2. CASE OvmfVersion = Stable202408
        <4>1. Skip /\ pc' = "exit boot" BY <1>7, <1>14, <3>2 DEF MeasureBootSeparator
        <4>2. bank'[Cur] = b BY <1>6, <2>1, <4>1
        <4> HIDE DEF b
        <4> QED BY <1>9, <2>2, <3>2, <4>1, <4>2, ConcatEmpty
      <3> QED BY <3>1, <3>2
    <2> QED BY <2>3, SoFarIntro
  <1>15. <<Kernel1, Action1>> \o If(~Old, <<Separator>>) \in Seq(Digest)
    <2>1. <<Kernel1, Action1>> \in Seq(Digest) /\ <<Separator>> \in Seq(Digest) /\ <<>> \in Seq(Digest)
      BY <1>10
    <2>2. If(~Old, <<Separator>>) \in Seq(Digest) BY <1>9, <2>1
    <2> QED BY <2>1, <2>2, ConcatProperties
  <1>16. CASE MeasureExitBoot
    <2> DEFINE b == <<Kernel1, Action1>> \o If(~Old, <<Separator>>)
               d == Literal("exit boot invocation")
    <2>1. bank[Cur] = b BY <1>3, <1>16, Zenon DEF MeasureExitBoot, SoFar
    <2>2. Measure(d) /\ pc' = "boot exited" BY <1>7, <1>16 DEF MeasureExitBoot
    <2>3. d \in Digest BY DigestType DEF Literal, Kind
    <2>4. bank'[Cur] = b \o <<d>>
      <3>1. bank'[Cur] = Append(b, d) BY <1>5, <2>1, <2>2
      <3> HIDE DEF b, d
      <3> QED BY <1>15, <2>3, <3>1, AppendAsConcat DEF b
    <2> QED BY <2>2, <2>4, SoFarIntro
  <1>17. CASE MeasureBootExited
    <2> DEFINE a == <<Kernel1, Action1>> \o If(~Old, <<Separator>>)
               d == Literal("exit boot invocation")
               e == Literal("exit boot returned")
    <2>1. bank[Cur] = a \o <<d>> BY <1>3, <1>17, Zenon DEF MeasureBootExited, SoFar
    <2>2. Measure(e) /\ pc' = "dispatch" BY <1>8, <1>17 DEF MeasureBootExited
    <2>3. d \in Digest /\ e \in Digest BY DigestType DEF Literal, Kind
    <2>4. bank'[Cur] = a \o <<d, e>>
      <3>1. bank'[Cur] = Append(a \o <<d>>, e) BY <1>5, <2>1, <2>2
      <3>2. a \in Seq(Digest) BY <1>15
      <3> HIDE DEF a, d, e
      <3>3. <<d>> \in Seq(Digest) /\ Append(<<d>>, e) = <<d, e>>
        BY <2>3, SeqOfOne, ShortSequences, Zenon
      <3>4. Append(a \o <<d>>, e) = a \o Append(<<d>>, e)
        BY <2>3, <3>2, <3>3, AppendToSecond
      <3> QED BY <3>1, <3>3, <3>4
    <2>5. bank'[Cur] = Reference(Cur) BY <1>2, <2>4, ReferenceIs
    <2> QED BY <2>2, <2>5, SoFarIntro
  <1> QED BY <1>11, <1>12, <1>13, <1>14, <1>16, <1>17 DEF CalculateRtmr1

LEMMA AcpiStep ==
  ASSUME IInv
  PROVE  /\ AcpiBefore(1) = <<>> /\ AcpiBefore(4) = AcpiFiles
         /\ \A k \in 1 .. 3 : AcpiBefore(k + 1) = AcpiBefore(k) \o Optional(AcpiOrder[k])
  <1>1. AcpiBefore(1) = <<>> /\ AcpiBefore(2) = Optional("tableloader")
        /\ AcpiBefore(3) = Optional("tableloader") \o Optional("acpirsdp") /\ AcpiBefore(4) = AcpiFiles
    BY DEF AcpiBefore
  <1>2. AcpiOrder[1] = "tableloader" /\ AcpiOrder[2] = "acpirsdp" /\ AcpiOrder[3] = "acpitables"
    BY DEF AcpiOrder
  <1>3. <<>> \o Optional("tableloader") = Optional("tableloader")
    <2>1. Optional("tableloader") \in Seq(Name) BY PartTypes DEF FileOption, AcpiOption
    <2> QED BY <2>1, ConcatEmpty
  <1>4. ASSUME NEW k \in 1 .. 3
        PROVE  AcpiBefore(k + 1) = AcpiBefore(k) \o Optional(AcpiOrder[k])
    <2>1. k = 1 \/ k = 2 \/ k = 3 OBVIOUS
    <2>2. 1 + 1 = 2 /\ 2 + 1 = 3 /\ 3 + 1 = 4 OBVIOUS
    <2>3. CASE k = 1 BY <1>1, <1>2, <1>3, <2>2, <2>3, Zenon
    <2>4. CASE k = 2 BY <1>1, <1>2, <2>2, <2>4, Zenon
    <2>5. CASE k = 3 BY <1>1, <1>2, <2>2, <2>5, Zenon DEF AcpiFiles
    <2> QED BY <2>1, <2>3, <2>4, <2>5
  <1> QED BY <1>1, <1>4

LEMMA DigestsAppendToSecond ==
  \A a, b \in Seq(Digest), x \in Digest : Append(a \o b, x) = a \o Append(b, x)
  <1> SUFFICES ASSUME NEW a \in Seq(Digest), NEW b \in Seq(Digest), NEW x \in Digest
               PROVE  Append(a \o b, x) = a \o Append(b, x) BY Zenon
  <1> QED OBVIOUS

\* The start of the loop over the secure boot variables.
LEMMA SecureBootStarts ==
  ASSUME IInv, NEW s, s = FirstPart
  PROVE  SoFar("secureboot", 1, s)
  <1>1. SubSeq(SecureBoot, 1, 1 - 1) = <<>>
    <2>1. 1 - 1 = 0 OBVIOUS
    <2> QED BY <2>1, PartTypes, PrefixEnds
  <1>2. s = FirstPart \o SubSeq(SecureBoot, 1, 1 - 1) BY <1>1, PartTypes, ConcatEmpty
  <1>3. 1 <= 6 OBVIOUS
  <1> QED BY <1>2, <1>3, SoFarIntro, Zenon

LEMMA Rtmr0Value ==
  ASSUME IInv, RunningInv, ~Unnoticed(Cur), CalculateRtmr0
  PROVE  SoFar(pc', i', bank'[Cur]) \/ Stops
  <1>1. /\ \A o \in FileOption : opts.file[o] \in Name
        /\ \A o \in ListOption : opts.list[o] \in Seq(Name)
        /\ i \in Nat \ {0} BY OptsType DEF IInv, TypeInv, TypeControl
  <1>2. pc \in Rtmr0Label /\ pc \in HandlerLabel /\ Cur = RTMR0
    <2>1. pc \in Rtmr0Label /\ pc \in HandlerLabel
      BY DEF CalculateRtmr0, MeasureTdHob, MeasureCfv, MeasureSecureBootVar, SecureBootDone, MeasureSeparator,
         MeasureAcpi, AcpiDone, MeasureBootOrder, MeasureDefaultBootOption, MeasureBootOption, BootOptionsDone,
         MeasureLastSeparator, Rtmr0Label, HandlerLabel
    <2> QED BY <2>1, CurAt
  <1>3. SoFar(pc, i, bank[Cur]) BY <1>2 DEF RunningInv
  <1>4. ~short /\ (Firmware # NoFile => fs[Firmware] # "unsound")
    BY <1>2, Zenon DEF Unnoticed, Given, Firmware
  <1>5. \A d : Measure(d) => bank'[Cur] = Append(bank[Cur], d)
    BY <1>2, MeasureValue DEF Measure
  <1>6. Skip => bank'[Cur] = bank[Cur] BY DEF Skip
  <1>7. \A label : Goto(label) => pc' = label /\ i' = 1 BY DEF Goto
  <1>8. /\ Return => pc' = "dispatch"
        /\ Again => pc' = pc /\ i' = i + 1 BY DEF Return, Again
  <1>9. /\ FirstPart \in Seq(Digest) /\ SecureBoot \in Seq(Digest) /\ Len(SecureBoot) = 5
        /\ Separator \in Digest /\ Start0 \in Seq(Digest) /\ \A k : AcpiBefore(k) \in Seq(Name)
        /\ Middle \in Seq(Digest) /\ Order0 \in Digest
        /\ \A s \in Seq(Name) : Each("efivar", s) \in Seq(Digest) BY PartTypes
  <1>10. "cfv" \in Kind /\ "content" \in Kind /\ "efivar" \in Kind /\ "ovmf" \in FileOption
         /\ "bootxxxx" \in ListOption BY DEF Kind, FileOption, ValueOption, ListOption
  <1>11. CASE MeasureTdHob
    <2>1. bank[Cur] = <<>> BY <1>3, <1>11, Zenon DEF MeasureTdHob, SoFar
    <2>2. Measure(Literal("td hob")) /\ pc' = "cfv" BY <1>7, <1>11 DEF MeasureTdHob
    <2>3. bank'[Cur] = <<Literal("td hob")>>
      <3>1. bank'[Cur] = Append(<<>>, Literal("td hob")) BY <1>5, <2>1, <2>2
      <3> QED BY <3>1, ShortSequences, Zenon
    <2> QED BY <2>2, <2>3, SoFarIntro
  <1>12. CASE MeasureCfv
    <2> DEFINE h == <<Literal("td hob")>>
    <2>1. bank[Cur] = h BY <1>3, <1>12, Zenon DEF MeasureCfv, SoFar
    <2>2. \/ Stops
          \/ Firmware = NoFile /\ Skip /\ Goto("secureboot")
          \/ Firmware # NoFile /\ Measure(<<"cfv", <<Firmware>>>>) /\ Goto("secureboot")
      BY <1>4, <1>12 DEF MeasureCfv, FailUninitialised, Stops
    <2>3. Literal("td hob") \in Digest /\ h \in Seq(Digest)
      <3>1. Literal("td hob") \in Digest BY DigestType DEF Literal, Kind
      <3> QED BY <3>1, SeqOfOne
    <2>4. CASE Firmware = NoFile /\ Skip /\ Goto("secureboot")
      <3>1. FirstPart = h
        <4>1. Optional("ovmf") = <<>> BY <1>10, <2>4, OptionalForm DEF Firmware
        <4>2. Each("cfv", <<>>) = <<>> BY <1>10, EachForm
        <4> QED BY <4>1, <4>2, ShortSequences, Zenon DEF FirstPart
      <3>2. bank'[Cur] = FirstPart /\ pc' = "secureboot" /\ i' = 1
        BY <1>6, <1>7, <2>1, <2>4, <3>1
      <3> QED BY <3>2, SecureBootStarts
    <2>5. CASE Firmware # NoFile /\ Measure(<<"cfv", <<Firmware>>>>) /\ Goto("secureboot")
      <3>1. FirstPart = <<Literal("td hob"), <<"cfv", <<Firmware>>>>>>
        <4>1. Optional("ovmf") = <<Firmware>> /\ Firmware \in Name
          BY <1>1, <1>10, <2>5, OptionalForm DEF Firmware
        <4>2. Each("cfv", <<Firmware>>) = <<<<"cfv", <<Firmware>>>>>>
          BY <1>10, <4>1, EachForm
        <4>3. FirstPart = <<Literal("td hob")>> \o <<<<"cfv", <<Firmware>>>>>>
          BY <4>1, <4>2, Zenon DEF FirstPart
        <4>4. <<Literal("td hob")>> \o <<<<"cfv", <<Firmware>>>>>> = <<Literal("td hob"), <<"cfv", <<Firmware>>>>>>
          BY ShortSequences
        <4> QED BY <4>3, <4>4, Zenon
      <3>2. bank'[Cur] = Append(h, <<"cfv", <<Firmware>>>>) /\ pc' = "secureboot" /\ i' = 1
        BY <1>5, <1>7, <2>1, <2>5
      <3>3. bank'[Cur] = FirstPart BY <3>1, <3>2, ShortSequences, Zenon
      <3> QED BY <3>2, <3>3, SecureBootStarts
    <2> QED BY <2>2, <2>4, <2>5
  <1>13. CASE MeasureSecureBootVar
    <2> DEFINE d == <<SecureBootVars[i], Optional(SecureBootVars[i])>>
    <2>1. bank[Cur] = FirstPart \o SubSeq(SecureBoot, 1, i - 1) /\ i \in 1 .. 5
      <3>1. i <= 5 BY <1>13 DEF MeasureSecureBootVar, SecureBootVars
      <3>2. bank[Cur] = FirstPart \o SubSeq(SecureBoot, 1, i - 1)
        BY <1>3, <1>13, Zenon DEF MeasureSecureBootVar, SoFar
      <3>3. i \in 1 .. 5 BY <1>1, <3>1
      <3> QED BY <3>2, <3>3
    <2>2. (Measure(d) /\ Again) \/ Stops
      <3>1. SecureBootVars[i] \in FileOption BY <2>1, SecureBootVarType
      <3>2. IF opts.file[SecureBootVars[i]] = NoFile
            THEN d = <<SecureBootVars[i], <<>>>>
            ELSE d = <<SecureBootVars[i], <<opts.file[SecureBootVars[i]]>>>>
        BY <3>1, OptionalForm
      <3> HIDE DEF d
      <3> QED BY <1>13, <3>2 DEF MeasureSecureBootVar, FailUninitialised, Stops
    <2>3. CASE Measure(d) /\ Again
      <3>1. bank'[Cur] = Append(FirstPart \o SubSeq(SecureBoot, 1, i - 1), d)
        BY <1>5, <2>1, <2>3
      <3>2. SecureBoot[i] = d BY <2>1 DEF SecureBoot
      <3>3. /\ SubSeq(SecureBoot, 1, i - 1) \in Seq(Digest) /\ d \in Digest
            /\ SubSeq(SecureBoot, 1, i) = Append(SubSeq(SecureBoot, 1, i - 1), d)
        <4> HIDE DEF d
        <4> QED BY <1>9, <2>1, <3>2, PrefixNext
      <3>4. bank'[Cur] = FirstPart \o SubSeq(SecureBoot, 1, i)
        <4> HIDE DEF d
        <4>1. FirstPart \in Seq(Digest) BY <1>9
        <4>2. Append(FirstPart \o SubSeq(SecureBoot, 1, i - 1), d)
                = FirstPart \o Append(SubSeq(SecureBoot, 1, i - 1), d)
          BY <4>1, <3>3, DigestsAppendToSecond, Zenon
        <4> QED BY <3>1, <3>3, <4>2, Zenon
      <3>5. i' = i + 1 /\ i' <= 6 /\ i' - 1 = i BY <1>8, <2>1, <2>3
      <3>6. pc' = "secureboot" BY <1>8, <1>13, <2>3 DEF MeasureSecureBootVar
      <3> QED BY <3>4, <3>5, <3>6, SoFarIntro
    <2> QED BY <2>2, <2>3
  <1>14. CASE SecureBootDone
    <2>1. i <= 6 /\ bank[Cur] = FirstPart \o SubSeq(SecureBoot, 1, i - 1)
      BY <1>3, <1>14, Zenon DEF SecureBootDone, SoFar
    <2>2. i - 1 = 5
      <3>1. i > 5 BY <1>14 DEF SecureBootDone, SecureBootVars
      <3> QED BY <1>1, <2>1, <3>1
    <2>3. bank[Cur] = FirstPart \o SecureBoot BY <1>9, <2>1, <2>2, PrefixEnds
    <2>4. bank'[Cur] = FirstPart \o SecureBoot /\ pc' = "separator"
      BY <1>6, <1>7, <1>14, <2>3 DEF SecureBootDone
    <2> QED BY <2>4, SoFarIntro
  <1>15. CASE MeasureSeparator
    <2>1. bank[Cur] = FirstPart \o SecureBoot
      BY <1>3, <1>15, Zenon DEF MeasureSeparator, SoFar
    <2>2. Measure(Separator) /\ pc' = "acpi" /\ i' = 1
      BY <1>4, <1>7, <1>15 DEF MeasureSeparator
    <2>3. bank'[Cur] = Start0
      <3>1. bank'[Cur] = Append(FirstPart \o SecureBoot, Separator) BY <1>5, <2>1, <2>2
      <3>2. FirstPart \o SecureBoot \in Seq(Digest) BY <1>9, ConcatProperties
      <3> QED BY <1>9, <3>1, <3>2, AppendAsConcat DEF Start0
    <2>4. bank'[Cur] = Start0 \o Each("content", AcpiBefore(1))
      <3>1. Each("content", AcpiBefore(1)) = <<>> BY <1>10, AcpiStep, EachForm
      <3> QED BY <1>9, <2>3, <3>1, ConcatEmpty
    <2>5. 1 <= 4 OBVIOUS
    <2> QED BY <2>2, <2>4, <2>5, SoFarIntro, Zenon
  <1>16. CASE MeasureAcpi
    <2> DEFINE f == opts.file[AcpiOrder[i]]
    <2>1. bank[Cur] = Start0 \o Each("content", AcpiBefore(i)) /\ i \in 1 .. 3
      <3>1. i <= 3 BY <1>16 DEF MeasureAcpi, AcpiOrder
      <3>2. bank[Cur] = Start0 \o Each("content", AcpiBefore(i))
        BY <1>3, <1>16, Zenon DEF MeasureAcpi, SoFar
      <3>3. i \in 1 .. 3 BY <1>1, <3>1
      <3> QED BY <3>2, <3>3
    <2>2. AcpiOrder[i] \in FileOption /\ f \in Name
      <3>1. i \in {1, 2, 3} BY <2>1
      <3>2. AcpiOrder[i] \in {"tableloader", "acpirsdp", "acpitables"} BY <3>1 DEF AcpiOrder
      <3> QED BY <1>1, <3>2 DEF FileOption, AcpiOption
    <2>3. /\ i' = i + 1 /\ i' <= 4
          /\ pc' = "acpi" BY <1>8, <1>16, <2>1 DEF MeasureAcpi
    <2>4. AcpiBefore(i + 1) = AcpiBefore(i) \o Optional(AcpiOrder[i]) /\ AcpiBefore(i) \in Seq(Name)
      BY <1>9, <2>1, AcpiStep
    <2>5. bank'[Cur] = Start0 \o Each("content", AcpiBefore(i + 1))
      <3>1. CASE f = NoFile
        <4>1. bank'[Cur] = bank[Cur] BY <1>6, <1>16, <3>1 DEF MeasureAcpi
        <4>2. AcpiBefore(i + 1) = AcpiBefore(i)
          BY <2>2, <2>4, <3>1, OptionalForm, ConcatEmpty
        <4> QED BY <2>1, <4>1, <4>2
      <3>2. CASE f # NoFile
        <4>1. Measure(Content(f)) BY <1>16, <3>2 DEF MeasureAcpi
        <4>2. bank'[Cur] = Append(Start0 \o Each("content", AcpiBefore(i)), Content(f))
          BY <1>5, <2>1, <4>1
        <4>3. AcpiBefore(i + 1) = Append(AcpiBefore(i), f)
          <5>1. Optional(AcpiOrder[i]) = <<f>> BY <2>2, <3>2, OptionalForm
          <5> HIDE DEF f
          <5> QED BY <2>2, <2>4, <5>1, AppendAsConcat
        <4>4. Each("content", AcpiBefore(i + 1)) = Append(Each("content", AcpiBefore(i)), Content(f))
          <5> HIDE DEF f
          <5> QED BY <1>10, <2>2, <2>4, <4>3, EachForm DEF Content
        <4>5. Content(f) \in Digest /\ Each("content", AcpiBefore(i)) \in Seq(Digest)
          BY <1>10, <2>2, <2>4, EachForm, DigestType DEF Content
        <4>6. Start0 \in Seq(Digest) BY <1>9
        <4>7. Append(Start0 \o Each("content", AcpiBefore(i)), Content(f))
                = Start0 \o Append(Each("content", AcpiBefore(i)), Content(f))
          BY <4>5, <4>6, DigestsAppendToSecond, Zenon
        <4> QED BY <4>2, <4>4, <4>7, Zenon
      <3> QED BY <3>1, <3>2
    <2> QED BY <2>3, <2>5, SoFarIntro
  <1>17. CASE AcpiDone
    <2>1. i <= 4 /\ bank[Cur] = Start0 \o Each("content", AcpiBefore(i))
      BY <1>3, <1>17, Zenon DEF AcpiDone, SoFar
    <2>2. i = 4
      <3>1. i > 3 BY <1>17 DEF AcpiDone, AcpiOrder
      <3> QED BY <1>1, <2>1, <3>1
    <2>3. bank[Cur] = Middle BY <2>1, <2>2, AcpiStep DEF Middle
    <2>4. bank'[Cur] = Middle /\ pc' = "bootorder" BY <1>6, <1>7, <1>17, <2>3 DEF AcpiDone
    <2> QED BY <2>4, SoFarIntro
  <1> DEFINE boot == opts.list["bootxxxx"]
             prefix(k) == <<Order0>> \o Each("efivar", SubSeq(boot, 1, k - 1))
  <1>18. boot \in Seq(Name) /\ Len(boot) \in Nat BY <1>1, <1>10
  <1>19. <<Order0>> \in Seq(Digest) BY <1>9, SeqOfOne
  <1>20. prefix(1) = <<Order0>>
    <2>1. SubSeq(boot, 1, 1 - 1) = <<>>
      <3>1. 1 - 1 = 0 OBVIOUS
      <3> HIDE DEF boot
      <3> QED BY <1>18, <3>1, PrefixEnds
    <2>2. Each("efivar", SubSeq(boot, 1, 1 - 1)) = <<>> BY <1>10, <2>1, EachForm
    <2> QED BY <2>2, ShortSequences, Zenon
  <1>21. CASE MeasureBootOrder
    <2>1. bank[Cur] = Middle BY <1>3, <1>21, Zenon DEF MeasureBootOrder, SoFar
    <2>2. Measure(Order0) /\ pc' = "bootxxxx" /\ i' = 1
      BY <1>7, <1>21 DEF MeasureBootOrder, Order0
    <2>3. bank'[Cur] = Middle \o prefix(1)
      <3>1. bank'[Cur] = Append(Middle, Order0) BY <1>5, <2>1, <2>2
      <3>2. Append(Middle, Order0) = Middle \o <<Order0>> BY <1>9, AppendAsConcat
      <3> QED BY <1>20, <3>1, <3>2
    <2>4. 1 <= Len(boot) + 1
      <3> HIDE DEF boot
      <3> QED BY <1>18
    <2> QED BY <2>2, <2>3, <2>4, SoFarIntro, Zenon
  <1>22. CASE MeasureDefaultBootOption
    <2>1. /\ i <= Len(boot) + 1 /\ bank[Cur] = Middle \o prefix(i)
          /\ boot = <<>> BY <1>3, <1>22, Zenon DEF MeasureDefaultBootOption, SoFar
    <2>2. i = 1
      <3>1. Len(boot) = 0 BY <2>1
      <3> HIDE DEF boot, prefix
      <3> QED BY <1>1, <2>1, <3>1
    <2>3. bank[Cur] = Middle \o <<Order0>> BY <1>20, <2>1, <2>2
    <2>4. Measure(Literal("boot0000")) /\ pc' = "last separator"
      BY <1>4, <1>7, <1>22 DEF MeasureDefaultBootOption, DefaultLoadOption
    <2>5. BootOptions = <<Order0, Literal("boot0000")>>
      BY <2>1, ShortSequences, Zenon DEF BootOptions, Order0
    <2>6. bank'[Cur] = Middle \o BootOptions
      <3>1. bank'[Cur] = Append(Middle \o <<Order0>>, Literal("boot0000"))
        BY <1>5, <2>3, <2>4
      <3>2. Literal("boot0000") \in Digest BY DigestType DEF Literal, Kind
      <3>3. Append(Middle \o <<Order0>>, Literal("boot0000")) = Middle \o Append(<<Order0>>, Literal("boot0000"))
        <4>1. Middle \in Seq(Digest) BY <1>9
        <4> QED BY <1>19, <3>2, <4>1, AppendToSecond
      <3> QED BY <2>5, <3>1, <3>3, ShortSequences, Zenon
    <2> QED BY <2>4, <2>6, SoFarIntro
  <1>23. CASE MeasureBootOption
    <2> DEFINE f == boot[i]
               d == <<"efivar", <<f>>>>
    <2>1. bank[Cur] = Middle \o prefix(i) /\ i \in 1 .. Len(boot)
      <3>1. bank[Cur] = Middle \o prefix(i)
        BY <1>3, <1>23, Zenon DEF MeasureBootOption, SoFar
      <3>2. i <= Len(boot) BY <1>23 DEF MeasureBootOption
      <3> HIDE DEF boot, prefix
      <3> QED BY <1>1, <1>18, <3>1, <3>2
    <2>2. (Measure(d) /\ Again) \/ Stops BY <1>23 DEF MeasureBootOption, Stops
    <2>3. CASE Measure(d) /\ Again
      <3>1. bank'[Cur] = Append(Middle \o prefix(i), d) BY <1>5, <2>1, <2>3
      <3>2. /\ SubSeq(boot, 1, i - 1) \in Seq(Name) /\ f \in Name
            /\ SubSeq(boot, 1, i) = Append(SubSeq(boot, 1, i - 1), f)
        <4> HIDE DEF boot
        <4> QED BY <1>18, <2>1, PrefixNext
      <3>3. /\ d \in Digest /\ Each("efivar", SubSeq(boot, 1, i - 1)) \in Seq(Digest)
            /\ Each("efivar", SubSeq(boot, 1, i)) = Append(Each("efivar", SubSeq(boot, 1, i - 1)), d)
        <4> HIDE DEF boot, f
        <4> QED BY <1>9, <1>10, <3>2, EachForm, DigestType
      <3>4. i' = i + 1 /\ i' <= Len(boot) + 1 /\ i' - 1 = i /\ pc' = "bootxxxx"
        <4>1. pc' = "bootxxxx" /\ i' = i + 1 BY <1>8, <1>23, <2>3 DEF MeasureBootOption
        <4> HIDE DEF boot
        <4> QED BY <1>18, <2>1, <4>1
      <3> DEFINE e == Each("efivar", SubSeq(boot, 1, i - 1))
      <3>5. /\ e \in Seq(Digest) /\ d \in Digest /\ Middle \in Seq(Digest)
            /\ bank'[Cur] = Append(Middle \o (<<Order0>> \o e), d)
            /\ Each("efivar", SubSeq(boot, 1, i)) = Append(e, d) BY <1>9, <3>1, <3>3
      <3>6. bank'[Cur] = Middle \o (<<Order0>> \o Each("efivar", SubSeq(boot, 1, i)))
        <4> HIDE DEF d, e, boot
        <4>1. <<Order0>> \o e \in Seq(Digest) BY <1>19, <3>5, ConcatProperties
        <4>2. Append(Middle \o (<<Order0>> \o e), d) = Middle \o Append(<<Order0>> \o e, d)
          BY <3>5, <4>1, DigestsAppendToSecond, Zenon
        <4>3. Append(<<Order0>> \o e, d) = <<Order0>> \o Append(e, d)
          BY <1>19, <3>5, AppendToSecond
        <4> QED BY <3>5, <4>2, <4>3, Zenon
      <3>7. bank'[Cur] = Middle \o prefix(i') BY <3>4, <3>6
      <3> QED BY <3>4, <3>7, SoFarIntro
    <2> QED BY <2>2, <2>3
  <1>24. CASE BootOptionsDone
    <2>1. /\ i <= Len(boot) + 1 /\ bank[Cur] = Middle \o prefix(i)
          /\ boot # <<>> BY <1>3, <1>24, Zenon DEF BootOptionsDone, SoFar
    <2>2. i - 1 = Len(boot)
      <3>1. i > Len(boot) BY <1>24 DEF BootOptionsDone
      <3> HIDE DEF boot, prefix
      <3> QED BY <1>1, <1>18, <2>1, <3>1
    <2>3. SubSeq(boot, 1, i - 1) = boot
      <3> HIDE DEF boot
      <3> QED BY <1>18, <2>2, PrefixEnds
    <2>4. prefix(i) = BootOptions BY <2>1, <2>3, Zenon DEF BootOptions, Order0
    <2>5. bank'[Cur] = Middle \o BootOptions /\ pc' = "last separator"
      BY <1>6, <1>7, <1>24, <2>1, <2>4 DEF BootOptionsDone
    <2> QED BY <2>5, SoFarIntro
  <1>25. CASE MeasureLastSeparator
    <2> DEFINE b == Middle \o BootOptions
    <2>1. bank[Cur] = b BY <1>3, <1>25, Zenon DEF MeasureLastSeparator, SoFar
    <2>2. b \in Seq(Digest)
      <3>1. BootOptions \in Seq(Digest)
        <4>1. Literal("boot0000") \in Digest BY DigestType DEF Literal, Kind
        <4>2. <<Literal("boot0000")>> \in Seq(Digest) /\ Each("efivar", boot) \in Seq(Digest)
          BY <1>9, <1>18, <4>1, SeqOfOne
        <4>3. (IF boot = <<>> THEN <<Literal("boot0000")>> ELSE Each("efivar", boot)) \in Seq(Digest)
          BY <4>2, Zenon
        <4> QED BY <1>19, <4>3, ConcatProperties, Zenon DEF BootOptions, Order0
      <3> QED BY <1>9, <3>1, ConcatProperties
    <2>3. bank'[Cur] = b \o If(Old, <<Separator>>)
      <3>1. CASE Old
        <4>1. bank'[Cur] = Append(b, Separator)
          BY <1>5, <1>25, <2>1, <3>1 DEF MeasureLastSeparator, Old
        <4>2. Append(b, Separator) = b \o <<Separator>>
          <5> HIDE DEF b
          <5> QED BY <1>9, <2>2, AppendAsConcat
        <4> QED BY <3>1, <4>1, <4>2, Zenon DEF If
      <3>2. CASE ~Old
        <4>1. bank'[Cur] = b BY <1>6, <1>25, <2>1, <3>2 DEF MeasureLastSeparator, Old
        <4>2. b \o <<>> = b
          <5> HIDE DEF b
          <5> QED BY <2>2, ConcatEmpty
        <4> QED BY <3>2, <4>1, <4>2, Zenon DEF If
      <3> QED BY <3>1, <3>2
    <2>4. bank'[Cur] = Reference(Cur) BY <1>2, <2>3, ReferenceIs
    <2>5. pc' = "dispatch" BY <1>8, <1>25 DEF MeasureLastSeparator
    <2> QED BY <2>4, <2>5, SoFarIntro
  <1> QED
    BY <1>11, <1>12, <1>13, <1>14, <1>15, <1>16, <1>17, <1>21, <1>22, <1>23, <1>24, <1>25 DEF CalculateRtmr0

LEMMA HandlerValue ==
  ASSUME IInv, RunningInv, ~Unnoticed(Cur), HandlerStep, pc' \notin {"exited", "crashed"},
         CalculateMrseam \/ CalculateMrtd \/ CalculateRtmr0 \/ CalculateRtmr1 \/ CalculateRtmr2
           \/ CalculateRtmr3
  PROVE  SoFar(pc', i', bank'[Cur])
  <1>1. ~Stops BY DEF Stops, Fail, Crash
  <1> QED BY <1>1, FirmwareValue, LinuxValue, Rtmr0Value, Rtmr1Value
          DEF CalculateMrseam, CalculateMrtd, CalculateRtmr2, CalculateRtmr3

\* What a step depends on that leaves options, files and memory alone.
LEMMA SameReference ==
  ASSUME UNCHANGED <<opts, fs, short>>
  PROVE  /\ \A n \in Mr : Unnoticed(n)' = Unnoticed(n) /\ Reference(n)' = Reference(n)
         /\ Requested' = Requested
  BY DEF Unnoticed, UnknownQemu, Given, Qemu, Firmware, Reference, Each, Optional, If, Old, OvmfVersion, BootOptions,
         Requested

\* The parts of the reference values depend on the options only.
LEMMA SameParts ==
  ASSUME UNCHANGED opts
  PROVE  /\ FirstPart' = FirstPart /\ SecureBoot' = SecureBoot /\ Start0' = Start0 /\ Middle' = Middle
         /\ \A k : AcpiBefore(k)' = AcpiBefore(k)
         /\ Order0' = Order0 /\ BootOptions' = BootOptions /\ Kernel1' = Kernel1 /\ Old' = Old
  BY DEF FirstPart, SecureBoot, Start0, Middle, AcpiBefore, AcpiFiles, Order0, BootOptions, Kernel1,
         Old, OvmfVersion, Optional, Given, Each

\* A step that leaves the registers alone and ends in no handler.
LEMMA ReferenceKept ==
  ASSUME IInv, ReferenceInv, UNCHANGED <<opts, fs, short, turn, bank>>, pc' \notin HandlerLabel,
         ret' = 0 => turn = 7
  PROVE  ReferenceInv'
  <1>1. RunningInv' BY DEF RunningInv
  <1>2. FinishedInv' BY SameReference, OrderInjective DEF ReferenceInv, FinishedInv
  <1> QED BY <1>1, <1>2 DEF ReferenceInv

\* The program ends in a handler.
LEMMA ReferenceStops ==
  ASSUME IInv, ReferenceInv, Stops, ret # 0
  PROVE  ReferenceInv'
  <1>1. /\ UNCHANGED <<opts, fs, short, turn, bank>> /\ pc' \in {"exited", "crashed"}
        /\ ret' \in {ret, -1} BY DEF Stops, Fail, Crash, environment
  <1>2. ret' # 0 BY <1>1
  <1>3. pc' \notin HandlerLabel BY <1>1, Distinct
  <1> QED BY <1>1, <1>2, <1>3, ReferenceKept

LEMMA HandlerReference ==
  ASSUME IInv, ReferenceInv, HandlerStep,
         CalculateMrseam \/ CalculateMrtd \/ CalculateRtmr0 \/ CalculateRtmr1 \/ CalculateRtmr2
           \/ CalculateRtmr3
  PROVE  ReferenceInv'
  <1>1. pc \in HandlerLabel /\ Moves BY DEF HandlerStep
  <1>2. turn \in 1 .. 6 /\ Cur \in Mr /\ ret = 1 /\ ret # 0 /\ Cur = HandlerOrder[turn]
    BY <1>1, HandlerTurn DEF Cur
  <1>3. /\ pc' \in HandlerLabel \cup {"dispatch"} /\ turn' \in {turn, turn + 1}
        /\ pc' \in HandlerLabel => turn' = turn
        /\ pc' = "dispatch" => turn' = turn + 1 BY <1>1, MovesTo
  <1>4. /\ \A n \in Mr : n # Cur => bank'[n] = bank[n]
        /\ UNCHANGED <<opts, fs, short, ret>>
    <2>1. CASE Idle BY <2>1 DEF Idle, environment
    <2>2. CASE \E d \in Digest, text \in Text : LogAndExtend(d, text)
      BY <1>1, <2>2, Measured
    <2> QED BY <2>1, <2>2 DEF HandlerStep
  <1>5. ~Unnoticed(Cur) => SoFar(pc', i', bank'[Cur])
    <2>1. pc' \notin {"exited", "crashed"} BY <1>3, Distinct
    <2> QED BY <2>1, HandlerValue DEF ReferenceInv
  <1>6. /\ \A n \in Mr : Unnoticed(n)' = Unnoticed(n) /\ Reference(n)' = Reference(n)
        /\ Requested' = Requested BY <1>4, SameReference
  <1>7. RunningInv'
    <2> SUFFICES ASSUME pc' \in HandlerLabel, ~Unnoticed(Cur)'
                 PROVE  SoFar(pc, i, bank[Cur])' BY DEF RunningInv
    <2>1. Cur' = Cur BY <1>3 DEF Cur
    <2>2. ~Unnoticed(Cur) BY <1>4, <2>1 DEF Unnoticed, UnknownQemu, Given, Qemu, Firmware
    <2>3. SoFar(pc', i', bank'[Cur']) BY <1>5, <2>1, <2>2
    <2>4. pc' # "dispatch" BY Distinct
    <2>5. /\ FirstPart' = FirstPart /\ SecureBoot' = SecureBoot /\ Start0' = Start0 /\ Middle' = Middle
          /\ \A k : AcpiBefore(k)' = AcpiBefore(k)
          /\ Order0' = Order0 /\ BootOptions' = BootOptions /\ Kernel1' = Kernel1
          /\ (If(~Old, <<Separator>>))' = If(~Old, <<Separator>>) /\ opts' = opts
      BY <1>4, SameParts DEF If
    <2> QED BY <2>1, <2>3, <2>4, <2>5 DEF SoFar
  <1>8. FinishedInv'
    <2> SUFFICES ASSUME NEW t \in 1 .. 6, t < turn', HandlerOrder[t] \in Requested,
                        ~Unnoticed(HandlerOrder[t])
                 PROVE  bank'[HandlerOrder[t]] = Reference(HandlerOrder[t])
      BY <1>6, OrderInjective DEF FinishedInv
    <2>1. CASE t = turn
      <3>1. pc' = "dispatch" BY <1>2, <1>3, <2>1
      <3>2. SoFar("dispatch", i', bank'[Cur]) BY <1>2, <1>5, <2>1, <3>1
      <3>3. bank'[Cur] = Reference(Cur) BY <3>2, Zenon DEF SoFar
      <3> QED BY <1>2, <2>1, <3>3
    <2>2. CASE t # turn
      <3>1. t < turn BY <1>2, <1>3, <2>2
      <3>2. HandlerOrder[t] # Cur /\ HandlerOrder[t] \in Mr BY <1>2, <2>2, OrderInjective
      <3> QED BY <1>4, <3>1, <3>2 DEF ReferenceInv, FinishedInv
    <2> QED BY <2>1, <2>2
  <1> QED BY <1>2, <1>4, <1>7, <1>8 DEF ReferenceInv

\* Parsing the command line; no handler has been called.
LEMMA ParseReference ==
  ASSUME IInv, Parse
  PROVE  ReferenceInv'
  <1>1. pc \in ParseLabel
    BY DEF Parse, Start, ParseFlag, ParseFormat, ParseMrs, ParseValue, ParseDump, ParseList, ParseAcpi,
           ParseInvalid, ParseEnd, Validate, Parsing, ParseLabel
  <1>2. turn = 1 /\ ret = 1 /\ ret # 0
    <2>1. turn = 1 BY <1>1 DEF IInv, ControlInv
    <2> QED BY <1>1, <2>1, Running, Zenon DEF ParseLabel
  <1>3. turn' = turn /\ pc' \in ParseLabel \cup {"dispatch", "exited"} /\ ret' \in {ret, -1}
    BY Zenon DEF Parse, Start, ParseFlag, ParseFormat, ParseMrs, ParseValue, ParseDump, ParseList, ParseAcpi,
           ParseInvalid, ParseEnd, Validate, Parsing, Parsed, Goto, Skip, Fail, ParseLabel
  <1>4. pc' \notin HandlerLabel BY <1>3, Distinct
  <1>5. ret' # 0 BY <1>2, <1>3
  <1>6. RunningInv' BY <1>4 DEF RunningInv
  <1>7. FinishedInv'
    <2>1. \A t \in 1 .. 6 : ~(t < 1) OBVIOUS
    <2>2. turn' = 1 BY <1>2, <1>3
    <2> QED BY <2>1, <2>2 DEF FinishedInv
  <1> QED BY <1>5, <1>6, <1>7 DEF ReferenceInv

LEMMA DispatchReference ==
  ASSUME IInv, ReferenceInv, Dispatch
  PROVE  ReferenceInv'
  <1>1. pc = "dispatch" /\ turn \in 1 .. 7
    BY DEF IInv, TypeInv, TypeControl, Dispatch, NotRequested, CallHandler, AllCalculated
  <1>2. ret = 1 /\ ret # 0 BY <1>1, Running
  <1>3. UNCHANGED <<opts, fs, short, ret>>
    BY DEF Dispatch, NotRequested, CallHandler, AllCalculated, Skip, environment
  <1>4. /\ \A n \in Mr : Unnoticed(n)' = Unnoticed(n) /\ Reference(n)' = Reference(n)
        /\ Requested' = Requested BY <1>3, SameReference
  <1>5. CASE NotRequested
    <2>1. turn \in 1 .. 6 /\ turn' = turn + 1 /\ pc' = "dispatch" /\ bank' = bank /\ Cur \notin Requested
      BY <1>1, <1>5 DEF NotRequested, Return, Skip
    <2>2. RunningInv' BY <2>1, Distinct DEF RunningInv
    <2>3. FinishedInv'
      <3> SUFFICES ASSUME NEW t \in 1 .. 6, t < turn', HandlerOrder[t] \in Requested,
                          ~Unnoticed(HandlerOrder[t])
                   PROVE  bank'[HandlerOrder[t]] = Reference(HandlerOrder[t])
        BY <1>4, OrderInjective DEF FinishedInv
      <3>1. t # turn BY <2>1 DEF Cur
      <3>2. t < turn BY <2>1, <3>1
      <3> QED BY <2>1, <3>2 DEF ReferenceInv, FinishedInv
    <2> QED BY <1>2, <1>3, <2>2, <2>3 DEF ReferenceInv
  <1>6. CASE CallHandler
    <2>1. /\ turn \in 1 .. 6 /\ turn' = turn /\ pc' = FirstStep[turn] /\ i' = 1
          /\ bank' = [bank EXCEPT ![Cur] = <<>>] BY <1>1, <1>6 DEF CallHandler, Goto
    <2>2. Cur' = Cur /\ Cur = HandlerOrder[turn] /\ Cur \in Mr
      BY <2>1, OrderInjective DEF Cur
    <2>3. bank'[Cur] = <<>> /\ \A n \in Mr : n # Cur => bank'[n] = bank[n]
      <3>1. DOMAIN bank = Mr BY DEF IInv, TypeInv, TypeData
      <3> HIDE DEF Cur
      <3> QED BY <2>1, <2>2, <3>1
    <2>4. RunningInv'
      <3>1. pc' \in {"tdx module", "ovmf", "td hob", "kernel", "cmdline", "empty"}
        <4>1. turn \in {1, 2, 3, 4, 5, 6} BY <2>1
        <4>2. /\ FirstStep[1] = "tdx module" /\ FirstStep[2] = "ovmf" /\ FirstStep[3] = "td hob"
              /\ FirstStep[4] = "kernel" /\ FirstStep[5] = "cmdline" /\ FirstStep[6] = "empty"
          BY DEF FirstStep
        <4> QED BY <2>1, <4>1, <4>2
      <3>2. (bank[Cur])' = <<>> BY <2>2, <2>3
      <3>3. SoFar(pc, i, bank[Cur])' BY <3>1, <3>2, Zenon DEF SoFar
      <3> QED BY <3>3 DEF RunningInv
    <2>5. FinishedInv'
      <3> SUFFICES ASSUME NEW t \in 1 .. 6, t < turn, HandlerOrder[t] \in Requested,
                          ~Unnoticed(HandlerOrder[t])
                   PROVE  bank'[HandlerOrder[t]] = Reference(HandlerOrder[t])
        BY <1>4, <2>1, OrderInjective DEF FinishedInv
      <3>1. t # turn BY <2>1
      <3>2. HandlerOrder[t] # Cur /\ HandlerOrder[t] \in Mr
        BY <2>1, <2>2, <3>1, OrderInjective
      <3> QED BY <2>3, <3>2 DEF ReferenceInv, FinishedInv
    <2> QED BY <1>2, <1>3, <2>4, <2>5 DEF ReferenceInv
  <1>7. CASE AllCalculated
    <2>1. turn' = turn /\ pc' = "open log" /\ bank' = bank
      BY <1>7 DEF AllCalculated, Goto, Skip
    <2>2. pc' \notin HandlerLabel BY <2>1, Distinct DEF OutputLabel
    <2> QED BY <1>2, <1>3, <2>1, <2>2, ReferenceKept
  <1> QED BY <1>5, <1>6, <1>7 DEF Dispatch

LEMMA InitReference == Init => ReferenceInv
  <1> SUFFICES ASSUME Init PROVE ReferenceInv OBVIOUS
  <1>1. turn = 1 /\ pc = "start" /\ ret = 1 BY DEF Init
  <1>2. RunningInv BY <1>1, Distinct DEF RunningInv, ParseLabel
  <1>3. FinishedInv
    <2>1. \A t \in 1 .. 6 : ~(t < 1) OBVIOUS
    <2> QED BY <1>1, <2>1 DEF FinishedInv
  <1> QED BY <1>1, <1>2, <1>3 DEF ReferenceInv

LEMMA NextReference == IInv /\ ReferenceInv /\ [Next]_vars => ReferenceInv'
  <1> SUFFICES ASSUME IInv, ReferenceInv, [Next]_vars PROVE ReferenceInv' OBVIOUS
  <1>1. CASE Parse BY <1>1, ParseReference
  <1>2. CASE Dispatch BY <1>2, DispatchReference
  <1>3. CASE CalculateMrseam \/ CalculateMrtd \/ CalculateRtmr0 \/ CalculateRtmr1 \/ CalculateRtmr2
               \/ CalculateRtmr3
    <2>1. CASE HandlerStep BY <1>3, <2>1, HandlerReference
    <2>2. CASE Stops
      <3>1. pc \notin {"exited", "crashed"}
        BY <1>3 DEF CalculateMrseam, CalculateMrtd, CalculateRtmr0, CalculateRtmr1, CalculateRtmr2,
           CalculateRtmr3, MeasureTdxModule, MeasureFirmware, MeasureTdHob, MeasureCfv,
           MeasureSecureBootVar, SecureBootDone, MeasureSeparator, MeasureAcpi, AcpiDone,
           MeasureBootOrder, MeasureDefaultBootOption, MeasureBootOption, BootOptionsDone,
           MeasureLastSeparator, MeasureKernel, DumpKernel, MeasureBootAction, MeasureBootSeparator,
           MeasureExitBoot, MeasureBootExited, MeasureCmdline, MeasureNothing
      <3> QED BY <2>2, <3>1, Running, ReferenceStops
    <2> QED BY <1>3, <2>1, <2>2, HandlerForm
  <1>4. CASE Output
    <2>1. /\ pc \in OutputLabel /\ UNCHANGED <<opts, fs, short, bank, turn>>
          /\ pc' \in OutputLabel \cup {"exited"} BY <1>4, OutputForm
    <2>2. turn = 7 BY <2>1 DEF IInv, ControlInv
    <2>3. pc' \notin HandlerLabel BY <2>1, Distinct
    <2> QED BY <2>1, <2>2, <2>3, ReferenceKept
  <1>5. CASE OutOfMemory BY <1>5, Running, ReferenceStops DEF OutOfMemory, Stops
  <1>6. CASE UNCHANGED vars
    <2>1. UNCHANGED <<opts, fs, short, pc, turn, i, bank, ret>> BY <1>6 DEF vars
    <2>2. FinishedInv' BY <2>1, SameReference, OrderInjective DEF ReferenceInv, FinishedInv
    <2>3. RunningInv'
      <3>1. Cur' = Cur BY <2>1 DEF Cur
      <3>2. ASSUME pc \in HandlerLabel, ~Unnoticed(Cur)'
            PROVE  SoFar(pc, i, bank[Cur])'
        <4>1. SoFar(pc, i, bank[Cur])
          BY <2>1, <3>1, <3>2 DEF ReferenceInv, RunningInv, Unnoticed, UnknownQemu, Given, Qemu, Firmware
        <4>2. pc # "dispatch" BY <3>2, Distinct
        <4>3. /\ FirstPart' = FirstPart /\ SecureBoot' = SecureBoot /\ Start0' = Start0 /\ Middle' = Middle
              /\ \A k : AcpiBefore(k)' = AcpiBefore(k)
              /\ Order0' = Order0 /\ BootOptions' = BootOptions /\ Kernel1' = Kernel1
              /\ (If(~Old, <<Separator>>))' = If(~Old, <<Separator>>)
          BY <2>1, SameParts DEF If
        <4> QED BY <2>1, <3>1, <4>1, <4>2, <4>3 DEF SoFar
      <3> QED BY <2>1, <3>2 DEF RunningInv
    <2> QED BY <2>1, <2>2, <2>3 DEF ReferenceInv
  <1> QED BY <1>1, <1>2, <1>3, <1>4, <1>5, <1>6 DEF Next, Terminated

\* A summary line shows the register of a domain with the given inputs, for
\* every number of boot options, both orders of the separators of OVMF, and
\* whichever registers are asked for in whichever order, unless the inputs are
\* among those whose failure the program does not notice (mrs.c:55-401,
\* main.c:385-480).
THEOREM PublishedIsReference == Spec => []PublishedMatchReference
  <1>1. IInv /\ ReferenceInv => PublishedMatchReference
    <2> SUFFICES ASSUME IInv, ReferenceInv, NEW k \in DOMAIN out, out[k].t = "mr", ~Unnoticed(out[k].mr)
                 PROVE  out[k].value = Reference(out[k].mr) BY DEF PublishedMatchReference
    <2>1. out[k].mr \in Requested /\ out[k].value = bank[out[k].mr] BY DEF IInv, PrintedInv
    <2>2. out[k].mr \in Mr
      <3>1. out[k] \in TokenSet BY DEF IInv, TypeInv, TypeData
      <3> QED BY <3>1 DEF TokenSet
    <2>3. turn = 7
      <3>1. pc = "print summary" \/ ret = 0 BY DEF IInv, SilentInv
      <3>2. CASE pc = "print summary" BY <3>2, Zenon DEF IInv, ControlInv, OutputLabel
      <3> QED BY <3>1, <3>2 DEF ReferenceInv
    <2>4. PICK t \in 1 .. 6 : HandlerOrder[t] = out[k].mr BY <2>2, OrderInjective
    <2>5. t < turn BY <2>3
    <2> QED BY <2>1, <2>4, <2>5 DEF ReferenceInv, FinishedInv
  <1>2. Spec => []ReferenceInv BY InvariantHolds, InitReference, NextReference, PTL DEF Spec
  <1> QED BY <1>1, <1>2, InvariantHolds, PTL

-----------------------------------------------------------------------------
(* What a run that goes on says *)

\* What it may talk of while it parses its options, and later: an input that
\* spoils a register it was asked for.
Unread == short \/ opts.flag["verbose"] \/ \E f \in File : fs[f] = "locked"

Reason == Unread \/ \E n \in Requested : Unnoticed(n)

SaidInv ==
  /\ said \in BOOLEAN
  /\ said => Reason
  /\ said /\ pc \in {"start", "parse"} => Unread

\* The step says nothing, or has a reason.
SaysWhy == said' = said \/ (said' = TRUE /\ Reason)

LEMMA SaysWhyIntro ==
  ASSUME said \in BOOLEAN
  PROVE  /\ \A d : Measure(d) => SaysWhy
         /\ \A d, text : MeasureText(d, text) => SaysWhy
         /\ (Warn \/ MeasureGarbage) /\ Reason => SaysWhy
         /\ Skip \/ Fail \/ Crash => SaysWhy
         /\ short => Reason
  <1>1. short => Reason BY DEF Reason, Unread
  <1>2. ASSUME NEW d, NEW text, MeasureText(d, text)
        PROVE  SaysWhy
    <2>1. CASE short
      <3>1. said' \in BOOLEAN /\ (said => said') BY <1>2, Zenon DEF MeasureText, ReportsLoss
      <3> QED BY <1>1, <2>1, <3>1, Zenon DEF SaysWhy
    <2>2. CASE ~short
      BY <1>2, <2>2, Zenon DEF MeasureText, LogAndExtend, EvlogAdd, ReportsLoss, SaysWhy
    <2> QED BY <2>1, <2>2
  <1> QED BY <1>1, <1>2, Zenon DEF Measure, MeasureGarbage, Warn, Skip, Fail, Crash, SaysWhy

LEMMA FirmwareSays ==
  ASSUME IInv, said \in BOOLEAN, MeasureTdxModule \/ MeasureFirmware
  PROVE  SaysWhy
  <1>1. CASE MeasureTdxModule BY <1>1, SaysWhyIntro, Zenon DEF MeasureTdxModule
  <1>2. CASE MeasureFirmware
    <2>1. pc = "ovmf" /\ pc \in HandlerLabel BY <1>2 DEF MeasureFirmware, HandlerLabel
    <2>2. Cur = MRTD /\ Cur \in Requested /\ ValidRequest BY <2>1, CurAt, HandlerTurn
    <2>3. Given("ovmf") BY <2>2, Zenon DEF ValidRequest
    <2>4. fs[Firmware] = "unsound" \/ UnknownQemu \/ short => Unnoticed(MRTD)
      BY <2>3 DEF Unnoticed
    <2>5. fs[Firmware] = "unsound" \/ UnknownQemu \/ short => Reason
      BY <2>2, <2>4, Zenon DEF Reason
    <2> QED BY <1>2, <2>5, SaysWhyIntro, Zenon DEF MeasureFirmware
  <1> QED BY <1>1, <1>2

LEMMA Rtmr0Says ==
  ASSUME IInv, said \in BOOLEAN, CalculateRtmr0
  PROVE  SaysWhy
  <1>1. CASE MeasureCfv
    <2>1. pc = "cfv" /\ pc \in HandlerLabel BY <1>1 DEF MeasureCfv, HandlerLabel, Rtmr0Label
    <2>2. Cur = RTMR0 /\ Cur \in Requested BY <2>1, CurAt, HandlerTurn DEF Rtmr0Label
    <2>3. Firmware # NoFile /\ fs[Firmware] = "unsound" => Unnoticed(RTMR0)
      BY DEF Unnoticed, Given, Firmware
    <2>4. Firmware # NoFile /\ fs[Firmware] = "unsound" => Reason
      BY <2>2, <2>3, Zenon DEF Reason
    <2> QED BY <1>1, <2>4, SaysWhyIntro, Zenon DEF MeasureCfv, FailUninitialised
  <1>2. CASE MeasureTdHob \/ MeasureSecureBootVar \/ SecureBootDone \/ MeasureSeparator
    BY <1>2, SaysWhyIntro, Zenon
    DEF MeasureTdHob, MeasureSecureBootVar, SecureBootDone, MeasureSeparator, FailUninitialised,
        ReturnUnmeasured
  <1>3. CASE MeasureAcpi \/ AcpiDone \/ MeasureBootOrder \/ MeasureDefaultBootOption
    BY <1>3, SaysWhyIntro, Zenon DEF MeasureAcpi, AcpiDone, MeasureBootOrder, MeasureDefaultBootOption
  <1>4. CASE MeasureBootOption \/ BootOptionsDone \/ MeasureLastSeparator
    BY <1>4, SaysWhyIntro, Zenon DEF MeasureBootOption, BootOptionsDone, MeasureLastSeparator
  <1> QED BY <1>1, <1>2, <1>3, <1>4 DEF CalculateRtmr0

LEMMA Rtmr1Says ==
  ASSUME IInv, said \in BOOLEAN, CalculateRtmr1
  PROVE  SaysWhy
  <1>1. pc \in Rtmr1Label /\ pc \in HandlerLabel
    BY DEF CalculateRtmr1, MeasureKernel, DumpKernel, MeasureBootAction, MeasureBootSeparator,
       MeasureExitBoot, MeasureBootExited, Rtmr1Label, HandlerLabel
  <1>2. Cur = RTMR1 /\ Cur \in Requested /\ ValidRequest BY <1>1, CurAt, HandlerTurn
  <1>3. Given("kernel") BY <1>2, Zenon DEF ValidRequest
  <1>4. Unnoticed(RTMR1) => Reason BY <1>2, Zenon DEF Reason
  <1>5. fs[opts.file["kernel"]] = "bad" \/ short => Reason BY <1>3, <1>4 DEF Unnoticed
  <1>6. opts.file["dumpkernel"] # NoFile /\ fs[opts.file["dumpkernel"]] = "locked" => Reason
    BY <1>4 DEF Unnoticed, Given
  <1>7. CASE MeasureKernel
    BY <1>5, <1>7, SaysWhyIntro, Zenon DEF MeasureKernel, FailUninitialised, ReturnUnmeasured
  <1>8. CASE DumpKernel
    BY <1>5, <1>6, <1>8, SaysWhyIntro, Zenon DEF DumpKernel, ReturnUnmeasured
  <1>9. CASE MeasureBootAction \/ MeasureBootSeparator \/ MeasureExitBoot \/ MeasureBootExited
    BY <1>9, SaysWhyIntro, Zenon
    DEF MeasureBootAction, MeasureBootSeparator, MeasureExitBoot, MeasureBootExited, ReturnUnmeasured
  <1> QED BY <1>7, <1>8, <1>9 DEF CalculateRtmr1

LEMMA HandlerSays ==
  ASSUME IInv, said \in BOOLEAN,
         CalculateMrseam \/ CalculateMrtd \/ CalculateRtmr0 \/ CalculateRtmr1 \/ CalculateRtmr2
           \/ CalculateRtmr3
  PROVE  SaysWhy
  <1>1. CalculateRtmr2 \/ CalculateRtmr3 => SaysWhy
    BY SaysWhyIntro, Zenon DEF CalculateRtmr2, CalculateRtmr3, MeasureCmdline, MeasureNothing
  <1> QED BY <1>1, FirmwareSays, Rtmr0Says, Rtmr1Says DEF CalculateMrseam, CalculateMrtd

LEMMA ParseSays ==
  ASSUME IInv, SaidInv, Parse
  PROVE  SaidInv' /\ (said => said')
  <1>0. said \in BOOLEAN BY DEF SaidInv
  <1>1. fs' = fs /\ short' = short
    BY Zenon DEF Parse, Start, ParseFlag, ParseFormat, ParseMrs, ParseValue, ParseDump, ParseList, ParseAcpi,
           ParseInvalid, ParseEnd, Validate, Parsed, Skip, Fail, environment
  <1>2. CASE Start \/ ParseInvalid \/ ParseEnd \/ Validate \/ Fail
    <2>1. said' = said /\ opts' = opts
      BY <1>2, Zenon DEF Start, ParseInvalid, ParseEnd, Validate, Skip, Fail, environment
    <2>2. pc' \in {"start", "parse"} => pc \in {"start", "parse"}
      BY <1>2 DEF Start, ParseInvalid, ParseEnd, Validate, Goto, Fail
    <2>3. Unread' = Unread /\ Reason' = Reason
      BY <1>1, <2>1 DEF Reason, Unread, Requested, Unnoticed, UnknownQemu, Given, Qemu, Firmware
    <2> QED BY <1>0, <2>1, <2>2, <2>3, Zenon DEF SaidInv
  \* An option that has been read leaves --verbose as it was, or sets it.
  <1>3. ASSUME pc = "parse", said' \in BOOLEAN, said => said',
               opts.flag["verbose"] => opts'.flag["verbose"],
               said' => \/ said \/ opts'.flag["verbose"] \/ short
                        \/ \E f \in File : fs[f] = "locked"
        PROVE  SaidInv' /\ (said => said')
    <2>1. Unread => Unread' BY <1>1, <1>3, Zenon DEF Unread
    <2>2. said' => Unread'
      <3>1. CASE said
        <4>1. Unread BY <1>3, <3>1 DEF SaidInv
        <4> QED BY <2>1, <4>1
      <3>2. CASE ~said BY <1>1, <1>3, <3>2, Zenon DEF Unread
      <3> QED BY <3>1, <3>2
    <2>3. Unread' => Reason' BY DEF Reason
    <2> QED BY <1>3, <2>2, <2>3, Zenon DEF SaidInv
  <1>4. /\ opts.flag \in [FlagOption \cup {"json"} -> BOOLEAN] /\ "verbose" \in FlagOption
        /\ opts \in Options /\ TypeInv BY DEF IInv, TypeInv, TypeInput, Options, FlagOption
  <1>5. CASE ParseFlag
    <2>1. opts.flag["verbose"] => opts'.flag["verbose"]
      BY <1>4, <1>5 DEF ParseFlag, Parsed, Options
    <2>2. NextArg.opt = "verbose" => opts'.flag["verbose"]
      BY <1>4, <1>5 DEF ParseFlag, Parsed, Options
    <2>3. pc = "parse" /\ said' = (said \/ NextArg.opt = "verbose")
      BY <1>5 DEF ParseFlag, Parsing
    <2>4. said' \in BOOLEAN /\ (said => said') /\ (said' => said \/ NextArg.opt = "verbose")
      BY <1>0, <2>3, Zenon
    <2> QED BY <1>3, <2>1, <2>2, <2>3, <2>4, Zenon
  <1>6. CASE ParseFormat
    <2>1. opts'.flag["verbose"] = opts.flag["verbose"]
      BY <1>4, <1>6 DEF ParseFormat, Parsed, Options
    <2>2. pc = "parse" /\ said' = said BY <1>6 DEF ParseFormat, Parsing, Silently
    <2> QED BY <1>0, <1>3, <2>1, <2>2, Zenon
  <1>7. CASE ParseMrs \/ ParseValue \/ ParseDump \/ ParseList
    <2>1. Fail \/ (opts'.flag = opts.flag /\ said' = said)
      BY <1>4, <1>7 DEF ParseMrs, ParseValue, ParseDump, ParseList, Parsed, Options, Silently
    <2>2. pc = "parse" BY <1>7 DEF ParseMrs, ParseValue, ParseDump, ParseList, Parsing
    <2> QED BY <1>0, <1>2, <1>3, <2>1, <2>2, Zenon
  <1>8. CASE ParseAcpi
    <2>1. Fail \/ opts'.flag = opts.flag BY <1>4, <1>8 DEF ParseAcpi, Parsed, Options
    <2>2. NextArg.val \in File
      <3>1. NextArg.val \in Name BY <1>4, <1>8, ArgumentType DEF ParseAcpi, FileOption
      <3> QED BY <1>8, <3>1 DEF ParseAcpi, HasValue, Name
    <2>3. \/ Fail
          \/ pc = "parse" /\ (said' = said \/ (said' = TRUE /\ (fs[NextArg.val] = "locked" \/ short)))
      BY <1>8, Zenon DEF ParseAcpi, Parsing, Silently
    <2> QED BY <1>0, <1>2, <1>3, <2>1, <2>2, <2>3, Zenon
  <1> QED BY <1>2, <1>5, <1>6, <1>7, <1>8 DEF Parse

LEMMA NextSays == IInv /\ SaidInv /\ [Next]_vars => SaidInv' /\ (said => said')
  <1> SUFFICES ASSUME IInv, SaidInv, [Next]_vars PROVE SaidInv' /\ (said => said') OBVIOUS
  <1>0. said \in BOOLEAN BY DEF SaidInv
  <1>1. CASE Parse BY <1>1, ParseSays
  <1>2. ASSUME UNCHANGED <<opts, fs, short>>
        PROVE  Unread' = Unread /\ Reason' = Reason
    BY <1>2 DEF Reason, Unread, Requested, Unnoticed, UnknownQemu, Given, Qemu, Firmware
  <1>3. ASSUME UNCHANGED <<opts, fs, short>>, SaysWhy, pc' \notin {"start", "parse"}
        PROVE  SaidInv' /\ (said => said')
    <2>1. said' \in BOOLEAN /\ (said => said')
      <3>1. CASE said' = said BY <1>0, <3>1, Zenon
      <3>2. CASE said' = TRUE BY <3>2, Zenon
      <3> QED BY <1>3, <3>1, <3>2, Zenon DEF SaysWhy
    <2>2. said' => Reason BY <1>3, Zenon DEF SaysWhy, SaidInv
    <2>3. Reason' = Reason BY <1>2, <1>3
    <2> QED BY <1>3, <2>1, <2>2, <2>3, Zenon DEF SaidInv
  <1>4. \A l \in HandlerLabel \cup OutputLabel \cup {"dispatch", "exited", "crashed"} :
          l \notin {"start", "parse"}
    BY DEF HandlerLabel, Rtmr0Label, Rtmr1Label, OutputLabel
  <1>5. CASE Dispatch
    <2>1. said' = said /\ UNCHANGED <<opts, fs, short>>
      BY <1>5, Zenon DEF Dispatch, NotRequested, CallHandler, AllCalculated, Skip, environment
    <2>2. pc' \in HandlerLabel \cup {"dispatch", "open log"}
      <3>1. CASE CallHandler
        <4>1. pc' = FirstStep[turn] /\ turn \in 1 .. 6
          BY <3>1 DEF CallHandler, Goto, IInv, TypeInv, TypeControl
        <4> QED BY <4>1, FirstStepLabel, Distinct
      <3> QED BY <1>5, <3>1 DEF Dispatch, NotRequested, AllCalculated, Return, Goto
    <2>3. pc' \notin {"start", "parse"} BY <1>4, <2>2 DEF OutputLabel
    <2> QED BY <1>3, <2>1, <2>3 DEF SaysWhy
  <1>6. CASE CalculateMrseam \/ CalculateMrtd \/ CalculateRtmr0 \/ CalculateRtmr1 \/ CalculateRtmr2
               \/ CalculateRtmr3
    <2>1. SaysWhy BY <1>0, <1>6, HandlerSays
    <2>2. CASE HandlerStep
      <3>1. pc \in HandlerLabel /\ Moves BY <2>2 DEF HandlerStep
      <3>2. pc' \notin {"start", "parse"} BY <1>4, <3>1, MovesTo
      <3>3. UNCHANGED <<opts, fs, short>>
        BY <2>2 DEF HandlerStep, Idle, LogAndExtend, environment
      <3> QED BY <1>3, <2>1, <3>2, <3>3
    <2>3. CASE Stops
      <3>1. UNCHANGED <<opts, fs, short>> /\ pc' \in {"exited", "crashed"}
        BY <2>3 DEF Stops, Fail, Crash, environment
      <3> QED BY <1>3, <1>4, <2>1, <3>1
    <2> QED BY <1>6, <2>2, <2>3, HandlerForm
  <1>7. CASE Output
    <2>1. said' = said
      BY <1>7, Zenon
      DEF Output, OpenLog, PrintLog, LogDone, OpenSummary, PrintRegister, SummaryDone, Emit, Skip
    <2>2. UNCHANGED <<opts, fs, short>> /\ pc' \in OutputLabel \cup {"exited"}
      BY <1>7, OutputForm
    <2> QED BY <1>3, <1>4, <2>1, <2>2 DEF SaysWhy
  <1>8. CASE OutOfMemory
    <2>1. said' = said /\ UNCHANGED <<opts, fs, short>> /\ pc' = "crashed"
      BY <1>8 DEF OutOfMemory, Crash, environment
    <2> QED BY <1>3, <2>1 DEF SaysWhy
  <1>9. CASE UNCHANGED vars
    <2>1. said' = said /\ pc' = pc /\ UNCHANGED <<opts, fs, short>> BY <1>9 DEF vars
    <2> QED BY <1>2, <2>1, Zenon DEF SaidInv
  <1> QED BY <1>1, <1>5, <1>6, <1>7, <1>8, <1>9 DEF Next, Terminated

-----------------------------------------------------------------------------
(* The output as a document: the logs it is printed from *)

\* Nothing gets lost on the way to the log, or the run would have said so, and
\* every text is printed as one.
Clean == TextsPlain /\ ~said

FirstLabel == {"tdx module", "ovmf", "td hob", "kernel", "cmdline", "empty"}

\* Only requested registers have events, and each of them has some once its
\* handler has taken a step, RTMR3 excepted.
EventsInv ==
  /\ \A n \in Mr : log[n] # <<>> => n \in Requested
  /\ (pc \notin OutputLabel /\ ret # 0) \/ pc = "open log" => out = <<>>
  /\ Clean =>
       /\ \A n \in Mr : \A k \in DOMAIN log[n] : log[n][k].text = "plain"
       /\ pc \in HandlerLabel /\ pc \notin FirstLabel => log[Cur] # <<>>
       /\ \A t \in 1 .. 5 : t < turn /\ HandlerOrder[t] \in Requested => log[HandlerOrder[t]] # <<>>

\* While nothing has been said every handler but that of RTMR3 starts with a
\* measurement, and every measurement adds its text to the log.
Lists == \E d : log' = WithEntry(d, "plain")

Passes == log' = log /\ (pc \notin FirstLabel \/ turn = 6)

LEMMA Listing ==
  ASSUME said \in BOOLEAN, TextsPlain, ~said'
  PROVE  /\ \A d : Measure(d) => Lists
         /\ \A d, f : MeasureText(d, NameOf(f)) \/ MeasureText(d, PathOf(f)) => Lists
         /\ ~Warn /\ ~MeasureGarbage
         /\ Fail \/ Crash => Stops
         /\ Skip => log' = log
  <1>1. \A f : NameOf(f) = "plain" /\ PathOf(f) = "plain" BY DEF TextsPlain, NameOf, PathOf
  <1>2. \A d : MeasureText(d, "plain") => Lists BY Zenon DEF MeasureText, ReportsLoss, Lists
  <1>3. ~Warn /\ ~MeasureGarbage BY Zenon DEF Warn, MeasureGarbage
  <1> QED BY <1>1, <1>2, <1>3, Zenon DEF Measure, Stops, Skip

LEMMA CleanRtmr0 ==
  ASSUME said \in BOOLEAN, TextsPlain, ~said', CalculateRtmr0
  PROVE  Stops \/ Lists \/ Passes
  <1> USE Listing DEF FailUninitialised, Passes
  <1>1. CASE MeasureTdHob BY <1>1, Zenon DEF MeasureTdHob
  <1>2. CASE MeasureCfv
    <2>1. pc \notin FirstLabel BY <1>2 DEF MeasureCfv, FirstLabel
    <2> QED BY <1>2, <2>1, Zenon DEF MeasureCfv
  <1>3. CASE MeasureSecureBootVar BY <1>3, Zenon DEF MeasureSecureBootVar
  <1>4. CASE SecureBootDone \/ AcpiDone \/ BootOptionsDone
    <2>1. pc \notin FirstLabel
      BY <1>4 DEF SecureBootDone, AcpiDone, BootOptionsDone, FirstLabel
    <2> QED BY <1>4, <2>1, Zenon DEF SecureBootDone, AcpiDone, BootOptionsDone
  <1>5. CASE MeasureSeparator BY <1>5, Zenon DEF MeasureSeparator, ReturnUnmeasured
  <1>6. CASE MeasureAcpi
    <2>1. pc \notin FirstLabel BY <1>6 DEF MeasureAcpi, FirstLabel
    <2> QED BY <1>6, <2>1, Zenon DEF MeasureAcpi
  <1>7. CASE MeasureBootOrder \/ MeasureDefaultBootOption \/ MeasureBootOption
    BY <1>7, Zenon DEF MeasureBootOrder, MeasureDefaultBootOption, MeasureBootOption
  <1>8. CASE MeasureLastSeparator
    <2>1. pc \notin FirstLabel BY <1>8 DEF MeasureLastSeparator, FirstLabel
    <2> QED BY <1>8, <2>1, Zenon DEF MeasureLastSeparator
  <1> QED BY <1>1, <1>2, <1>3, <1>4, <1>5, <1>6, <1>7, <1>8, Zenon DEF CalculateRtmr0

LEMMA CleanRtmr1 ==
  ASSUME said \in BOOLEAN, TextsPlain, ~said', CalculateRtmr1
  PROVE  Stops \/ Lists \/ Passes
  <1> USE Listing DEF FailUninitialised, Passes
  <1>1. CASE MeasureKernel BY <1>1, Zenon DEF MeasureKernel, ReturnUnmeasured
  <1>2. CASE DumpKernel
    <2>1. pc \notin FirstLabel BY <1>2 DEF DumpKernel, FirstLabel
    <2> QED BY <1>2, <2>1, Zenon DEF DumpKernel, ReturnUnmeasured
  <1>3. CASE MeasureBootAction \/ MeasureExitBoot \/ MeasureBootExited
    BY <1>3, Zenon DEF MeasureBootAction, MeasureExitBoot, MeasureBootExited
  <1>4. CASE MeasureBootSeparator
    <2>1. pc \notin FirstLabel BY <1>4 DEF MeasureBootSeparator, FirstLabel
    <2> QED BY <1>4, <2>1, Zenon DEF MeasureBootSeparator, ReturnUnmeasured
  <1> QED BY <1>1, <1>2, <1>3, <1>4 DEF CalculateRtmr1

LEMMA CleanForm ==
  ASSUME IInv, said \in BOOLEAN, TextsPlain, ~said',
         CalculateMrseam \/ CalculateMrtd \/ CalculateRtmr0 \/ CalculateRtmr1 \/ CalculateRtmr2
           \/ CalculateRtmr3
  PROVE  Stops \/ Lists \/ Passes
  <1>1. CASE CalculateMrseam \/ CalculateMrtd \/ CalculateRtmr2
    BY <1>1, Listing, Zenon
    DEF CalculateMrseam, CalculateMrtd, CalculateRtmr2, MeasureTdxModule, MeasureFirmware, MeasureCmdline
  <1>2. CASE CalculateRtmr3
    <2>1. pc = "empty" /\ pc \in HandlerLabel /\ Skip
      BY <1>2 DEF CalculateRtmr3, MeasureNothing, HandlerLabel
    <2>2. turn = 6 BY <2>1, HandlerTurn DEF AtTurn, Rtmr0Label, Rtmr1Label
    <2> QED BY <2>1, <2>2 DEF Passes, Skip
  <1> QED BY <1>1, <1>2, CleanRtmr0, CleanRtmr1, Zenon

LEMMA AppendWhole ==
  ASSUME NEW s \in Seq(Entry), NEW d, \A k \in DOMAIN s : s[k].text = "plain"
  PROVE  LET t == Append(s, [digest |-> d, text |-> "plain"])
         IN  t # <<>> /\ \A k \in DOMAIN t : t[k].text = "plain"
  <1> DEFINE e == [digest |-> d, text |-> "plain"]
             t == Append(s, e)
  <1>1. e.text = "plain" OBVIOUS
  <1> HIDE DEF e
  <1>2. s \in Seq(Entry \cup {e}) /\ e \in Entry \cup {e} OBVIOUS
  <1>3. /\ DOMAIN t = 1 .. Len(s) + 1 /\ DOMAIN s = 1 .. Len(s) /\ Len(s) \in Nat /\ t # <<>>
        /\ t[Len(s) + 1] = e /\ \A k \in 1 .. Len(s) : t[k] = s[k] BY <1>2
  <1>4. \A k \in 1 .. Len(s) + 1 : k \in 1 .. Len(s) \/ k = Len(s) + 1 BY <1>3
  <1> HIDE DEF t
  <1>5. t # <<>> /\ \A k \in DOMAIN t : t[k].text = "plain" BY <1>1, <1>3, <1>4
  <1> QED BY <1>5 DEF t, e

LEMMA StillClean ==
  ASSUME fs' = fs, said => said'
  PROVE  Clean' => Clean BY Zenon DEF Clean, TextsPlain, QuotedFiles, LongFiles

LEMMA HandlerEvents ==
  ASSUME IInv, EventsInv, SaidInv, said => said', HandlerStep,
         CalculateMrseam \/ CalculateMrtd \/ CalculateRtmr0 \/ CalculateRtmr1 \/ CalculateRtmr2
           \/ CalculateRtmr3
  PROVE  EventsInv'
  <1>1. pc \in HandlerLabel /\ Moves BY DEF HandlerStep
  <1>2. /\ turn \in 1 .. 6 /\ Cur \in Mr /\ Cur \in Requested /\ Cur = HandlerOrder[turn]
        /\ ret = 1 /\ ret # 0 /\ log[Cur] \in Seq(Entry) BY <1>1, HandlerTurn DEF Cur
  <1>3. /\ pc' \in HandlerLabel \cup {"dispatch"} /\ turn' \in {turn, turn + 1}
        /\ pc' \in HandlerLabel => turn' = turn
        /\ pc' = "dispatch" => turn' = turn + 1 BY <1>1, MovesTo
  <1>4. /\ \A n \in Mr : n # Cur => log'[n] = log[n]
        /\ UNCHANGED <<opts, fs, short, out, ret>>
    <2>1. CASE Idle BY <2>1 DEF Idle, environment
    <2>2. CASE \E d \in Digest, text \in Text : LogAndExtend(d, text)
      BY <1>1, <2>2, Measured
    <2> QED BY <2>1, <2>2 DEF HandlerStep
  <1>5. Requested' = Requested /\ (Clean' => Clean) BY <1>4, StillClean DEF Requested
  <1>6. ~Stops
    <2>1. pc' \notin {"exited", "crashed"} BY <1>3, Distinct
    <2> QED BY <2>1 DEF Stops, Fail, Crash
  <1>7. out' = <<>>
    <2>1. pc \notin OutputLabel BY <1>1, Distinct
    <2> QED BY <1>2, <1>4, <2>1 DEF EventsInv
  <1>8. \A n \in Mr : log'[n] # <<>> => n \in Requested BY <1>2, <1>4 DEF EventsInv
  <1>9. ASSUME Clean'
        PROVE  /\ \A k \in DOMAIN log'[Cur] : log'[Cur][k].text = "plain"
               /\ log'[Cur] # <<>> \/ turn = 6
    <2>1. \A k \in DOMAIN log[Cur] : log[Cur][k].text = "plain"
      BY <1>2, <1>5, <1>9 DEF EventsInv
    <2>2. CASE Lists
      <3>1. PICK d : log' = WithEntry(d, "plain") BY <2>2 DEF Lists
      <3>2. log' = [log EXCEPT ![Cur] = Append(@, [digest |-> d, text |-> "plain"])]
        BY <3>1 DEF WithEntry
      <3>3. log \in [Mr -> Seq(Entry)] BY DEF IInv, TypeInv, TypeData
      <3>4. log'[Cur] = Append(log[Cur], [digest |-> d, text |-> "plain"])
        <4> HIDE DEF Cur
        <4> QED BY <1>2, <3>2, <3>3
      <3> QED BY <1>2, <2>1, <3>4, AppendWhole
    <2>3. CASE Passes
      <3>1. log' = log /\ (pc \notin FirstLabel \/ turn = 6) BY <2>3 DEF Passes
      <3>2. pc \notin FirstLabel => log[Cur] # <<>> BY <1>1, <1>5, <1>9 DEF EventsInv
      <3> QED BY <2>1, <2>3, <3>1, <3>2
    <2>4. said \in BOOLEAN /\ TextsPlain /\ ~said' BY <1>5, <1>9, Zenon DEF SaidInv, Clean
    <2> QED BY <1>6, <2>2, <2>3, <2>4, CleanForm
  <1>10. ASSUME Clean'
         PROVE  \A n \in Mr : \A k \in DOMAIN log'[n] : log'[n][k].text = "plain"
    <2> SUFFICES ASSUME NEW n \in Mr
                 PROVE  \A k \in DOMAIN log'[n] : log'[n][k].text = "plain" OBVIOUS
    <2>1. CASE n = Cur BY <1>9, <1>10, <2>1
    <2>2. CASE n # Cur BY <1>4, <1>5, <1>10, <2>2 DEF EventsInv
    <2> QED BY <2>1, <2>2
  <1>11. ASSUME Clean', pc' \in HandlerLabel, pc' \notin FirstLabel
         PROVE  log'[Cur'] # <<>>
    <2>1. Cur' = Cur BY <1>3, <1>11 DEF Cur
    <2>2. turn # 6
      <3>1. AtTurn(turn', pc') /\ turn' = turn BY <1>1, <1>11, MovesTo
      <3>2. AtTurn(6, pc') => pc' = "empty" BY DEF AtTurn
      <3> QED BY <1>11, <3>1, <3>2 DEF FirstLabel
    <2> QED BY <1>9, <1>11, <2>1, <2>2
  <1>12. ASSUME Clean', NEW t \in 1 .. 5, t < turn', HandlerOrder[t] \in Requested
         PROVE  log'[HandlerOrder[t]] # <<>>
    <2>1. CASE t = turn
      <3>1. turn # 6 BY <2>1
      <3> QED BY <1>2, <1>9, <1>12, <2>1, <3>1
    <2>2. CASE t # turn
      <3>1. t < turn /\ t \in 1 .. 6 BY <1>2, <1>3, <1>12, <2>2
      <3>2. HandlerOrder[t] # Cur /\ HandlerOrder[t] \in Mr
        BY <1>2, <2>2, <3>1, OrderInjective
      <3> QED BY <1>4, <1>5, <1>12, <3>1, <3>2 DEF EventsInv
    <2> QED BY <2>1, <2>2
  <1> QED BY <1>5, <1>7, <1>8, <1>10, <1>11, <1>12 DEF EventsInv

\* While the command line is parsed the logs are empty.
LEMMA LogsEmpty ==
  ASSUME IInv, pc \in ParseLabel
  PROVE  turn = 1 /\ \A n \in Mr : log[n] = <<>>
  <1>1. turn = 1 BY DEF IInv, ControlInv
  <1>2. \A t \in 1 .. 6 : t > 1 \/ t = 1 OBVIOUS
  <1>3. \A t \in 1 .. 6 : log[HandlerOrder[t]] = <<>>
    BY <1>1, <1>2, Zenon DEF IInv, TurnsInv
  <1> QED BY <1>1, <1>3, OrderInjective, Zenon

LEMMA ParseEvents ==
  ASSUME IInv, EventsInv, said => said', Parse
  PROVE  EventsInv'
  <1>1. pc \in ParseLabel
    BY DEF Parse, Start, ParseFlag, ParseFormat, ParseMrs, ParseValue, ParseDump, ParseList, ParseAcpi,
           ParseInvalid, ParseEnd, Validate, Parsing, ParseLabel
  <1>2. turn = 1 /\ \A n \in Mr : log[n] = <<>> BY <1>1, LogsEmpty
  <1>3. turn' = turn /\ log' = log /\ out' = out /\ pc' \in ParseLabel \cup {"dispatch", "exited"}
    BY Zenon DEF Parse, Start, ParseFlag, ParseFormat, ParseMrs, ParseValue, ParseDump, ParseList, ParseAcpi,
           ParseInvalid, ParseEnd, Validate, Parsing, Parsed, Goto, Skip, Fail, ParseLabel
  <1>4. pc' \notin HandlerLabel BY <1>3, Distinct
  <1>5. out' = <<>>
    <2>1. pc \notin OutputLabel BY <1>1 DEF ParseLabel, OutputLabel
    <2>2. ret # 0 BY <1>1, Running, Zenon DEF ParseLabel
    <2> QED BY <1>3, <2>1, <2>2 DEF EventsInv
  <1>6. \A n \in Mr : log'[n] = <<>> /\ DOMAIN log'[n] = {} BY <1>2, <1>3
  <1>7. \A t \in 1 .. 5 : ~(t < turn') BY <1>2, <1>3
  <1> QED BY <1>4, <1>5, <1>6, <1>7, Zenon DEF EventsInv

LEMMA DispatchEvents ==
  ASSUME IInv, EventsInv, said => said', Dispatch
  PROVE  EventsInv'
  <1>1. pc = "dispatch" /\ turn \in 1 .. 7
    BY DEF IInv, TypeInv, TypeControl, Dispatch, NotRequested, CallHandler, AllCalculated
  <1>2. ret = 1 /\ ret # 0 /\ out = <<>> BY <1>1, Running DEF EventsInv, OutputLabel
  <1>3. UNCHANGED <<opts, fs, short, log, out, ret>>
    BY DEF Dispatch, NotRequested, CallHandler, AllCalculated, Skip, environment
  <1>4. Requested' = Requested /\ (Clean' => Clean) BY <1>3, StillClean DEF Requested
  <1>5. pc' \in HandlerLabel => pc' \in FirstLabel
    <2>1. CASE NotRequested BY <2>1, Distinct DEF NotRequested, Return
    <2>2. CASE AllCalculated BY <2>2, Distinct DEF AllCalculated, Goto, OutputLabel
    <2>3. CASE CallHandler
      <3>1. turn \in {1, 2, 3, 4, 5, 6} /\ pc' = FirstStep[turn]
        BY <1>1, <2>3 DEF CallHandler, Goto
      <3>2. /\ FirstStep[1] = "tdx module" /\ FirstStep[2] = "ovmf" /\ FirstStep[3] = "td hob"
            /\ FirstStep[4] = "kernel" /\ FirstStep[5] = "cmdline" /\ FirstStep[6] = "empty"
        BY DEF FirstStep
      <3> QED BY <3>1, <3>2 DEF FirstLabel
    <2> QED BY <2>1, <2>2, <2>3 DEF Dispatch
  <1>6. \A t \in 1 .. 5 : t < turn' /\ HandlerOrder[t] \in Requested => t < turn
    <2>1. CASE NotRequested
      <3>1. turn' = turn + 1 /\ Cur \notin Requested BY <2>1 DEF NotRequested, Return
      <3> QED BY <1>1, <3>1 DEF Cur
    <2>2. CASE CallHandler \/ AllCalculated
      <3>1. turn' = turn BY <2>2 DEF CallHandler, AllCalculated, Goto
      <3> QED BY <3>1
    <2> QED BY <2>1, <2>2 DEF Dispatch
  <1> QED BY <1>2, <1>3, <1>4, <1>5, <1>6 DEF EventsInv

LEMMA StopsEvents ==
  ASSUME IInv, EventsInv, said => said', Stops, pc \notin OutputLabel \cup {"exited", "crashed"}
  PROVE  EventsInv'
  <1>1. UNCHANGED <<opts, fs, short, turn, log, out>> /\ pc' \in {"exited", "crashed"}
    BY DEF Stops, Fail, Crash, environment
  <1>2. out = <<>> BY Running DEF EventsInv
  <1>3. pc' \notin HandlerLabel BY <1>1, Distinct
  <1>4. Requested' = Requested /\ (Clean' => Clean) BY <1>1, StillClean DEF Requested
  <1> QED BY <1>1, <1>2, <1>3, <1>4 DEF EventsInv

LEMMA OutputEvents ==
  ASSUME IInv, EventsInv, said => said', Output
  PROVE  EventsInv'
  <1>1. /\ UNCHANGED <<opts, fs, short, turn, log>>
        /\ pc' \in OutputLabel \/ (pc' = "exited" /\ ret' = 0)
    <2>1. UNCHANGED <<argv, opts, fs, short, bank, log, turn>> BY OutputForm, Zenon
    <2>2. pc' \in OutputLabel \/ (pc' = "exited" /\ ret' = 0) BY OutputForm, Zenon
    <2> QED BY <2>1, <2>2
  <1>2. pc' # "open log"
    BY DEF Output, OpenLog, PrintLog, LogDone, OpenSummary, PrintRegister, SummaryDone, Goto, Again, Emit
  <1>3. pc' \notin HandlerLabel BY <1>1, Distinct
  <1>4. Requested' = Requested /\ (Clean' => Clean) BY <1>1, StillClean DEF Requested
  <1> QED BY <1>1, <1>2, <1>3, <1>4 DEF EventsInv

LEMMA InitEvents == Init => EventsInv
  <1> SUFFICES ASSUME Init PROVE EventsInv OBVIOUS
  <1>1. /\ pc = "start" /\ out = <<>> /\ turn = 1 /\ pc \notin HandlerLabel
        /\ \A n \in Mr : log[n] = <<>> /\ DOMAIN log[n] = {}
    BY Distinct DEF Init, ParseLabel
  <1>2. \A t \in 1 .. 5 : ~(t < turn) BY <1>1
  <1> QED BY <1>1, <1>2, Zenon DEF EventsInv

LEMMA NextEvents == IInv /\ EventsInv /\ SaidInv /\ [Next]_vars => EventsInv'
  <1> SUFFICES ASSUME IInv, EventsInv, SaidInv, [Next]_vars PROVE EventsInv' OBVIOUS
  <1>0. said => said' BY NextSays
  <1>1. CASE Parse BY <1>0, <1>1, ParseEvents
  <1>2. CASE Dispatch BY <1>0, <1>2, DispatchEvents
  <1>3. CASE CalculateMrseam \/ CalculateMrtd \/ CalculateRtmr0 \/ CalculateRtmr1 \/ CalculateRtmr2
               \/ CalculateRtmr3
    <2>1. CASE HandlerStep BY <1>0, <1>3, <2>1, HandlerEvents
    <2>2. CASE Stops
      <3>1. pc \in HandlerLabel
        BY <1>3 DEF CalculateMrseam, CalculateMrtd, CalculateRtmr0, CalculateRtmr1, CalculateRtmr2,
           CalculateRtmr3, MeasureTdxModule, MeasureFirmware, MeasureTdHob, MeasureCfv,
           MeasureSecureBootVar, SecureBootDone, MeasureSeparator, MeasureAcpi, AcpiDone,
           MeasureBootOrder, MeasureDefaultBootOption, MeasureBootOption, BootOptionsDone,
           MeasureLastSeparator, MeasureKernel, DumpKernel, MeasureBootAction, MeasureBootSeparator,
           MeasureExitBoot, MeasureBootExited, MeasureCmdline, MeasureNothing, HandlerLabel,
           Rtmr0Label, Rtmr1Label
      <3>2. pc \notin OutputLabel \cup {"exited", "crashed"} BY <3>1, Distinct
      <3> QED BY <1>0, <2>2, <3>2, StopsEvents
    <2> QED BY <1>3, <2>1, <2>2, HandlerForm
  <1>4. CASE Output BY <1>0, <1>4, OutputEvents
  <1>5. CASE OutOfMemory
    <2>1. pc \notin OutputLabel \cup {"exited", "crashed"}
      BY <1>5 DEF OutOfMemory, OutputLabel
    <2> QED BY <1>0, <1>5, <2>1, StopsEvents DEF OutOfMemory, Stops
  <1>6. CASE UNCHANGED vars
    <2>1. UNCHANGED <<opts, fs, short, pc, turn, log, out, ret>> BY <1>6 DEF vars
    <2>2. Requested' = Requested /\ (Clean' => Clean) /\ Cur' = Cur
      BY <1>0, <2>1, StillClean DEF Requested, Cur
    <2> QED BY <2>1, <2>2 DEF EventsInv
  <1> QED BY <1>1, <1>2, <1>3, <1>4, <1>5, <1>6 DEF Next, Terminated

-----------------------------------------------------------------------------
(* The output as a document: its tokens *)

\* The tokens that may stand next to each other.
Neighbours == {p \in TokenSet \X TokenSet : Follows(p[1].t, p[2].t)}

LEMMA NeighboursIntro ==
  ASSUME NEW a \in TokenSet, NEW b \in TokenSet, Follows(a.t, b.t)
  PROVE  <<a, b>> \in Neighbours BY DEF Neighbours

\* A sequence of tokens from one that starts to one that ends.
Spans(s, starts, ends) ==
  /\ s \in Seq(TokenSet) /\ s # <<>> /\ Linked(s, Neighbours)
  /\ s[1].t = starts /\ s[Len(s)].t = ends

LEMMA SpansConcat ==
  ASSUME NEW a, NEW b, NEW starts, NEW x, NEW y, NEW ends,
         Spans(a, starts, x), Spans(b, y, ends), Follows(x, y)
  PROVE  Spans(a \o b, starts, ends)
  <1>1. /\ a \in Seq(TokenSet) /\ b \in Seq(TokenSet) /\ a # <<>> /\ b # <<>>
        /\ Linked(a, Neighbours) /\ Linked(b, Neighbours)
        /\ a[1].t = starts /\ a[Len(a)].t = x /\ b[1].t = y /\ b[Len(b)].t = ends
    BY DEF Spans
  <1>2. a[Len(a)] \in TokenSet /\ b[1] \in TokenSet BY <1>1
  <1>3. <<a[Len(a)], b[1]>> \in Neighbours BY <1>1, <1>2, NeighboursIntro
  <1>4. /\ Linked(a \o b, Neighbours) /\ a \o b \in Seq(TokenSet) /\ a \o b # <<>>
        /\ (a \o b)[1] = a[1] /\ (a \o b)[Len(a \o b)] = b[Len(b)]
    BY <1>1, <1>3, LinkedConcat
  <1> QED BY <1>1, <1>4 DEF Spans

LEMMA SpansOne ==
  ASSUME NEW tok \in TokenSet
  PROVE  Spans(<<tok>>, tok.t, tok.t)
  <1>1. <<tok>> \in Seq(TokenSet) /\ <<tok>> # <<>> /\ <<tok>>[1] = tok /\ <<tok>>[Len(<<tok>>)] = tok
    OBVIOUS
  <1>2. Linked(<<tok>>, Neighbours) BY LinkedOne, Zenon
  <1> QED BY <1>1, <1>2, Zenon DEF Spans

LEMMA SpansEnds ==
  ASSUME NEW s, NEW starts, NEW ends, Spans(s, starts, ends)
  PROVE  /\ s[1] \in TokenSet /\ s[1].t = starts
         /\ s[Len(s)] \in TokenSet /\ s[Len(s)].t = ends
  <1>1. s \in Seq(TokenSet) /\ s # <<>> /\ s[1].t = starts /\ s[Len(s)].t = ends
    BY DEF Spans
  <1>2. s[1] \in TokenSet /\ s[Len(s)] \in TokenSet BY <1>1
  <1> QED BY <1>1, <1>2

LEMMA TokenType1 ==
  \A t \in TokenType, n \in Mr, v \in Seq(Digest) \cup {Unset} :
    Token(t, n, v) \in TokenSet /\ Token(t, n, v).t = t BY TokenType0

LEMMA SpansPunctuation ==
  ASSUME NEW t \in Mark, Json
  PROVE  Spans(Punctuation(t), t, t)
  <1>1. t \in TokenType /\ 0 \in Mr /\ <<>> \in Seq(Digest) \cup {Unset}
    <2>1. <<>> \in Seq(Digest) /\ 0 \in Mr BY DEF Mr
    <2> QED BY <2>1, MarkType, Zenon
  <1>2. Token(t, 0, <<>>) \in TokenSet /\ Token(t, 0, <<>>).t = t BY <1>1, TokenType1, Zenon
  <1>3. Punctuation(t) = <<Token(t, 0, <<>>)>> BY DEF Punctuation
  <1> QED BY <1>2, <1>3, SpansOne

\* An object and the mark behind it.
LEMMA SpansObject ==
  ASSUME NEW t \in Object, NEW n \in Mr, NEW v \in Seq(Digest) \cup {Unset}, NEW m \in {",", "]"}, Json
  PROVE  /\ Spans(<<Token(t, n, v)>>, t, t)
         /\ Spans(<<Token(t, n, v)>> \o Punctuation(m), t, m)
  <1>1. t \in TokenType /\ m \in Mark /\ Follows(t, m)
    BY DEF Object, TokenType, Mark, Follows
  <1>2. Token(t, n, v) \in TokenSet /\ Token(t, n, v).t = t BY <1>1, TokenType1, Zenon
  <1>3. Spans(<<Token(t, n, v)>>, t, t) BY <1>2, SpansOne
  <1>4. Spans(Punctuation(m), m, m) BY <1>1, SpansPunctuation
  <1> QED BY <1>1, <1>3, <1>4, SpansConcat

\* The text of a log whose lines fit.
LEMMA SpansLog ==
  ASSUME TypeInv, Json, NEW n \in Mr, log[n] # <<>>, ~Repeated(n),
         \A k \in DOMAIN log[n] : log[n][k].text = "plain"
  PROVE  Spans(LogTokens(n), "event", IF LastLog(n) THEN "]" ELSE ",")
  <1> DEFINE l == log[n]
             m(k) == IF LastLog(n) /\ k = Len(l) THEN "]" ELSE ","
             parts == [k \in DOMAIN l |-> EntryTokens(n, l[k], LastLog(n) /\ k = Len(l))]
  <1>1. l \in Seq(Entry) /\ Len(l) \in Nat \ {0} /\ DOMAIN l = 1 .. Len(l) /\ \A k \in 1 .. Len(l) : l[k] \in Entry
    BY DEF TypeInv, TypeData
  <1>2. ASSUME NEW k \in 1 .. Len(l)
        PROVE  Spans(EntryTokens(n, l[k], LastLog(n) /\ k = Len(l)), "event", m(k))
    <2>1. l[k].text = "plain" /\ <<l[k].digest>> \in Seq(Digest) BY <1>1 DEF Entry
    <2>2. EntryTokens(n, l[k], LastLog(n) /\ k = Len(l))
            = <<Token("event", n, <<l[k].digest>>)>> \o Punctuation(m(k))
      BY <2>1 DEF EntryTokens
    <2>3. m(k) \in {",", "]"} /\ "event" \in Object BY DEF Object
    <2> HIDE DEF m
    <2> QED BY <2>1, <2>2, <2>3, SpansObject
  <1>3. parts \in Seq(Seq(TokenSet)) /\ Len(parts) = Len(l)
        /\ \A k \in 1 .. Len(l) : Spans(parts[k], "event", m(k))
    <2>1. \A k \in 1 .. Len(l) : parts[k] = EntryTokens(n, l[k], LastLog(n) /\ k = Len(l))
      BY <1>1
    <2>2. \A k \in 1 .. Len(l) : parts[k] \in Seq(TokenSet) BY <1>2, <2>1 DEF Spans
    <2>3. parts = [k \in 1 .. Len(l) |-> parts[k]] BY <1>1
    <2> HIDE DEF parts, m, l
    <2>4. parts \in [1 .. Len(l) -> Seq(TokenSet)] BY <2>2, <2>3
    <2>5. parts \in Seq(Seq(TokenSet)) /\ Len(parts) = Len(l) BY <1>1, <2>4, FunctionIsSeq
    <2>6. \A k \in 1 .. Len(l) : Spans(parts[k], "event", m(k)) BY <1>2, <2>1
    <2> QED BY <2>5, <2>6
  <1>4. \A k \in 1 .. Len(l) - 1 : m(k) = "," BY <1>1
  <1>5. m(Len(l)) = IF LastLog(n) THEN "]" ELSE "," OBVIOUS
  <1>6. Follows(",", "event") BY DEF Follows, Object
  <1>7. LogTokens(n) = FlattenSeq(parts) BY DEF LogTokens
  <1> HIDE DEF l, parts, m
  <1>8. \A k \in 1 .. Len(parts) : parts[k] # <<>> /\ Linked(parts[k], Neighbours)
    BY <1>3 DEF Spans
  <1>9. ASSUME NEW k \in 1 .. Len(parts) - 1
        PROVE  <<parts[k][Len(parts[k])], parts[k + 1][1]>> \in Neighbours
    <2>0. k \in 1 .. Len(l) - 1 BY <1>3
    <2>1. k \in 1 .. Len(l) /\ k + 1 \in 1 .. Len(l) /\ m(k) = ","
      <3>1. k \in 1 .. Len(l) /\ k + 1 \in 1 .. Len(l) BY <1>1, <2>0
      <3> QED BY <1>4, <2>0, <3>1, Zenon
    <2>2. Spans(parts[k], "event", ",") /\ Spans(parts[k + 1], "event", m(k + 1))
      BY <1>3, <2>1
    <2> DEFINE a == parts[k][Len(parts[k])]
               b == parts[k + 1][1]
    <2>3. a \in TokenSet /\ a.t = "," /\ b \in TokenSet /\ b.t = "event"
      <3>1. \A s, starts, ends : Spans(s, starts, ends) =>
              s[1] \in TokenSet /\ s[1].t = starts /\ s[Len(s)] \in TokenSet /\ s[Len(s)].t = ends
        BY SpansEnds
      <3> DEFINE u == parts[k]
                 v == parts[k + 1]
                 w == m(k + 1)
      <3>2. Spans(u, "event", ",") /\ Spans(v, "event", w) BY <2>2
      <3> HIDE DEF u, v, w
      <3>3. u[Len(u)] \in TokenSet /\ u[Len(u)].t = "," BY <3>1, <3>2, Zenon
      <3>4. v[1] \in TokenSet /\ v[1].t = "event" BY <3>1, <3>2, Zenon
      <3> QED BY <3>3, <3>4 DEF u, v
    <2> HIDE DEF a, b
    <2>5. <<a, b>> \in Neighbours BY <1>6, <2>3, NeighboursIntro
    <2> QED BY <2>5 DEF a, b
  <1>10. parts # <<>> BY <1>1, <1>3
  <1> DEFINE f == FlattenSeq(parts)
             e == Len(parts)
  <1>11. /\ Linked(f, Neighbours) /\ f \in Seq(TokenSet) /\ f # <<>>
         /\ f[1] = parts[1][1] /\ f[Len(f)] = parts[e][Len(parts[e])]
    BY <1>3, <1>8, <1>9, <1>10, LinkedFlatten
  <1>12. e = Len(l) /\ 1 \in 1 .. Len(l) /\ e \in 1 .. Len(l) BY <1>1, <1>3
  <1>13. parts[1][1].t = "event" /\ parts[e][Len(parts[e])].t = m(Len(l))
    BY <1>3, <1>12 DEF Spans
  <1>14. Spans(f, "event", m(Len(l)))
    <2> HIDE DEF f, e
    <2> QED BY <1>11, <1>13 DEF Spans
  <1> QED BY <1>5, <1>7, <1>14

\* A log without events prints nothing.
LEMMA NoLogTokens ==
  ASSUME NEW n, log[n] = <<>>
  PROVE  LogTokens(n) = <<>>
  <1> DEFINE parts == [k \in DOMAIN log[n] |-> EntryTokens(n, log[n][k], LastLog(n) /\ k = Len(log[n]))]
  <1>1. DOMAIN log[n] = 1 .. 0 OBVIOUS
  <1>2. parts \in [1 .. 0 -> {<<>>}] BY <1>1
  <1> HIDE DEF parts
  <1>3. FlattenSeq(parts) = <<>> BY <1>2, FlattenEmpty
  <1> QED BY <1>3 DEF LogTokens, parts

\* Of the registers with events one is the last.
LEMMA LastOfMr ==
  ASSUME NEW S \in SUBSET Mr, S # {}
  PROVE  \E n \in S : \A m \in S : m <= n
  <1> DEFINE U == {5 - n : n \in S}
  <1>1. U \in SUBSET Nat /\ U # {}
    <2>1. \A n \in S : 5 - n \in Nat BY DEF Mr
    <2> QED BY <2>1
  <1>2. PICK u \in U : \A v \in U : u <= v
    <2> HIDE DEF U
    <2> QED BY <1>1, LeastNat
  <1>3. PICK n \in S : u = 5 - n OBVIOUS
  <1>4. ASSUME NEW m \in S PROVE m <= n
    <2>1. 5 - n <= 5 - m BY <1>2, <1>3
    <2> QED BY <2>1 DEF Mr
  <1> QED BY <1>3, <1>4

Expected == Clean /\ Json /\ Ascending /\ opts.mrs # <<RTMR3>>

\* The last log is among those in front of position m.
LastPrinted(m) == \E k \in 1 .. m - 1 : log[opts.mrs[k]] # <<>> /\ LastLog(opts.mrs[k])

Complete(s) == s = <<>> \/ Spans(s, "[", "]")

\* How far the document is.
DocumentInv ==
  Expected =>
    /\ pc = "print log" =>
         /\ i <= Len(opts.mrs) + 1
         /\ LastPrinted(i) => Spans(out, "[", "]")
         /\ ~LastPrinted(i) => Spans(out, "[", "[") \/ Spans(out, "[", ",")
    /\ pc = "open summary" => Complete(out)
    /\ pc = "print summary" =>
         /\ i <= Len(opts.mrs) + 1
         /\ Spans(out, "[", IF i = 1 THEN "[" ELSE IF i <= Len(opts.mrs) THEN "," ELSE "mr")
    /\ ret = 0 => Complete(out)

LEMMA SpansTwo ==
  ASSUME NEW a, NEW b, NEW x, NEW y, NEW ends, Spans(a, "[", x), Spans(b, y, ends), Follows(x, y)
  PROVE  Spans(a \o b, "[", ends) BY SpansConcat

\* The requested registers are a list of registers, one behind the other.
LEMMA Ascends ==
  ASSUME IInv, ValidRequest
  PROVE  /\ opts.mrs \in Seq(Nat) /\ Len(opts.mrs) \in Nat \ {0} /\ DOMAIN opts.mrs = 1 .. Len(opts.mrs)
         /\ \A k \in 1 .. Len(opts.mrs) : opts.mrs[k] \in Mr /\ opts.mrs[k] \in Requested
         /\ \A n \in Requested : n \in Mr /\ \E k \in 1 .. Len(opts.mrs) : n = opts.mrs[k]
         /\ Ascending => \A j, k \in 1 .. Len(opts.mrs) : j < k => opts.mrs[j] < opts.mrs[k]
  <1>1. opts.mrs \in Seq(Nat) BY DEF IInv, TypeInv, TypeInput, Options
  <1>2. opts.mrs # <<>> /\ Requested \subseteq Mr BY DEF ValidRequest
  <1>3. Len(opts.mrs) \in Nat \ {0} /\ DOMAIN opts.mrs = 1 .. Len(opts.mrs) BY <1>1, <1>2
  <1>4. \A k \in 1 .. Len(opts.mrs) : opts.mrs[k] \in Requested BY <1>3 DEF Requested
  <1>5. \A n \in Requested : \E k \in 1 .. Len(opts.mrs) : n = opts.mrs[k]
    BY <1>3 DEF Requested
  <1>6. Ascending => \A j, k \in 1 .. Len(opts.mrs) : j < k => opts.mrs[j] < opts.mrs[k]
    BY <1>3, Zenon DEF Ascending
  <1> QED BY <1>1, <1>2, <1>3, <1>4, <1>5, <1>6

\* Positions of a loop over n elements.
LEMMA Positions ==
  \A n \in Nat \ {0}, j \in Nat \ {0} :
    /\ j <= n => j \in 1 .. n /\ j + 1 <= n + 1
    /\ j > n /\ j <= n + 1 => j - 1 = n
    /\ \A k : k \in 1 .. (j + 1) - 1 <=> k \in 1 .. j - 1 \/ k = j
    /\ j <= n => \A k \in 1 .. j - 1 : k \in 1 .. n /\ k < j
    /\ 1 \in 1 .. n /\ 1 <= n + 1 /\ (n # 1 => 2 \in 1 .. n) OBVIOUS

LEMMA PrintLogDocument ==
  ASSUME IInv, EventsInv, DocumentInv, Expected, PrintLog
  PROVE  /\ pc' = "print log" /\ i' <= Len(opts.mrs) + 1
         /\ LastPrinted(i') => Spans(out', "[", "]")
         /\ ~LastPrinted(i') => Spans(out', "[", "[") \/ Spans(out', "[", ",")
  <1> DEFINE n == opts.mrs[i]
  <1>1. /\ pc = "print log" /\ pc \in OutputLabel /\ i <= Len(opts.mrs) /\ i' = i + 1 /\ pc' = pc
        /\ out' = out \o LogTokens(n) BY DEF PrintLog, Emit, Again, OutputLabel
  <1>2. ValidRequest /\ i \in Nat \ {0} /\ TypeInv
    BY <1>1 DEF IInv, ControlInv, TypeInv, TypeControl
  <1>3. /\ Len(opts.mrs) \in Nat \ {0}
        /\ \A k \in 1 .. Len(opts.mrs) : opts.mrs[k] \in Mr
        /\ \A j, k \in 1 .. Len(opts.mrs) : j < k => opts.mrs[j] < opts.mrs[k]
    BY <1>2, Ascends DEF Expected
  <1>4. /\ LastPrinted(i) => Spans(out, "[", "]")
        /\ ~LastPrinted(i) => Spans(out, "[", "[") \/ Spans(out, "[", ",")
    BY <1>1 DEF DocumentInv
  <1>5. i \in 1 .. Len(opts.mrs) /\ n \in Mr /\ i' <= Len(opts.mrs) + 1
    <2>1. i \in 1 .. Len(opts.mrs) /\ i + 1 <= Len(opts.mrs) + 1
      BY <1>1, <1>2, <1>3, Positions, Zenon
    <2> QED BY <1>1, <1>3, <2>1, Zenon
  <1>6. LastPrinted(i') <=> LastPrinted(i) \/ (log[n] # <<>> /\ LastLog(n))
    <2>1. \A k : k \in 1 .. i' - 1 <=> k \in 1 .. i - 1 \/ k = i
      BY <1>1, <1>2, <1>3, Positions, Zenon
    <2> QED BY <2>1 DEF LastPrinted
  <1>7. CASE log[n] = <<>>
    <2>1. out' = out
      <3>1. LogTokens(n) = <<>> BY <1>7, NoLogTokens
      <3>2. out \in Seq(TokenSet) BY DEF IInv, TypeInv, TypeData
      <3> QED BY <1>1, <3>1, <3>2, ConcatEmpty
    <2> QED BY <1>1, <1>4, <1>5, <1>6, <1>7, <2>1, Zenon
  <1>8. CASE log[n] # <<>>
    <2>1. ~LastPrinted(i)
      <3> SUFFICES ASSUME NEW k \in 1 .. i - 1, LastLog(opts.mrs[k])
                   PROVE  FALSE BY DEF LastPrinted
      <3>1. k \in 1 .. Len(opts.mrs) /\ k < i BY <1>2, <1>5
      <3>2. opts.mrs[k] < n BY <1>3, <1>5, <3>1
      <3> QED BY <1>5, <1>8, <3>2 DEF LastLog
    <2>2. ~Repeated(n)
      <3> SUFFICES ASSUME NEW k \in 1 .. i - 1, opts.mrs[k] = n
                   PROVE  FALSE BY DEF Repeated
      <3>1. k \in 1 .. Len(opts.mrs) /\ k < i BY <1>2, <1>5
      <3>2. opts.mrs[k] < n /\ n \in Nat BY <1>3, <1>5, <3>1 DEF Mr
      <3> QED BY <3>2
    <2>3. \A k \in DOMAIN log[n] : log[n][k].text = "plain" BY <1>5 DEF EventsInv, Expected
    <2>4. Spans(LogTokens(n), "event", IF LastLog(n) THEN "]" ELSE ",")
      <3> HIDE DEF n
      <3> QED BY <1>2, <1>5, <1>8, <2>2, <2>3, SpansLog DEF Expected
    <2>5. Follows("[", "event") /\ Follows(",", "event") BY DEF Follows, Object
    <2>6. Spans(out', "[", IF LastLog(n) THEN "]" ELSE ",")
      BY <1>1, <1>4, <2>1, <2>4, <2>5, SpansTwo
    <2> QED BY <1>1, <1>5, <1>6, <1>8, <2>1, <2>6
  <1> QED BY <1>7, <1>8

LEMMA LogDoneDocument ==
  ASSUME IInv, EventsInv, DocumentInv, Expected, LogDone
  PROVE  Spans(out', "[", "]")
  <1>1. pc = "print log" /\ pc \in OutputLabel /\ i > Len(opts.mrs) /\ out' = out
    BY DEF LogDone, Skip, OutputLabel
  <1>2. ValidRequest /\ i \in Nat \ {0} /\ turn = 7
    BY <1>1 DEF IInv, ControlInv, TypeInv, TypeControl
  <1>3. /\ opts.mrs \in Seq(Nat) /\ Len(opts.mrs) \in Nat \ {0}
        /\ \A k \in 1 .. Len(opts.mrs) : opts.mrs[k] \in Mr /\ opts.mrs[k] \in Requested
        /\ \A n \in Requested : \E k \in 1 .. Len(opts.mrs) : n = opts.mrs[k]
        /\ \A j, k \in 1 .. Len(opts.mrs) : j < k => opts.mrs[j] < opts.mrs[k]
    BY <1>2, Ascends DEF Expected
  <1>4. i <= Len(opts.mrs) + 1 /\ (LastPrinted(i) => Spans(out, "[", "]"))
    BY <1>1 DEF DocumentInv
  <1>5. i - 1 = Len(opts.mrs) BY <1>1, <1>2, <1>3, <1>4, Positions, Zenon
  <1>6. PICK k \in 1 .. Len(opts.mrs) : opts.mrs[k] # RTMR3
    <2> SUFFICES ASSUME \A k \in 1 .. Len(opts.mrs) : opts.mrs[k] = RTMR3
                 PROVE  FALSE OBVIOUS
    <2>1. CASE Len(opts.mrs) = 1
      <3>1. opts.mrs[1] = RTMR3 BY <2>1
      <3>2. opts.mrs = <<RTMR3>> BY <1>3, <2>1, <3>1
      <3> QED BY <3>2 DEF Expected
    <2>2. CASE Len(opts.mrs) # 1
      <3>1. 1 \in 1 .. Len(opts.mrs) /\ 2 \in 1 .. Len(opts.mrs)
        BY <1>3, <2>2, Positions, Zenon
      <3>2. opts.mrs[1] < opts.mrs[2] /\ opts.mrs[1] = RTMR3 /\ opts.mrs[2] = RTMR3
        BY <1>3, <3>1
      <3> QED BY <3>2 DEF RTMR3
    <2> QED BY <2>1, <2>2
  <1> DEFINE S == {n \in Mr : log[n] # <<>>}
  <1>7. S # {}
    <2> DEFINE n == opts.mrs[k]
    <2>1. n \in Mr /\ n \in Requested /\ n # RTMR3 BY <1>3, <1>6
    <2>2. PICK t \in 1 .. 6 : HandlerOrder[t] = n BY <2>1, OrderInjective
    <2>3. t # 6 BY <2>1, <2>2, Order
    <2>4. t \in 1 .. 5 /\ t < turn BY <1>2, <2>3
    <2>5. log[n] # <<>> BY <2>1, <2>2, <2>4 DEF EventsInv, Expected
    <2> QED BY <2>1, <2>5
  <1>8. PICK n \in S : \A m \in S : m <= n
    <2>1. S \in SUBSET Mr OBVIOUS
    <2> HIDE DEF S
    <2> QED BY <1>7, <2>1, LastOfMr
  <1>9. log[n] # <<>> /\ n \in Requested /\ n \in Mr BY DEF EventsInv
  <1>10. LastLog(n)
    <2> SUFFICES ASSUME NEW m \in Mr, m > n PROVE log[m] = <<>> BY DEF LastLog
    <2>1. ~(m <= n) BY <1>9 DEF Mr
    <2> QED BY <1>8, <2>1
  <1>11. LastPrinted(i)
    <2>1. PICK j \in 1 .. Len(opts.mrs) : n = opts.mrs[j] BY <1>3, <1>9
    <2> QED BY <1>5, <1>9, <1>10, <2>1 DEF LastPrinted
  <1> QED BY <1>1, <1>4, <1>11

LEMMA OpenLogDocument ==
  ASSUME IInv, EventsInv, Expected, OpenLog
  PROVE  \/ pc' = "print log" /\ Spans(out', "[", "[") /\ i' = 1
         \/ pc' = "open summary" /\ Complete(out')
  <1>1. pc = "open log" /\ out = <<>> BY DEF OpenLog, EventsInv
  <1>2. Spans(Punctuation("["), "[", "[") BY SpansPunctuation DEF Mark, Expected
  <1>3. <<>> \o Punctuation("[") = Punctuation("[") BY <1>2, ConcatEmpty DEF Spans
  <1>4. CASE opts.flag["eventlog"] BY <1>1, <1>2, <1>3, <1>4 DEF OpenLog, Emit, Goto
  <1>5. CASE ~opts.flag["eventlog"] BY <1>1, <1>5 DEF OpenLog, Skip, Goto, Complete
  <1> QED BY <1>4, <1>5

LEMMA OpenSummaryDocument ==
  ASSUME IInv, DocumentInv, Expected, OpenSummary
  PROVE  \/ pc' = "print summary" /\ Spans(out', "[", "[") /\ i' = 1 /\ ret' = ret
         \/ pc' = "exited" /\ Complete(out')
  <1>1. Complete(out) BY DEF OpenSummary, DocumentInv
  <1>2. Spans(Punctuation("["), "[", "[") /\ Follows("]", "[")
    BY SpansPunctuation DEF Mark, Expected, Follows
  <1>3. Spans(out \o Punctuation("["), "[", "[")
    <2>1. CASE out = <<>>
      <3>1. <<>> \o Punctuation("[") = Punctuation("[") BY <1>2, ConcatEmpty DEF Spans
      <3> QED BY <1>2, <2>1, <3>1
    <2>2. CASE Spans(out, "[", "]") BY <1>2, <2>2, SpansConcat
    <2> QED BY <1>1, <2>1, <2>2 DEF Complete
  <1>4. CASE opts.flag["summary"] BY <1>3, <1>4 DEF OpenSummary, Emit, Goto
  <1>5. CASE ~opts.flag["summary"] BY <1>1, <1>5 DEF OpenSummary
  <1> QED BY <1>4, <1>5

LEMMA PrintRegisterDocument ==
  ASSUME IInv, DocumentInv, Expected, PrintRegister
  PROVE  /\ pc' = "print summary" /\ i' <= Len(opts.mrs) + 1 /\ ret' = ret
         /\ Spans(out', "[", IF i' = 1 THEN "[" ELSE IF i' <= Len(opts.mrs) THEN "," ELSE "mr")
  <1> DEFINE n == opts.mrs[i]
             line == <<Token("mr", n, bank[n])>>
             rest == IF i < Len(opts.mrs) THEN Punctuation(",") ELSE <<>>
             x == IF i = 1 THEN "[" ELSE IF i <= Len(opts.mrs) THEN "," ELSE "mr"
  <1>1. /\ pc = "print summary" /\ pc \in OutputLabel /\ i <= Len(opts.mrs) /\ i' = i + 1 /\ pc' = pc
        /\ out' = out \o (line \o rest) /\ ret' = ret
    BY DEF PrintRegister, Emit, Again, OutputLabel
  <1>2. ValidRequest /\ i \in Nat \ {0} /\ Len(opts.mrs) \in Nat \ {0}
    BY <1>1, Ascends DEF IInv, ControlInv, TypeInv, TypeControl
  <1>3. n \in Mr /\ bank[n] \in Seq(Digest) \cup {Unset}
    <2>1. n \in Mr BY <1>1, PrintedMr
    <2> HIDE DEF n
    <2> QED BY <2>1 DEF IInv, TypeInv, TypeData
  <1>4. Spans(out, "[", x) /\ x \in {"[", ","} BY <1>1, <1>2 DEF DocumentInv
  <1>5. Spans(line \o rest, "mr", IF i < Len(opts.mrs) THEN "," ELSE "mr")
    <2>1. "mr" \in Object BY DEF Object
    <2>2. Spans(line, "mr", "mr") /\ Spans(line \o Punctuation(","), "mr", ",")
      <3> HIDE DEF n
      <3> QED BY <1>3, <2>1, SpansObject DEF Expected
    <2>3. line \o <<>> = line BY <2>2, ConcatEmpty DEF Spans
    <2> QED BY <2>2, <2>3
  <1>6. Follows("[", "mr") /\ Follows(",", "mr") BY DEF Follows, Object
  <1>7. Spans(out', "[", IF i < Len(opts.mrs) THEN "," ELSE "mr")
    <2> HIDE DEF line, rest, x
    <2> QED BY <1>1, <1>4, <1>5, <1>6, SpansConcat
  <1>8. \A m \in Nat \ {0}, j \in Nat \ {0} : j <= m =>
          j + 1 # 1 /\ j + 1 <= m + 1 /\ (j < m <=> j + 1 <= m) OBVIOUS
  <1>9. i' # 1 /\ i' <= Len(opts.mrs) + 1 /\ (i < Len(opts.mrs) <=> i' <= Len(opts.mrs))
    BY <1>1, <1>2, <1>8, Zenon
  <1> QED BY <1>1, <1>7, <1>9

LEMMA SummaryDoneDocument ==
  ASSUME IInv, DocumentInv, Expected, SummaryDone
  PROVE  Spans(out', "[", "]")
  <1>1. pc = "print summary" /\ pc \in OutputLabel /\ i > Len(opts.mrs) /\ out' = out \o Punctuation("]")
    BY DEF SummaryDone, OutputLabel
  <1>2. ValidRequest /\ i \in Nat \ {0} /\ Len(opts.mrs) \in Nat \ {0}
    BY <1>1, Ascends DEF IInv, ControlInv, TypeInv, TypeControl
  <1>3. i # 1 /\ ~(i <= Len(opts.mrs))
    <2>1. \A m \in Nat \ {0}, j \in Nat \ {0} : j > m => j # 1 /\ ~(j <= m) OBVIOUS
    <2> QED BY <1>1, <1>2, <2>1, Zenon
  <1>4. Spans(out, "[", "mr") BY <1>1, <1>3 DEF DocumentInv
  <1>5. Spans(Punctuation("]"), "]", "]") /\ Follows("mr", "]")
    BY SpansPunctuation DEF Mark, Expected, Follows, Object
  <1> QED BY <1>1, <1>4, <1>5, SpansConcat

LEMMA OutputDocument ==
  ASSUME IInv, EventsInv, DocumentInv, said => said', Output
  PROVE  DocumentInv'
  <1>1. UNCHANGED <<opts, fs, short, log>> BY OutputForm
  <1>2. Expected' => Expected BY <1>1, StillClean DEF Expected, Json, Ascending
  <1>3. \A k : LastPrinted(k)' = LastPrinted(k) BY <1>1 DEF LastPrinted, LastLog
  <1>4. pc \in OutputLabel /\ ret = 1 /\ ret # 0
    BY OutputForm, Running, Zenon DEF OutputLabel
  <1>5. ret # 0 /\ ValidRequest /\ Len(opts.mrs) \in Nat \ {0} /\ 1 <= Len(opts.mrs) + 1
    <2>1. ValidRequest BY <1>4, Zenon DEF IInv, ControlInv
    <2>2. Len(opts.mrs) \in Nat \ {0} BY <2>1, Ascends
    <2> QED BY <1>4, <2>1, <2>2, Positions, Zenon
  <1> SUFFICES ASSUME Expected
               PROVE  /\ pc' = "print log" =>
                           /\ i' <= Len(opts.mrs) + 1
                           /\ LastPrinted(i') => Spans(out', "[", "]")
                           /\ ~LastPrinted(i') => Spans(out', "[", "[") \/ Spans(out', "[", ",")
                      /\ pc' = "open summary" => Complete(out')
                      /\ pc' = "print summary" =>
                           /\ i' <= Len(opts.mrs) + 1
                           /\ Spans(out', "[", IF i' = 1 THEN "[" ELSE IF i' <= Len(opts.mrs) THEN "," ELSE "mr")
                      /\ ret' = 0 => Complete(out')
    BY <1>1, <1>2 DEF DocumentInv, LastPrinted, LastLog, Spans, Complete
  <1>6. CASE OpenLog
    <2>1. ret' = ret BY <1>6 DEF OpenLog, Emit, Skip
    <2>2. ~LastPrinted(1) BY DEF LastPrinted
    <2> QED BY <1>4, <1>5, <1>6, <2>1, <2>2, OpenLogDocument
  <1>7. CASE PrintLog
    <2>1. ret' = ret BY <1>7 DEF PrintLog, Emit
    <2> QED BY <1>4, <1>7, <2>1, PrintLogDocument
  <1>8. CASE LogDone
    <2>1. ret' = ret /\ pc' = "open summary" BY <1>8 DEF LogDone, Skip, Goto
    <2> QED BY <1>4, <1>8, <2>1, LogDoneDocument DEF Complete
  <1>9. CASE OpenSummary BY <1>4, <1>5, <1>9, OpenSummaryDocument
  <1>10. CASE PrintRegister BY <1>4, <1>10, PrintRegisterDocument
  <1>11. CASE SummaryDone
    <2>1. pc' = "exited" BY <1>11 DEF SummaryDone
    <2> QED BY <1>11, <2>1, SummaryDoneDocument DEF Complete
  <1> QED BY <1>6, <1>7, <1>8, <1>9, <1>10, <1>11 DEF Output

\* Outside the output nothing is printed.
LEMMA QuietDocument ==
  ASSUME pc' \notin {"print log", "open summary", "print summary"}, ret' # 0
  PROVE  DocumentInv' BY DEF DocumentInv

LEMMA NextDocument == IInv /\ EventsInv /\ SaidInv /\ DocumentInv /\ [Next]_vars => DocumentInv'
  <1> SUFFICES ASSUME IInv, EventsInv, SaidInv, DocumentInv, [Next]_vars PROVE DocumentInv'
    OBVIOUS
  <1>0. said => said' BY NextSays
  <1>1. \A l \in HandlerLabel \cup ParseLabel \cup {"dispatch", "open log", "exited", "crashed"} :
          l \notin {"print log", "open summary", "print summary"}
    BY DEF HandlerLabel, Rtmr0Label, Rtmr1Label, ParseLabel
  <1>2. CASE Parse
    <2>1. pc \in ParseLabel
      BY <1>2 DEF Parse, Start, ParseFlag, ParseFormat, ParseMrs, ParseValue, ParseDump, ParseList, ParseAcpi,
             ParseInvalid, ParseEnd, Validate, Parsing, ParseLabel
    <2>2. pc' \in ParseLabel \cup {"dispatch", "exited"} /\ ret' \in {ret, -1}
      BY <1>2, Zenon DEF Parse, Start, ParseFlag, ParseFormat, ParseMrs, ParseValue, ParseDump, ParseList, ParseAcpi,
             ParseInvalid, ParseEnd, Validate, Parsing, Parsed, Goto, Skip, Fail, ParseLabel
    <2>3. ret' # 0
      <3>1. ret # 0 BY <2>1, Running, Zenon DEF ParseLabel
      <3> QED BY <2>2, <3>1
    <2> QED BY <1>1, <2>2, <2>3, QuietDocument
  <1>3. CASE Dispatch
    <2>1. pc = "dispatch" /\ turn \in 1 .. 7
      BY <1>3 DEF IInv, TypeInv, TypeControl, Dispatch, NotRequested, CallHandler, AllCalculated
    <2>2. ret' = ret /\ ret # 0
      BY <1>3, <2>1, Running DEF Dispatch, NotRequested, CallHandler, AllCalculated, Skip
    <2>3. pc' \in HandlerLabel \cup {"dispatch", "open log"}
      <3>1. CASE CallHandler
        <4>1. pc' = FirstStep[turn] /\ turn \in 1 .. 6 BY <2>1, <3>1 DEF CallHandler, Goto
        <4> QED BY <4>1, FirstStepLabel, Distinct
      <3> QED BY <1>3, <3>1 DEF Dispatch, NotRequested, AllCalculated, Return, Goto
    <2> QED BY <1>1, <2>2, <2>3, QuietDocument
  <1>4. CASE CalculateMrseam \/ CalculateMrtd \/ CalculateRtmr0 \/ CalculateRtmr1 \/ CalculateRtmr2
               \/ CalculateRtmr3
    <2>1. CASE HandlerStep
      <3>1. pc \in HandlerLabel /\ Moves BY <2>1 DEF HandlerStep
      <3>2. pc' \in HandlerLabel \cup {"dispatch"} /\ ret # 0 BY <3>1, MovesTo, HandlerTurn
      <3>3. ret' = ret BY <2>1 DEF HandlerStep, Idle, LogAndExtend
      <3> QED BY <1>1, <3>2, <3>3, QuietDocument
    <2>2. CASE Stops
      <3>1. pc \notin {"exited", "crashed"}
        BY <1>4 DEF CalculateMrseam, CalculateMrtd, CalculateRtmr0, CalculateRtmr1, CalculateRtmr2,
           CalculateRtmr3, MeasureTdxModule, MeasureFirmware, MeasureTdHob, MeasureCfv,
           MeasureSecureBootVar, SecureBootDone, MeasureSeparator, MeasureAcpi, AcpiDone,
           MeasureBootOrder, MeasureDefaultBootOption, MeasureBootOption, BootOptionsDone,
           MeasureLastSeparator, MeasureKernel, DumpKernel, MeasureBootAction, MeasureBootSeparator,
           MeasureExitBoot, MeasureBootExited, MeasureCmdline, MeasureNothing
      <3>2. pc' \in {"exited", "crashed"} /\ ret' \in {ret, -1}
        BY <2>2 DEF Stops, Fail, Crash
      <3>3. ret' # 0 BY <3>1, <3>2, Running
      <3> QED BY <1>1, <3>2, <3>3, QuietDocument
    <2> QED BY <1>4, <2>1, <2>2, HandlerForm
  <1>5. CASE Output BY <1>0, <1>5, OutputDocument
  <1>6. CASE OutOfMemory
    <2>1. pc \notin {"exited", "crashed"} /\ pc' = "crashed" /\ ret' = ret
      BY <1>6 DEF OutOfMemory, Crash
    <2>2. ret' # 0 BY <2>1, Running
    <2> QED BY <2>1, <2>2, QuietDocument
  <1>7. CASE UNCHANGED vars
    <2>1. UNCHANGED <<opts, fs, short, pc, i, log, out, ret>> BY <1>7 DEF vars
    <2>2. Expected' => Expected BY <1>0, <2>1, StillClean DEF Expected, Json, Ascending
    <2> QED BY <2>1, <2>2 DEF DocumentInv, LastPrinted, LastLog, Spans, Complete
  <1> QED BY <1>2, <1>3, <1>4, <1>5, <1>6, <1>7 DEF Next, Terminated

\* With --format json the arrays of the event log and of the summary are well
\* formed for each ascending list of registers, whichever of them have events,
\* as long as no text needs an escape and the run has said nothing; a run that
\* goes on says something for a named reason only, and one that fails or is
\* killed has printed no register (main.c:69-83, 387-480).
THEOREM OutputIsSound == Spec => []OutputSound
  <1>1. Init => EventsInv /\ DocumentInv /\ SaidInv
    <2> SUFFICES ASSUME Init PROVE DocumentInv /\ SaidInv BY InitEvents
    <2>1. pc = "start" /\ ret = 1 BY DEF Init
    <2>2. SaidInv BY Zenon DEF Init, SaidInv
    <2> QED BY <2>1, <2>2 DEF DocumentInv
  <1>2. Spec => [](EventsInv /\ DocumentInv /\ SaidInv)
    BY <1>1, InvariantHolds, NextEvents, NextDocument, NextSays, PTL DEF Spec
  <1>3. DocumentInv => JsonWellFormed
    <2> SUFFICES ASSUME DocumentInv, ret = 0, Expected
                 PROVE  /\ \A k \in 1 .. Len(out) - 1 : Follows(out[k].t, out[k + 1].t)
                        /\ out # <<>> => out[1].t = "[" /\ out[Len(out)].t = "]"
      BY DEF JsonWellFormed, Expected, Clean
    <2>1. CASE out = <<>>
      <3>1. Len(out) - 1 = -1 BY <2>1
      <3> QED BY <2>1, <3>1
    <2>2. CASE Spans(out, "[", "]")
      <3>1. \A k \in 1 .. Len(out) - 1 : <<out[k], out[k + 1]>> \in Neighbours
        BY <2>2, Zenon DEF Spans, Linked
      <3>2. \A k \in 1 .. Len(out) - 1 : Follows(out[k].t, out[k + 1].t)
        BY <3>1 DEF Neighbours
      <3> QED BY <2>2, <3>2 DEF Spans
    <2> QED BY <2>1, <2>2 DEF DocumentInv, Complete
  <1>4. SaidInv => SaidForReason BY Zenon DEF SaidInv, Reason, Unread, SaidForReason
  <1> QED BY <1>2, <1>3, <1>4, FailuresAreSilent, PTL DEF OutputSound
=============================================================================
