-------------------------- MODULE SrtmPcrs_proofs --------------------------
(***************************************************************************)
(* Proofs about calculate-srtm-pcrs, for every set of files, every command *)
(* line and every number of PCRs: the type invariant, that the event log   *)
(* of a PCR replays to its register and accounts for all that is extended, *)
(* that a run which fails prints no register, that the program implements  *)
(* registers with a journal, that the registers it prints are the          *)
(* reference values of the given files, and that what it prints is well    *)
(* formed as a document.                                                   *)
(***************************************************************************)
EXTENDS SrtmReference, SequenceLemmas, FiniteSetTheorems, TLAPS

-----------------------------------------------------------------------------
(* The type invariant *)

\* The program points inside a handler.
HandlerLabel ==
  {"crtm", "firmware", "pei", "dxe", "acpi", "bootorder", "bootxxxx", "drivers", "bootloaders",
   "kernel", "boot action", "gpt separator", "gpt", "exit boot", "boot exited", "secureboot",
   "sbatlevel", "grub", "grub commands", "paths", "walk", "cmdline", "initrd", "separator"}

\* Those of calculate_pcr5.
GptLabel == {"gpt separator", "gpt", "exit boot", "boot exited"}

\* A handler works on a register that main has reset, calculate_pcr5 on its own,
\* and a walk has at least one open directory.
Active ==
  /\ pc \in HandlerLabel => cur \in Calculated /\ bank[cur] # Unset /\ (cur = 5 <=> pc \in GptLabel)
  /\ pc = "walk" => walk # <<>>

TypeInv == TypeOK /\ Active

TypeInput == argv \in Seq(Argument) /\ opts \in Options /\ fs \in [File \cup Dir -> FileState]
TypeData ==
  /\ walk \in Seq(SUBSET (File \cup Dir))
  /\ bank \in [Pcr -> Seq(Digest) \cup {Unset}]
  /\ log \in [Pcr -> Seq(Entry)]
  /\ ret \in {-1, 0, 1}
TypeControl == pc \in Label /\ cur \in 0 .. 10 /\ i \in Nat \ {0}

LEMMA TypeParts == TypeOK <=> TypeInput /\ TypeData /\ TypeControl
  BY DEF TypeOK, TypeInput, TypeData, TypeControl

LEMMA TextKinds ==
  /\ "plain" \in Text
  /\ \A f : NameOf(f) \in Text /\ TextOf(f) \in Text BY DEF Text, NameOf, TextOf

\* An event is journaled, if memory lasts, and extended; what its text is like
\* and what the program says of it do not matter.
MakesEvent(d) == \E text \in Text : LogAndExtend(d, text)

LEMMA MakesEventIntro ==
  /\ \A d : Measure(d) => MakesEvent(d)
  /\ \A d, f : MeasureText(d, NameOf(f)) \/ MeasureText(d, TextOf(f)) => MakesEvent(d)
  /\ \A d : \A text \in Text : MeasureText(d, text) => MakesEvent(d)
  /\ \A f : MeasurePlaceholder(f) => MakesEvent(<<"zero", <<>>>>)
  BY TextKinds, Zenon DEF MakesEvent, Measure, MeasureText, MeasurePlaceholder

\* The step does nothing but print, if that.
Idle == Skip \/ Warn

LEMMA CalculatedArePcrs == Calculated \subseteq Pcr
  BY RegistersAssumption DEF Calculated, Pcr

\* Where a step goes.
LEMMA GotoType ==
  ASSUME TypeControl, NEW label \in Label, Goto(label)
  PROVE  TypeControl' /\ cur' = cur /\ pc' = label BY DEF TypeControl, Goto

LEMMA AgainType ==
  ASSUME TypeControl, Again
  PROVE  TypeControl' /\ cur' = cur /\ pc' = pc BY DEF TypeControl, Again

LEMMA ReturnType ==
  ASSUME TypeControl, cur \in Calculated, Return
  PROVE  TypeControl' /\ pc' = "dispatch"
  <1>1. cur + 1 \in 0 .. 10 /\ 1 \in Nat \ {0} BY DEF Calculated
  <1> QED BY <1>1 DEF TypeControl, Return, Label

\* The steps that end the program.
LEMMA FailType == TypeInv /\ (Fail \/ Crash) => TypeInv'
  BY DEF TypeInv, TypeOK, Fail, Crash, Label, Active, HandlerLabel, GptLabel

LEMMA SkipType ==
  ASSUME TypeInput, TypeData, Idle
  PROVE  TypeInput' /\ TypeData' /\ bank' = bank /\ walk' = walk
  BY DEF TypeInput, TypeData, Idle, Skip, Warn

\* What a measurement does to log and register.
LEMMA EvlogAddType ==
  ASSUME TypeData, cur \in Calculated, NEW d \in Digest, NEW text \in Text, EvlogAdd(d, text)
  PROVE  log' \in [Pcr -> Seq(Entry)]
  <1>1. cur \in Pcr /\ log[cur] \in Seq(Entry) /\ log \in [Pcr -> Seq(Entry)]
    BY CalculatedArePcrs DEF TypeData
  <1>2. [digest |-> d, text |-> text] \in Entry BY DEF Entry
  <1>3. Append(log[cur], [digest |-> d, text |-> text]) \in Seq(Entry) /\ <<>> \in Seq(Entry)
    BY <1>1, <1>2
  <1> QED BY <1>1, <1>3 DEF EvlogAdd, WithEntry

LEMMA HashExtendType ==
  ASSUME TypeData, cur \in Calculated, bank[cur] # Unset, NEW ds \in Seq(Digest), HashExtend(ds)
  PROVE  bank' \in [Pcr -> Seq(Digest) \cup {Unset}] /\ bank'[cur] # Unset
  <1>1. cur \in Pcr /\ bank[cur] \in Seq(Digest) BY CalculatedArePcrs DEF TypeData
  <1>2. bank[cur] \o ds \in Seq(Digest) BY <1>1, ConcatProperties
  <1>3. bank[cur] \o ds # Unset BY <1>2, RegistersAssumption
  <1> QED BY <1>1, <1>2, <1>3 DEF HashExtend, TypeData

LEMMA MeasureTextType ==
  ASSUME TypeInput, TypeData, cur \in Calculated, bank[cur] # Unset,
         NEW d \in Digest, MakesEvent(d)
  PROVE  TypeInput' /\ TypeData' /\ bank'[cur] # Unset /\ walk' = walk
  <1>1. <<d>> \in Seq(Digest) OBVIOUS
  <1>2. bank' \in [Pcr -> Seq(Digest) \cup {Unset}] /\ bank'[cur] # Unset
    BY <1>1, HashExtendType DEF MakesEvent, LogAndExtend
  <1>3. log' \in [Pcr -> Seq(Entry)] BY EvlogAddType DEF MakesEvent, LogAndExtend
  <1> QED BY <1>2, <1>3 DEF MakesEvent, LogAndExtend, TypeInput, TypeData

-----------------------------------------------------------------------------
(* The forms of a step *)

\* Where a handler may go from its present point: to a point of the same PCR.
Stays(label) == label \in HandlerLabel \ {"walk"} /\ (pc \in GptLabel <=> label \in GptLabel)

LEMMA MeasureGoto ==
  ASSUME TypeInv, pc \in HandlerLabel, NEW label, Stays(label), Goto(label),
         NEW d \in Digest, MakesEvent(d)
  PROVE  TypeInv'
  <1>1. TypeInput /\ TypeData /\ TypeControl /\ cur \in Calculated /\ bank[cur] # Unset
    BY TypeParts DEF TypeInv, Active
  <1>2. TypeInput' /\ TypeData' /\ bank'[cur] # Unset BY <1>1, MeasureTextType
  <1>3. label \in Label BY DEF Stays, HandlerLabel, Label
  <1>4. TypeControl' /\ cur' = cur /\ pc' = label BY <1>1, <1>3, GotoType
  <1>5. Active' BY <1>1, <1>2, <1>4 DEF Active, TypeInv, Stays
  <1> QED BY <1>2, <1>4, <1>5, TypeParts DEF TypeInv, TypeOK, TypeInput, TypeData, TypeControl

LEMMA MeasureAgain ==
  ASSUME TypeInv, pc \in HandlerLabel \ {"walk"}, Again,
         NEW d \in Digest, MakesEvent(d)
  PROVE  TypeInv'
  <1>1. TypeInput /\ TypeData /\ TypeControl /\ cur \in Calculated /\ bank[cur] # Unset
    BY TypeParts DEF TypeInv, Active
  <1>2. TypeInput' /\ TypeData' /\ bank'[cur] # Unset BY <1>1, MeasureTextType
  <1>4. TypeControl' /\ cur' = cur /\ pc' = pc BY <1>1, AgainType
  <1>5. Active' BY <1>1, <1>2, <1>4 DEF Active, TypeInv
  <1> QED BY <1>2, <1>4, <1>5 DEF TypeInv, TypeOK, TypeInput, TypeData, TypeControl

LEMMA MeasureReturn ==
  ASSUME TypeInv, pc \in HandlerLabel, Return,
         NEW d \in Digest, MakesEvent(d)
  PROVE  TypeInv'
  <1>1. TypeInput /\ TypeData /\ TypeControl /\ cur \in Calculated /\ bank[cur] # Unset
    BY TypeParts DEF TypeInv, Active
  <1>2. TypeInput' /\ TypeData' BY <1>1, MeasureTextType
  <1>4. TypeControl' /\ pc' = "dispatch" BY <1>1, ReturnType
  <1>5. Active' BY <1>4 DEF Active, HandlerLabel
  <1> QED BY <1>2, <1>4, <1>5 DEF TypeInv, TypeOK, TypeInput, TypeData, TypeControl

LEMMA SkipGoto ==
  ASSUME TypeInv, Idle, NEW label, Goto(label),
         label \in Label \ HandlerLabel \/ (pc \in HandlerLabel /\ Stays(label))
  PROVE  TypeInv'
  <1>1. TypeInput /\ TypeData /\ TypeControl BY TypeParts DEF TypeInv
  <1>2. TypeInput' /\ TypeData' /\ bank' = bank BY <1>1, SkipType
  <1>3. label \in Label BY DEF Stays, HandlerLabel, Label
  <1>4. TypeControl' /\ cur' = cur /\ pc' = label BY <1>1, <1>3, GotoType
  <1>5. Active' BY <1>2, <1>4 DEF Active, TypeInv, Stays, HandlerLabel
  <1> QED BY <1>2, <1>4, <1>5 DEF TypeInv, TypeOK, TypeInput, TypeData, TypeControl

LEMMA SkipAgain ==
  ASSUME TypeInv, Idle, Again
  PROVE  TypeInv'
  <1>1. TypeInput /\ TypeData /\ TypeControl BY TypeParts DEF TypeInv
  <1>2. TypeInput' /\ TypeData' /\ bank' = bank /\ walk' = walk BY <1>1, SkipType
  <1>4. TypeControl' /\ cur' = cur /\ pc' = pc BY <1>1, AgainType
  <1>5. Active' BY <1>2, <1>4 DEF Active, TypeInv
  <1> QED BY <1>2, <1>4, <1>5 DEF TypeInv, TypeOK, TypeInput, TypeData, TypeControl

LEMMA SkipReturn ==
  ASSUME TypeInv, cur \in Calculated, Idle, Return
  PROVE  TypeInv'
  <1>1. TypeInput /\ TypeData /\ TypeControl BY TypeParts DEF TypeInv
  <1>2. TypeInput' /\ TypeData' BY <1>1, SkipType
  <1>4. TypeControl' /\ pc' = "dispatch" BY <1>1, ReturnType
  <1>5. Active' BY <1>4 DEF Active, HandlerLabel
  <1> QED BY <1>2, <1>4, <1>5 DEF TypeInv, TypeOK, TypeInput, TypeData, TypeControl

-----------------------------------------------------------------------------
(* The type invariant is inductive: one lemma for each part of Next. *)

LEMMA OptsType ==
  ASSUME TypeInv
  PROVE  /\ \A o \in FileOption : opts.file[o] \in Name
         /\ \A o \in ListOption : opts.list[o] \in Seq(Name) BY DEF TypeInv, TypeOK, Options

\* The forms of the digests that are measured.
LEMMA DigestType ==
  /\ \A kind \in Kind : <<kind, <<>>>> \in Digest
  /\ \A kind \in Kind, f \in Name : <<kind, <<f>>>> \in Digest
  /\ \A kind \in Kind, s \in Seq(Name) : <<kind, s>> \in Digest
  <1>1. \A f \in Name : <<f>> \in Seq(Name) OBVIOUS
  <1>2. <<>> \in Seq(Name) OBVIOUS
  <1> QED BY <1>1, <1>2 DEF Digest

LEMMA Pcr0Type == TypeInv /\ CalculatePcr0 => TypeInv'
  <1> SUFFICES ASSUME TypeInv, CalculatePcr0 PROVE TypeInv' OBVIOUS
  <1>a. Firmware \in Name BY OptsType DEF Firmware, FileOption, ValueOption
  <1>b. /\ <<"crtm", <<>>>> \in Digest /\ <<"garbage", <<>>>> \in Digest
        /\ <<"peifv", <<Firmware>>>> \in Digest /\ <<"dxefv", <<Firmware>>>> \in Digest
    BY <1>a, DigestType DEF Kind
  <1>1. CASE MeasureCrtm
    <2>1. Stays("firmware") /\ pc \in HandlerLabel
      BY <1>1 DEF MeasureCrtm, Stays, HandlerLabel, GptLabel
    <2> QED BY <1>1, <1>b, <2>1, MeasureGoto, MakesEventIntro DEF MeasureCrtm
  <1>2. CASE ReadFirmware
    <2>1. Stays("pei") /\ pc \in HandlerLabel
      BY <1>2 DEF ReadFirmware, Stays, HandlerLabel, GptLabel
    <2> QED BY <1>2, <2>1, SkipGoto, FailType DEF Idle, ReadFirmware
  <1>3. CASE MeasurePei
    <2>1. Stays("dxe") /\ pc \in HandlerLabel
      BY <1>3 DEF MeasurePei, Stays, HandlerLabel, GptLabel
    <2> QED BY <1>3, <1>b, <2>1, MeasureGoto, FailType, MakesEventIntro DEF MeasurePei, MeasureVolume
  <1>4. CASE MeasureDxe
    <2>1. Stays("separator") /\ pc \in HandlerLabel
      BY <1>4 DEF MeasureDxe, Stays, HandlerLabel, GptLabel
    <2> QED BY <1>4, <1>b, <2>1, MeasureGoto, FailType, MakesEventIntro DEF MeasureDxe, MeasureVolume
  <1> QED BY <1>1, <1>2, <1>3, <1>4 DEF CalculatePcr0

LEMMA Pcr1Type == TypeInv /\ CalculatePcr1 => TypeInv'
  <1> SUFFICES ASSUME TypeInv, CalculatePcr1 PROVE TypeInv' OBVIOUS
  <1>1. CASE MeasureAcpi
    <2> DEFINE f == opts.file[AcpiOrder[i]]
    <2>1. pc \in HandlerLabel \ {"walk"} BY <1>1 DEF MeasureAcpi, HandlerLabel
    <2>2. i \in 1 .. 4 BY <1>1 DEF MeasureAcpi, AcpiOrder, TypeInv, TypeOK
    <2>3. AcpiOrder[i] \in FileOption BY <2>2 DEF AcpiOrder, FileOption, AcpiOption
    <2>4. Content(f) \in Digest BY <2>3, OptsType, DigestType DEF Content, Kind
    <2> QED BY <1>1, <2>1, <2>4, MeasureAgain, SkipAgain, MakesEventIntro DEF Idle, MeasureAcpi
  <1>2. CASE AcpiDone
    <2>1. Stays("bootorder") /\ pc \in HandlerLabel
      BY <1>2 DEF AcpiDone, Stays, HandlerLabel, GptLabel
    <2> QED BY <1>2, <2>1, SkipGoto DEF Idle, AcpiDone
  <1>3. CASE MeasureBootOrder
    <2>1. Stays("bootxxxx") /\ pc \in HandlerLabel
      BY <1>3 DEF MeasureBootOrder, Stays, HandlerLabel, GptLabel
    <2>2. <<"bootorder", opts.list["bootorder"]>> \in Digest
      BY OptsType, DigestType DEF Kind, ListOption
    <2> QED BY <1>3, <2>1, <2>2, MeasureGoto, MakesEventIntro DEF MeasureBootOrder
  <1>4. CASE MeasureDefaultBootOption
    <2>1. Stays("separator") /\ pc \in HandlerLabel
      BY <1>4 DEF MeasureDefaultBootOption, Stays, HandlerLabel, GptLabel
    <2>2. <<"boot0000", <<>>>> \in Digest BY DigestType DEF Kind
    <2> QED BY <1>4, <2>1, <2>2, MeasureGoto, FailType, MakesEventIntro DEF MeasureDefaultBootOption
  <1>5. CASE MeasureBootOption
    <2> DEFINE f == opts.list["bootxxxx"][i]
    <2>1. pc \in HandlerLabel \ {"walk"} BY <1>5 DEF MeasureBootOption, HandlerLabel
    <2>2. f \in Name BY <1>5, OptsType DEF MeasureBootOption, ListOption, TypeInv, TypeOK
    <2>3. <<"efivar", <<f>>>> \in Digest BY <2>2, DigestType DEF Kind
    <2> QED BY <1>5, <2>1, <2>3, MeasureAgain, FailType, MakesEventIntro DEF MeasureBootOption
  <1>6. CASE BootOptionsDone
    <2>1. Stays("separator") /\ pc \in HandlerLabel
      BY <1>6 DEF BootOptionsDone, Stays, HandlerLabel, GptLabel
    <2> QED BY <1>6, <2>1, SkipGoto DEF Idle, BootOptionsDone
  <1> QED BY <1>1, <1>2, <1>3, <1>4, <1>5, <1>6 DEF CalculatePcr1

LEMMA Pcr2Type == TypeInv /\ CalculatePcr2 => TypeInv'
  <1> SUFFICES ASSUME TypeInv, CalculatePcr2 PROVE TypeInv' OBVIOUS
  <1>1. CASE MeasureDriver
    <2> DEFINE f == opts.list["driver"][i]
    <2>1. pc \in HandlerLabel \ {"walk"} BY <1>1 DEF MeasureDriver, HandlerLabel
    <2>2. f \in Name BY <1>1, OptsType DEF MeasureDriver, ListOption, TypeInv, TypeOK
    <2>3. <<"pe", <<f>>>> \in Digest BY <2>2, DigestType DEF Kind
    <2> QED BY <1>1, <2>1, <2>3, MeasureAgain, FailType, MakesEventIntro DEF MeasureDriver, PeRefused
  <1>2. CASE DriversDone
    <2>1. Stays("separator") /\ pc \in HandlerLabel
      BY <1>2 DEF DriversDone, Stays, HandlerLabel, GptLabel
    <2> QED BY <1>2, <2>1, SkipGoto DEF Idle, DriversDone
  <1> QED BY <1>1, <1>2 DEF CalculatePcr2

LEMMA Pcr4Type == TypeInv /\ CalculatePcr4 => TypeInv'
  <1> SUFFICES ASSUME TypeInv, CalculatePcr4 PROVE TypeInv' OBVIOUS
  <1>1. CASE MeasureBootloader
    <2> DEFINE f == opts.list["bootloader"][i]
    <2>1. pc \in HandlerLabel \ {"walk"} BY <1>1 DEF MeasureBootloader, HandlerLabel
    <2>2. f \in Name BY <1>1, OptsType DEF MeasureBootloader, ListOption, TypeInv, TypeOK
    <2>3. <<"pe", <<f>>>> \in Digest /\ <<"zero", <<>>>> \in Digest
      BY <2>2, DigestType DEF Kind
    <2> QED BY <1>1, <2>1, <2>3, MeasureAgain, FailType, MakesEventIntro DEF MeasureBootloader
  <1>2. CASE BootloadersDone
    <2>1. Stays("kernel") /\ Stays("boot action") /\ pc \in HandlerLabel
      BY <1>2 DEF BootloadersDone, Stays, HandlerLabel, GptLabel
    <2> QED BY <1>2, <2>1, SkipGoto DEF Idle, BootloadersDone
  <1>3. CASE MeasureKernel
    <2> DEFINE k == opts.file["kernel"]
               c == opts.file["config"]
               d == <<"pe", IF c = NoFile THEN <<k>> ELSE <<k, c>>>>
    <2>1. Stays("boot action") /\ pc \in HandlerLabel
      BY <1>3 DEF MeasureKernel, Stays, HandlerLabel, GptLabel
    <2>2. k \in Name /\ c \in Name BY OptsType DEF FileOption, ValueOption
    <2>3. <<k>> \in Seq(Name) /\ <<k, c>> \in Seq(Name) BY <2>2
    <2>4. d \in Digest BY <2>3, DigestType DEF Kind
    <2> HIDE DEF d
    <2>5. (MakesEvent(d) /\ Goto("boot action")) \/ Fail \/ Crash
      BY <1>3, MakesEventIntro DEF MeasureKernel, PeRefused, d
    <2> QED BY <2>1, <2>4, <2>5, MeasureGoto, FailType
  <1>4. CASE MeasureBootAction
    <2>1. Stays("separator") /\ pc \in HandlerLabel
      BY <1>4 DEF MeasureBootAction, Stays, HandlerLabel, GptLabel
    <2>2. <<"calling efi application", <<>>>> \in Digest BY DigestType DEF Kind
    <2> QED BY <1>4, <2>1, <2>2, MeasureGoto, MakesEventIntro DEF MeasureBootAction
  <1> QED BY <1>1, <1>2, <1>3, <1>4 DEF CalculatePcr4

LEMMA Pcr5Type == TypeInv /\ CalculatePcr5 => TypeInv'
  <1> SUFFICES ASSUME TypeInv, CalculatePcr5 PROVE TypeInv' OBVIOUS
  <1>a. /\ Separator \in Digest /\ Invocation \in Digest /\ Returned \in Digest
        /\ Content(opts.file["gpt"]) \in Digest
    BY OptsType, DigestType DEF Kind, Separator, Invocation, Returned, Content, FileOption, LooseOption
  <1>b. TypeInput /\ TypeData /\ TypeControl BY TypeParts DEF TypeInv
  <1>c. ASSUME NEW d \in Digest, NEW label, LogOnly(d), pc \in GptLabel, Stays(label), Goto(label)
        PROVE  TypeInv'
    <2>1. cur \in Calculated /\ bank[cur] # Unset
      BY <1>c DEF TypeInv, Active, HandlerLabel, GptLabel
    <2>2. log' \in [Pcr -> Seq(Entry)]
      BY <1>b, <1>c, <2>1, EvlogAddType, TextKinds DEF LogOnly
    <2>3. TypeInput' /\ TypeData' /\ bank' = bank
      BY <1>b, <1>c, <2>2 DEF LogOnly, TypeInput, TypeData
    <2>4. label \in Label BY <1>c DEF Stays, HandlerLabel, Label
    <2>5. TypeControl' /\ cur' = cur /\ pc' = label BY <1>b, <1>c, <2>4, GotoType
    <2>6. Active'
      BY <1>c, <2>1, <2>3, <2>5 DEF Active, TypeInv, Stays, HandlerLabel, GptLabel
    <2> QED BY <2>3, <2>5, <2>6 DEF TypeInv, TypeOK, TypeInput, TypeData, TypeControl
  <1>1. CASE LogGptSeparator
    <2>1. Stays("gpt") /\ pc \in GptLabel
      BY <1>1 DEF LogGptSeparator, Stays, HandlerLabel, GptLabel
    <2> QED BY <1>1, <1>a, <1>c, <2>1, FailType DEF LogGptSeparator
  <1>2. CASE MeasureGpt
    <2>1. Stays("exit boot") /\ pc \in HandlerLabel
      BY <1>2 DEF MeasureGpt, Stays, HandlerLabel, GptLabel
    <2> QED BY <1>2, <1>a, <2>1, MeasureGoto, SkipGoto, FailType, MakesEventIntro DEF Idle, MeasureGpt
  <1>3. CASE LogExitBootInvocation
    <2>1. Stays("boot exited") /\ pc \in GptLabel
      BY <1>3 DEF LogExitBootInvocation, Stays, HandlerLabel, GptLabel
    <2> QED BY <1>3, <1>a, <1>c, <2>1 DEF LogExitBootInvocation
  <1>4. CASE LogExitBootReturned
    <2>1. cur \in Calculated /\ bank[cur] # Unset
      BY <1>4 DEF LogExitBootReturned, TypeInv, Active, HandlerLabel
    <2>2. <<Separator, Invocation, Returned>> \in Seq(Digest) BY <1>a
    <2>3. bank' \in [Pcr -> Seq(Digest) \cup {Unset}]
      BY <1>4, <1>b, <2>1, <2>2, HashExtendType DEF LogExitBootReturned
    <2>4. log' \in [Pcr -> Seq(Entry)]
      BY <1>4, <1>a, <1>b, <2>1, EvlogAddType, TextKinds DEF LogExitBootReturned
    <2>5. TypeInput' /\ TypeData'
      BY <1>4, <1>b, <2>3, <2>4 DEF LogExitBootReturned, TypeInput, TypeData
    <2>6. TypeControl' /\ pc' = "dispatch"
      BY <1>4, <1>b, <2>1, ReturnType DEF LogExitBootReturned
    <2>7. Active' BY <2>6 DEF Active, HandlerLabel
    <2> QED BY <2>5, <2>6, <2>7 DEF TypeInv, TypeOK, TypeInput, TypeData, TypeControl
  <1> QED BY <1>1, <1>2, <1>3, <1>4 DEF CalculatePcr5

LEMMA Pcr7Type == TypeInv /\ (CalculatePcr7 \/ MeasureSeparator) => TypeInv'
  <1> SUFFICES ASSUME TypeInv, CalculatePcr7 \/ MeasureSeparator PROVE TypeInv' OBVIOUS
  <1>1. CASE MeasureSecureBootVar
    <2> DEFINE var == SecureBootVars[i]
               f == opts.file[var]
    <2>1. pc \in HandlerLabel \ {"walk"} BY <1>1 DEF MeasureSecureBootVar, HandlerLabel
    <2>2. i \in 1 .. 5 BY <1>1 DEF MeasureSecureBootVar, SecureBootVars, TypeInv, TypeOK
    <2>a. i = 1 \/ i = 2 \/ i = 3 \/ i = 4 \/ i = 5 BY <2>2
    <2>b. var \in {"secureboot", "pk", "kek", "db", "dbx"} BY <2>a DEF SecureBootVars
    <2>3. var \in FileOption /\ var \in Kind BY <2>b DEF FileOption, ValueOption, Kind
    <2>4. <<var, <<f>>>> \in Digest /\ <<var, <<>>>> \in Digest
      BY <2>3, OptsType, DigestType
    <2> HIDE DEF var
    <2>5. \/ (MakesEvent(<<var, <<f>>>>) \/ MakesEvent(<<var, <<>>>>)) /\ Again
         \/ Fail
         \/ Crash BY <1>1, MakesEventIntro DEF MeasureSecureBootVar, var
    <2> QED BY <2>1, <2>4, <2>5, MeasureAgain, FailType
  <1>2. CASE SecureBootDone
    <2>1. Stays("separator") /\ pc \in HandlerLabel
      BY <1>2 DEF SecureBootDone, Stays, HandlerLabel, GptLabel
    <2> QED BY <1>2, <2>1, SkipGoto DEF Idle, SecureBootDone
  <1>3. CASE MeasureSbatLevel
    <2>1. pc \in HandlerLabel /\ cur \in Calculated
      BY <1>3 DEF MeasureSbatLevel, HandlerLabel, TypeInv, Active
    <2>2. <<"sbatlevel", <<opts.file["sbatlevel"]>>>> \in Digest
      BY OptsType, DigestType DEF Kind, FileOption, ValueOption
    <2> QED BY <1>3, <2>1, <2>2, MeasureReturn, SkipReturn, FailType, MakesEventIntro DEF Idle, MeasureSbatLevel
  <1>4. CASE MeasureSeparator
    <2>1. pc \in HandlerLabel /\ cur \in Calculated /\ Stays("sbatlevel")
      BY <1>4 DEF MeasureSeparator, HandlerLabel, GptLabel, TypeInv, Active, Stays
    <2>2. Separator \in Digest BY DigestType DEF Kind, Separator
    <2> QED BY <1>4, <2>1, <2>2, MeasureGoto, MeasureReturn, SkipReturn, FailType, MakesEventIntro DEF Idle, MeasureSeparator
  <1> QED BY <1>1, <1>2, <1>3, <1>4 DEF CalculatePcr7

LEMMA Pcr8Type == TypeInv /\ CalculatePcr8 => TypeInv'
  <1> SUFFICES ASSUME TypeInv, CalculatePcr8 PROVE TypeInv' OBVIOUS
  <1>1. CASE ReadGrub
    <2>1. Stays("grub commands") /\ pc \in HandlerLabel /\ cur \in Calculated
      BY <1>1 DEF ReadGrub, Stays, HandlerLabel, GptLabel, TypeInv, Active
    <2> QED BY <1>1, <2>1, SkipGoto, SkipReturn, FailType DEF Idle, ReadGrub
  <1>2. CASE MeasureGrubCommand
    <2>1. pc \in HandlerLabel \ {"walk"} /\ cur \in Calculated /\ i \in Nat
      BY <1>2 DEF MeasureGrubCommand, HandlerLabel, TypeInv, Active, TypeOK
    <2>2. GrubFile \in Name BY OptsType DEF GrubFile, FileOption, ValueOption
    <2>3. [j \in 1 .. i |-> GrubFile] \in Seq(Name) BY <2>1, <2>2
    <2>4. GrubCommand(i) \in Digest /\ <<"garbage", <<>>>> \in Digest
      BY <2>3, DigestType DEF GrubCommand, Kind
    <2> QED BY <1>2, <2>1, <2>4, MeasureAgain, MeasureReturn, SkipReturn, MakesEventIntro DEF Idle, MeasureGrubCommand
  <1> QED BY <1>1, <1>2 DEF CalculatePcr8

LEMMA WalkType ==
  ASSUME TypeInv, pc = "walk"
  PROVE  /\ Depth \in Nat \ {0} /\ Depth \in DOMAIN walk /\ walk[Depth] \subseteq File \cup Dir
         /\ \A e : Read(e) \in Seq(SUBSET (File \cup Dir)) /\ Len(Read(e)) = Depth
         /\ SubSeq(walk, 1, Depth - 1) \in Seq(SUBSET (File \cup Dir))
         /\ Len(SubSeq(walk, 1, Depth - 1)) = Depth - 1
  <1>1. walk \in Seq(SUBSET (File \cup Dir)) /\ walk # <<>> BY DEF TypeInv, TypeOK, Active
  <1>2. Depth \in Nat \ {0} /\ Depth \in DOMAIN walk BY <1>1, EmptySeq DEF Depth
  <1>3. walk[Depth] \in SUBSET (File \cup Dir) BY <1>1, <1>2
  <1>4. ASSUME NEW e PROVE Read(e) \in Seq(SUBSET (File \cup Dir)) /\ Len(Read(e)) = Depth
    <2>1. walk[Depth] \ {e} \in SUBSET (File \cup Dir) BY <1>3
    <2> QED BY <1>1, <1>2, <2>1, ExceptSeq DEF Read, Depth
  <1>5. /\ SubSeq(walk, 1, Depth - 1) \in Seq(SUBSET (File \cup Dir))
        /\ Len(SubSeq(walk, 1, Depth - 1)) = Depth - 1
    <2>1. \A k \in 1 .. Depth - 1 : walk[k] \in SUBSET (File \cup Dir)
      BY <1>1, <1>2 DEF Depth
    <2> QED BY <1>2, <2>1, SubSeqProperties
  <1> QED BY <1>2, <1>3, <1>4, <1>5

\* A step of the walk: measurements may be made, directories opened and closed.
LEMMA WalkStepType ==
  ASSUME TypeInv, pc = "walk", UNCHANGED <<argv, opts, fs, cur, ret>>,
         UNCHANGED <<bank, log>> \/ \E d \in Digest, text \in Text : EvlogAdd(d, text) /\ HashExtend(<<d>>),
         walk' \in Seq(SUBSET (File \cup Dir)), i' \in Nat \ {0},
         pc' = "paths" \/ (pc' = "walk" /\ Len(walk') > 0)
  PROVE  TypeInv'
  <1>1. TypeData /\ cur \in Calculated /\ bank[cur] # Unset /\ cur # 5
    BY TypeParts DEF TypeInv, Active, HandlerLabel, GptLabel
  <1>2. /\ bank' \in [Pcr -> Seq(Digest) \cup {Unset}] /\ bank'[cur] # Unset
        /\ log' \in [Pcr -> Seq(Entry)]
    <2>1. CASE UNCHANGED <<bank, log>> BY <1>1, <2>1 DEF TypeData
    <2>2. ASSUME NEW d \in Digest, NEW text \in Text, EvlogAdd(d, text), HashExtend(<<d>>)
          PROVE  /\ bank' \in [Pcr -> Seq(Digest) \cup {Unset}] /\ bank'[cur] # Unset
                 /\ log' \in [Pcr -> Seq(Entry)]
      <3>1. <<d>> \in Seq(Digest) OBVIOUS
      <3> QED BY <1>1, <2>2, <3>1, HashExtendType, EvlogAddType
    <2> QED BY <2>1, <2>2
  <1>4. TypeOK' BY <1>2 DEF TypeInv, TypeOK, Label
  <1>5. Active'
    <2>1. pc' = "walk" => walk' # <<>> BY EmptySeq
    <2> QED BY <1>1, <1>2, <2>1 DEF Active, HandlerLabel, GptLabel
  <1> QED BY <1>4, <1>5 DEF TypeInv

LEMMA Pcr9Type == TypeInv /\ CalculatePcr9 => TypeInv'
  <1> SUFFICES ASSUME TypeInv, CalculatePcr9 PROVE TypeInv' OBVIOUS
  <1>a. \A f \in Name : Content(f) \in Digest BY DigestType DEF Content, Kind
  <1>b. TypeInput /\ TypeData /\ TypeControl BY TypeParts DEF TypeInv
  <1>1. CASE RejectPath BY <1>1, FailType DEF RejectPath
  <1>2. CASE MeasurePath
    <2>1. pc \in HandlerLabel \ {"walk"} BY <1>2 DEF MeasurePath, AtPath, HandlerLabel
    <2>2. Paths[i] \in Name
      BY <1>2, OptsType DEF MeasurePath, AtPath, Paths, ListOption, TypeInv, TypeOK
    <2> QED BY <1>2, <1>a, <2>1, <2>2, MeasureAgain, SkipAgain, MakesEventIntro DEF Idle, MeasurePath
  <1>3. CASE WalkPath
    <2>1. CASE Fail BY <2>1, FailType
    <2>2. CASE walk' = <<Children[Paths[i]]>> /\ pc' = "walk"
                 /\ UNCHANGED <<argv, opts, fs, cur, i, bank, log, out, ret>>
      <3>1. Children[Paths[i]] \in SUBSET (File \cup Dir)
        BY <1>3, FilesAssumption DEF WalkPath
      <3>2. walk' \in Seq(SUBSET (File \cup Dir)) /\ walk' # <<>> BY <2>2, <3>1
      <3>3. TypeOK' BY <2>2, <3>2 DEF TypeInv, TypeOK, Label
      <3>4. pc = "paths" BY <1>3 DEF WalkPath, AtPath
      <3>5. Active' BY <2>2, <3>2, <3>4 DEF TypeInv, Active, HandlerLabel, GptLabel
      <3> QED BY <3>3, <3>5 DEF TypeInv
    <2> QED BY <1>3, <2>1, <2>2 DEF WalkPath
  <1>4. CASE PathsDone
    <2>1. Stays("cmdline") /\ pc \in HandlerLabel
      BY <1>4 DEF PathsDone, Stays, HandlerLabel, GptLabel
    <2> QED BY <1>4, <2>1, SkipGoto DEF Idle, PathsDone
  <1>c. ASSUME LeaveDirectory, pc = "walk" PROVE TypeInv'
    <2>1. walk' \in Seq(SUBSET (File \cup Dir)) /\ Len(walk') = Depth - 1 /\ Depth \in Nat \ {0}
      BY <1>c, WalkType DEF LeaveDirectory
    <2>2. i' \in Nat \ {0} BY <1>c DEF LeaveDirectory, TypeInv, TypeOK
    <2>3. pc' = "paths" \/ (pc' = "walk" /\ Len(walk') > 0) BY <1>c, <2>1 DEF LeaveDirectory
    <2>4. UNCHANGED <<argv, opts, fs, cur, ret>> /\ UNCHANGED <<bank, log>>
      BY <1>c DEF LeaveDirectory
    <2> QED BY <1>c, <2>1, <2>2, <2>3, <2>4, WalkStepType
  <1>5. CASE DirectoryDone BY <1>5, <1>c DEF DirectoryDone
  <1>6. ASSUME NEW e \in Dir, EnterDirectory(e) PROVE TypeInv'
    <2>1. pc = "walk" /\ UNCHANGED <<argv, opts, fs, cur, ret, bank, log>> /\ pc' = "walk" /\ i' = i
      BY <1>6 DEF EnterDirectory
    <2>2. Read(e) \in Seq(SUBSET (File \cup Dir)) /\ Len(Read(e)) \in Nat \ {0}
      BY <2>1, WalkType
    <2>3. Children[e] \in SUBSET (File \cup Dir) BY FilesAssumption
    <2>4. /\ Append(Read(e), Children[e]) \in Seq(SUBSET (File \cup Dir))
          /\ Len(Append(Read(e), Children[e])) > 0 BY <2>2, <2>3, AppendProperties
    <2>5. walk' \in Seq(SUBSET (File \cup Dir)) /\ Len(walk') > 0
      BY <1>6, <2>2, <2>4 DEF EnterDirectory
    <2>6. i' \in Nat \ {0} BY <2>1 DEF TypeInv, TypeOK
    <2> QED BY <2>1, <2>5, <2>6, WalkStepType
  <1>7. ASSUME NEW e \in File, MeasureFileEntry(e) PROVE TypeInv'
    <2>1. pc = "walk" /\ UNCHANGED <<argv, opts, fs, cur, ret>> /\ pc' = "walk" /\ i' = i
      BY <1>7 DEF MeasureFileEntry
    <2>2. walk' \in Seq(SUBSET (File \cup Dir)) /\ Len(walk') > 0
      BY <1>7, <2>1, WalkType DEF MeasureFileEntry
    <2>3. Content(e) \in Digest BY <1>a DEF Name
    <2>4. UNCHANGED <<bank, log>> \/ \E d \in Digest, text \in Text : EvlogAdd(d, text) /\ HashExtend(<<d>>)
      BY <1>7, <2>3, TextKinds, Zenon DEF MeasureFileEntry
    <2>5. i' \in Nat \ {0} BY <2>1 DEF TypeInv, TypeOK
    <2> QED BY <2>1, <2>2, <2>4, <2>5, WalkStepType
  <1>8. ASSUME NEW e \in File, FileEntryFails(e) PROVE TypeInv'
    BY <1>8, <1>c, FailType DEF FileEntryFails
  <1>9. CASE MeasureCmdline
    <2>1. Stays("initrd") /\ pc \in HandlerLabel
      BY <1>9 DEF MeasureCmdline, Stays, HandlerLabel, GptLabel
    <2>2. opts.file["cmdline"] \in Name /\ opts.file["addzeros"] \in Name
      BY OptsType DEF FileOption, ValueOption
    <2>3. <<opts.file["cmdline"], opts.file["addzeros"]>> \in Seq(Name) BY <2>2
    <2>4. CmdlineDigest \in Digest BY <2>3, DigestType DEF CmdlineDigest, Kind
    <2> QED BY <1>9, <2>1, <2>4, MeasureGoto, FailType, MakesEventIntro DEF MeasureCmdline
  <1>10. CASE MeasureInitrd
    <2>1. pc \in HandlerLabel /\ cur \in Calculated
      BY <1>10 DEF MeasureInitrd, HandlerLabel, TypeInv, Active
    <2>2. opts.file["initrd"] \in Name BY OptsType DEF FileOption, ValueOption
    <2> QED BY <1>10, <1>a, <2>1, <2>2, MeasureReturn, SkipReturn, FailType, MakesEventIntro DEF Idle, MeasureInitrd
  <1> QED BY <1>1, <1>2, <1>3, <1>4, <1>5, <1>6, <1>7, <1>8, <1>9, <1>10 DEF CalculatePcr9

\* A step of main: neither its start nor its end is inside a handler.
LEMMA MainType ==
  ASSUME TypeInv, TypeInput', UNCHANGED <<walk, bank, log>>, ret' \in {-1, 0, 1},
         pc' \in Label \ HandlerLabel, cur' \in 0 .. 10, i' \in Nat \ {0}
  PROVE  TypeInv'
  <1>1. TypeOK' BY DEF TypeInv, TypeOK, TypeInput
  <1>2. Active' BY DEF Active, HandlerLabel
  <1> QED BY <1>1, <1>2 DEF TypeInv

LEMMA ArgumentType ==
  ASSUME TypeInv, Parsing
  PROVE  /\ NextArg \in Argument /\ Tail(argv) \in Seq(Argument)
         /\ NextArg.opt = "pcrs" /\ NextArg.val # NoFile => NextArg.val \in Seq(Nat)
         /\ NextArg.opt \in FileOption \cup ListOption => NextArg.val \in Name
  <1>1. argv \in Seq(Argument) /\ argv # <<>> BY DEF TypeInv, TypeOK, Parsing
  <1>2. NextArg \in Argument /\ Tail(argv) \in Seq(Argument)
    BY <1>1, HeadTailProperties, ElementOfSeq, EmptySeq DEF NextArg
  <1>3. NextArg.opt = "pcrs" /\ NextArg.val # NoFile => NextArg.val \in Seq(Nat)
    BY <1>2 DEF Argument, FileOption, ValueOption, LooseOption, AcpiOption, ListOption
  <1>4. NextArg.opt \in FileOption \cup ListOption => NextArg.val \in Name
    BY <1>2 DEF Argument, FileOption, ValueOption, LooseOption, AcpiOption, ListOption, Name
  <1> QED BY <1>2, <1>3, <1>4

LEMMA ParsedType ==
  ASSUME TypeInv, Parsing, NEW newOpts \in Options, Parsed(newOpts)
  PROVE  TypeInv'
  <1>1. TypeInput' BY ArgumentType DEF Parsed, TypeInput, TypeInv, TypeOK
  <1>2. pc' \in Label \ HandlerLabel /\ cur' \in 0 .. 10 /\ i' \in Nat \ {0}
    BY DEF Parsed, Parsing, TypeInv, TypeOK, Label, HandlerLabel
  <1>3. ret' \in {-1, 0, 1} /\ UNCHANGED <<walk, bank, log>> BY DEF Parsed, TypeInv, TypeOK
  <1> QED BY <1>1, <1>2, <1>3, MainType

LEMMA ParseType == TypeInv /\ Parse => TypeInv'
  <1> SUFFICES ASSUME TypeInv, Parse PROVE TypeInv' OBVIOUS
  <1>a. /\ opts \in Options /\ opts.flag \in [FlagOption \cup {"json"} -> BOOLEAN]
        /\ opts.file \in [FileOption -> Name] /\ opts.list \in [ListOption -> Seq(Name)]
        /\ opts.pcrs \in Seq(Nat) BY DEF TypeInv, TypeOK, Options
  <1>b. \A label : label \in {"parse", "validate", "dispatch"} => label \in Label \ HandlerLabel
    BY DEF Label, HandlerLabel
  <1>f. ASSUME NEW o \in FileOption, NEW v \in Name
        PROVE  [opts EXCEPT !.file[o] = v] \in Options BY <1>a DEF Options
  <1>1. CASE Start BY <1>1, <1>b, FailType, SkipGoto DEF Idle, Start
  <1>2. CASE ParseFlag
    <2>1. [opts EXCEPT !.flag[NextArg.opt] = TRUE] \in Options
      BY <1>2, <1>a DEF ParseFlag, IsFlag, Options
    <2> QED BY <1>2, <2>1, ParsedType DEF ParseFlag
  <1>3. CASE ParseFormat
    <2>1. (NextArg.val = "json") \in BOOLEAN OBVIOUS
    <2>2. [opts EXCEPT !.flag["json"] = (NextArg.val = "json")] \in Options
      BY <2>1, <1>a DEF Options
    <2> QED BY <1>3, <2>2, ParsedType DEF ParseFormat
  <1>4. CASE ParsePcrs
    <2>1. opts.pcrs \o NextArg.val \in Seq(Nat)
      BY <1>4, <1>a, ArgumentType, ConcatProperties DEF ParsePcrs
    <2>2. [opts EXCEPT !.pcrs = @ \o NextArg.val] \in Options BY <2>1, <1>a DEF Options
    <2> QED BY <1>4, <2>2, ParsedType, FailType DEF ParsePcrs
  <1>5. CASE ParseValue
    <2>1. NextArg.opt \in FileOption /\ NextArg.val \in Name
      BY <1>5, ArgumentType DEF ParseValue, FileOption
    <2> QED BY <1>5, <1>f, <2>1, ParsedType DEF ParseValue
  <1>6. CASE ParseLoose
    <2>1. NextArg.opt \in FileOption /\ NextArg.val \in Name
      BY <1>6, ArgumentType DEF ParseLoose, FileOption
    <2> QED BY <1>6, <1>f, <2>1, ParsedType DEF ParseLoose
  <1>7. CASE ParseList
    <2>1. NextArg.opt \in ListOption /\ NextArg.val \in Name
      BY <1>7, ArgumentType DEF ParseList
    <2>2. Append(opts.list[NextArg.opt], NextArg.val) \in Seq(Name) BY <1>a, <2>1
    <2>3. [opts EXCEPT !.list[NextArg.opt] = Append(@, NextArg.val)] \in Options
      BY <1>a, <2>1, <2>2 DEF Options
    <2> QED BY <1>7, <2>3, ParsedType, FailType DEF ParseList
  <1>8. CASE ParseAcpi
    <2>1. NextArg.opt \in FileOption /\ NextArg.val \in Name /\ NoFile \in Name
      BY <1>8, ArgumentType DEF ParseAcpi, FileOption, Name
    <2> QED BY <1>8, <1>f, <2>1, ParsedType DEF ParseAcpi
  <1>9. CASE ParseInvalid BY <1>9, FailType DEF ParseInvalid
  <1>10. CASE ParseEnd BY <1>10, <1>b, SkipGoto DEF Idle, ParseEnd
  <1>11. CASE Validate BY <1>11, <1>b, FailType, SkipGoto DEF Idle, Validate
  <1> QED BY <1>1, <1>2, <1>3, <1>4, <1>5, <1>6, <1>7, <1>8, <1>9, <1>10, <1>11 DEF Parse

\* The first step of each handler.
LEMMA FirstStepLabel ==
  ASSUME NEW n \in Calculated
  PROVE  IF n = 5 THEN FirstStep[n + 1] = "gpt separator"
         ELSE FirstStep[n + 1] \in {"crtm", "acpi", "drivers", "separator", "bootloaders",
                                   "secureboot", "grub", "paths"}
  <1> DEFINE first == FirstStep[n + 1]
  <1>1. /\ FirstStep[1] = "crtm"
        /\ FirstStep[2] = "acpi"
        /\ FirstStep[3] = "drivers"
        /\ FirstStep[4] = "separator"
        /\ FirstStep[5] = "bootloaders"
        /\ FirstStep[6] = "gpt separator"
        /\ FirstStep[7] = "separator"
        /\ FirstStep[8] = "secureboot"
        /\ FirstStep[9] = "grub"
        /\ FirstStep[10] = "paths" BY DEF FirstStep
  <1>2. \E k \in 1 .. 10 : first = FirstStep[k] /\ (n = 5 <=> k = 6) BY DEF Calculated
  <1> HIDE DEF first
  <1>3. PICK k \in 1 .. 10 : first = FirstStep[k] /\ (n = 5 <=> k = 6) BY <1>2
  <1>4. k = 1 \/ k = 2 \/ k = 3 \/ k = 4 \/ k = 5 \/ k = 6 \/ k = 7 \/ k = 8 \/ k = 9 \/ k = 10
    OBVIOUS
  <1>5. k # 6 => first \in {"crtm", "acpi", "drivers", "separator", "bootloaders",
                           "secureboot", "grub", "paths"} BY <1>1, <1>3, <1>4, Zenon
  <1> QED BY <1>1, <1>3, <1>5 DEF first

LEMMA DispatchType == TypeInv /\ Dispatch => TypeInv'
  <1> SUFFICES ASSUME TypeInv, Dispatch PROVE TypeInv' OBVIOUS
  <1>1. CASE NotRequested BY <1>1, SkipReturn DEF Idle, NotRequested
  <1>2. CASE CallHandler
    <2> DEFINE first == FirstStep[cur + 1]
    <2>1. cur \in Calculated /\ cur \in Pcr BY <1>2, CalculatedArePcrs DEF CallHandler
    <2>4. first \in HandlerLabel \ {"walk"} /\ first \in Label /\ (cur = 5 <=> first \in GptLabel)
      BY <2>1, FirstStepLabel DEF HandlerLabel, GptLabel, Label
    <2> HIDE DEF first
    <2>5. pc' = first /\ i' = 1 /\ cur' = cur /\ bank' = [bank EXCEPT ![cur] = <<>>]
          /\ UNCHANGED <<argv, opts, fs, walk, log, out, ret>>
      BY <1>2 DEF CallHandler, Goto, first
    <2>6. bank' \in [Pcr -> Seq(Digest) \cup {Unset}] /\ bank'[cur] = <<>> /\ <<>> # Unset
      <3>1. <<>> \in Seq(Digest) OBVIOUS
      <3> QED BY <2>1, <2>5, <3>1, RegistersAssumption DEF TypeInv, TypeOK
    <2>7. TypeOK' BY <2>4, <2>5, <2>6 DEF TypeInv, TypeOK
    <2>8. Active' BY <2>1, <2>4, <2>5, <2>6 DEF Active, Calculated
    <2> QED BY <2>7, <2>8 DEF TypeInv
  <1>3. CASE AllCalculated
    <2>1. "open log" \in Label \ HandlerLabel BY DEF Label, HandlerLabel
    <2> QED BY <1>3, <2>1, SkipGoto DEF Idle, AllCalculated
  <1> QED BY <1>1, <1>2, <1>3 DEF Dispatch

LEMMA OutputType == TypeInv /\ Output => TypeInv'
  <1> SUFFICES ASSUME TypeInv, Output PROVE TypeInv' OBVIOUS
  <1>a. \A label : label \in {"print log", "open summary", "print summary", "print aggregate", "exited"}
          => label \in Label \ HandlerLabel BY DEF Label, HandlerLabel
  <1>b. TypeInput /\ cur \in 0 .. 10 /\ i \in Nat \ {0} /\ ret \in {-1, 0, 1}
    BY DEF TypeInv, TypeOK, TypeInput
  <1>c. ASSUME NEW ts, NEW label \in Label \ HandlerLabel, Emit(ts, label) PROVE TypeInv'
    <2>1. UNCHANGED <<argv, opts, fs, cur, ret, walk, bank, log>> /\ pc' = label /\ i' = 1
      BY <1>c DEF Emit, Goto
    <2> QED BY <1>b, <2>1, MainType DEF TypeInput
  <1>1. CASE OpenLog BY <1>1, <1>a, <1>c, SkipGoto DEF Idle, OpenLog
  <1>2. CASE PrintLog
    <2>1. CASE Fail BY <2>1, FailType
    <2>2. CASE Again /\ UNCHANGED <<argv, opts, fs, walk, bank, log, ret>>
      <3>1. pc' = "print log" /\ cur' = cur /\ i' = i + 1 BY <1>2, <2>2 DEF Again, PrintLog
      <3>2. i + 1 \in Nat \ {0} BY <1>b
      <3> QED BY <1>a, <1>b, <2>2, <3>1, <3>2, MainType DEF TypeInput
    <2> QED BY <1>2, <2>1, <2>2 DEF PrintLog
  <1>3. CASE LogDone BY <1>3, <1>a, SkipGoto DEF Idle, LogDone
  <1>4. CASE OpenSummary BY <1>4, <1>a, <1>c, SkipGoto DEF Idle, OpenSummary
  <1>5. CASE PrintRegister
    <2>1. Again /\ pc = "print summary" /\ UNCHANGED <<argv, opts, fs, walk, bank, log, ret>>
      BY <1>5 DEF PrintRegister
    <2>2. pc' = "print summary" /\ cur' = cur /\ i' = i + 1 BY <2>1 DEF Again
    <2>3. i + 1 \in Nat \ {0} BY <1>b
    <2> QED BY <1>a, <1>b, <2>1, <2>2, <2>3, MainType DEF TypeInput
  <1>6. CASE SummaryDone BY <1>6, <1>a, <1>c DEF SummaryDone
  <1>7. CASE PrintAggregate BY <1>7, <1>a, <1>b, MainType DEF PrintAggregate, TypeInput
  <1> QED BY <1>1, <1>2, <1>3, <1>4, <1>5, <1>6, <1>7 DEF Output

LEMMA InitType == Init => TypeInv
  <1> SUFFICES ASSUME Init PROVE TypeInv OBVIOUS
  <1>1. argv \in Seq(Argument) /\ fs \in [File \cup Dir -> FileState]
    BY FilesAssumption, CommandLinesAssumption DEF Init
  <1>2. opts \in Options BY DEF Init, Options, Name
  <1>3. bank \in [Pcr -> Seq(Digest) \cup {Unset}] /\ log \in [Pcr -> Seq(Entry)]
    BY DEF Init
  <1>4. walk \in Seq(SUBSET (File \cup Dir)) /\ ret \in {-1, 0, 1} BY DEF Init
  <1>5. pc \in Label /\ pc \notin HandlerLabel /\ cur \in 0 .. 10 /\ i \in Nat \ {0}
    BY DEF Init, Label, HandlerLabel
  <1> QED BY <1>1, <1>2, <1>3, <1>4, <1>5 DEF TypeInv, TypeOK, Active, HandlerLabel

LEMMA NextType == TypeInv /\ [Next]_vars => TypeInv'
  <1> SUFFICES ASSUME TypeInv, [Next]_vars PROVE TypeInv' OBVIOUS
  <1>1. CASE UNCHANGED vars BY <1>1 DEF vars, TypeInv, TypeOK, Active
  <1>2. CASE OutOfMemory BY <1>2, FailType DEF OutOfMemory
  <1>3. CASE Terminated BY <1>3, <1>1 DEF Terminated
  <1> QED
    BY <1>1, <1>2, <1>3, ParseType, DispatchType, Pcr0Type, Pcr1Type, Pcr2Type, Pcr4Type,
       Pcr5Type, Pcr7Type, Pcr8Type, Pcr9Type, OutputType DEF Next

\* Every variable of the program keeps its type, in whatever order options,
\* handlers and errors occur: no handler runs on a register that main has not
\* reset, no loop index leaves its list.
THEOREM TypeCorrect == Spec => []TypeOK
  <1>1. TypeInv => TypeOK BY DEF TypeInv
  <1> QED BY InitType, NextType, <1>1, PTL DEF Spec

-----------------------------------------------------------------------------
(* The event log replays to the register, while memory does not run out. *)

\* The points at which the handler of PCR cur has yet to be called, or not.
Waiting == {"start", "parse", "validate", "dispatch"}

\* What has not been calculated is untouched.
Fresh ==
  \A n \in Pcr : n > cur \/ (n = cur /\ pc \in Waiting) => bank[n] = Unset /\ log[n] = <<>>

\* The registers whose events are journaled in the order of the extends.
Paired == \A n \in Pcr \ {5} : bank[n] # Unset => Digests(log[n]) = bank[n]

\* calculate_pcr5 journals its first two events before it extends anything.
Gpt ==
  /\ pc = "gpt separator" => bank[5] = <<>> /\ log[5] = <<>>
  /\ pc = "gpt" => bank[5] = <<>> /\ Digests(log[5]) = <<Separator>>
  /\ pc = "exit boot" /\ ~Pcr5Reordered => bank[5] = <<>> /\ Digests(log[5]) = <<Separator>>
  /\ pc = "boot exited" /\ ~Pcr5Reordered =>
       bank[5] = <<>> /\ Digests(log[5]) = <<Separator, Invocation>>
  /\ cur > 5 /\ bank[5] # Unset /\ ~Pcr5Reordered => Digests(log[5]) = bank[5]

Early == pc \in Waiting \ {"dispatch"} => cur = 0

OrderInv == Fresh /\ Early

ReplayInv == Paired /\ Gpt

\* One more entry is one more digest.
LEMMA DigestsAppend ==
  ASSUME NEW s \in Seq(Entry), NEW d, NEW text
  PROVE  Digests(Append(s, [digest |-> d, text |-> text])) = Append(Digests(s), d)
  <1> DEFINE e == [digest |-> d, text |-> text]
             t == Append(s, e)
             T == Entry \cup {e}
             D == {x.digest : x \in T}
  <1>1. s \in Seq(T) /\ e \in T BY SeqMonotonic
  <1>2. /\ t \in Seq(T) /\ Len(t) = Len(s) + 1
        /\ \A k \in 1 .. Len(s) : t[k] = s[k]
        /\ t[Len(s) + 1] = e BY <1>1, AppendProperties
  <1> HIDE DEF t, T
  <1>3. Digests(s) = [k \in 1 .. Len(s) |-> s[k].digest] /\ Len(s) \in Nat
    BY <1>1 DEF Digests
  <1>4. \A k \in 1 .. Len(s) : s[k].digest \in D BY <1>1
  <1>5. Digests(s) \in Seq(D) /\ d \in D BY <1>1, <1>3, <1>4
  <1>6. Len(Digests(s)) = Len(s) BY <1>3
  <1>7. Digests(t) = [k \in 1 .. Len(s) + 1 |-> t[k].digest] BY <1>2 DEF Digests
  <1> HIDE DEF D
  <1>8. /\ Append(Digests(s), d) \in Seq(D) /\ Len(Append(Digests(s), d)) = Len(s) + 1
        /\ \A k \in 1 .. Len(s) : Append(Digests(s), d)[k] = Digests(s)[k]
        /\ Append(Digests(s), d)[Len(s) + 1] = d BY <1>5, <1>6, AppendProperties
  <1>9. \A k \in 1 .. Len(s) + 1 : t[k].digest = Append(Digests(s), d)[k]
    BY <1>2, <1>3, <1>8
  <1>10. Append(Digests(s), d) = [k \in 1 .. Len(s) + 1 |-> Append(Digests(s), d)[k]]
    <2>1. \A u \in Seq(D) : u = [k \in 1 .. Len(u) |-> u[k]] OBVIOUS
    <2> HIDE DEF D
    <2>2. Append(Digests(s), d) =
            [k \in 1 .. Len(Append(Digests(s), d)) |-> Append(Digests(s), d)[k]]
      BY <1>8, <2>1, Zenon
    <2> QED BY <1>8, <2>2, Zenon
  <1> QED BY <1>7, <1>9, <1>10 DEF t

\* Where the steps outside calculate_pcr5 go.
Ordinary == Label \ (Waiting \cup GptLabel)

Moves ==
  \/ cur' = cur /\ pc' \in Ordinary
  \/ cur' = cur + 1 /\ pc' = "dispatch" /\ pc \in HandlerLabel \ GptLabel

Unmeasured == UNCHANGED <<argv, opts, bank, log>>

\* An event is journaled and extended.
Measured(d, text) ==
  pc \in HandlerLabel \ GptLabel /\ UNCHANGED <<argv, opts>> /\ EvlogAdd(d, text) /\ HashExtend(<<d>>)

LEMMA MeasureTextForm ==
  ASSUME pc \in HandlerLabel \ GptLabel, NEW d, NEW text, LogAndExtend(d, text)
  PROVE  Measured(d, text) BY DEF MakesEvent, LogAndExtend, Measured

LEMMA UnmeasuredReplays ==
  ASSUME TypeInv, ReplayInv, Unmeasured, Moves
  PROVE  ReplayInv'
  <1>1. cur \in 0 .. 10 /\ (pc \in HandlerLabel \ GptLabel => cur # 5)
    BY DEF TypeInv, TypeOK, Active
  <1>2. pc' \notin GptLabel BY DEF Moves, Ordinary, GptLabel
  <1>3. cur' = cur \/ (cur' = cur + 1 /\ cur # 5) BY <1>1 DEF Moves
  <1>4. Paired' BY DEF ReplayInv, Paired, Unmeasured, Digests
  <1>5. Gpt'
    <2>1. cur' > 5 => cur > 5 BY <1>1, <1>3
    <2>2. Digests(log[5])' = Digests(log[5]) /\ bank'[5] = bank[5] /\ Pcr5Reordered' = Pcr5Reordered
      BY DEF Unmeasured, Digests, Pcr5Reordered, Given
    <2>3. cur > 5 /\ bank[5] # Unset /\ ~Pcr5Reordered => Digests(log[5]) = bank[5]
      BY DEF ReplayInv, Gpt
    <2> QED BY <1>2, <2>1, <2>2, <2>3 DEF Gpt, GptLabel
  <1> QED BY <1>4, <1>5 DEF ReplayInv

\* The register a measurement is for, and the others.
LEMMA MeasuredAt ==
  ASSUME TypeInv, NEW d, NEW text, Measured(d, text)
  PROVE  /\ cur \in 0 .. 9 /\ cur # 5 /\ cur \in Pcr /\ bank[cur] # Unset
         /\ bank[cur] \in Seq(Digest) /\ log[cur] \in Seq(Entry) /\ opts' = opts
         /\ bank'[cur] = bank[cur] \o <<d>>
         /\ \/ log'[cur] = Append(log[cur], [digest |-> d, text |-> text])
            \/ MemoryFails /\ log'[cur] \in {log[cur], <<>>}
         /\ \A n \in Pcr : n # cur => bank'[n] = bank[n] /\ log'[n] = log[n]
  <1>1. /\ cur \in 0 .. 9 /\ cur # 5 /\ cur \in Pcr /\ bank[cur] # Unset
        /\ bank \in [Pcr -> Seq(Digest) \cup {Unset}] /\ log \in [Pcr -> Seq(Entry)]
    BY CalculatedArePcrs DEF TypeInv, TypeOK, Active, Measured, Calculated
  <1>2. bank' = [bank EXCEPT ![cur] = @ \o <<d>>] /\ opts' = opts
    BY DEF Measured, HashExtend
  <1>3. \/ log' = [log EXCEPT ![cur] = Append(@, [digest |-> d, text |-> text])]
        \/ MemoryFails /\ (log' = log \/ log' = [log EXCEPT ![cur] = <<>>])
    BY DEF Measured, EvlogAdd, WithEntry
  <1>4. /\ \/ log'[cur] = Append(log[cur], [digest |-> d, text |-> text])
           \/ MemoryFails /\ log'[cur] \in {log[cur], <<>>}
        /\ \A n \in Pcr : n # cur => log'[n] = log[n] BY <1>1, <1>3
  <1> QED BY <1>1, <1>2, <1>4

LEMMA MeasuredReplays ==
  ASSUME TypeInv, ReplayInv, ~MemoryFails, NEW d, NEW text, Measured(d, text), Moves
  PROVE  ReplayInv'
  <1>1. /\ cur \in 0 .. 9 /\ cur # 5 /\ bank[cur] # Unset /\ opts' = opts
        /\ bank[cur] \in Seq(Digest) /\ log[cur] \in Seq(Entry)
        /\ bank'[cur] = bank[cur] \o <<d>>
        /\ log'[cur] = Append(log[cur], [digest |-> d, text |-> text]) BY MeasuredAt
  <1>2. pc' \notin GptLabel BY DEF Moves, Ordinary, GptLabel
  <1>3. cur' = cur \/ cur' = cur + 1 BY DEF Moves
  <1>4. \A n \in Pcr : n # cur => bank'[n] = bank[n] /\ log'[n] = log[n] BY MeasuredAt
  <1>5. Paired'
    <2> SUFFICES ASSUME NEW n \in Pcr \ {5}, bank'[n] # Unset PROVE Digests(log'[n]) = bank'[n]
      BY DEF Paired, Digests
    <2>1. CASE n # cur BY <1>4, <2>1 DEF ReplayInv, Paired
    <2>2. CASE n = cur
      <3>1. Digests(log[cur]) = bank[cur] BY <1>1, <2>2 DEF ReplayInv, Paired
      <3>2. Digests(log'[cur]) = Append(bank[cur], d) BY <1>1, <3>1, DigestsAppend
      <3>3. bank[cur] \o <<d>> = Append(bank[cur], d)
        <4>1. bank[cur] \in Seq(Digest \cup {d}) /\ d \in Digest \cup {d}
          BY <1>1, SeqMonotonic
        <4> QED BY <4>1, AppendIsConcat
      <3> QED BY <1>1, <2>2, <3>2, <3>3
    <2> QED BY <2>1, <2>2
  <1>6. Gpt'
    <2>1. cur' > 5 => cur > 5 BY <1>1, <1>3
    <2>a. 5 \in Pcr BY RegistersAssumption DEF Pcr
    <2>2. bank'[5] = bank[5] /\ log'[5] = log[5] /\ Pcr5Reordered' = Pcr5Reordered
      BY <1>1, <1>4, <2>a, Zenon DEF Pcr5Reordered, Given
    <2>3. cur > 5 /\ bank[5] # Unset /\ ~Pcr5Reordered => Digests(log[5]) = bank[5]
      BY DEF ReplayInv, Gpt
    <2>4. Digests(log[5])' = Digests(log[5]) BY <2>2 DEF Digests
    <2> QED BY <1>2, <2>1, <2>2, <2>3, <2>4 DEF Gpt, GptLabel
  <1> QED BY <1>5, <1>6 DEF ReplayInv

\* Every step outside calculate_pcr5 and the calls of the handlers.
Form == Moves /\ (Unmeasured \/ \E d, text : Measured(d, text))

LEMMA FormReplays == TypeInv /\ ReplayInv /\ ~MemoryFails /\ Form => ReplayInv'
  BY UnmeasuredReplays, MeasuredReplays DEF Form

LEMMA FormOrder == TypeInv /\ OrderInv /\ Form => OrderInv'
  <1> SUFFICES ASSUME TypeInv, OrderInv, Form PROVE OrderInv' OBVIOUS
  <1>1. cur \in 0 .. 10 /\ (cur' = cur \/ cur' = cur + 1)
    BY DEF TypeInv, TypeOK, Form, Moves
  <1>2. pc' \in Waiting => pc' = "dispatch" /\ cur' = cur + 1
    BY DEF Form, Moves, Ordinary, Waiting
  <1>3. \A n \in Pcr : n # cur => bank'[n] = bank[n] /\ log'[n] = log[n]
    BY MeasuredAt DEF Form, Unmeasured
  <1>5. Fresh'
    <2> SUFFICES ASSUME NEW n \in Pcr, n > cur' \/ (n = cur' /\ pc' \in Waiting)
                 PROVE  bank'[n] = Unset /\ log'[n] = <<>> BY DEF Fresh
    <2>1. n > cur /\ n # cur BY <1>1, <1>2 DEF Pcr
    <2> QED BY <1>3, <2>1 DEF OrderInv, Fresh
  <1>6. Early' BY <1>2 DEF Early
  <1> QED BY <1>5, <1>6 DEF OrderInv

Plain == HandlerLabel \ GptLabel

LEMMA PlainIsOrdinary == Plain \subseteq Ordinary
  <1> SUFFICES ASSUME NEW label \in Plain PROVE label \in Ordinary OBVIOUS
  <1>1. label \in HandlerLabel /\ label \notin GptLabel BY DEF Plain
  <1>2. label \in Label BY <1>1, ZenonT(60) DEF HandlerLabel, Label
  <1>3. label \notin Waiting BY <1>1, ZenonT(60) DEF HandlerLabel, Waiting
  <1> QED BY <1>1, <1>2, <1>3 DEF Ordinary

LEMMA EndForm == Fail \/ Crash => Form
  BY DEF Fail, Crash, Form, Moves, Ordinary, Label, Waiting, GptLabel, Unmeasured

LEMMA GotoForm ==
  ASSUME NEW label \in Ordinary, Goto(label), Unmeasured \/ \E d, text : Measured(d, text)
  PROVE  Form BY DEF Goto, Form, Moves

LEMMA AgainForm ==
  ASSUME pc \in Ordinary, Again, Unmeasured \/ \E d, text : Measured(d, text)
  PROVE  Form BY DEF Again, Form, Moves

LEMMA ReturnForm ==
  ASSUME pc \in Plain, Return, Unmeasured \/ \E d, text : Measured(d, text)
  PROVE  Form BY DEF Return, Form, Moves, Plain

LEMMA SkipUnmeasured == Skip \/ Warn => Unmeasured
  BY DEF Skip, Warn, Unmeasured

LEMMA MeasureForm ==
  ASSUME pc \in Plain
  PROVE  \A d : MakesEvent(d) => \E e, w : Measured(e, w)
  BY MeasureTextForm DEF Plain, MakesEvent

LEMMA Pcr0Form == CalculatePcr0 => Form
  <1> SUFFICES ASSUME CalculatePcr0 PROVE Form OBVIOUS
  <1>1. pc \in Plain /\ {"firmware", "pei", "dxe", "separator"} \subseteq Plain
    BY DEF CalculatePcr0, MeasureCrtm, ReadFirmware, MeasurePei, MeasureDxe, Plain,
           HandlerLabel, GptLabel
  <1>2. ASSUME NEW kind, NEW dump, NEW label \in Plain, MeasureVolume(kind, dump, label)
        PROVE  Form
    BY <1>1, <1>2, MeasureForm, MakesEventIntro, EndForm, GotoForm, PlainIsOrdinary DEF MeasureVolume
  <1> QED
    BY <1>1, <1>2, MeasureForm, MakesEventIntro, EndForm, GotoForm, SkipUnmeasured, PlainIsOrdinary
    DEF CalculatePcr0, MeasureCrtm, ReadFirmware, MeasurePei, MeasureDxe

LEMMA Pcr1Form == CalculatePcr1 => Form
  <1> SUFFICES ASSUME CalculatePcr1 PROVE Form OBVIOUS
  <1>1. pc \in Plain /\ {"bootorder", "bootxxxx", "separator"} \subseteq Plain
    BY DEF CalculatePcr1, MeasureAcpi, AcpiDone, MeasureBootOrder, MeasureDefaultBootOption,
           MeasureBootOption, BootOptionsDone, Plain, HandlerLabel, GptLabel
  <1>2. CASE MeasureAcpi
    BY <1>1, <1>2, MeasureForm, MakesEventIntro, AgainForm, SkipUnmeasured, PlainIsOrdinary DEF MeasureAcpi
  <1>3. CASE AcpiDone \/ BootOptionsDone
    BY <1>1, <1>3, GotoForm, SkipUnmeasured, PlainIsOrdinary DEF AcpiDone, BootOptionsDone
  <1>4. CASE MeasureBootOrder \/ MeasureDefaultBootOption
    BY <1>1, <1>4, MeasureForm, MakesEventIntro, GotoForm, EndForm, PlainIsOrdinary
    DEF MeasureBootOrder, MeasureDefaultBootOption
  <1>5. CASE MeasureBootOption
    BY <1>1, <1>5, MeasureForm, MakesEventIntro, AgainForm, EndForm, PlainIsOrdinary DEF MeasureBootOption
  <1> QED BY <1>2, <1>3, <1>4, <1>5 DEF CalculatePcr1

LEMMA Pcr2Form == CalculatePcr2 => Form
  <1> SUFFICES ASSUME CalculatePcr2 PROVE Form OBVIOUS
  <1>1. pc \in Plain /\ "separator" \in Plain
    BY DEF CalculatePcr2, MeasureDriver, DriversDone, Plain, HandlerLabel, GptLabel
  <1>2. CASE MeasureDriver
    BY <1>1, <1>2, MeasureForm, MakesEventIntro, AgainForm, EndForm, PlainIsOrdinary DEF MeasureDriver, PeRefused
  <1>3. CASE DriversDone
    BY <1>1, <1>3, GotoForm, SkipUnmeasured, PlainIsOrdinary DEF DriversDone
  <1> QED BY <1>2, <1>3 DEF CalculatePcr2

LEMMA Pcr4Form == CalculatePcr4 => Form
  <1> SUFFICES ASSUME CalculatePcr4 PROVE Form OBVIOUS
  <1>1. pc \in Plain /\ {"kernel", "boot action", "separator"} \subseteq Plain
    BY DEF CalculatePcr4, MeasureBootloader, BootloadersDone, MeasureKernel, MeasureBootAction,
           Plain, HandlerLabel, GptLabel
  <1>2. CASE MeasureBootloader
    BY <1>1, <1>2, MeasureForm, MakesEventIntro, AgainForm, EndForm, PlainIsOrdinary DEF MeasureBootloader
  <1>3. CASE BootloadersDone
    BY <1>1, <1>3, GotoForm, SkipUnmeasured, PlainIsOrdinary DEF BootloadersDone
  <1>4. CASE MeasureKernel
    BY <1>1, <1>4, MeasureForm, MakesEventIntro, GotoForm, EndForm, PlainIsOrdinary DEF MeasureKernel, PeRefused
  <1>5. CASE MeasureBootAction
    BY <1>1, <1>5, MeasureForm, MakesEventIntro, GotoForm, PlainIsOrdinary DEF MeasureBootAction
  <1> QED BY <1>2, <1>3, <1>4, <1>5 DEF CalculatePcr4

LEMMA Pcr7Form == CalculatePcr7 => Form
  <1> SUFFICES ASSUME CalculatePcr7 PROVE Form OBVIOUS
  <1>1. pc \in Plain /\ "separator" \in Plain
    BY DEF CalculatePcr7, MeasureSecureBootVar, SecureBootDone, MeasureSbatLevel, Plain,
           HandlerLabel, GptLabel
  <1>2. CASE MeasureSecureBootVar
    BY <1>1, <1>2, MeasureForm, MakesEventIntro, AgainForm, EndForm, PlainIsOrdinary DEF MeasureSecureBootVar
  <1>3. CASE SecureBootDone
    BY <1>1, <1>3, GotoForm, SkipUnmeasured, PlainIsOrdinary DEF SecureBootDone
  <1>4. CASE MeasureSbatLevel
    BY <1>1, <1>4, MeasureForm, MakesEventIntro, ReturnForm, EndForm, SkipUnmeasured DEF MeasureSbatLevel
  <1> QED BY <1>2, <1>3, <1>4 DEF CalculatePcr7

LEMMA Pcr8Form == CalculatePcr8 => Form
  <1> SUFFICES ASSUME CalculatePcr8 PROVE Form OBVIOUS
  <1>1. pc \in Plain /\ "grub commands" \in Plain
    BY DEF CalculatePcr8, ReadGrub, MeasureGrubCommand, Plain, HandlerLabel, GptLabel
  <1>2. CASE ReadGrub
    BY <1>1, <1>2, GotoForm, ReturnForm, EndForm, SkipUnmeasured, PlainIsOrdinary DEF ReadGrub
  <1>3. CASE MeasureGrubCommand
    BY <1>1, <1>3, MeasureForm, MakesEventIntro, AgainForm, ReturnForm, SkipUnmeasured, PlainIsOrdinary
    DEF MeasureGrubCommand
  <1> QED BY <1>2, <1>3 DEF CalculatePcr8

LEMMA Pcr9Form == CalculatePcr9 => Form
  <1> SUFFICES ASSUME CalculatePcr9 PROVE Form OBVIOUS
  <1>0. {"paths", "walk", "cmdline", "initrd"} \subseteq Plain
    BY DEF Plain, HandlerLabel, GptLabel
  <1>1. CASE RejectPath BY <1>1, EndForm DEF RejectPath
  <1>2. CASE MeasurePath
    BY <1>0, <1>2, MeasureForm, MakesEventIntro, AgainForm, SkipUnmeasured, PlainIsOrdinary DEF MeasurePath, AtPath
  <1>3. CASE WalkPath
    <2>1. CASE Fail BY <2>1, EndForm
    <2>2. CASE pc' = "walk" /\ UNCHANGED <<argv, opts, cur, bank, log>>
      BY <1>0, <2>2, PlainIsOrdinary DEF Form, Moves, Unmeasured
    <2> QED BY <1>3, <2>1, <2>2 DEF WalkPath
  <1>4. CASE PathsDone
    BY <1>0, <1>4, GotoForm, SkipUnmeasured, PlainIsOrdinary DEF PathsDone
  <1>5. ASSUME pc = "walk", LeaveDirectory PROVE Form
    <2>1. pc' \in {"paths", "walk"} /\ UNCHANGED <<argv, opts, cur, bank, log>>
      BY <1>5 DEF LeaveDirectory
    <2> QED BY <1>0, <2>1, PlainIsOrdinary DEF Form, Moves, Unmeasured
  <1>6. CASE DirectoryDone BY <1>5, <1>6 DEF DirectoryDone
  <1>7. ASSUME NEW e \in Dir, EnterDirectory(e) PROVE Form
    BY <1>0, <1>7, PlainIsOrdinary DEF EnterDirectory, Form, Moves, Unmeasured
  <1>8. ASSUME NEW e \in File, MeasureFileEntry(e) PROVE Form
    <2>1. pc = "walk" /\ UNCHANGED <<argv, opts, pc, cur>> BY <1>8 DEF MeasureFileEntry
    <2>2. Unmeasured \/ Measured(Content(e), TextOf(e))
      BY <1>0, <1>8, <2>1
      DEF MeasureFileEntry, EvlogAdd, WithEntry, HashExtend, Unmeasured, Measured, Plain
    <2> QED BY <1>0, <2>1, <2>2, PlainIsOrdinary DEF Form, Moves
  <1>9. ASSUME NEW e \in File, FileEntryFails(e) PROVE Form
    BY <1>5, <1>9, EndForm DEF FileEntryFails
  <1>10. CASE MeasureCmdline
    BY <1>0, <1>10, MeasureForm, MakesEventIntro, GotoForm, EndForm, PlainIsOrdinary DEF MeasureCmdline
  <1>11. CASE MeasureInitrd
    BY <1>0, <1>11, MeasureForm, MakesEventIntro, ReturnForm, EndForm, SkipUnmeasured DEF MeasureInitrd
  <1> QED BY <1>1, <1>2, <1>3, <1>4, <1>6, <1>7, <1>8, <1>9, <1>10, <1>11 DEF CalculatePcr9

LEMMA SeparatorForm == MeasureSeparator => Form
  <1> SUFFICES ASSUME MeasureSeparator PROVE Form OBVIOUS
  <1>1. pc \in Plain /\ "sbatlevel" \in Plain
    BY DEF MeasureSeparator, Plain, HandlerLabel, GptLabel
  <1> QED
    BY <1>1, MeasureForm, MakesEventIntro, GotoForm, ReturnForm, EndForm, SkipUnmeasured, PlainIsOrdinary
    DEF MeasureSeparator

LEMMA AllCalculatedForm == AllCalculated => Form
  BY GotoForm, SkipUnmeasured DEF AllCalculated, Ordinary, Label, Waiting, GptLabel

LEMMA OutputForm == Output => Form
  <1> SUFFICES ASSUME Output PROVE Form OBVIOUS
  <1>1. {"open log", "print log", "open summary", "print summary", "print aggregate", "exited"}
          \subseteq Ordinary BY DEF Ordinary, Label, Waiting, GptLabel
  <1>2. ASSUME NEW label \in Ordinary, NEW ts, Emit(ts, label) PROVE Form
    BY <1>2, GotoForm DEF Emit, Unmeasured
  <1>3. CASE OpenLog BY <1>1, <1>2, <1>3, GotoForm, SkipUnmeasured DEF OpenLog
  <1>4. CASE PrintLog
    <2>1. Fail \/ (pc = "print log" /\ Again /\ UNCHANGED <<argv, opts, bank, log>>)
      BY <1>4 DEF PrintLog
    <2> QED BY <1>1, <2>1, EndForm, AgainForm DEF Unmeasured
  <1>5. CASE LogDone BY <1>1, <1>5, GotoForm, SkipUnmeasured DEF LogDone
  <1>6. CASE OpenSummary BY <1>1, <1>2, <1>6, GotoForm, SkipUnmeasured DEF OpenSummary
  <1>7. CASE PrintRegister
    <2>1. pc = "print summary" /\ Again /\ UNCHANGED <<argv, opts, bank, log>>
      BY <1>7 DEF PrintRegister
    <2> QED BY <1>1, <2>1, AgainForm DEF Unmeasured
  <1>8. CASE SummaryDone BY <1>1, <1>2, <1>8 DEF SummaryDone
  <1>9. CASE PrintAggregate
    <2>1. pc' = "exited" /\ UNCHANGED <<argv, opts, cur, bank, log>>
      BY <1>9 DEF PrintAggregate
    <2> QED BY <1>1, <2>1 DEF Form, Moves, Unmeasured
  <1> QED BY <1>3, <1>4, <1>5, <1>6, <1>7, <1>8, <1>9 DEF Output

LEMMA ParseForm == Parse => cur' = cur /\ UNCHANGED <<bank, log>>
                          /\ pc' \in {"parse", "validate", "dispatch", "exited"}
  BY DEF Parse, Start, ParseFlag, ParseFormat, ParsePcrs, ParseValue, ParseLoose, ParseList, ParseAcpi,
         ParseInvalid, ParseEnd, Validate, Parsing, Parsed, Goto, Skip, Fail

LEMMA ParseStarts == Parse => pc \in {"start", "parse", "validate"}
  BY DEF Parse, Start, ParseFlag, ParseFormat, ParsePcrs, ParseValue, ParseLoose, ParseList, ParseAcpi,
         ParseInvalid, ParseEnd, Validate, Parsing

\* Nothing has been calculated while the options are parsed.
LEMMA ParseOrder ==
  ASSUME OrderInv, Parse
  PROVE  OrderInv' /\ cur = 0 /\ \A n \in Pcr : bank[n] = Unset /\ log[n] = <<>>
  <1>1. cur = 0 /\ pc \in Waiting BY ParseStarts DEF OrderInv, Early, Waiting
  <1>2. \A n \in Pcr : bank[n] = Unset /\ log[n] = <<>>
    <2>1. \A n \in Pcr : n > cur \/ n = cur BY <1>1 DEF Pcr
    <2> QED BY <1>1, <2>1 DEF OrderInv, Fresh
  <1>3. Fresh' /\ Early' BY <1>1, <1>2, ParseForm DEF Fresh, Early
  <1> QED BY <1>1, <1>2, <1>3 DEF OrderInv

LEMMA ParseReplays == OrderInv /\ Parse => ReplayInv'
  <1> SUFFICES ASSUME OrderInv, Parse PROVE ReplayInv' OBVIOUS
  <1>1. cur = 0 /\ \A n \in Pcr : bank[n] = Unset /\ log[n] = <<>> BY ParseOrder
  <1>2. Paired' BY <1>1, ParseForm DEF Paired
  <1>3. Gpt'
    <2>1. ~(cur' > 5) BY <1>1, ParseForm
    <2> QED BY <1>1, <2>1, ParseForm DEF Gpt
  <1> QED BY <1>2, <1>3 DEF ReplayInv

\* The register of the PCR main looks at is untouched.
LEMMA DispatchStarts ==
  ASSUME TypeInv, OrderInv, Dispatch
  PROVE  pc = "dispatch" /\ cur \in 0 .. 10 /\ (cur \in Pcr => bank[cur] = Unset /\ log[cur] = <<>>)
  BY DEF Dispatch, NotRequested, CallHandler, AllCalculated, TypeInv, TypeOK, OrderInv, Fresh, Waiting

LEMMA NotRequestedForm ==
  ASSUME NotRequested
  PROVE  cur \in Calculated /\ cur \in Pcr /\ cur' = cur + 1 /\ pc' = "dispatch" /\ UNCHANGED <<argv, opts, bank, log>>
  BY CalculatedArePcrs DEF NotRequested, Return, Skip

LEMMA CallHandlerForm ==
  ASSUME TypeInv, CallHandler
  PROVE  /\ cur \in Calculated /\ cur \in Pcr /\ cur' = cur
         /\ pc' \in HandlerLabel /\ pc' \notin Waiting
         /\ pc' \notin GptLabel \ {"gpt separator"} /\ (pc' = "gpt separator" <=> cur = 5)
         /\ bank'[cur] = <<>> /\ \A n \in Pcr : n # cur => bank'[n] = bank[n]
         /\ UNCHANGED <<argv, opts, log>>
  <1>1. /\ cur \in Calculated /\ cur \in Pcr /\ cur' = cur /\ pc' = FirstStep[cur + 1]
        /\ bank' = [bank EXCEPT ![cur] = <<>>] /\ UNCHANGED <<argv, opts, log>>
        /\ bank \in [Pcr -> Seq(Digest) \cup {Unset}]
    BY CalculatedArePcrs DEF CallHandler, Goto, TypeInv, TypeOK
  <1>2. /\ pc' \notin Waiting /\ pc' \notin GptLabel \ {"gpt separator"} /\ (pc' = "gpt separator" <=> cur = 5)
        /\ pc' \in HandlerLabel BY <1>1, FirstStepLabel DEF Waiting, GptLabel, HandlerLabel
  <1> QED BY <1>1, <1>2

LEMMA DispatchOrder == TypeInv /\ OrderInv /\ Dispatch => OrderInv'
  <1> SUFFICES ASSUME TypeInv, OrderInv, Dispatch PROVE OrderInv' OBVIOUS
  <1>1. CASE NotRequested
    <2>1. Fresh' BY <1>1, DispatchStarts, NotRequestedForm DEF OrderInv, Fresh, Pcr
    <2>2. Early' BY <1>1, NotRequestedForm DEF Early, Waiting
    <2> QED BY <2>1, <2>2 DEF OrderInv
  <1>2. CASE CallHandler
    <2>1. Fresh'
      <3> SUFFICES ASSUME NEW n \in Pcr, n > cur PROVE bank'[n] = Unset /\ log'[n] = <<>>
        BY <1>2, CallHandlerForm DEF Fresh
      <3>1. n # cur BY DispatchStarts DEF Pcr
      <3> QED BY <1>2, <3>1, CallHandlerForm DEF OrderInv, Fresh
    <2>2. Early' BY <1>2, CallHandlerForm DEF Early, Waiting
    <2> QED BY <2>1, <2>2 DEF OrderInv
  <1>3. CASE AllCalculated BY <1>3, AllCalculatedForm, FormOrder
  <1> QED BY <1>1, <1>2, <1>3 DEF Dispatch

LEMMA DispatchReplays == TypeInv /\ OrderInv /\ ReplayInv /\ ~MemoryFails /\ Dispatch => ReplayInv'
  <1> SUFFICES ASSUME TypeInv, OrderInv, ReplayInv, ~MemoryFails, Dispatch PROVE ReplayInv'
    OBVIOUS
  <1>1. CASE NotRequested
    <2>1. cur \in Pcr /\ cur' = cur + 1 /\ pc' = "dispatch" /\ UNCHANGED <<opts, bank, log>>
      BY <1>1, NotRequestedForm
    <2>2. Paired' BY <2>1 DEF ReplayInv, Paired, Digests
    <2>3. Gpt'
      <3>1. cur' > 5 => cur > 5 \/ bank[5] = Unset BY <2>1, DispatchStarts
      <3>2. bank'[5] = bank[5] /\ Digests(log[5])' = Digests(log[5]) /\ Pcr5Reordered' = Pcr5Reordered
        BY <2>1 DEF Digests, Pcr5Reordered, Given
      <3> QED BY <2>1, <3>1, <3>2 DEF ReplayInv, Gpt
    <2> QED BY <2>2, <2>3 DEF ReplayInv
  <1>2. CASE CallHandler
    <2>1. /\ cur' = cur /\ pc' \notin GptLabel \ {"gpt separator"} /\ (pc' = "gpt separator" <=> cur = 5)
          /\ bank'[cur] = <<>> /\ (\A n \in Pcr : n # cur => bank'[n] = bank[n]) /\ UNCHANGED <<opts, log>>
      BY <1>2, CallHandlerForm
    <2>2. cur \in 0 .. 10 /\ (cur \in Pcr => log[cur] = <<>>) BY DispatchStarts
    <2>3. Digests(<<>>) = <<>> BY DEF Digests
    <2>4. Paired'
      <3> SUFFICES ASSUME NEW n \in Pcr \ {5}, bank'[n] # Unset PROVE Digests(log[n]) = bank'[n]
        BY <2>1 DEF Paired, Digests
      <3>1. n = cur => Digests(log[n]) = bank'[n] BY <2>1, <2>2, <2>3
      <3>2. n # cur => Digests(log[n]) = bank'[n] BY <2>1 DEF ReplayInv, Paired
      <3> QED BY <3>1, <3>2
    <2>5. Gpt'
      <3>0. 5 \in Pcr BY RegistersAssumption DEF Pcr
      <3>1. cur = 5 => bank'[5] = <<>> /\ log'[5] = <<>> BY <2>1, <2>2, <3>0
      <3>2. cur' > 5 => cur > 5 /\ cur # 5
        <4>1. cur' = cur BY <2>1
        <4> QED BY <2>2, <4>1
      <3>3. cur # 5 => bank'[5] = bank[5] /\ Digests(log[5])' = Digests(log[5]) /\ Pcr5Reordered' = Pcr5Reordered
        BY <2>1, <3>0, Zenon DEF Digests, Pcr5Reordered, Given
      <3> QED BY <2>1, <3>1, <3>2, <3>3 DEF ReplayInv, Gpt, GptLabel
    <2> QED BY <2>4, <2>5 DEF ReplayInv
  <1>3. CASE AllCalculated BY <1>3, AllCalculatedForm, FormReplays
  <1> QED BY <1>1, <1>2, <1>3 DEF Dispatch

LEMMA TupleAppend ==
  ASSUME NEW a, NEW b, NEW c
  PROVE  /\ Append(<<>>, a) = <<a>>
         /\ Append(<<a>>, b) = <<a, b>>
         /\ Append(<<a, b>>, c) = <<a, b, c>>
         /\ <<>> \o <<a, b, c>> = <<a, b, c>>
  <1> DEFINE S == {a, b, c}
  <1>1. /\ <<>> \in Seq(S) /\ <<a>> \in Seq(S) /\ <<a, b>> \in Seq(S) /\ <<a, b, c>> \in Seq(S)
        /\ a \in S /\ b \in S /\ c \in S OBVIOUS
  <1> HIDE DEF S
  <1>2. Append(<<>>, a) = <<a>> BY <1>1
  <1>3. Append(<<a>>, b) = <<a, b>>
    <2> DEFINE s == Append(<<a>>, b)
               t == <<a, b>>
    <2>1. s \in Seq(S) /\ Len(s) = Len(<<a>>) + 1 /\ (\A k \in 1 .. Len(<<a>>) : s[k] = <<a>>[k])
          /\ s[Len(<<a>>) + 1] = b BY <1>1, AppendProperties
    <2>2. Len(s) = 2 /\ s[1] = a /\ s[2] = b BY <2>1
    <2>3. t \in Seq(S) /\ Len(t) = 2 /\ t[1] = a /\ t[2] = b BY <1>1
    <2> HIDE DEF s, t
    <2>4. \A k \in 1 .. Len(s) : s[k] = t[k]
      <3>1. \A k \in 1 .. Len(s) : k = 1 \/ k = 2 BY <2>2
      <3> QED BY <2>2, <2>3, <3>1
    <2>5. s = t BY <2>1, <2>2, <2>3, <2>4, SeqEqual
    <2> QED BY <2>5 DEF s, t
  <1>4. Append(<<a, b>>, c) = <<a, b, c>>
    <2> DEFINE s == Append(<<a, b>>, c)
               t == <<a, b, c>>
    <2>1. s \in Seq(S) /\ Len(s) = Len(<<a, b>>) + 1
          /\ (\A k \in 1 .. Len(<<a, b>>) : s[k] = <<a, b>>[k])
          /\ s[Len(<<a, b>>) + 1] = c BY <1>1, AppendProperties
    <2>2. Len(s) = 3 /\ s[1] = a /\ s[2] = b /\ s[3] = c BY <2>1
    <2>3. t \in Seq(S) /\ Len(t) = 3 /\ t[1] = a /\ t[2] = b /\ t[3] = c BY <1>1
    <2> HIDE DEF s, t
    <2>4. \A k \in 1 .. Len(s) : s[k] = t[k]
      <3>1. \A k \in 1 .. Len(s) : k = 1 \/ k = 2 \/ k = 3 BY <2>2
      <3> QED BY <2>2, <2>3, <3>1
    <2>5. s = t BY <2>1, <2>2, <2>3, <2>4, SeqEqual
    <2> QED BY <2>5 DEF s, t
  <1>5. <<>> \o <<a, b, c>> = <<a, b, c>> BY <1>1, ConcatEmptySeq
  <1> QED BY <1>2, <1>3, <1>4, <1>5

\* calculate_pcr5 touches no other register.
LEMMA Pcr5Form ==
  ASSUME TypeInv, CalculatePcr5
  PROVE  /\ pc \in GptLabel /\ cur = 5 /\ 5 \in Pcr /\ opts' = opts /\ argv' = argv /\ bank[5] # Unset
         /\ \A n \in Pcr \ {5} : bank'[n] = bank[n] /\ log'[n] = log[n]
         /\ \/ cur' = 5 /\ pc' \in GptLabel \cup {"exited"}
            \/ LogExitBootReturned /\ cur' = 6 /\ pc' = "dispatch"
  <1>1. /\ pc \in GptLabel /\ cur = 5 /\ 5 \in Pcr /\ bank[5] # Unset
        /\ log \in [Pcr -> Seq(Entry)] /\ bank \in [Pcr -> Seq(Digest) \cup {Unset}]
    BY CalculatedArePcrs
    DEF CalculatePcr5, LogGptSeparator, MeasureGpt, LogExitBootInvocation, LogExitBootReturned,
        GptLabel, HandlerLabel, TypeInv, TypeOK, Active, Calculated
  <1>2. opts' = opts /\ argv' = argv
    BY MakesEventIntro DEF CalculatePcr5, LogGptSeparator, MeasureGpt, LogExitBootInvocation, LogExitBootReturned,
           LogOnly, MakesEvent, LogAndExtend, Skip, Fail
  <1>3. ASSUME NEW d, NEW text, EvlogAdd(d, text)
        PROVE  \A n \in Pcr \ {5} : log'[n] = log[n] BY <1>1, <1>3 DEF EvlogAdd, WithEntry
  <1>4. ASSUME NEW ds, HashExtend(ds)
        PROVE  \A n \in Pcr \ {5} : bank'[n] = bank[n] BY <1>1, <1>4 DEF HashExtend
  <1>5. \A n \in Pcr \ {5} : bank'[n] = bank[n]
    BY <1>4, MakesEventIntro DEF CalculatePcr5, LogGptSeparator, MeasureGpt, LogExitBootInvocation, LogExitBootReturned,
                LogOnly, MakesEvent, LogAndExtend, Skip, Fail
  <1>6. \A n \in Pcr \ {5} : log'[n] = log[n]
    BY <1>3, MakesEventIntro DEF CalculatePcr5, LogGptSeparator, MeasureGpt, LogExitBootInvocation, LogExitBootReturned,
                LogOnly, MakesEvent, LogAndExtend, Skip, Fail
  <1>7. CASE LogExitBootReturned
    <2>1. cur' = cur + 1 /\ pc' = "dispatch" BY <1>7 DEF LogExitBootReturned, Return
    <2>2. cur' = 6 BY <1>1, <2>1
    <2> QED BY <1>1, <1>2, <1>5, <1>6, <1>7, <2>1, <2>2
  <1>8. CASE LogGptSeparator \/ MeasureGpt \/ LogExitBootInvocation
    <2>1. cur' = cur /\ pc' \in GptLabel \cup {"exited"}
      BY <1>8, Zenon DEF LogGptSeparator, MeasureGpt, LogExitBootInvocation, Goto, Fail, GptLabel
    <2> QED BY <1>1, <1>2, <1>5, <1>6, <2>1
  <1> QED BY <1>7, <1>8 DEF CalculatePcr5

LEMMA Pcr5Order == TypeInv /\ OrderInv /\ CalculatePcr5 => OrderInv'
  <1> SUFFICES ASSUME TypeInv, OrderInv, CalculatePcr5 PROVE OrderInv' OBVIOUS
  <1>0. \A label \in GptLabel \cup {"exited"} : label \notin Waiting
    BY DEF GptLabel, Waiting
  <1>1. cur = 5 /\ cur' \in {5, 6} /\ (cur' = 5 => pc' \notin Waiting)
    <2>1. 5 # 6 OBVIOUS
    <2> QED BY <1>0, <2>1, Pcr5Form, Zenon
  <1>2. Fresh'
    <2> SUFFICES ASSUME NEW n \in Pcr, n > cur' \/ (n = cur' /\ pc' \in Waiting)
                 PROVE  bank'[n] = Unset /\ log'[n] = <<>> BY DEF Fresh
    <2>1. n > cur /\ n # 5 BY <1>1 DEF Pcr
    <2> QED BY <2>1, Pcr5Form DEF OrderInv, Fresh
  <1>3. Early' BY Pcr5Form DEF GptLabel, Waiting, Early
  <1> QED BY <1>2, <1>3 DEF OrderInv

LEMMA Pcr5Replays == TypeInv /\ ReplayInv /\ ~MemoryFails /\ CalculatePcr5 => ReplayInv'
  <1> SUFFICES ASSUME TypeInv, ReplayInv, ~MemoryFails, CalculatePcr5 PROVE ReplayInv'
    OBVIOUS
  <1>1. /\ pc \in GptLabel /\ cur = 5 /\ 5 \in Pcr /\ UNCHANGED opts
        /\ log \in [Pcr -> Seq(Entry)] /\ log[5] \in Seq(Entry)
        /\ bank \in [Pcr -> Seq(Digest) \cup {Unset}] BY Pcr5Form DEF TypeInv, TypeOK
  <1>2. ASSUME NEW label \in GptLabel, Goto(label),
               \A n \in Pcr \ {5} : bank'[n] = bank[n] /\ log'[n] = log[n], Gpt'
        PROVE  ReplayInv'
    <2>1. Paired' BY <1>2 DEF ReplayInv, Paired, Digests
    <2> QED BY <1>2, <2>1 DEF ReplayInv
  <1>3. ASSUME Fail PROVE ReplayInv' BY <1>3, EndForm, FormReplays
  <1>4. ASSUME NEW d, NEW label \in GptLabel, LogOnly(d), Goto(label)
        PROVE  /\ \A n \in Pcr \ {5} : bank'[n] = bank[n] /\ log'[n] = log[n]
               /\ bank' = bank /\ Digests(log'[5]) = Append(Digests(log[5]), d)
    <2>1. /\ bank' = bank
          /\ log' = [log EXCEPT ![cur] = Append(@, [digest |-> d, text |-> "plain"])]
      BY <1>4 DEF LogOnly, EvlogAdd, WithEntry
    <2>2. log'[5] = Append(log[5], [digest |-> d, text |-> "plain"]) BY <1>1, <2>1
    <2>3. Digests(log'[5]) = Append(Digests(log[5]), d) BY <1>1, <2>2, DigestsAppend
    <2> QED BY <1>1, <2>1, <2>3
  <1>5. CASE LogGptSeparator
    <2>1. pc = "gpt separator" /\ (Fail \/ (LogOnly(Separator) /\ Goto("gpt")))
      BY <1>5 DEF LogGptSeparator
    <2>2. CASE LogOnly(Separator) /\ Goto("gpt")
      <3>1. "gpt" \in GptLabel BY DEF GptLabel
      <3>2. bank[5] = <<>> /\ log[5] = <<>> BY <2>1 DEF ReplayInv, Gpt
      <3>3. Digests(log[5]) = <<>> BY <3>2 DEF Digests
      <3>4. bank' = bank /\ Digests(log'[5]) = Append(Digests(log[5]), Separator)
        BY <1>4, <2>2, <3>1
      <3>5. Append(<<>>, Separator) = <<Separator>> BY TupleAppend
      <3>6. bank'[5] = <<>> /\ Digests(log'[5]) = <<Separator>> /\ pc' = "gpt" /\ cur' = 5
        BY <1>1, <2>2, <3>2, <3>3, <3>4, <3>5 DEF Goto
      <3>7. Digests(log[5])' = Digests(log'[5]) BY DEF Digests
      <3>8. Gpt' BY <3>6, <3>7 DEF Gpt
      <3> QED BY <1>2, <1>4, <2>2, <3>1, <3>8
    <2> QED BY <1>3, <2>1, <2>2
  <1>6. CASE MeasureGpt
    <2> DEFINE f == opts.file["gpt"]
    <2>1. /\ pc = "gpt"
          /\ \/ Fail
             \/ f = NoFile /\ Skip /\ Goto("exit boot")
             \/ f # NoFile /\ MakesEvent(Content(f)) /\ Goto("exit boot")
      BY <1>6, MakesEventIntro DEF MeasureGpt
    <2>2. "exit boot" \in GptLabel BY DEF GptLabel
    <2>3. CASE f = NoFile /\ Skip /\ Goto("exit boot")
      <3>1. bank' = bank /\ log' = log /\ pc' = "exit boot" /\ cur' = 5
        BY <1>1, <2>3 DEF Skip, Goto
      <3>2. bank[5] = <<>> /\ Digests(log[5]) = <<Separator>> BY <2>1 DEF ReplayInv, Gpt
      <3>3. Digests(log[5])' = Digests(log[5]) BY <3>1 DEF Digests
      <3>4. bank'[5] = <<>> /\ Digests(log[5])' = <<Separator>> BY <3>1, <3>2, <3>3
      <3>5. ~(cur' > 5)
        <4>1. cur' = 5 BY <3>1, Zenon
        <4> QED BY <4>1
      <3>6. Gpt' BY <3>1, <3>4, <3>5 DEF Gpt
      <3> QED BY <1>2, <2>2, <2>3, <3>1, <3>6
    <2>4. CASE f # NoFile /\ MakesEvent(Content(f)) /\ Goto("exit boot")
      <3>1. \A n \in Pcr \ {5} : bank'[n] = bank[n] /\ log'[n] = log[n]
        <4>1. PICK text \in Text : EvlogAdd(Content(f), text) /\ HashExtend(<<Content(f)>>)
          BY <2>4, Zenon DEF MakesEvent, LogAndExtend
        <4>2. log' \in {[log EXCEPT ![5] = log'[5]], log}
          BY <1>1, <4>1 DEF EvlogAdd, WithEntry
        <4> QED BY <1>1, <4>1, <4>2 DEF HashExtend
      <3>2. pc' = "exit boot" /\ cur' = 5 /\ Pcr5Reordered'
        BY <1>1, <2>4 DEF Goto, Pcr5Reordered, Given
      <3>3. Gpt' BY <3>2 DEF Gpt
      <3> QED BY <1>2, <2>2, <2>4, <3>1, <3>3
    <2> QED BY <1>3, <2>1, <2>3, <2>4
  <1>7. CASE LogExitBootInvocation
    <2>1. pc = "exit boot" /\ LogOnly(Invocation) /\ Goto("boot exited")
      BY <1>7 DEF LogExitBootInvocation
    <2>2. "boot exited" \in GptLabel /\ pc' = "boot exited" /\ cur' = 5
      BY <1>1, <2>1 DEF GptLabel, Goto
    <2>3. ~Pcr5Reordered' => bank'[5] = <<>> /\ Digests(log[5])' = <<Separator, Invocation>>
      <3>1. Pcr5Reordered' = Pcr5Reordered /\ Digests(log[5])' = Digests(log'[5])
        BY <1>1 DEF Pcr5Reordered, Given, Digests
      <3>2. bank' = bank /\ Digests(log'[5]) = Append(Digests(log[5]), Invocation)
        BY <1>4, <2>1, <2>2
      <3>3. ~Pcr5Reordered => bank[5] = <<>> /\ Digests(log[5]) = <<Separator>>
        BY <2>1 DEF ReplayInv, Gpt
      <3>4. Append(<<Separator>>, Invocation) = <<Separator, Invocation>> BY TupleAppend
      <3> QED BY <3>1, <3>2, <3>3, <3>4
    <2>4. ~(cur' > 5)
      <3>1. cur' = 5 BY <2>2, Zenon
      <3> QED BY <3>1
    <2>5. Gpt' BY <2>2, <2>3, <2>4 DEF Gpt
    <2> QED BY <1>2, <1>4, <2>1, <2>2, <2>5
  <1>8. CASE LogExitBootReturned
    <2>1. /\ pc = "boot exited" /\ pc' = "dispatch" /\ cur' = 6
          /\ log' = [log EXCEPT ![5] = Append(@, [digest |-> Returned, text |-> "plain"])]
          /\ bank' = [bank EXCEPT ![5] = @ \o <<Separator, Invocation, Returned>>]
      <3>1. /\ pc = "boot exited" /\ pc' = "dispatch" /\ cur' = cur + 1
            /\ log' = [log EXCEPT ![cur] = Append(@, [digest |-> Returned, text |-> "plain"])]
            /\ bank' = [bank EXCEPT ![cur] = @ \o <<Separator, Invocation, Returned>>]
        BY <1>8, Zenon DEF LogExitBootReturned, EvlogAdd, WithEntry, HashExtend, Return
      <3>2. cur = 5 /\ cur + 1 = 6 BY <1>1
      <3> HIDE DEF Separator, Invocation, Returned
      <3> QED BY <3>1, <3>2, Zenon
    <2>2. \A n \in Pcr \ {5} : bank'[n] = bank[n] /\ log'[n] = log[n] BY <1>1, <2>1
    <2>4. Paired' BY <2>2 DEF ReplayInv, Paired, Digests
    <2>5. ~Pcr5Reordered' => Digests(log[5])' = bank'[5]
      <3>1. Pcr5Reordered' = Pcr5Reordered /\ Digests(log[5])' = Digests(log'[5])
        BY <1>1 DEF Pcr5Reordered, Given, Digests
      <3>2. Digests(log'[5]) = Append(Digests(log[5]), Returned)
        BY <1>1, <2>1, DigestsAppend
      <3>3. bank'[5] = bank[5] \o <<Separator, Invocation, Returned>> BY <1>1, <2>1
      <3>4. ~Pcr5Reordered => bank[5] = <<>> /\ Digests(log[5]) = <<Separator, Invocation>>
        BY <2>1 DEF ReplayInv, Gpt
      <3>5. /\ Append(<<Separator, Invocation>>, Returned) = <<Separator, Invocation, Returned>>
            /\ <<>> \o <<Separator, Invocation, Returned>> = <<Separator, Invocation, Returned>>
        BY TupleAppend
      <3> QED BY <3>1, <3>2, <3>3, <3>4, <3>5
    <2>6. Gpt' BY <2>1, <2>5 DEF Gpt
    <2> QED BY <2>4, <2>6 DEF ReplayInv
  <1> QED BY <1>5, <1>6, <1>7, <1>8 DEF CalculatePcr5

LEMMA ReplayInit == Init => OrderInv /\ ReplayInv
  <1> SUFFICES ASSUME Init PROVE OrderInv /\ ReplayInv OBVIOUS
  <1>1. /\ pc = "start" /\ cur = 0 /\ \A n \in Pcr : bank[n] = Unset /\ log[n] = <<>>
    BY DEF Init
  <1> QED BY <1>1 DEF OrderInv, ReplayInv, Fresh, Paired, Gpt, Early

\* The parts of Next, by what they do to registers and logs.
LEMMA NextForm == Next => Parse \/ Dispatch \/ CalculatePcr5 \/ Form \/ UNCHANGED vars
  <1>1. OutOfMemory => Form BY EndForm DEF OutOfMemory
  <1> QED
    BY <1>1, Pcr0Form, Pcr1Form, Pcr2Form, Pcr4Form, Pcr7Form, Pcr8Form, Pcr9Form, SeparatorForm,
       OutputForm DEF Next, Terminated

LEMMA OrderNext == TypeInv /\ OrderInv /\ [Next]_vars => OrderInv'
  <1> SUFFICES ASSUME TypeInv, OrderInv, [Next]_vars PROVE OrderInv' OBVIOUS
  <1>1. CASE UNCHANGED vars BY <1>1 DEF vars, OrderInv, Fresh, Early
  <1> QED BY <1>1, NextForm, ParseOrder, DispatchOrder, Pcr5Order, FormOrder

LEMMA ReplayNext == TypeInv /\ OrderInv /\ ReplayInv /\ ~MemoryFails /\ [Next]_vars => ReplayInv'
  <1> SUFFICES ASSUME TypeInv, OrderInv, ReplayInv, ~MemoryFails, [Next]_vars PROVE ReplayInv'
    OBVIOUS
  <1>1. CASE UNCHANGED vars
    BY <1>1 DEF vars, ReplayInv, Paired, Gpt, Digests, Pcr5Reordered, Given
  <1> QED BY <1>1, NextForm, ParseReplays, DispatchReplays, Pcr5Replays, FormReplays

\* LogReplays holds of every run, whatever the files, the command line and the
\* number of registers: the digests in the log of a PCR are those extended into
\* the register, in the same order, as the pairs of evlog_add and hash_extend
\* of the handlers make them.
THEOREM ReplayCorrect == Spec => []LogReplays
  <1> DEFINE Inv == TypeInv /\ OrderInv /\ (~MemoryFails => ReplayInv)
  <1>1. Init => Inv BY InitType, ReplayInit
  <1>2. Inv /\ [Next]_vars => Inv' BY NextType, OrderNext, ReplayNext
  <1>3. Inv => LogReplays BY DEF ReplayInv, Paired, Gpt, LogReplays
  <1> QED BY <1>1, <1>2, <1>3, PTL DEF Spec

\* Types and replay together, as they are checked: no handler works on a register
\* or a log that it does not own, and what it logs is what it extends
\* (pcrs.c, eventlog.c:25-83).
THEOREM LogsAreSound == Spec => []LogsSound
  <1>1. TypeOK /\ LogReplays => LogsSound BY DEF LogsSound
  <1> QED BY <1>1, TypeCorrect, ReplayCorrect, PTL

-----------------------------------------------------------------------------
(* Every event that is in a log is extended, also when memory runs out. *)

One(d, e) == IF d = e THEN 1 ELSE 0

\* How often the digest d is in the log of PCR n, and in its register.
Logged(n, d) == Registers!Times(d, Digests(log[n]))
Extended(n, d) == Registers!Times(d, bank[n])

\* How often calculate_pcr5 has still to extend d for the events it has logged.
Due(n, d) ==
  IF n # 5 THEN 0
  ELSE (IF pc \in {"gpt", "exit boot", "boot exited"} THEN One(d, Separator) ELSE 0)
       + (IF pc = "boot exited" THEN One(d, Invocation) ELSE 0)

Counted(n, d) ==
  /\ Logged(n, d) <= Extended(n, d) + Due(n, d)
  /\ ~MemoryFails => Logged(n, d) = Extended(n, d) + Due(n, d)

\* The registers whose events are extended one by one, or by calculate_pcr5.
Followed(n) == bank[n] # Unset /\ (n = 5 => cur > 5 \/ pc \in GptLabel)

EventsInv == \A n \in Pcr : Followed(n) => \A d \in Digest : Counted(n, d)

LEMMA TimesNat ==
  ASSUME NEW S, NEW s \in Seq(S), NEW d
  PROVE  /\ Registers!Times(d, s) \in Nat
         /\ Registers!Times(d, s) = Cardinality({k \in DOMAIN s : s[k] = d})
         /\ IsFiniteSet({k \in DOMAIN s : s[k] = d})
  <1>1. Len(s) \in Nat /\ DOMAIN s = 1 .. Len(s) OBVIOUS
  <1>2. IsFiniteSet(1 .. Len(s)) BY <1>1, FS_Interval
  <1>3. IsFiniteSet({k \in DOMAIN s : s[k] = d}) BY <1>1, <1>2, FS_Subset
  <1>4. Cardinality({k \in DOMAIN s : s[k] = d}) \in Nat BY <1>3, FS_CardinalityType
  <1>5. Registers!Cardinality({k \in DOMAIN s : s[k] = d}) = Cardinality({k \in DOMAIN s : s[k] = d})
    BY Zenon DEF Registers!Cardinality, Cardinality
  <1> QED BY <1>3, <1>4, <1>5 DEF Registers!Times

LEMMA TimesEmpty == \A d : Registers!Times(d, <<>>) = 0
  <1> SUFFICES ASSUME NEW d PROVE Registers!Times(d, <<>>) = 0 OBVIOUS
  <1>1. <<>> \in Seq({}) /\ {k \in DOMAIN <<>> : <<>>[k] = d} = {} OBVIOUS
  <1>2. Registers!Times(d, <<>>) = Cardinality({}) BY <1>1, TimesNat
  <1> QED BY <1>2, FS_EmptySet

LEMMA TimesAppend ==
  ASSUME NEW S, NEW s \in Seq(S), NEW e \in S, NEW d
  PROVE  Registers!Times(d, Append(s, e)) = Registers!Times(d, s) + One(d, e)
  <1> DEFINE t == Append(s, e)
             A == {k \in DOMAIN s : s[k] = d}
             B == {k \in DOMAIN t : t[k] = d}
             n == Len(s) + 1
  <1>1. t \in Seq(S) /\ DOMAIN s = 1 .. Len(s) /\ DOMAIN t = 1 .. n /\ Len(s) \in Nat
        /\ (\A k \in 1 .. Len(s) : t[k] = s[k]) /\ t[n] = e OBVIOUS
  <1>2. Registers!Times(d, s) = Cardinality(A) /\ IsFiniteSet(A) BY TimesNat
  <1>3. Registers!Times(d, t) = Cardinality(B) BY <1>1, TimesNat
  <1>4. n \notin A /\ n \in 1 .. n /\ (1 .. n) = (1 .. Len(s)) \cup {n} BY <1>1
  <1>5. CASE d = e
    <2>1. B = A \cup {n}
      <3> HIDE DEF n, t
      <3> QED BY <1>1, <1>4, <1>5
    <2>2. Cardinality(A \cup {n}) = Cardinality(A) + 1 BY <1>2, <1>4, FS_AddElement
    <2>3. One(d, e) = 1 BY <1>5 DEF One
    <2> QED BY <1>2, <1>3, <2>1, <2>2, <2>3, Zenon
  <1>6. CASE d # e
    <2>1. B = A
      <3> HIDE DEF n, t
      <3> QED BY <1>1, <1>4, <1>6
    <2>2. Cardinality(A) \in Nat BY <1>2, FS_CardinalityType
    <2>3. One(d, e) = 0 BY <1>6 DEF One
    <2>4. \A c \in Nat : c = c + 0 OBVIOUS
    <2> QED BY <1>2, <1>3, <2>1, <2>2, <2>3, <2>4, Zenon
  <1> QED BY <1>5, <1>6

LEMMA DigestsType ==
  ASSUME NEW s \in Seq(Entry)
  PROVE  Digests(s) \in Seq(Digest)
  <1>1. \A k \in 1 .. Len(s) : s[k].digest \in Digest
    <2>1. \A e \in Entry : e.digest \in Digest BY DEF Entry
    <2> QED BY <2>1
  <1>2. Len(s) \in Nat /\ Digests(s) = [k \in 1 .. Len(s) |-> s[k].digest] BY DEF Digests
  <1> QED BY <1>1, <1>2

LEMMA DigestsEmpty == Digests(<<>>) = <<>>
  BY DEF Digests

LEMMA CountTypes ==
  ASSUME TypeInv, NEW n \in Pcr, bank[n] # Unset, NEW d
  PROVE  /\ Logged(n, d) \in Nat /\ Extended(n, d) \in Nat /\ Due(n, d) \in Nat
         /\ bank[n] \in Seq(Digest) /\ log[n] \in Seq(Entry) /\ Digests(log[n]) \in Seq(Digest)
  <1>1. bank[n] \in Seq(Digest) /\ log[n] \in Seq(Entry) BY DEF TypeInv, TypeOK
  <1>2. Digests(log[n]) \in Seq(Digest) BY <1>1, DigestsType
  <1>3. Due(n, d) \in Nat
    <2>1. One(d, Separator) \in Nat /\ One(d, Invocation) \in Nat BY Zenon DEF One
    <2>2. 0 \in Nat /\ \A a \in Nat, b \in Nat : a + b \in Nat OBVIOUS
    <2> QED BY <2>1, <2>2, Zenon DEF Due
  <1> QED BY <1>1, <1>2, <1>3, TimesNat DEF Logged, Extended

\* What evlog_add and hash_extend add to the counts.
LEMMA LogCounts ==
  ASSUME TypeInv, NEW n \in Pcr, bank[n] # Unset, NEW e, NEW text, NEW d,
         \/ log'[n] = Append(log[n], [digest |-> e, text |-> text])
         \/ MemoryFails /\ log'[n] \in {log[n], <<>>}
  PROVE  /\ Registers!Times(d, Digests(log'[n])) \in Nat
         /\ Registers!Times(d, Digests(log'[n])) <= Logged(n, d) + One(d, e)
         /\ ~MemoryFails => Registers!Times(d, Digests(log'[n])) = Logged(n, d) + One(d, e)
  <1>1. log[n] \in Seq(Entry) /\ Digests(log[n]) \in Seq(Digest) /\ Logged(n, d) \in Nat /\ One(d, e) \in Nat
    BY CountTypes DEF One
  <1>2. CASE log'[n] = Append(log[n], [digest |-> e, text |-> text])
    <2>1. Digests(log'[n]) = Append(Digests(log[n]), e) BY <1>1, <1>2, DigestsAppend
    <2>2. Digests(log[n]) \in Seq(Digest \cup {e}) /\ e \in Digest \cup {e}
      BY <1>1, SeqMonotonic
    <2>3. Registers!Times(d, Digests(log'[n])) = Logged(n, d) + One(d, e)
      BY <2>1, <2>2, TimesAppend DEF Logged
    <2> QED BY <1>1, <2>3
  <1>3. CASE MemoryFails /\ log'[n] = log[n] BY <1>1, <1>3 DEF Logged
  <1>4. CASE MemoryFails /\ log'[n] = <<>>
    <2>1. Registers!Times(d, Digests(log'[n])) = 0 BY <1>4, DigestsEmpty, TimesEmpty
    <2> QED BY <1>1, <1>4, <2>1
  <1> QED BY <1>2, <1>3, <1>4

LEMMA ExtendCounts ==
  ASSUME NEW s \in Seq(Digest), NEW e, NEW d
  PROVE  Registers!Times(d, s \o <<e>>) = Registers!Times(d, s) + One(d, e)
  <1>1. s \in Seq(Digest \cup {e}) /\ e \in Digest \cup {e} BY SeqMonotonic
  <1>2. s \o <<e>> = Append(s, e) BY <1>1, AppendIsConcat
  <1> QED BY <1>1, <1>2, TimesAppend

LEMMA PrimedCounts ==
  ASSUME NEW n, NEW d
  PROVE  /\ Logged(n, d)' = Registers!Times(d, Digests(log'[n]))
         /\ Extended(n, d)' = Registers!Times(d, bank'[n])
  BY DEF Logged, Extended, Registers!Times, Digests

\* A register and a log that the step leaves alone, outside calculate_pcr5.
LEMMA UntouchedCounted ==
  ASSUME NEW n \in Pcr, NEW d, Counted(n, d), bank'[n] = bank[n], log'[n] = log[n],
         Due(n, d)' = Due(n, d)
  PROVE  Counted(n, d)'
  <1>1. Logged(n, d)' = Logged(n, d) /\ Extended(n, d)' = Extended(n, d)
    BY PrimedCounts DEF Logged, Extended
  <1> QED BY <1>1 DEF Counted

\* evlog_add and hash_extend of the same digest, with the same number still due.
LEMMA PairCounted ==
  ASSUME TypeInv, NEW n \in Pcr, bank[n] # Unset, NEW e, NEW text, NEW d,
         \/ log'[n] = Append(log[n], [digest |-> e, text |-> text])
         \/ MemoryFails /\ log'[n] \in {log[n], <<>>},
         bank'[n] = bank[n] \o <<e>>, Counted(n, d), Due(n, d)' = Due(n, d)
  PROVE  Counted(n, d)'
  <1> DEFINE L == Registers!Times(d, Digests(log'[n]))
             X == Registers!Times(d, bank'[n])
  <1>1. L \in Nat /\ L <= Logged(n, d) + One(d, e) /\ (~MemoryFails => L = Logged(n, d) + One(d, e))
    BY LogCounts
  <1>2. /\ Logged(n, d) \in Nat /\ Extended(n, d) \in Nat /\ Due(n, d) \in Nat /\ One(d, e) \in Nat
        /\ bank[n] \in Seq(Digest) BY CountTypes DEF One
  <1>3. X = Extended(n, d) + One(d, e) BY <1>2, ExtendCounts DEF Extended
  <1> HIDE DEF L, X
  <1>4. L <= X + Due(n, d) /\ (~MemoryFails => L = X + Due(n, d))
    BY <1>1, <1>2, <1>3 DEF Counted
  <1>5. Logged(n, d)' = L /\ Extended(n, d)' = X BY PrimedCounts DEF L, X
  <1> QED BY <1>4, <1>5 DEF Counted

LEMMA DueNone ==
  ASSUME NEW n \in Pcr, NEW d
  PROVE  /\ pc \notin GptLabel \/ n # 5 => Due(n, d) = 0
         /\ pc' \notin GptLabel \/ n # 5 => Due(n, d)' = 0
  <1>1. 0 + 0 = 0 OBVIOUS
  <1> QED BY <1>1, Zenon DEF Due, GptLabel

LEMMA FormEvents == TypeInv /\ EventsInv /\ Form => EventsInv'
  <1> SUFFICES ASSUME TypeInv, EventsInv, Form, NEW n \in Pcr, Followed(n)', NEW d \in Digest
               PROVE  Counted(n, d)' BY DEF EventsInv
  <1>1. cur \in 0 .. 10 /\ (pc \in GptLabel => cur = 5) /\ (pc \in HandlerLabel \ GptLabel => cur # 5)
    BY DEF TypeInv, TypeOK, Active, GptLabel, HandlerLabel
  <1>2. pc' \notin GptLabel BY DEF Form, Moves, Ordinary, GptLabel
  <1>3. bank[n] # Unset BY MeasuredAt DEF Form, Unmeasured, Followed
  <1>4. n = 5 => cur > 5 BY <1>1, <1>2 DEF Form, Moves, Followed
  <1>5. Counted(n, d) BY <1>3, <1>4 DEF EventsInv, Followed
  <1>6. n = 5 => pc \notin GptLabel BY <1>1, <1>4
  <1>7. Due(n, d) = 0 /\ Due(n, d)' = 0 BY <1>2, <1>6, DueNone
  <1>8. CASE Unmeasured BY <1>5, <1>7, <1>8, UntouchedCounted DEF Unmeasured
  <1>9. ASSUME NEW e, NEW text, Measured(e, text)
        PROVE  Counted(n, d)'
    <2>1. CASE n = cur
      <3>1. /\ bank'[n] = bank[n] \o <<e>>
            /\ \/ log'[n] = Append(log[n], [digest |-> e, text |-> text])
               \/ MemoryFails /\ log'[n] \in {log[n], <<>>} BY <1>9, <2>1, MeasuredAt
      <3> QED BY <1>3, <1>5, <1>7, <3>1, PairCounted
    <2>2. CASE n # cur BY <1>5, <1>7, <1>9, <2>2, MeasuredAt, UntouchedCounted
    <2> QED BY <2>1, <2>2
  <1> QED BY <1>8, <1>9 DEF Form

LEMMA ParseEvents == OrderInv /\ Parse => EventsInv'
  BY ParseOrder, ParseForm DEF EventsInv, Followed

LEMMA DispatchEvents == TypeInv /\ OrderInv /\ EventsInv /\ Dispatch => EventsInv'
  <1> SUFFICES ASSUME TypeInv, OrderInv, EventsInv, Dispatch, NEW n \in Pcr, Followed(n)', NEW d \in Digest
               PROVE  Counted(n, d)' BY DEF EventsInv
  <1>1. pc = "dispatch" /\ cur \in 0 .. 10 /\ (cur \in Pcr => bank[cur] = Unset /\ log[cur] = <<>>)
    BY DispatchStarts
  <1>2. Due(n, d) = 0 BY <1>1, DueNone DEF GptLabel
  <1>3. CASE NotRequested
    <2>1. cur \in Pcr /\ cur' = cur + 1 /\ pc' = "dispatch" /\ UNCHANGED <<bank, log>>
      BY <1>3, NotRequestedForm
    <2>2. bank[n] # Unset /\ n # cur BY <1>1, <2>1 DEF Followed
    <2>3. n = 5 => cur > 5 BY <1>1, <2>1, <2>2 DEF Followed, GptLabel
    <2>4. Counted(n, d) BY <2>2, <2>3 DEF EventsInv, Followed
    <2>5. Due(n, d)' = 0 BY <2>1, DueNone DEF GptLabel
    <2> QED BY <1>2, <2>1, <2>4, <2>5, UntouchedCounted
  <1>4. CASE CallHandler
    <2>1. /\ cur \in Pcr /\ cur' = cur /\ pc' \notin GptLabel \ {"gpt separator"}
          /\ (pc' = "gpt separator" <=> cur = 5)
          /\ bank'[cur] = <<>> /\ (\A m \in Pcr : m # cur => bank'[m] = bank[m]) /\ log' = log
      BY <1>4, CallHandlerForm
    <2>2. Due(n, d)' = 0
      <3>1. pc' \notin {"gpt", "exit boot", "boot exited"} BY <2>1 DEF GptLabel
      <3>2. 0 + 0 = 0 OBVIOUS
      <3> QED BY <3>1, <3>2, Zenon DEF Due
    <2>3. CASE n = cur
      <3>1. bank'[n] = <<>> /\ log'[n] = <<>> BY <1>1, <2>1, <2>3
      <3>2. Logged(n, d)' = 0 /\ Extended(n, d)' = 0
        BY <3>1, PrimedCounts, TimesEmpty, DigestsEmpty
      <3> QED BY <2>2, <3>2 DEF Counted
    <2>4. CASE n # cur
      <3>1. bank[n] # Unset /\ bank'[n] = bank[n] /\ log'[n] = log[n]
        BY <2>1, <2>4 DEF Followed
      <3>2. n = 5 => cur > 5 BY <2>1, <2>4 DEF Followed, GptLabel
      <3>3. Counted(n, d) BY <3>1, <3>2 DEF EventsInv, Followed
      <3> QED BY <1>2, <2>2, <3>1, <3>3, UntouchedCounted
    <2> QED BY <2>3, <2>4
  <1>5. CASE AllCalculated
    <2>1. EventsInv' BY <1>5, AllCalculatedForm, FormEvents
    <2> QED BY <2>1 DEF EventsInv
  <1> QED BY <1>3, <1>4, <1>5 DEF Dispatch

\* Of the events of calculate_pcr5, some are due when they are logged.
LEMMA LoggedCounted ==
  ASSUME TypeInv, NEW n \in Pcr, bank[n] # Unset, NEW e, NEW text, NEW d,
         \/ log'[n] = Append(log[n], [digest |-> e, text |-> text])
         \/ MemoryFails /\ log'[n] \in {log[n], <<>>},
         bank'[n] = bank[n], Counted(n, d), Due(n, d)' = Due(n, d) + One(d, e)
  PROVE  Counted(n, d)'
  <1> DEFINE L == Registers!Times(d, Digests(log'[n]))
  <1>1. L \in Nat /\ L <= Logged(n, d) + One(d, e) /\ (~MemoryFails => L = Logged(n, d) + One(d, e))
    BY LogCounts
  <1>2. Logged(n, d) \in Nat /\ Extended(n, d) \in Nat /\ Due(n, d) \in Nat /\ One(d, e) \in Nat
    BY CountTypes DEF One
  <1> HIDE DEF L
  <1>3. /\ L <= Extended(n, d) + (Due(n, d) + One(d, e))
        /\ ~MemoryFails => L = Extended(n, d) + (Due(n, d) + One(d, e))
    BY <1>1, <1>2 DEF Counted
  <1>4. Logged(n, d)' = L /\ Extended(n, d)' = Extended(n, d)
    BY PrimedCounts DEF L, Extended
  <1> QED BY <1>3, <1>4 DEF Counted

LEMMA AppendThrice ==
  ASSUME NEW S, NEW s \in Seq(S), NEW a \in S, NEW b \in S, NEW c \in S
  PROVE  s \o <<a, b, c>> = Append(Append(Append(s, a), b), c)
  <1> DEFINE l == s \o <<a, b, c>>
             r == Append(Append(Append(s, a), b), c)
  <1>1. <<a, b, c>> \in Seq(S) /\ Len(<<a, b, c>>) = 3 /\ Len(s) \in Nat OBVIOUS
  <1>2. /\ l \in Seq(S) /\ Len(l) = Len(s) + 3 /\ (\A k \in 1 .. Len(s) : l[k] = s[k])
        /\ l[Len(s) + 1] = a /\ l[Len(s) + 2] = b /\ l[Len(s) + 3] = c BY <1>1
  <1>3. /\ r \in Seq(S) /\ Len(r) = Len(s) + 3 /\ (\A k \in 1 .. Len(s) : r[k] = s[k])
        /\ r[Len(s) + 1] = a /\ r[Len(s) + 2] = b /\ r[Len(s) + 3] = c BY <1>1
  <1> HIDE DEF l, r
  <1>4. \A k \in 1 .. Len(l) : l[k] = r[k]
    <2>1. \A k \in 1 .. Len(l) : k \in 1 .. Len(s) \/ k = Len(s) + 1 \/ k = Len(s) + 2 \/ k = Len(s) + 3
      BY <1>1, <1>2
    <2> QED BY <1>2, <1>3, <2>1
  <1>5. l = r BY <1>2, <1>3, <1>4, SeqEqual
  <1> QED BY <1>5 DEF l, r

\* The end of calculate_pcr5: an event is logged, three digests are extended.
LEMMA ReturnedCounted ==
  ASSUME TypeInv, 5 \in Pcr, bank[5] # Unset, NEW text, NEW d,
         \/ log'[5] = Append(log[5], [digest |-> Returned, text |-> text])
         \/ MemoryFails /\ log'[5] \in {log[5], <<>>},
         bank'[5] = bank[5] \o <<Separator, Invocation, Returned>>,
         Counted(5, d), Due(5, d) = One(d, Separator) + One(d, Invocation), Due(5, d)' = 0
  PROVE  Counted(5, d)'
  <1> DEFINE L == Registers!Times(d, Digests(log'[5]))
             X == Registers!Times(d, bank'[5])
             a == One(d, Separator)
             b == One(d, Invocation)
             c == One(d, Returned)
  <1>1. L \in Nat /\ L <= Logged(5, d) + c /\ (~MemoryFails => L = Logged(5, d) + c)
    BY LogCounts
  <1>2. Logged(5, d) \in Nat /\ Extended(5, d) \in Nat /\ bank[5] \in Seq(Digest)
    BY CountTypes
  <1>3. a \in Nat /\ b \in Nat /\ c \in Nat BY DEF One
  <1>4. X = ((Extended(5, d) + a) + b) + c
    <2> DEFINE S == Digest \cup {Separator, Invocation, Returned}
               s == bank[5]
    <2>1. s \in Seq(S) /\ Separator \in S /\ Invocation \in S /\ Returned \in S
      BY <1>2, SeqMonotonic
    <2>2. s \o <<Separator, Invocation, Returned>> = Append(Append(Append(s, Separator), Invocation), Returned)
      <3> HIDE DEF S, s
      <3> QED BY <2>1, AppendThrice
    <2>3. Append(s, Separator) \in Seq(S) /\ Append(Append(s, Separator), Invocation) \in Seq(S)
      <3> HIDE DEF S, s
      <3> QED BY <2>1
    <2>4. Registers!Times(d, Append(Append(Append(s, Separator), Invocation), Returned))
            = ((Registers!Times(d, s) + a) + b) + c
      <3> DEFINE s1 == Append(s, Separator)
                 s2 == Append(s1, Invocation)
      <3> HIDE DEF S, s
      <3>1. Registers!Times(d, s1) = Registers!Times(d, s) + a BY <2>1, TimesAppend
      <3>2. Registers!Times(d, s2) = Registers!Times(d, s1) + b
        <4> HIDE DEF s1
        <4> QED BY <2>1, <2>3, TimesAppend DEF s1
      <3>3. Registers!Times(d, Append(s2, Returned)) = Registers!Times(d, s2) + c
        <4>1. s2 \in Seq(S) BY <2>3
        <4> HIDE DEF s2
        <4> QED BY <2>1, <4>1, TimesAppend
      <3> QED BY <3>1, <3>2, <3>3, Zenon
    <2> QED BY <2>2, <2>4, Zenon DEF Extended
  <1> HIDE DEF L, X, a, b, c
  <1>5. Due(5, d) = a + b BY DEF a, b
  <1>6. L <= X /\ (~MemoryFails => L = X)
    <2>1. /\ Logged(5, d) <= Extended(5, d) + (a + b)
          /\ ~MemoryFails => Logged(5, d) = Extended(5, d) + (a + b) BY <1>5 DEF Counted
    <2> QED BY <1>1, <1>2, <1>3, <1>4, <2>1
  <1>7. Logged(5, d)' = L /\ Extended(5, d)' = X BY PrimedCounts DEF L, X
  <1>8. X = X + 0 BY <1>2, <1>3, <1>4
  <1> QED BY <1>6, <1>7, <1>8 DEF Counted

LEMMA Pcr5Events == TypeInv /\ EventsInv /\ CalculatePcr5 => EventsInv'
  <1> SUFFICES ASSUME TypeInv, EventsInv, CalculatePcr5, NEW n \in Pcr, Followed(n)', NEW d \in Digest
               PROVE  Counted(n, d)' BY DEF EventsInv
  <1>1. /\ pc \in GptLabel /\ cur = 5 /\ 5 \in Pcr /\ bank[5] # Unset
        /\ log \in [Pcr -> Seq(Entry)] /\ bank \in [Pcr -> Seq(Digest) \cup {Unset}]
    BY Pcr5Form DEF TypeInv, TypeOK
  <1>2. CASE n # 5
    <2>1. bank'[n] = bank[n] /\ log'[n] = log[n] BY <1>2, Pcr5Form
    <2>2. Counted(n, d) BY <1>2, <2>1 DEF EventsInv, Followed
    <2>3. Due(n, d) = 0 /\ Due(n, d)' = 0 BY <1>2, DueNone
    <2> QED BY <2>1, <2>2, <2>3, UntouchedCounted
  <1>3. CASE n = 5
    <2>1. Counted(5, d) BY <1>1 DEF EventsInv, Followed
    <2>2. ASSUME NEW e, NEW text, EvlogAdd(e, text)
          PROVE  \/ log'[5] = Append(log[5], [digest |-> e, text |-> text])
                 \/ MemoryFails /\ log'[5] \in {log[5], <<>>}
      BY <1>1, <2>2 DEF EvlogAdd, WithEntry
    <2>3. ASSUME NEW ds, HashExtend(ds)
          PROVE  bank'[5] = bank[5] \o ds BY <1>1, <2>3 DEF HashExtend
    <2>4. ~Fail
      <3>1. Fail => cur' = 5 /\ pc' = "exited" BY <1>1 DEF Fail
      <3>2. ~(5 > 5) OBVIOUS
      <3> QED BY <1>3, <3>1, <3>2, Zenon DEF Followed, GptLabel
    <2>5. CASE LogGptSeparator
      <3>1. pc = "gpt separator" /\ LogOnly(Separator) /\ Goto("gpt")
        BY <2>4, <2>5 DEF LogGptSeparator
      <3>2. Due(5, d)' = Due(5, d) + One(d, Separator)
        <4>1. Due(5, d) = 0 + 0 /\ Due(5, d)' = One(d, Separator) + 0
          BY <3>1, Zenon DEF Due, Goto
        <4>2. One(d, Separator) \in Nat BY Zenon DEF One
        <4> QED BY <4>1, <4>2
      <3>3. bank'[5] = bank[5] /\ EvlogAdd(Separator, "plain") BY <3>1 DEF LogOnly
      <3> QED BY <1>1, <1>3, <2>1, <2>2, <3>2, <3>3, LoggedCounted
    <2>6. CASE MeasureGpt
      <3> DEFINE e == Content(opts.file["gpt"])
      <3>1. pc = "gpt" /\ Goto("exit boot") /\ (Skip \/ MakesEvent(e))
        BY <2>4, <2>6, MakesEventIntro DEF MeasureGpt
      <3>2. Due(5, d)' = Due(5, d)
        <4>1. Due(5, d) = One(d, Separator) + 0 /\ Due(5, d)' = One(d, Separator) + 0
          BY <3>1, Zenon DEF Due, Goto
        <4> QED BY <4>1
      <3>3. CASE Skip BY <1>3, <2>1, <1>1, <3>2, <3>3, UntouchedCounted DEF Skip
      <3>4. CASE MakesEvent(e)
        <4>1. (\E text : EvlogAdd(e, text)) /\ HashExtend(<<e>>)
          BY <3>4, Zenon DEF MakesEvent, LogAndExtend
        <4> HIDE DEF e
        <4> QED BY <1>1, <1>3, <2>1, <2>2, <2>3, <3>2, <4>1, PairCounted
      <3> QED BY <3>1, <3>3, <3>4
    <2>7. CASE LogExitBootInvocation
      <3>1. pc = "exit boot" /\ LogOnly(Invocation) /\ Goto("boot exited")
        BY <2>7 DEF LogExitBootInvocation
      <3>2. Due(5, d)' = Due(5, d) + One(d, Invocation)
        <4>1. Due(5, d) = One(d, Separator) + 0 /\ Due(5, d)' = One(d, Separator) + One(d, Invocation)
          BY <3>1, Zenon DEF Due, Goto
        <4>2. One(d, Separator) \in Nat /\ One(d, Invocation) \in Nat BY Zenon DEF One
        <4> QED BY <4>1, <4>2
      <3>3. bank'[5] = bank[5] /\ EvlogAdd(Invocation, "plain") BY <3>1 DEF LogOnly
      <3> QED BY <1>1, <1>3, <2>1, <2>2, <3>2, <3>3, LoggedCounted
    <2>8. CASE LogExitBootReturned
      <3>1. /\ pc = "boot exited" /\ pc' = "dispatch"
            /\ EvlogAdd(Returned, "plain") /\ HashExtend(<<Separator, Invocation, Returned>>)
        BY <2>8, Zenon DEF LogExitBootReturned, Return
      <3>2. Due(5, d) = One(d, Separator) + One(d, Invocation) /\ Due(5, d)' = 0
        <4>1. Due(5, d) = One(d, Separator) + One(d, Invocation) /\ Due(5, d)' = 0 + 0
          BY <3>1, Zenon DEF Due
        <4> QED BY <4>1
      <3>3. bank'[5] = bank[5] \o <<Separator, Invocation, Returned>> BY <2>3, <3>1
      <3> QED BY <1>1, <1>3, <2>1, <2>2, <3>1, <3>2, <3>3, ReturnedCounted
    <2> QED BY <2>5, <2>6, <2>7, <2>8 DEF CalculatePcr5
  <1> QED BY <1>2, <1>3

LEMMA EventsInit == Init => EventsInv
  BY DEF Init, EventsInv, Followed

LEMMA EventsNext == TypeInv /\ OrderInv /\ EventsInv /\ [Next]_vars => EventsInv'
  <1> SUFFICES ASSUME TypeInv, OrderInv, EventsInv, [Next]_vars PROVE EventsInv' OBVIOUS
  <1>1. CASE UNCHANGED vars
    <2> SUFFICES ASSUME NEW n \in Pcr, Followed(n)', NEW d \in Digest PROVE Counted(n, d)'
      BY DEF EventsInv
    <2>1. Followed(n) /\ bank' = bank /\ log' = log /\ pc' = pc BY <1>1 DEF vars, Followed
    <2>2. Due(n, d)' = Due(n, d) BY <2>1, Zenon DEF Due
    <2> QED BY <2>1, <2>2, UntouchedCounted DEF EventsInv
  <1> QED BY <1>1, NextForm, ParseEvents, DispatchEvents, Pcr5Events, FormEvents

\* The registers whose logs are complete.
LEMMA LogAccounts ==
  ASSUME TypeInv, EventsInv, NEW n \in Pcr, bank[n] # Unset, n = 5 => cur > 5
  PROVE  /\ Registers!Accounts(bank[n], Digests(log[n]))
         /\ ~MemoryFails => Registers!Balanced(bank[n], Digests(log[n]))
  <1>1. bank[n] \in Seq(Digest) /\ Digests(log[n]) \in Seq(Digest) BY CountTypes
  <1>2. Registers!Elements(bank[n]) \subseteq Digest /\ Registers!Elements(Digests(log[n])) \subseteq Digest
    <2>1. \A s \in Seq(Digest) : Registers!Elements(s) \subseteq Digest
      BY DEF Registers!Elements
    <2> QED BY <1>1, <2>1
  <1>3. n = 5 => pc \notin GptLabel
    <2>1. pc \in GptLabel => cur = 5 BY DEF TypeInv, Active, GptLabel, HandlerLabel
    <2>2. n = 5 => cur # 5 OBVIOUS
    <2> QED BY <2>1, <2>2
  <1>4. ASSUME NEW d \in Digest
        PROVE  /\ Registers!Times(d, Digests(log[n])) <= Registers!Times(d, bank[n])
               /\ ~MemoryFails => Registers!Times(d, bank[n]) <= Registers!Times(d, Digests(log[n]))
    <2>1. Counted(n, d) BY DEF EventsInv, Followed
    <2>2. Due(n, d) = 0 BY <1>3, DueNone
    <2>3. Logged(n, d) \in Nat /\ Extended(n, d) \in Nat BY CountTypes
    <2>4. Logged(n, d) <= Extended(n, d) /\ (~MemoryFails => Extended(n, d) <= Logged(n, d))
      BY <2>1, <2>2, <2>3 DEF Counted
    <2> QED BY <2>4, Zenon DEF Logged, Extended
  <1>5. Registers!Accounts(bank[n], Digests(log[n]))
    BY <1>2, <1>4, Zenon DEF Registers!Accounts
  <1>6. ~MemoryFails => Registers!Accounts(Digests(log[n]), bank[n])
    BY <1>2, <1>4, Zenon DEF Registers!Accounts
  <1> QED BY <1>5, <1>6, Zenon DEF Registers!Balanced

\* EventsExtended holds of every run, also when encode_hex or a realloc of
\* evlog_add fails half way: what is in the log of a PCR has been extended into
\* the register at least as often, the events of calculate_pcr5 at its end.
THEOREM EventsAreExtended == Spec => []EventsExtended
  <1> DEFINE Inv == TypeInv /\ OrderInv /\ EventsInv
  <1>1. Init => Inv BY InitType, ReplayInit, EventsInit
  <1>2. Inv /\ [Next]_vars => Inv' BY NextType, OrderNext, EventsNext
  <1>3. Inv => EventsExtended BY LogAccounts, Zenon DEF EventsExtended
  <1> QED BY <1>1, <1>2, <1>3, PTL DEF Spec

-----------------------------------------------------------------------------
(* A run that fails has printed no register. *)

\* The program points in front of the first output, and those of the output.
Calculating == Waiting \cup HandlerLabel \cup {"open log"}
Printing == {"print log", "open summary", "print summary", "print aggregate"}

\* A step that prints nothing, and ends the program only with an error.
Quiet ==
  /\ out' = out
  /\ \/ ret' = ret /\ pc' \in Waiting \cup HandlerLabel \cup {"crashed"}
     \/ ret' = -1 /\ pc' = "exited"

LEMMA QuietMoves ==
  /\ pc \in HandlerLabel /\ (Skip \/ Warn) /\ Again => Quiet
  /\ \A label \in HandlerLabel : (Skip \/ Warn) /\ Goto(label) => Quiet
  /\ \A d : \A label \in HandlerLabel : LogOnly(d) /\ Goto(label) => Quiet
  /\ (Skip \/ Warn) /\ Return => Quiet
  /\ \A d : pc \in HandlerLabel /\ MakesEvent(d) /\ Again => Quiet
  /\ \A d : \A label \in HandlerLabel : MakesEvent(d) /\ Goto(label) => Quiet
  /\ \A d : MakesEvent(d) /\ Return => Quiet
  /\ Fail => Quiet
  /\ Crash => Quiet
  BY Zenon DEF Quiet, Waiting, Skip, Warn, Again, Goto, Return, MakesEvent, LogAndExtend, LogOnly, Fail, Crash

LEMMA Pcr0Quiet == CalculatePcr0 => Quiet
  <1>1. {"pei", "firmware", "dxe", "separator"} \subseteq HandlerLabel BY DEF HandlerLabel
  <1> QED
    BY <1>1, QuietMoves, MakesEventIntro
    DEF CalculatePcr0, MeasureCrtm, ReadFirmware, MeasurePei, MeasureDxe, MeasureVolume

LEMMA Pcr1Quiet == CalculatePcr1 => Quiet
  <1>1. {"acpi", "bootorder", "bootxxxx", "separator"} \subseteq HandlerLabel
    BY DEF HandlerLabel
  <1> QED
    BY <1>1, QuietMoves, MakesEventIntro
    DEF CalculatePcr1, MeasureAcpi, AcpiDone, MeasureBootOrder, MeasureDefaultBootOption,
        MeasureBootOption, BootOptionsDone

LEMMA Pcr24Quiet == CalculatePcr2 \/ CalculatePcr4 => Quiet
  <1>1. {"drivers", "bootloaders", "kernel", "boot action", "separator"} \subseteq HandlerLabel
    BY DEF HandlerLabel
  <1> QED
    BY <1>1, QuietMoves, MakesEventIntro
    DEF CalculatePcr2, MeasureDriver, DriversDone, CalculatePcr4, MeasureBootloader, BootloadersDone,
        MeasureKernel, MeasureBootAction, PeRefused

LEMMA Pcr5Quiet == CalculatePcr5 => Quiet
  <1>1. {"gpt separator", "gpt", "exit boot", "boot exited"} \subseteq HandlerLabel
    BY DEF HandlerLabel
  <1>2. LogExitBootReturned => Quiet BY DEF LogExitBootReturned, Return, Quiet, Waiting
  <1> QED
    BY <1>1, <1>2, QuietMoves, MakesEventIntro DEF CalculatePcr5, LogGptSeparator, MeasureGpt, LogExitBootInvocation

LEMMA Pcr78Quiet == CalculatePcr7 \/ CalculatePcr8 \/ MeasureSeparator => Quiet
  <1>1. {"secureboot", "separator", "sbatlevel", "grub", "grub commands"} \subseteq HandlerLabel
    BY DEF HandlerLabel
  <1> QED
    BY <1>1, QuietMoves, MakesEventIntro
    DEF CalculatePcr7, MeasureSecureBootVar, SecureBootDone, MeasureSbatLevel, CalculatePcr8, ReadGrub,
        MeasureGrubCommand, MeasureSeparator

LEMMA Pcr9Quiet == CalculatePcr9 => Quiet
  <1> SUFFICES ASSUME CalculatePcr9 PROVE Quiet OBVIOUS
  <1>1. {"paths", "walk", "cmdline", "initrd"} \subseteq HandlerLabel BY DEF HandlerLabel
  <1>2. CASE RejectPath \/ MeasurePath \/ PathsDone \/ MeasureCmdline \/ MeasureInitrd
    BY <1>1, <1>2, QuietMoves, MakesEventIntro
    DEF RejectPath, MeasurePath, AtPath, PathsDone, MeasureCmdline, MeasureInitrd
  <1>3. CASE WalkPath BY <1>1, <1>3, QuietMoves DEF WalkPath, Quiet
  <1>4. ASSUME pc = "walk", LeaveDirectory PROVE Quiet
    <2>1. pc' \in {"paths", "walk"} /\ UNCHANGED <<out, ret>> BY <1>4 DEF LeaveDirectory
    <2> QED BY <1>1, <2>1 DEF Quiet
  <1>5. CASE DirectoryDone BY <1>4, <1>5 DEF DirectoryDone
  <1>6. ASSUME NEW e, EnterDirectory(e) \/ MeasureFileEntry(e) PROVE Quiet
    <2>1. pc' = "walk" /\ UNCHANGED <<out, ret>>
      BY <1>6 DEF EnterDirectory, MeasureFileEntry
    <2> QED BY <1>1, <2>1 DEF Quiet
  <1>7. ASSUME NEW e, FileEntryFails(e) PROVE Quiet
    BY <1>4, <1>7, QuietMoves DEF FileEntryFails
  <1> QED BY <1>2, <1>3, <1>5, <1>6, <1>7 DEF CalculatePcr9

LEMMA MainQuiet == TypeInv /\ (Parse \/ NotRequested \/ CallHandler) => Quiet
  <1> SUFFICES ASSUME TypeInv, Parse \/ NotRequested \/ CallHandler PROVE Quiet OBVIOUS
  <1>1. CASE Parse
    BY <1>1
    DEF Parse, Start, ParseFlag, ParseFormat, ParsePcrs, ParseValue, ParseLoose, ParseList, ParseAcpi,
        ParseInvalid, ParseEnd, Validate, Parsing, Parsed, Goto, Skip, Fail, Quiet, Waiting
  <1>2. CASE NotRequested BY <1>2 DEF NotRequested, Return, Skip, Quiet, Waiting
  <1>3. CASE CallHandler
    <2>1. pc' \in HandlerLabel /\ UNCHANGED <<out, ret>>
      BY <1>3, CallHandlerForm DEF CallHandler
    <2> QED BY <2>1 DEF Quiet
  <1> QED BY <1>1, <1>2, <1>3

\* The steps in front of the output, all of them.
LEMMA CalculatingQuiet ==
  ASSUME TypeInv, Next, ~Output, ~OutOfMemory, ~Terminated
  PROVE  /\ Quiet \/ AllCalculated
         /\ pc \in Waiting \cup HandlerLabel /\ (~Parse => pc \in {"dispatch"} \cup HandlerLabel)
  <1>1. Quiet \/ AllCalculated
    BY MainQuiet, Pcr0Quiet, Pcr1Quiet, Pcr24Quiet, Pcr5Quiet, Pcr78Quiet, Pcr9Quiet DEF Next, Dispatch
  <1>2. (Parse => pc \in Waiting) /\ (Dispatch => pc = "dispatch")
    BY ParseStarts DEF Dispatch, NotRequested, CallHandler, AllCalculated, Waiting
  <1>3. CalculatePcr0 \/ CalculatePcr1 \/ CalculatePcr2 \/ CalculatePcr4 => pc \in HandlerLabel
    BY DEF CalculatePcr0, MeasureCrtm, ReadFirmware, MeasurePei, MeasureDxe, CalculatePcr1, MeasureAcpi,
           AcpiDone, MeasureBootOrder, MeasureDefaultBootOption, MeasureBootOption, BootOptionsDone,
           CalculatePcr2, MeasureDriver, DriversDone, CalculatePcr4, MeasureBootloader, BootloadersDone,
           MeasureKernel, MeasureBootAction, HandlerLabel
  <1>4. CalculatePcr5 \/ CalculatePcr7 \/ CalculatePcr8 \/ MeasureSeparator => pc \in HandlerLabel
    BY DEF CalculatePcr5, LogGptSeparator, MeasureGpt, LogExitBootInvocation, LogExitBootReturned,
           CalculatePcr7, MeasureSecureBootVar, SecureBootDone, MeasureSbatLevel, CalculatePcr8, ReadGrub,
           MeasureGrubCommand, MeasureSeparator, HandlerLabel
  <1>5. CalculatePcr9 => pc \in HandlerLabel
    BY DEF CalculatePcr9, RejectPath, MeasurePath, AtPath, WalkPath, PathsDone, DirectoryDone,
           EnterDirectory, MeasureFileEntry, FileEntryFails, MeasureCmdline, MeasureInitrd, HandlerLabel
  <1>6. pc = "dispatch" => pc \in Waiting BY DEF Waiting
  <1> QED BY <1>1, <1>2, <1>3, <1>4, <1>5, <1>6, Zenon DEF Next

\* The output comes after the calculation.
LEMMA OutputStarts == Output => pc \in {"open log"} \cup Printing
  BY DEF Output, OpenLog, PrintLog, LogDone, OpenSummary, PrintRegister, SummaryDone, PrintAggregate, Printing

LEMMA PointsDistinct ==
  /\ "open log" \in Calculating /\ "dispatch" \in Calculating /\ Waiting \cup HandlerLabel \subseteq Calculating
  /\ \A label \in Calculating \cup Printing : label \notin {"exited", "crashed"}
  /\ \A label \in Calculating : label \notin Printing
  /\ \A label \in HandlerLabel \cup Printing \cup {"open log", "dispatch"} : label \notin {"start", "parse", "validate"}
  BY DEF Calculating, Printing, Waiting, HandlerLabel

\* What Validate has checked stays so.
RequestedInv == pc \in Calculating \cup Printing => pc \in {"start", "parse", "validate"} \/ Requested \subseteq Pcr

LEMMA RequestedNext == TypeInv /\ RequestedInv /\ [Next]_vars => RequestedInv'
  <1> SUFFICES ASSUME TypeInv, RequestedInv, [Next]_vars PROVE RequestedInv' OBVIOUS
  <1>1. CASE UNCHANGED vars BY <1>1 DEF vars, RequestedInv, Requested
  <1>2. CASE Parse
    <2>1. pc' \in {"parse", "validate", "exited"} \/ (Validate /\ ValidRequest /\ Skip)
      BY <1>2
      DEF Parse, Start, ParseFlag, ParseFormat, ParsePcrs, ParseValue, ParseLoose, ParseList, ParseAcpi,
          ParseInvalid, ParseEnd, Validate, Parsing, Parsed, Goto, Fail
    <2>2. CASE ValidRequest /\ Skip BY <2>2 DEF ValidRequest, Skip, RequestedInv, Requested
    <2>3. CASE pc' \in {"parse", "validate", "exited"}
      BY <2>3, PointsDistinct DEF RequestedInv
    <2> QED BY <2>1, <2>2, <2>3
  <1>3. CASE OutOfMemory \/ Terminated
    <2>1. pc' = "crashed" \/ UNCHANGED vars BY <1>3 DEF OutOfMemory, Crash, Terminated
    <2> QED BY <1>1, <2>1, PointsDistinct DEF RequestedInv
  <1>4. CASE Next /\ ~Parse /\ ~OutOfMemory /\ ~Terminated
    <2>1. opts' = opts
      <3>1. Dispatch \/ CalculatePcr5 \/ Form \/ UNCHANGED vars BY <1>4, NextForm
      <3>2. Dispatch => opts' = opts
        BY DEF Dispatch, NotRequested, CallHandler, AllCalculated, Skip
      <3> QED BY <3>1, <3>2, Pcr5Form DEF Form, Unmeasured, Measured, vars
    <2>2. pc \in {"dispatch", "open log"} \cup HandlerLabel \cup Printing
      BY <1>4, CalculatingQuiet, OutputStarts, Zenon
    <2>3. Requested \subseteq Pcr
      BY <2>2, PointsDistinct, Zenon DEF RequestedInv, Calculating
    <2> QED BY <2>1, <2>3 DEF RequestedInv, Requested
  <1> QED BY <1>1, <1>2, <1>3, <1>4

-----------------------------------------------------------------------------
(* The tokens *)

TokenOf(T) == [t : T, pcr : Nat, value : Seq(Digest) \cup {Unset} \cup Seq(Seq(Digest) \cup {Unset})]

LogTokenType == {"[", "]", ",", "event", "broken", "cut"}
LineTokenType == {"[", "]", ",", "event", "broken", "cut", "pcr"}
TokenType == {"[", "]", ",", "event", "broken", "cut", "pcr", "aggregate"}

SilentInv ==
  /\ out \in Seq(TokenOf(TokenType))
  /\ pc \in Calculating => out = <<>>
  /\ pc \in {"print log", "open summary"} => out \in Seq(TokenOf(LogTokenType))
  /\ pc \in {"print summary", "print aggregate"} => out \in Seq(TokenOf(LineTokenType))
  /\ pc # "exited" => ret = 1
  /\ FailureIsSilent

LEMMA TokenSets ==
  /\ Seq(TokenOf(LogTokenType)) \subseteq Seq(TokenOf(LineTokenType))
  /\ Seq(TokenOf(LineTokenType)) \subseteq Seq(TokenOf(TokenType))
  <1>1. TokenOf(LogTokenType) \subseteq TokenOf(LineTokenType)
    BY DEF TokenOf, LogTokenType, LineTokenType
  <1>2. TokenOf(LineTokenType) \subseteq TokenOf(TokenType)
    BY DEF TokenOf, LineTokenType, TokenType
  <1>3. \A A, B : A \subseteq B => Seq(A) \subseteq Seq(B) BY SeqMonotonic
  <1> QED BY <1>1, <1>2, <1>3, Zenon

Mark == {"[", "]", ","}

LEMMA MarkType == Mark \subseteq LogTokenType /\ "[" \in Mark /\ "]" \in Mark /\ "," \in Mark
  BY Zenon DEF Mark, LogTokenType

LEMMA PunctuationTokens ==
  ASSUME NEW t \in Mark
  PROVE  Punctuation(t) \in Seq(TokenOf(LogTokenType))
  <1>1. <<>> \in Seq(Digest) /\ 0 \in Nat OBVIOUS
  <1>2. Token(t, 0, <<>>) \in TokenOf(LogTokenType)
    <2>1. t \in LogTokenType BY MarkType
    <2> QED BY <1>1, <2>1 DEF Token, TokenOf
  <1>3. <<Token(t, 0, <<>>)>> \in Seq(TokenOf(LogTokenType)) /\ <<>> \in Seq(TokenOf(LogTokenType))
    BY <1>2, SeqOfOne, Zenon
  <1> QED BY <1>3, Zenon DEF Punctuation

LEMMA EntryTokensType ==
  ASSUME NEW n \in Nat, NEW e \in Entry, NEW last
  PROVE  EntryTokens(n, e, last) \in Seq(TokenOf(LogTokenType))
  <1>1. <<e.digest>> \in Seq(Digest) BY DEF Entry
  <1>2. \A t \in {"event", "broken", "cut"} : Token(t, n, <<e.digest>>) \in TokenOf(LogTokenType)
    BY <1>1 DEF Token, TokenOf, LogTokenType
  <1> DEFINE S == TokenOf(LogTokenType)
  <1>3. \A t \in {"event", "broken", "cut"} : <<Token(t, n, <<e.digest>>)>> \in Seq(S)
    <2>1. \A x \in S : <<x>> \in Seq(S) OBVIOUS
    <2> HIDE DEF S
    <2> QED BY <1>2, <2>1, Zenon DEF S
  <1>4. Punctuation(IF last THEN "]" ELSE ",") \in Seq(S)
    BY MarkType, PunctuationTokens, Zenon
  <1>5. \A a \in Seq(S), b \in Seq(S) : a \o b \in Seq(S)
    <2> HIDE DEF S
    <2> QED BY ConcatProperties
  <1> HIDE DEF S
  <1>6. CASE e.text = "cut" BY <1>3, <1>6, Zenon DEF EntryTokens, S
  <1>7. CASE e.text # "cut" BY <1>3, <1>4, <1>5, <1>7, Zenon DEF EntryTokens, S
  <1> QED BY <1>6, <1>7

LEMMA LogTokensType ==
  ASSUME TypeInv, NEW n \in Pcr, NEW last
  PROVE  LogTokens(n, last) \in Seq(TokenOf(LogTokenType))
  <1> DEFINE S == TokenOf(LogTokenType)
             s == [k \in DOMAIN log[n] |-> EntryTokens(n, log[n][k], last /\ k = Len(log[n]))]
  <1>1. log[n] \in Seq(Entry) /\ n \in Nat BY DEF TypeInv, TypeOK, Pcr
  <1>2. Len(log[n]) \in Nat /\ DOMAIN log[n] = 1 .. Len(log[n]) /\ \A k \in 1 .. Len(log[n]) : log[n][k] \in Entry
    BY <1>1
  <1>3. \A k \in DOMAIN log[n] : EntryTokens(n, log[n][k], last /\ k = Len(log[n])) \in Seq(S)
    BY <1>1, <1>2, EntryTokensType
  <1>4. s \in Seq(Seq(S))
    <2> HIDE DEF S
    <2> QED BY <1>2, <1>3
  <1> HIDE DEF s, S
  <1>5. FlattenSeq(s) \in Seq(S) BY <1>4, FlattenType
  <1> QED BY <1>5 DEF LogTokens, s, S

LEMMA TokensJoin ==
  ASSUME NEW T, NEW a \in Seq(TokenOf(T)), NEW b \in Seq(TokenOf(T))
  PROVE  a \o b \in Seq(TokenOf(T)) BY ConcatProperties

\* The register a summary line or the aggregate shows.
LEMMA ListedType ==
  ASSUME TypeInv, Requested \subseteq Pcr
  PROVE  /\ opts.pcrs \in Seq(Nat)
         /\ \A k \in 1 .. Len(opts.pcrs) :
              /\ opts.pcrs[k] \in Requested /\ opts.pcrs[k] \in Pcr /\ opts.pcrs[k] \in Nat
              /\ bank[opts.pcrs[k]] \in Seq(Digest) \cup {Unset}
  <1>1. opts.pcrs \in Seq(Nat) /\ bank \in [Pcr -> Seq(Digest) \cup {Unset}]
    BY DEF TypeInv, TypeOK, Options
  <1>2. \A k \in 1 .. Len(opts.pcrs) : opts.pcrs[k] \in Requested /\ opts.pcrs[k] \in Nat
    BY <1>1 DEF Requested
  <1> QED BY <1>1, <1>2

LEMMA AggregateType ==
  ASSUME TypeInv, Requested \subseteq Pcr
  PROVE  Token("aggregate", 0, [k \in DOMAIN opts.pcrs |-> bank[opts.pcrs[k]]]) \in TokenOf(TokenType)
  <1> DEFINE V == Seq(Digest) \cup {Unset}
             v == [k \in DOMAIN opts.pcrs |-> bank[opts.pcrs[k]]]
  <1>1. opts.pcrs \in Seq(Nat) /\ \A k \in 1 .. Len(opts.pcrs) : bank[opts.pcrs[k]] \in V
    BY ListedType
  <1> HIDE DEF V
  <1>2. v \in Seq(V) BY <1>1
  <1> HIDE DEF v
  <1>3. Token("aggregate", 0, v) \in TokenOf(TokenType)
    BY <1>2 DEF Token, TokenOf, TokenType, V
  <1> QED BY <1>3 DEF v

\* The four kinds of output steps.
PrintsLog(ts) ==
  /\ out' = out \o ts /\ ret' = ret
  /\ \/ pc \in {"open log", "print log"} /\ pc' \in {"print log", "open summary"}
     \/ pc \in {"open summary", "print summary"} /\ pc' \in {"print summary", "print aggregate"}

Line(n) == Token("pcr", n, bank[n])

PrintsLine(n, ts) ==
  pc = "print summary" /\ pc' = pc /\ ret' = ret /\ out' = (out \o <<Line(n)>>) \o ts

Aggregate == Token("aggregate", 0, [k \in DOMAIN opts.pcrs |-> bank[opts.pcrs[k]]])

PrintsAggregate == pc = "print aggregate" /\ pc' = "exited" /\ ret' = 0 /\ out' \in {out, out \o <<Aggregate>>}

LEMMA OutputSteps ==
  ASSUME TypeInv, RequestedInv, SilentInv, Output
  PROVE  /\ UNCHANGED <<opts, bank, log>>
         /\ \/ pc = "print log" /\ Fail
            \/ \E ts \in Seq(TokenOf(LogTokenType)) : PrintsLog(ts)
            \/ \E n \in Requested, ts \in Seq(TokenOf(LogTokenType)) : PrintsLine(n, ts)
            \/ PrintsAggregate
  <1> DEFINE S == Seq(TokenOf(LogTokenType))
  <1>1. UNCHANGED <<opts, bank, log>>
    BY Zenon DEF Output, OpenLog, PrintLog, LogDone, OpenSummary, PrintRegister, SummaryDone, PrintAggregate,
       Emit, Skip, Fail
  <1>2. <<>> \in S /\ out = out \o <<>>
    <2>1. out \in Seq(TokenOf(TokenType)) BY DEF SilentInv
    <2>2. \A T : <<>> \in Seq(T) /\ \A s \in Seq(T) : s = s \o <<>> BY ConcatEmptySeq
    <2> QED BY <2>1, <2>2, Zenon
  <1>3. Punctuation("[") \in S /\ Punctuation("]") \in S /\ Punctuation(",") \in S
    BY PunctuationTokens, MarkType, Zenon
  <1>4. Requested \subseteq Pcr
    <2>1. pc \in {"open log"} \cup Printing BY OutputStarts
    <2> QED BY <2>1, PointsDistinct, Zenon DEF RequestedInv, Calculating
  <1>5. opts.pcrs \in Seq(Nat) /\ \A k \in 1 .. Len(opts.pcrs) : opts.pcrs[k] \in Requested /\ opts.pcrs[k] \in Pcr
    BY <1>4, ListedType
  <1> HIDE DEF S
  <1>6. CASE OpenLog
    <2>1. pc = "open log" /\ pc' \in {"print log", "open summary"} /\ ret' = ret
      BY <1>6 DEF OpenLog, Emit, Goto, Skip
    <2>2. out' = out \o Punctuation("[") \/ out' = out
      BY <1>6, Zenon DEF OpenLog, Emit, Skip
    <2> QED BY <1>1, <1>2, <1>3, <2>1, <2>2, Zenon DEF PrintsLog, S
  <1>7. CASE PrintLog
    <2>1. CASE Fail BY <1>1, <1>7, <2>1 DEF PrintLog
    <2>2. CASE ~Fail
      <3> DEFINE n == opts.pcrs[i]
                 ts == LogTokens(n, i = Len(opts.pcrs))
      <3>1. i \in 1 .. Len(opts.pcrs)
        <4>1. i \in Nat \ {0} /\ i <= Len(opts.pcrs) BY <1>7 DEF PrintLog, TypeInv, TypeOK
        <4>2. Len(opts.pcrs) \in Nat BY <1>5
        <4> QED BY <4>1, <4>2
      <3>2. n \in Pcr BY <1>5, <3>1
      <3>3. ts \in S BY <3>2, LogTokensType DEF S
      <3>4. pc = "print log" /\ pc' = "print log" /\ ret' = ret /\ out' = out \o ts
        BY <1>7, <2>2 DEF PrintLog, Again
      <3> HIDE DEF ts
      <3> QED BY <1>1, <3>3, <3>4, Zenon DEF PrintsLog, S
    <2> QED BY <2>1, <2>2
  <1>8. CASE LogDone
    <2>1. pc = "print log" /\ pc' = "open summary" /\ ret' = ret /\ out' = out
      BY <1>8 DEF LogDone, Goto, Skip
    <2> QED BY <1>1, <1>2, <2>1, Zenon DEF PrintsLog, S
  <1>9. CASE OpenSummary
    <2>1. pc = "open summary" /\ pc' \in {"print summary", "print aggregate"} /\ ret' = ret
      BY <1>9 DEF OpenSummary, Emit, Goto, Skip
    <2>2. out' = out \o Punctuation("[") \/ out' = out
      BY <1>9, Zenon DEF OpenSummary, Emit, Skip
    <2> QED BY <1>1, <1>2, <1>3, <2>1, <2>2, Zenon DEF PrintsLog, S
  <1>10. CASE PrintRegister
    <2> DEFINE n == opts.pcrs[i]
               ts == IF i < Len(opts.pcrs) THEN Punctuation(",") ELSE <<>>
    <2>1. i \in 1 .. Len(opts.pcrs)
      <3>1. i \in Nat \ {0} /\ i <= Len(opts.pcrs)
        BY <1>10 DEF PrintRegister, TypeInv, TypeOK
      <3>2. Len(opts.pcrs) \in Nat BY <1>5
      <3> QED BY <3>1, <3>2
    <2>2. n \in Requested BY <1>5, <2>1
    <2>3. ts \in S BY <1>2, <1>3, Zenon
    <2>4. pc = "print summary" /\ pc' = pc /\ ret' = ret /\ out' = (out \o <<Line(n)>>) \o ts
      BY <1>10, Zenon DEF PrintRegister, Again, Line
    <2> HIDE DEF ts, n
    <2> QED BY <1>1, <2>2, <2>3, <2>4, Zenon DEF PrintsLine, S
  <1>11. CASE SummaryDone
    <2>1. pc = "print summary" /\ pc' = "print aggregate" /\ ret' = ret
      BY <1>11 DEF SummaryDone, Emit, Goto
    <2>2. out' = out \o Punctuation("]") BY <1>11, Zenon DEF SummaryDone, Emit
    <2> QED BY <1>1, <1>3, <2>1, <2>2, Zenon DEF PrintsLog, S
  <1>12. CASE PrintAggregate
    <2>1. pc = "print aggregate" /\ pc' = "exited" /\ ret' = 0
      BY <1>12, Zenon DEF PrintAggregate
    <2>2. out' \in {out, out \o <<Aggregate>>}
      <3>1. out' \in {out, Append(out, Aggregate)}
        BY <1>12, Zenon DEF PrintAggregate, Aggregate
      <3>2. out \in Seq(TokenOf(TokenType)) /\ Aggregate \in TokenOf(TokenType)
        BY <1>4, AggregateType DEF SilentInv, Aggregate
      <3>3. Append(out, Aggregate) = out \o <<Aggregate>> BY <3>2, AppendIsConcat
      <3> QED BY <3>1, <3>3
    <2> QED BY <1>1, <2>1, <2>2, Zenon DEF PrintsAggregate
  <1> QED BY <1>6, <1>7, <1>8, <1>9, <1>10, <1>11, <1>12 DEF Output

LEMMA LineType ==
  ASSUME TypeInv, NEW n \in Pcr
  PROVE  Line(n) \in TokenOf(LineTokenType) /\ <<Line(n)>> \in Seq(TokenOf(LineTokenType))
  <1>1. n \in Nat /\ bank[n] \in Seq(Digest) \cup {Unset} BY DEF TypeInv, TypeOK, Pcr
  <1>2. Line(n) \in TokenOf(LineTokenType) BY <1>1 DEF Line, Token, TokenOf, LineTokenType
  <1> QED BY <1>2, SeqOfOne, Zenon

\* What is silent about a sequence of tokens.
LEMMA SilentTokens ==
  /\ \A s \in Seq(TokenOf(LineTokenType)) : \A k \in DOMAIN s : s[k].t # "aggregate"
  /\ \A s \in Seq(TokenOf(LogTokenType)) : \A k \in DOMAIN s : s[k].t # "aggregate" /\ s[k].t # "pcr"
  <1>1. \A x \in TokenOf(LineTokenType) : x.t # "aggregate" BY DEF TokenOf, LineTokenType
  <1>2. \A x \in TokenOf(LogTokenType) : x.t # "aggregate" /\ x.t # "pcr"
    BY DEF TokenOf, LogTokenType
  <1>3. \A T : \A s \in Seq(T) : \A k \in DOMAIN s : s[k] \in T OBVIOUS
  <1> QED BY <1>1, <1>2, <1>3, Zenon

\* FailureIsSilent, by the way a run ends.
LEMMA OneIsNoError == 1 # -1 /\ 0 # -1
  OBVIOUS

LEMMA SilentBefore ==
  ASSUME SilentInv, pc \in Waiting \cup HandlerLabel
  PROVE  out = <<>> /\ ret = 1 BY PointsDistinct DEF SilentInv

\* A run that fails has printed a log at most.
LEMMA SilentStops ==
  ASSUME out' \in Seq(TokenOf(TokenType)), pc' \in {"exited", "crashed"}, pc' # "exited" => ret' = 1,
         ret' = -1 \/ pc' = "crashed" =>
           \A k \in DOMAIN out' : out'[k].t # "aggregate" /\ (out'[k].t = "pcr" => ret' = 1 /\ MemoryFails)
  PROVE  SilentInv'
  <1>1. pc' \notin Calculating \cup Printing BY PointsDistinct
  <1>2. FailureIsSilent' BY DEF FailureIsSilent
  <1> QED BY <1>1, <1>2 DEF SilentInv, Printing

LEMMA SilentOutput == TypeInv /\ RequestedInv /\ SilentInv /\ Output => SilentInv'
  <1> SUFFICES ASSUME TypeInv, RequestedInv, SilentInv, Output PROVE SilentInv' OBVIOUS
  <1>1. pc \in {"open log"} \cup Printing /\ ret = 1 /\ out \in Seq(TokenOf(TokenType))
    <2>1. pc \in {"open log"} \cup Printing BY OutputStarts
    <2>2. pc # "exited" BY <2>1 DEF Printing
    <2> QED BY <2>1, <2>2 DEF SilentInv
  <1>2. CASE pc = "print log" /\ Fail
    <2>1. out' = out /\ ret' = -1 /\ pc' = "exited" /\ out \in Seq(TokenOf(LogTokenType))
      BY <1>2 DEF Fail, SilentInv
    <2>2. \A k \in DOMAIN out' : out'[k].t # "aggregate" /\ out'[k].t # "pcr"
      BY <2>1, SilentTokens, Zenon
    <2> QED BY <1>1, <2>1, <2>2, SilentStops
  <1>3. ASSUME NEW ts \in Seq(TokenOf(LogTokenType)), PrintsLog(ts)
        PROVE  SilentInv'
    <2>1. out' = out \o ts /\ ret' = 1 /\ pc' \in Printing
      BY <1>1, <1>3 DEF PrintsLog, Printing
    <2>2. FailureIsSilent'
      <3>1. pc' # "crashed" /\ ret' # -1 BY <2>1, OneIsNoError, PointsDistinct, Zenon
      <3> QED BY <3>1 DEF FailureIsSilent
    <2>3. pc' \notin Calculating /\ pc' # "exited" BY <2>1, PointsDistinct
    <2>4. CASE pc \in {"open log", "print log"} /\ pc' \in {"print log", "open summary"}
      <3>1. out \in Seq(TokenOf(LogTokenType))
        <4>1. <<>> \in Seq(TokenOf(LogTokenType)) OBVIOUS
        <4> QED BY <2>4, <4>1, PointsDistinct DEF SilentInv
      <3>2. out' \in Seq(TokenOf(LogTokenType)) BY <2>1, <3>1, TokensJoin
      <3>3. out' \in Seq(TokenOf(TokenType)) BY <3>2, TokenSets
      <3> QED BY <2>1, <2>2, <2>3, <2>4, <3>2, <3>3 DEF SilentInv
    <2>5. CASE pc \in {"open summary", "print summary"} /\ pc' \in {"print summary", "print aggregate"}
      <3>1. out \in Seq(TokenOf(LineTokenType)) /\ ts \in Seq(TokenOf(LineTokenType))
        BY <2>5, TokenSets DEF SilentInv
      <3>2. out' \in Seq(TokenOf(LineTokenType)) BY <2>1, <3>1, TokensJoin
      <3>3. out' \in Seq(TokenOf(TokenType)) BY <3>2, TokenSets
      <3> QED BY <2>1, <2>2, <2>3, <2>5, <3>2, <3>3 DEF SilentInv
    <2> QED BY <1>3, <2>4, <2>5 DEF PrintsLog
  <1>4. ASSUME NEW n \in Requested, NEW ts \in Seq(TokenOf(LogTokenType)), PrintsLine(n, ts)
        PROVE  SilentInv'
    <2>1. /\ out' = (out \o <<Line(n)>>) \o ts /\ ret' = 1 /\ pc = "print summary" /\ pc' = "print summary"
      BY <1>1, <1>4 DEF PrintsLine
    <2>2. n \in Pcr BY <1>1, PointsDistinct, Zenon DEF RequestedInv, Calculating
    <2>3. /\ out \in Seq(TokenOf(LineTokenType)) /\ ts \in Seq(TokenOf(LineTokenType))
          /\ <<Line(n)>> \in Seq(TokenOf(LineTokenType))
      BY <2>1, <2>2, LineType, TokenSets DEF SilentInv
    <2>4. out \o <<Line(n)>> \in Seq(TokenOf(LineTokenType)) BY <2>3, TokensJoin, Zenon
    <2>5. out' \in Seq(TokenOf(LineTokenType)) BY <2>1, <2>3, <2>4, TokensJoin, Zenon
    <2>6. out' \in Seq(TokenOf(TokenType)) BY <2>5, TokenSets
    <2>7. FailureIsSilent'
      <3>1. pc' # "crashed" /\ ret' # -1 BY <2>1, OneIsNoError, Zenon
      <3> QED BY <3>1 DEF FailureIsSilent
    <2>8. pc' \notin Calculating BY <2>1, PointsDistinct DEF Printing
    <2> QED BY <2>1, <2>5, <2>6, <2>7, <2>8 DEF SilentInv
  <1>5. CASE PrintsAggregate
    <2>1. pc' = "exited" /\ ret' = 0 /\ pc' # "crashed" /\ ret' # -1
      BY <1>5, OneIsNoError, Zenon DEF PrintsAggregate
    <2>2. Requested \subseteq Pcr
      BY <1>1, PointsDistinct, Zenon DEF RequestedInv, Calculating
    <2>3. Aggregate \in TokenOf(TokenType) BY <2>2, AggregateType DEF Aggregate
    <2>4. out \o <<Aggregate>> \in Seq(TokenOf(TokenType))
      BY <1>1, <2>3, SeqOfOne, TokensJoin, Zenon
    <2>5. out' \in Seq(TokenOf(TokenType)) BY <1>1, <1>5, <2>4 DEF PrintsAggregate
    <2> QED BY <2>1, <2>5, SilentStops
  <1> QED BY <1>2, <1>3, <1>4, <1>5, OutputSteps

LEMMA SilentNext == TypeInv /\ RequestedInv /\ SilentInv /\ [Next]_vars => SilentInv'
  <1> SUFFICES ASSUME TypeInv, RequestedInv, SilentInv, [Next]_vars PROVE SilentInv' OBVIOUS
  <1>1. CASE UNCHANGED vars BY <1>1 DEF vars, SilentInv, FailureIsSilent
  <1>2. CASE Terminated BY <1>1, <1>2 DEF Terminated
  <1>3. CASE Output BY <1>3, SilentOutput
  <1>4. CASE OutOfMemory
    <2>1. /\ MemoryFails /\ pc' = "crashed" /\ out' = out /\ ret' = ret /\ pc \notin {"exited", "crashed"}
          /\ pc \notin {"print log", "open summary", "print summary"}
      BY <1>4 DEF OutOfMemory, Crash
    <2>2. ret' = 1 /\ out' \in Seq(TokenOf(TokenType)) BY <2>1 DEF SilentInv
    <2>3. \A k \in DOMAIN out' : out'[k].t # "aggregate"
      <3>1. CASE pc \in Calculating
        <4>1. out' = <<>> BY <2>1, <3>1, Zenon DEF SilentInv
        <4>2. \A k \in DOMAIN <<>> : FALSE OBVIOUS
        <4> QED BY <4>1, <4>2, Zenon
      <3>2. CASE pc = "print aggregate"
        <4>1. out' \in Seq(TokenOf(LineTokenType)) BY <2>1, <3>2 DEF SilentInv
        <4> QED BY <4>1, SilentTokens, Zenon
      <3>3. pc \in Calculating \cup Printing \cup {"exited", "crashed"}
        BY DEF TypeInv, TypeOK, Label, Calculating, Printing, Waiting, HandlerLabel
      <3> QED BY <2>1, <3>1, <3>2, <3>3 DEF Printing
    <2> QED BY <2>1, <2>2, <2>3, SilentStops
  <1>5. CASE Next /\ ~Output /\ ~OutOfMemory /\ ~Terminated
    <2>1. /\ out' = out /\ out = <<>> /\ ret = 1
          /\ \/ ret' = ret /\ pc' \in Calculating \cup {"crashed"}
             \/ ret' = -1 /\ pc' = "exited"
      <3>1. out = <<>> /\ ret = 1 BY <1>5, CalculatingQuiet, SilentBefore
      <3>2. CASE Quiet BY <3>1, <3>2 DEF Quiet, Calculating
      <3>3. CASE AllCalculated BY <3>1, <3>3 DEF AllCalculated, Goto, Skip, Calculating
      <3> QED BY <1>5, <3>2, <3>3, CalculatingQuiet
    <2>2. out' = <<>> /\ out' \in Seq(TokenOf(TokenType)) /\ \A k \in DOMAIN out' : FALSE
      BY <2>1
    <2>3. CASE pc' \in {"exited", "crashed"}
      <3>1. pc' # "exited" => ret' = 1 BY <2>1, <2>3
      <3> QED BY <2>2, <2>3, <3>1, SilentStops
    <2>4. CASE pc' \notin {"exited", "crashed"}
      <3>1. pc' \in Calculating /\ ret' = 1 BY <2>1, <2>4
      <3>2. pc' \notin Printing /\ FailureIsSilent'
        BY <2>2, <2>4, <3>1, PointsDistinct DEF FailureIsSilent
      <3> QED BY <2>2, <3>1, <3>2 DEF SilentInv, Printing
    <2> QED BY <2>3, <2>4
  <1> QED BY <1>1, <1>2, <1>3, <1>4, <1>5

LEMMA SilentInit == Init => RequestedInv /\ SilentInv
  <1> SUFFICES ASSUME Init PROVE RequestedInv /\ SilentInv OBVIOUS
  <1>1. pc = "start" /\ out = <<>> /\ ret = 1 BY DEF Init
  <1>2. <<>> \in Seq(TokenOf(TokenType)) /\ \A k \in DOMAIN <<>> : FALSE OBVIOUS
  <1>3. FailureIsSilent BY <1>1, <1>2 DEF FailureIsSilent
  <1> QED BY <1>1, <1>2, <1>3 DEF RequestedInv, SilentInv

\* FailureIsSilent, the part of OutputSound about errors, holds of every run: a
\* run that returns an error has printed a part of an event log at most, and
\* one that dies has printed registers only if it dies for want of memory in
\* front of the aggregate (main.c:444-545).
THEOREM FailuresAreSilent == Spec => []FailureIsSilent
  <1> DEFINE Inv == TypeInv /\ RequestedInv /\ SilentInv
  <1>1. Init => Inv BY InitType, SilentInit
  <1>2. Inv /\ [Next]_vars => Inv' BY NextType, RequestedNext, SilentNext
  <1>3. Inv => FailureIsSilent BY DEF SilentInv
  <1> QED BY <1>1, <1>2, <1>3, PTL DEF Spec

-----------------------------------------------------------------------------
(* The calculator implements registers with a journal. *)

\* The command line asks for registers that the program calculates: it prints
\* the others as they are in its memory.
OnlyCalculated ==
  \A line \in CommandLines : \A k \in DOMAIN line :
    line[k].opt = "pcrs" /\ line[k].val # NoFile => \A j \in DOMAIN line[k].val : line[k].val[j] \in Calculated

PcrsCalculated(a) == a.opt = "pcrs" /\ a.val # NoFile => \A j \in DOMAIN a.val : a.val[j] \in Calculated

\* What is requested, and which of it has been calculated.
TurnInv ==
  /\ \A k \in DOMAIN argv : PcrsCalculated(argv[k])
  /\ Requested \subseteq Calculated
  /\ pc \in {"open log"} \cup Printing => cur = 10
  /\ \A n \in Pcr : n \in Requested /\ n < cur => bank[n] # Unset

\* A measurement is of a digest, and leaves the register a sequence of them.
LEMMA LogGrows ==
  ASSUME TypeInv, TypeInv', ~MemoryFails, NEW n \in Pcr, n = cur, NEW d, NEW text, EvlogAdd(d, text)
  PROVE  d \in Digest /\ Digests(log'[n]) = Digests(log[n]) \o <<d>>
         /\ \A m \in Pcr : m # n => log'[m] = log[m]
  <1>1. /\ log \in [Pcr -> Seq(Entry)] /\ log' \in [Pcr -> Seq(Entry)]
        /\ log' = [log EXCEPT ![n] = Append(@, [digest |-> d, text |-> text])]
    BY DEF TypeInv, TypeOK, EvlogAdd, WithEntry
  <1>2. log[n] \in Seq(Entry) /\ log'[n] \in Seq(Entry) /\ log'[n] = Append(log[n], [digest |-> d, text |-> text])
        /\ \A m \in Pcr : m # n => log'[m] = log[m] BY <1>1
  <1>3. d \in Digest
    <2> DEFINE e == [digest |-> d, text |-> text]
    <2>1. e \in Entry
      <3>1. log[n] \in Seq(Entry \cup {e}) /\ e \in Entry \cup {e} BY <1>2, SeqMonotonic
      <3> HIDE DEF e
      <3>2. Len(log'[n]) = Len(log[n]) + 1 /\ log'[n][Len(log[n]) + 1] = e /\ Len(log[n]) \in Nat
        BY <1>2, <3>1, AppendProperties DEF e
      <3>3. Len(log[n]) + 1 \in 1 .. Len(log'[n]) BY <3>2
      <3> QED BY <1>2, <3>2, <3>3
    <2>2. \A x \in Entry : x.digest \in Digest BY DEF Entry
    <2>3. e.digest = d OBVIOUS
    <2> QED BY <2>1, <2>2, <2>3, Zenon
  <1>4. Digests(log'[n]) = Append(Digests(log[n]), d) BY <1>2, DigestsAppend
  <1>5. Digests(log[n]) \in Seq(Digest) BY <1>2, DigestsType
  <1>6. Append(Digests(log[n]), d) = Digests(log[n]) \o <<d>> BY <1>3, <1>5, AppendIsConcat
  <1> QED BY <1>2, <1>3, <1>4, <1>6

LEMMA ExtendedSet ==
  ASSUME NEW s \in Seq(Digest), NEW ds \in Seq(Digest)
  PROVE  s \o ds \in Seq(Digest) /\ s \o ds # Unset
  <1>1. s \o ds \in Seq(Digest) BY ConcatProperties
  <1> QED BY <1>1, RegistersAssumption

LEMMA TurnInit == ASSUME OnlyCalculated PROVE Init => TurnInv
  <1> SUFFICES ASSUME Init PROVE TurnInv OBVIOUS
  <1>1. argv \in CommandLines /\ opts.pcrs = <<>> /\ cur = 0 /\ pc = "start" BY DEF Init
  <1>2. \A k \in DOMAIN argv : PcrsCalculated(argv[k])
    BY <1>1 DEF OnlyCalculated, PcrsCalculated
  <1>3. Requested \subseteq Calculated BY <1>1 DEF Requested
  <1>4. \A n \in Pcr : ~(n < cur) BY <1>1 DEF Pcr
  <1> QED BY <1>1, <1>2, <1>3, <1>4 DEF TurnInv, Printing

LEMMA ParseTurn == TypeInv /\ OrderInv /\ TurnInv /\ Parse => TurnInv'
  <1> SUFFICES ASSUME TypeInv, OrderInv, TurnInv, Parse PROVE TurnInv' OBVIOUS
  <1>1. cur = 0 /\ cur' = cur /\ pc' \in {"parse", "validate", "dispatch", "exited"}
    BY ParseOrder, ParseForm
  <1>2. \A n \in Pcr : ~(n < cur') BY <1>1 DEF Pcr
  <1>3. pc' \notin {"open log"} \cup Printing BY <1>1 DEF Printing
  <1>4. argv \in Seq(Argument) /\ opts \in Options /\ opts.pcrs \in Seq(Nat)
    BY DEF TypeInv, TypeOK, Options
  <1>5. argv' = argv \/ (argv # <<>> /\ argv' = Tail(argv))
    BY DEF Parse, Start, ParseFlag, ParseFormat, ParsePcrs, ParseValue, ParseLoose, ParseList, ParseAcpi,
           ParseInvalid, ParseEnd, Validate, Parsing, Parsed, Skip, Fail
  <1>6. \A k \in DOMAIN argv' : PcrsCalculated(argv'[k])
    <2>1. CASE argv' = argv BY <2>1 DEF TurnInv
    <2>2. CASE argv # <<>> /\ argv' = Tail(argv)
      <3>1. \A k \in DOMAIN argv' : k + 1 \in DOMAIN argv /\ argv'[k] = argv[k + 1]
        BY <1>4, <2>2
      <3> QED BY <3>1 DEF TurnInv
    <2> QED BY <1>5, <2>1, <2>2
  <1>7. opts'.pcrs = opts.pcrs \/ (ParsePcrs /\ argv # <<>> /\ opts'.pcrs = opts.pcrs \o NextArg.val)
    <2>1. CASE ParsePcrs BY <1>4, <2>1 DEF ParsePcrs, Parsing, Parsed, Fail, Options
    <2>2. CASE ~ParsePcrs
      BY <1>4, <2>2
      DEF Parse, Start, ParseFlag, ParseFormat, ParseValue, ParseLoose, ParseList, ParseAcpi,
          ParseInvalid, ParseEnd, Validate, Parsing, Parsed, Skip, Fail, Options
    <2> QED BY <2>1, <2>2
  <1>8. \A j \in DOMAIN opts'.pcrs : opts'.pcrs[j] \in Calculated
    <2>1. \A j \in DOMAIN opts.pcrs : opts.pcrs[j] \in Calculated BY DEF TurnInv, Requested
    <2>2. CASE ParsePcrs /\ argv # <<>> /\ opts'.pcrs = opts.pcrs \o NextArg.val
      <3>1. NextArg \in Argument /\ 1 \in DOMAIN argv BY <1>4, <2>2 DEF NextArg
      <3>2. NextArg.opt = "pcrs" /\ NextArg.val # NoFile BY <2>2 DEF ParsePcrs
      <3>3. NextArg.val \in Seq(Nat) BY <2>2, <3>2, ArgumentType DEF ParsePcrs
      <3>4. \A j \in DOMAIN NextArg.val : NextArg.val[j] \in Calculated
        BY <3>1, <3>2 DEF TurnInv, PcrsCalculated, NextArg
      <3> DEFINE a == opts.pcrs
                 b == NextArg.val
      <3>5. \A j \in DOMAIN (a \o b) : (\E m \in DOMAIN a : m = j /\ (a \o b)[j] = a[m])
                                        \/ \E m \in DOMAIN b : (a \o b)[j] = b[m]
        <4> HIDE DEF a, b
        <4>1. a \in Seq(Nat) /\ b \in Seq(Nat) BY <1>4, <3>3 DEF a, b
        <4> QED BY <4>1, ConcatElements
      <3>6. opts'.pcrs = a \o b BY <2>2
      <3> HIDE DEF a, b
      <3>7. \A j \in DOMAIN (a \o b) : (a \o b)[j] \in Calculated
        BY <2>1, <3>4, <3>5 DEF a, b
      <3> QED BY <3>6, <3>7, Zenon
    <2> QED BY <1>7, <2>1, <2>2
  <1>9. Requested' \subseteq Calculated BY <1>8 DEF Requested
  <1> QED BY <1>2, <1>3, <1>6, <1>9 DEF TurnInv, PcrsCalculated, Calculated

\* How a step changes the register and the log of the PCR that is calculated.
Grows(n, js, es) ==
  /\ Digests(log'[n]) = Digests(log[n]) \o js /\ bank'[n] = bank[n] \o es
  /\ \A m \in Pcr : m # n => bank'[m] = bank[m] /\ log'[m] = log[m]

LEMMA EmptyAdded == \A T : <<>> \in Seq(T) /\ \A s \in Seq(T) : s \o <<>> = s
  BY ConcatEmptySeq

LEMMA Pcr5Grows ==
  ASSUME TypeInv, TypeInv', ~MemoryFails, CalculatePcr5
  PROVE  \E js \in Seq(Digest), es \in Seq(Digest) : Grows(5, js, es)
  <1>1. /\ pc \in GptLabel /\ cur = 5 /\ 5 \in Pcr /\ bank[5] # Unset
        /\ \A m \in Pcr : m # 5 => bank'[m] = bank[m] /\ log'[m] = log[m] BY Pcr5Form
  <1>2. /\ log \in [Pcr -> Seq(Entry)] /\ bank \in [Pcr -> Seq(Digest) \cup {Unset}]
        /\ bank[5] \in Seq(Digest) /\ Digests(log[5]) \in Seq(Digest)
    BY <1>1, CountTypes DEF TypeInv, TypeOK
  <1>3. <<>> \in Seq(Digest) /\ bank[5] \o <<>> = bank[5] /\ Digests(log[5]) \o <<>> = Digests(log[5])
    BY <1>2, EmptyAdded, Zenon
  <1>4. ASSUME NEW d, NEW text, EvlogAdd(d, text)
        PROVE  <<d>> \in Seq(Digest) /\ Digests(log'[5]) = Digests(log[5]) \o <<d>>
    <2>1. d \in Digest /\ Digests(log'[5]) = Digests(log[5]) \o <<d>>
      BY <1>1, <1>4, LogGrows
    <2> QED BY <2>1, SeqOfOne, Zenon
  <1>5. ASSUME NEW ds, HashExtend(ds)
        PROVE  bank'[5] = bank[5] \o ds BY <1>1, <1>2, <1>5 DEF HashExtend
  <1>6. CASE LogExitBootReturned
    <2>1. EvlogAdd(Returned, "plain") /\ HashExtend(<<Separator, Invocation, Returned>>)
      BY <1>6 DEF LogExitBootReturned
    <2>2. Separator \in Digest /\ Invocation \in Digest /\ Returned \in Digest
      BY DigestType DEF Kind, Separator, Invocation, Returned
    <2>3. <<Separator, Invocation, Returned>> \in Seq(Digest) BY <2>2
    <2> HIDE DEF Separator, Invocation, Returned
    <2> QED BY <1>1, <1>4, <1>5, <2>1, <2>3, Zenon DEF Grows
  <1>7. ASSUME NEW d, LogOnly(d) PROVE \E js \in Seq(Digest), es \in Seq(Digest) : Grows(5, js, es)
    <2>1. EvlogAdd(d, "plain") /\ bank' = bank BY <1>7 DEF LogOnly
    <2> QED BY <1>1, <1>3, <1>4, <2>1, MakesEventIntro, Zenon DEF Grows
  <1>8. ASSUME NEW d, MakesEvent(d) PROVE \E js \in Seq(Digest), es \in Seq(Digest) : Grows(5, js, es)
    <2>1. (\E text : EvlogAdd(d, text)) /\ HashExtend(<<d>>)
      BY <1>8, Zenon DEF MakesEvent, LogAndExtend
    <2> QED BY <1>1, <1>4, <1>5, <2>1, Zenon DEF Grows
  <1>9. CASE Skip \/ Fail
    <2>1. bank' = bank /\ log' = log BY <1>9 DEF Skip, Fail
    <2>2. Digests(log'[5]) = Digests(log[5]) BY <2>1
    <2> QED BY <1>1, <1>3, <2>1, <2>2, Zenon DEF Grows
  <1> QED
    BY <1>6, <1>7, <1>8, <1>9, MakesEventIntro, Zenon
    DEF CalculatePcr5, LogGptSeparator, MeasureGpt, LogExitBootInvocation

\* Unless calculate_pcr5 fails, the register remains one whose events count.
LEMMA Pcr5Follows ==
  ASSUME TypeInv, CalculatePcr5, NEW js, NEW es \in Seq(Digest), Grows(5, js, es)
  PROVE  UNCHANGED <<bank, log>> \/ Followed(5)'
  <1>1. /\ bank[5] \in Seq(Digest)
        /\ (cur' = 5 /\ pc' \in GptLabel \cup {"exited"}) \/ cur' = 6
    BY Pcr5Form, CountTypes
  <1>2. pc' = "exited" => UNCHANGED <<bank, log>>
    BY DEF CalculatePcr5, LogGptSeparator, MeasureGpt, LogExitBootInvocation, LogExitBootReturned, Goto, Return, Fail
  <1>3. bank'[5] # Unset BY <1>1, ExtendedSet DEF Grows
  <1>4. 6 > 5 OBVIOUS
  <1> QED BY <1>1, <1>2, <1>3, <1>4, Zenon DEF Followed

LEMMA MeasuredGrows ==
  ASSUME TypeInv, TypeInv', ~MemoryFails, NEW n \in Pcr, n = cur, NEW d, NEW text, Measured(d, text)
  PROVE  <<d>> \in Seq(Digest) /\ Grows(n, <<d>>, <<d>>)
  <1>1. d \in Digest /\ Digests(log'[n]) = Digests(log[n]) \o <<d>> BY LogGrows DEF Measured
  <1>2. bank'[n] = bank[n] \o <<d>> /\ \A m \in Pcr : m # n => bank'[m] = bank[m] /\ log'[m] = log[m]
    BY MeasuredAt
  <1> QED BY <1>1, <1>2, SeqOfOne, Zenon DEF Grows

\* Every step either leaves registers and logs alone, or resets a register, or
\* lets the register and the log of the PCR that is calculated grow.
LEMMA StepGrows ==
  ASSUME TypeInv, TypeInv', ~MemoryFails, [Next]_vars
  PROVE  \/ UNCHANGED <<bank, log>>
         \/ CallHandler
         \/ \E n \in Pcr, js \in Seq(Digest), es \in Seq(Digest) :
              /\ n = cur /\ pc \in HandlerLabel /\ bank[n] \in Seq(Digest)
              /\ Grows(n, js, es) /\ Followed(n)'
  <1>1. CASE UNCHANGED vars BY <1>1 DEF vars
  <1>2. CASE Parse BY <1>2, ParseForm
  <1>3. CASE Dispatch BY <1>3 DEF Dispatch, NotRequested, AllCalculated, Skip
  <1>4. CASE CalculatePcr5
    <2>1. cur = 5 /\ 5 \in Pcr /\ pc \in HandlerLabel /\ bank[5] \in Seq(Digest)
      <3>1. cur = 5 /\ 5 \in Pcr /\ pc \in GptLabel /\ bank[5] # Unset BY <1>4, Pcr5Form
      <3>2. pc \in HandlerLabel BY <3>1 DEF GptLabel, HandlerLabel
      <3> QED BY <3>1, <3>2, CountTypes
    <2> QED BY <1>4, <2>1, Pcr5Grows, Pcr5Follows, Zenon
  <1>5. CASE Form
    <2>1. CASE Unmeasured BY <2>1 DEF Unmeasured
    <2>2. ASSUME NEW d, NEW text, Measured(d, text)
          PROVE  \E n \in Pcr, js \in Seq(Digest), es \in Seq(Digest) :
                   /\ n = cur /\ pc \in HandlerLabel /\ bank[n] \in Seq(Digest)
                   /\ Grows(n, js, es) /\ Followed(n)'
      <3>1. PICK n \in Pcr : n = cur /\ n # 5 /\ bank[n] \in Seq(Digest) /\ pc \in HandlerLabel
        BY <2>2, MeasuredAt DEF Measured
      <3>2. <<d>> \in Seq(Digest) /\ Grows(n, <<d>>, <<d>>) BY <2>2, <3>1, MeasuredGrows
      <3>3. bank'[n] # Unset BY <3>1, <3>2, ExtendedSet DEF Grows
      <3> QED BY <3>1, <3>2, <3>3, Zenon DEF Followed
    <2> QED BY <1>5, <2>1, <2>2, Zenon DEF Form
  <1> QED BY <1>1, <1>2, <1>3, <1>4, <1>5, NextForm

LEMMA StepKeeps ==
  ASSUME TypeInv, Next, ~Parse
  PROVE  /\ UNCHANGED <<argv, opts>>
         /\ \/ cur' = cur
            \/ cur' = cur + 1 /\ (cur \in Pcr => cur \notin Requested \/ bank[cur] # Unset)
  <1>1. CASE UNCHANGED vars BY <1>1 DEF vars
  <1>2. CASE Dispatch
    BY <1>2 DEF Dispatch, NotRequested, CallHandler, AllCalculated, Goto, Return, Skip
  <1>3. CASE CalculatePcr5
    <2>1. cur = 5 /\ bank[5] # Unset /\ UNCHANGED <<argv, opts>> /\ (cur' = 5 \/ cur' = 6)
      BY <1>3, Pcr5Form
    <2>2. 5 + 1 = 6 OBVIOUS
    <2> QED BY <2>1, <2>2, Zenon
  <1>4. CASE Form
    <2>1. UNCHANGED <<argv, opts>> BY <1>4, Zenon DEF Form, Unmeasured, Measured
    <2>2. cur' = cur \/ (cur' = cur + 1 /\ pc \in HandlerLabel)
      BY <1>4, Zenon DEF Form, Moves
    <2>3. pc \in HandlerLabel => bank[cur] # Unset BY DEF TypeInv, Active
    <2> QED BY <2>1, <2>2, <2>3, Zenon
  <1> QED BY <1>1, <1>2, <1>3, <1>4, NextForm

LEMMA LastCur == \A c \in 0 .. 10 : c \notin 0 .. 9 => c = 10
  OBVIOUS

LEMMA EmptySet == <<>> \in Seq(Digest) /\ <<>> # Unset
  <1>1. <<>> \in Seq(Digest) OBVIOUS
  <1> QED BY <1>1, RegistersAssumption

LEMMA OutputTurn ==
  ASSUME TypeInv, TurnInv, Next, ~Parse, pc' \in {"open log"} \cup Printing
  PROVE  cur' = 10
  <1>1. CASE Output
    <2>1. pc \in {"open log"} \cup Printing /\ cur = 10 BY <1>1, OutputStarts DEF TurnInv
    <2>2. pc \notin HandlerLabel BY <2>1 DEF Printing, HandlerLabel
    <2>3. cur' = cur BY <1>1, <2>2, OutputForm, Zenon DEF Form, Moves
    <2> QED BY <2>1, <2>3, Zenon
  <1>2. CASE AllCalculated
    <2>1. cur' = cur /\ cur \in 0 .. 10 /\ cur \notin 0 .. 9
      BY <1>2 DEF AllCalculated, Goto, TypeInv, TypeOK, Calculated
    <2>2. cur = 10 BY <2>1, LastCur, Zenon
    <2> QED BY <2>1, <2>2, Zenon
  <1>3. CASE OutOfMemory BY <1>3 DEF OutOfMemory, Crash, Printing
  <1>4. CASE Terminated
    <2>1. cur' = cur /\ pc' = pc BY <1>4 DEF Terminated, vars
    <2> QED BY <2>1, Zenon DEF TurnInv
  <1>5. CASE Quiet BY <1>5 DEF Quiet, Waiting, HandlerLabel, Printing
  <1> QED BY <1>1, <1>2, <1>3, <1>4, <1>5, CalculatingQuiet

LEMMA TurnNext ==
  ASSUME TypeInv, TypeInv', OrderInv, TurnInv, ~MemoryFails, [Next]_vars
  PROVE  TurnInv'
  <1>1. CASE UNCHANGED vars BY <1>1 DEF vars, TurnInv, Requested
  <1>2. CASE Parse BY <1>2, ParseTurn
  <1>3. CASE Next /\ ~Parse
    <2>1. /\ UNCHANGED <<argv, opts>>
          /\ \/ cur' = cur
             \/ cur' = cur + 1 /\ (cur \in Pcr => cur \notin Requested \/ bank[cur] # Unset)
      BY <1>3, StepKeeps
    <2>2. cur \in 0 .. 10 /\ cur \in Int BY DEF TypeInv, TypeOK
    <2>3. Requested' = Requested BY <2>1 DEF Requested
    <2>4. ASSUME NEW n \in Pcr, n \in Requested, n < cur'
          PROVE  bank[n] # Unset
      <3>1. n < cur \/ (n = cur /\ cur' = cur + 1) BY <2>1, <2>2, <2>4 DEF Pcr
      <3>2. CASE n < cur BY <2>4, <3>2 DEF TurnInv
      <3>3. CASE n = cur /\ cur' = cur + 1
        <4>1. cur' # cur BY <2>2, <3>3
        <4> QED BY <2>1, <2>4, <3>3, <4>1, Zenon
      <3> QED BY <3>1, <3>2, <3>3
    <2>5. ASSUME NEW n \in Pcr, bank[n] # Unset
          PROVE  bank'[n] # Unset
      <3>1. CASE UNCHANGED <<bank, log>> BY <2>5, <3>1
      <3>2. CASE CallHandler
        <4>1. bank'[cur] = <<>> /\ \A m \in Pcr : m # cur => bank'[m] = bank[m]
          BY <3>2, CallHandlerForm
        <4>2. <<>> # Unset BY EmptySet
        <4> QED BY <2>5, <4>1, <4>2
      <3>3. ASSUME NEW m \in Pcr, NEW js \in Seq(Digest), NEW es \in Seq(Digest), bank[m] \in Seq(Digest),
                   Grows(m, js, es)
            PROVE  bank'[n] # Unset
        <4>1. bank'[m] = bank[m] \o es /\ (n # m => bank'[n] = bank[n]) BY <3>3 DEF Grows
        <4>2. bank[m] \o es # Unset BY <3>3, ExtendedSet
        <4> QED BY <2>5, <4>1, <4>2
      <3> QED BY <3>1, <3>2, <3>3, StepGrows, Zenon
    <2>6. \A n \in Pcr : n \in Requested' /\ n < cur' => bank'[n] # Unset
      BY <2>3, <2>4, <2>5
    <2>7. pc' \in {"open log"} \cup Printing => cur' = 10 BY <1>3, OutputTurn
    <2>8. \A k \in DOMAIN argv' : PcrsCalculated(argv'[k]) BY <2>1 DEF TurnInv
    <2>9. Requested' \subseteq Calculated BY <2>3 DEF TurnInv
    <2> QED BY <2>6, <2>7, <2>8, <2>9, Zenon DEF TurnInv, PcrsCalculated, Calculated
  <1> QED BY <1>1, <1>2, <1>3

-----------------------------------------------------------------------------
(* The mapping *)

Journal == [n \in Pcr |-> Digests(log[n])]

Shown ==
  {n \in Pcr : \E k \in DOMAIN out :
     \/ out[k].t = "pcr" /\ out[k].pcr = n
     \/ out[k].t = "aggregate" /\ n \in Requested}

\* What a step does to registers and journal: one register is reset or
\* extended, or some are published.
Resets(n) == bank[n] = Unset /\ bank' = [bank EXCEPT ![n] = <<>>] /\ UNCHANGED <<Journal, Shown>>

Extends(n, js, es) ==
  /\ bank[n] # Unset /\ n \notin Shown /\ Shown' = Shown
  /\ Journal' = [Journal EXCEPT ![n] = @ \o js] /\ bank' = [bank EXCEPT ![n] = @ \o es]

Shows(ns) ==
  (\A n \in ns : bank[n] # Unset) /\ cur = 10 /\ Shown' = Shown \cup ns /\ UNCHANGED <<bank, Journal>>

LEMMA NothingShown == out = <<>> => Shown = {}
  BY DEF Shown

LEMMA NothingShownNext == out' = <<>> => Shown' = {}
  BY DEF Shown

LEMMA SameShown == UNCHANGED <<opts, out>> => Shown' = Shown
  BY DEF Shown, Requested

LEMMA SameJournal == log' = log => Journal' = Journal
  BY DEF Journal, Digests

\* The registers that a sequence of tokens shows.
ShownBy(s) ==
  {n \in Pcr : \E k \in DOMAIN s :
     \/ s[k].t = "pcr" /\ s[k].pcr = n
     \/ s[k].t = "aggregate" /\ n \in Requested}

LEMMA ShownIs == Shown = ShownBy(out) /\ (opts' = opts => Shown' = ShownBy(out'))
  BY DEF Shown, ShownBy, Requested

LEMMA ShownByJoin ==
  ASSUME NEW T, NEW a \in Seq(T), NEW b \in Seq(T)
  PROVE  ShownBy(a \o b) = ShownBy(a) \cup ShownBy(b)
  <1> DEFINE c == a \o b
  <1>1. \A k \in DOMAIN c : (\E j \in DOMAIN a : c[k] = a[j]) \/ \E j \in DOMAIN b : c[k] = b[j]
    BY ConcatElements
  <1>2. /\ \A j \in DOMAIN a : \E k \in DOMAIN c : c[k] = a[j]
        /\ \A j \in DOMAIN b : \E k \in DOMAIN c : c[k] = b[j] BY ConcatKeeps
  <1> HIDE DEF c
  <1>3. ShownBy(c) \subseteq ShownBy(a) \cup ShownBy(b) BY <1>1, Zenon DEF ShownBy
  <1>4. ASSUME NEW s, \A j \in DOMAIN s : \E k \in DOMAIN c : c[k] = s[j]
        PROVE  ShownBy(s) \subseteq ShownBy(c)
    <2> SUFFICES ASSUME NEW n \in ShownBy(s) PROVE n \in ShownBy(c) OBVIOUS
    <2>1. PICK j \in DOMAIN s : (s[j].t = "pcr" /\ s[j].pcr = n) \/ (s[j].t = "aggregate" /\ n \in Requested)
      BY Zenon DEF ShownBy
    <2>2. PICK k \in DOMAIN c : c[k] = s[j] BY <1>4, <2>1
    <2>3. n \in Pcr /\ ((c[k].t = "pcr" /\ c[k].pcr = n) \/ (c[k].t = "aggregate" /\ n \in Requested))
      BY <2>1, <2>2, Zenon DEF ShownBy
    <2> QED BY <2>3, Zenon DEF ShownBy
  <1>5. ShownBy(a) \subseteq ShownBy(c) /\ ShownBy(b) \subseteq ShownBy(c)
    BY <1>2, <1>4, Zenon
  <1> QED BY <1>3, <1>5, Zenon DEF c

LEMMA ShownByLog == \A s \in Seq(TokenOf(LogTokenType)) : ShownBy(s) = {}
  BY SilentTokens, Zenon DEF ShownBy

LEMMA ShownByLine ==
  ASSUME NEW n \in Pcr
  PROVE  ShownBy(<<Line(n)>>) = {n}
  <1>1. Line(n).t = "pcr" /\ Line(n).pcr = n BY DEF Line, Token
  <1> HIDE DEF Line
  <1>2. \A x : x.t = "pcr" => {m \in Pcr : \E k \in DOMAIN <<x>> :
                                  \/ <<x>>[k].t = "pcr" /\ <<x>>[k].pcr = m
                                  \/ <<x>>[k].t = "aggregate" /\ m \in Requested} = {m \in Pcr : x.pcr = m}
    OBVIOUS
  <1>3. ShownBy(<<Line(n)>>) = {m \in Pcr : Line(n).pcr = m}
    BY <1>1, <1>2, Zenon DEF ShownBy
  <1> QED BY <1>1, <1>3

LEMMA ShownByAggregate == Requested \subseteq Pcr => ShownBy(<<Aggregate>>) = Requested
  <1>1. Aggregate.t = "aggregate" BY DEF Aggregate, Token
  <1> HIDE DEF Aggregate
  <1>2. \A x : x.t = "aggregate" => {m \in Pcr : \E k \in DOMAIN <<x>> :
                                        \/ <<x>>[k].t = "pcr" /\ <<x>>[k].pcr = m
                                        \/ <<x>>[k].t = "aggregate" /\ m \in Requested} = {m \in Pcr : m \in Requested}
    OBVIOUS
  <1>3. ShownBy(<<Aggregate>>) = {m \in Pcr : m \in Requested}
    BY <1>1, <1>2, Zenon DEF ShownBy
  <1> QED BY <1>3

LEMMA OutputShows ==
  ASSUME TypeInv, RequestedInv, SilentInv, TurnInv, Output
  PROVE  UNCHANGED <<bank, Journal, Shown>> \/ \E ns \in SUBSET Pcr : Shows(ns)
  <1>1. UNCHANGED <<opts, bank, log>> BY OutputSteps
  <1>2. bank' = bank /\ Journal' = Journal /\ Shown = ShownBy(out) /\ Shown' = ShownBy(out')
    BY <1>1, SameJournal, ShownIs
  <1>3. out \in Seq(TokenOf(TokenType)) /\ cur = 10 /\ Requested \subseteq Pcr /\ Requested \subseteq Calculated
    <2>1. pc \in {"open log"} \cup Printing BY OutputStarts
    <2>2. Requested \subseteq Pcr
      BY <2>1, PointsDistinct, Zenon DEF RequestedInv, Calculating
    <2> QED BY <2>1, <2>2 DEF SilentInv, TurnInv
  <1>4. \A n \in Requested : bank[n] # Unset
    <2>1. \A n \in Requested : n \in Pcr /\ n < cur BY <1>3 DEF Calculated
    <2> QED BY <2>1 DEF TurnInv
  <1>5. CASE pc = "print log" /\ Fail BY <1>2, <1>5 DEF Fail
  <1>6. ASSUME NEW ts \in Seq(TokenOf(LogTokenType)), PrintsLog(ts)
        PROVE  Shown' = Shown
    <2>1. out' = out \o ts /\ ts \in Seq(TokenOf(TokenType))
      BY <1>6, TokenSets DEF PrintsLog
    <2>2. ShownBy(out') = ShownBy(out) \cup ShownBy(ts) BY <1>3, <2>1, ShownByJoin
    <2> QED BY <1>2, <2>2, ShownByLog
  <1>7. ASSUME NEW n \in Requested, NEW ts \in Seq(TokenOf(LogTokenType)), PrintsLine(n, ts)
        PROVE  Shows({n}) /\ {n} \in SUBSET Pcr
    <2> DEFINE mid == out \o <<Line(n)>>
    <2>1. /\ out' = mid \o ts /\ ts \in Seq(TokenOf(TokenType)) /\ n \in Pcr
          /\ <<Line(n)>> \in Seq(TokenOf(TokenType))
      BY <1>3, <1>7, LineType, TokenSets DEF PrintsLine
    <2>2. mid \in Seq(TokenOf(TokenType)) BY <1>3, <2>1, TokensJoin, Zenon
    <2>4. ShownBy(mid) = ShownBy(out) \cup ShownBy(<<Line(n)>>) BY <1>3, <2>1, ShownByJoin
    <2> HIDE DEF mid
    <2>3. ShownBy(out') = ShownBy(mid) \cup ShownBy(ts) BY <2>1, <2>2, ShownByJoin
    <2>5. Shown' = Shown \cup {n} BY <1>2, <2>1, <2>3, <2>4, ShownByLog, ShownByLine
    <2> QED BY <1>2, <1>3, <1>4, <2>1, <2>5 DEF Shows
  <1>8. CASE PrintsAggregate
    <2>1. CASE out' = out BY <1>2, <2>1
    <2>2. CASE out' = out \o <<Aggregate>>
      <3>1. <<Aggregate>> \in Seq(TokenOf(TokenType))
        BY <1>3, AggregateType, SeqOfOne, Zenon DEF Aggregate
      <3>2. ShownBy(out') = ShownBy(out) \cup ShownBy(<<Aggregate>>)
        BY <1>3, <2>2, <3>1, ShownByJoin
      <3>3. Shown' = Shown \cup Requested BY <1>2, <1>3, <3>2, ShownByAggregate, Zenon
      <3>4. Shows(Requested) BY <1>2, <1>3, <1>4, <3>3 DEF Shows
      <3> QED BY <1>3, <3>4
    <2> QED BY <1>8, <2>1, <2>2 DEF PrintsAggregate
  <1> QED BY <1>2, <1>5, <1>6, <1>7, <1>8, OutputSteps, Zenon

\* A reset, an extension, as seen on the functions.
LEMMA ResetForm == TypeInv /\ OrderInv /\ CallHandler => cur \in Pcr /\ bank[cur] = Unset
                                                        /\ bank' = [bank EXCEPT ![cur] = <<>>] /\ log' = log
  BY CallHandlerForm, DispatchStarts DEF CallHandler, Dispatch

LEMMA GrowsForm ==
  ASSUME TypeInv, TypeInv', NEW n \in Pcr, NEW js, NEW es, Grows(n, js, es)
  PROVE  bank' = [bank EXCEPT ![n] = @ \o es] /\ Journal' = [Journal EXCEPT ![n] = @ \o js]
  <1>1. /\ bank \in [Pcr -> Seq(Digest) \cup {Unset}] /\ bank' \in [Pcr -> Seq(Digest) \cup {Unset}]
        /\ bank'[n] = bank[n] \o es /\ \A m \in Pcr : m # n => bank'[m] = bank[m]
    BY DEF TypeInv, TypeOK, Grows
  <1>2. bank' = [bank EXCEPT ![n] = @ \o es] BY <1>1
  <1>3. /\ Journal = [m \in Pcr |-> Digests(log[m])] /\ Journal' = [m \in Pcr |-> Digests(log'[m])]
        /\ Digests(log'[n]) = Digests(log[n]) \o js
        /\ \A m \in Pcr : m # n => Digests(log'[m]) = Digests(log[m])
    BY DEF Grows, Journal, Digests
  <1>4. Journal' = [Journal EXCEPT ![n] = @ \o js] BY <1>3
  <1> QED BY <1>2, <1>4

\* A step of the calculation prints nothing and leaves the options alone.
LEMMA CalculatesShown ==
  ASSUME TypeInv, Next, ~Parse, ~Output
  PROVE  Shown' = Shown
  <1>1. opts' = opts BY StepKeeps
  <1>2. CASE OutOfMemory BY <1>1, <1>2, SameShown DEF OutOfMemory, Crash
  <1>3. CASE Terminated BY <1>1, <1>3, SameShown DEF Terminated, vars
  <1>4. CASE Quiet BY <1>1, <1>4, SameShown DEF Quiet
  <1>5. CASE AllCalculated BY <1>1, <1>5, SameShown DEF AllCalculated, Skip
  <1> QED BY <1>2, <1>3, <1>4, <1>5, CalculatingQuiet

\* Every step is one of the registers, or does not concern them.
LEMMA StepOfRegisters ==
  ASSUME TypeInv, TypeInv', OrderInv, RequestedInv, SilentInv, TurnInv, ~MemoryFails, [Next]_vars
  PROVE  \/ UNCHANGED <<bank, Journal, Shown>>
         \/ \E n \in Pcr : Resets(n)
         \/ \E n \in Pcr, js \in Seq(Digest), es \in Seq(Digest) : Extends(n, js, es) /\ Followed(n)'
         \/ \E ns \in SUBSET Pcr : Shows(ns)
  <1>1. CASE UNCHANGED vars BY <1>1, SameShown, SameJournal DEF vars
  <1>2. CASE Output BY <1>2, OutputShows
  <1>3. CASE Parse
    <2>1. pc \in Waiting /\ UNCHANGED <<bank, log>>
      BY <1>3, ParseStarts, ParseForm DEF Waiting
    <2>2. out = <<>> /\ out' = out BY <1>3, <2>1, SilentBefore, MainQuiet DEF Quiet
    <2>3. Shown = {} /\ Shown' = {} BY <2>2, NothingShown, NothingShownNext
    <2> QED BY <2>1, <2>3, SameJournal
  <1>4. CASE Next /\ ~Parse /\ ~Output
    <2>1. Shown' = Shown BY <1>4, CalculatesShown
    <2>2. CASE UNCHANGED <<bank, log>> BY <2>1, <2>2, SameJournal
    <2>3. CASE CallHandler BY <2>1, <2>3, ResetForm, SameJournal, Zenon DEF Resets
    <2>4. ASSUME NEW n \in Pcr, NEW js \in Seq(Digest), NEW es \in Seq(Digest), n = cur, pc \in HandlerLabel,
                 Grows(n, js, es)
          PROVE  Extends(n, js, es)
      <3>1. Shown = {} BY <2>4, SilentBefore, NothingShown
      <3>2. bank[n] # Unset BY <2>4 DEF TypeInv, Active
      <3> QED BY <2>1, <2>4, <3>1, <3>2, GrowsForm DEF Extends
    <2> QED BY <2>2, <2>3, <2>4, StepGrows, Zenon
  <1> QED BY <1>1, <1>2, <1>3, <1>4

LEMMA AddedIs ==
  ASSUME NEW T, NEW s \in Seq(T), NEW t \in Seq(T)
  PROVE  Registers!Added(s, s \o t) = t
  <1> DEFINE c == s \o t
             n == Len(s)
             m == Len(t)
             u == SubSeq(c, n + 1, n + m)
  <1>1. /\ c \in Seq(T) /\ n \in Nat /\ m \in Nat /\ Len(c) = n + m
        /\ \A k \in 1 .. m : c[n + k] = t[k] OBVIOUS
  <1> HIDE DEF c, n, m
  <1>2. u \in Seq(T) /\ Len(u) = m /\ \A k \in 1 .. m : u[k] = c[n + k] BY <1>1
  <1> HIDE DEF u
  <1>3. u = t BY <1>1, <1>2, SeqEqual DEF m
  <1> QED BY <1>1, <1>3 DEF Registers!Added, c, n, u

\* What the journal of a register lists, its register has, and conversely.
LEMMA JournalAccounts ==
  ASSUME TypeInv, EventsInv, ~MemoryFails, NEW n \in Pcr, Followed(n)
  PROVE  Registers!Accounts(Digests(log[n]), bank[n])
  <1>1. bank[n] \in Seq(Digest) /\ Digests(log[n]) \in Seq(Digest)
    BY CountTypes DEF Followed
  <1>2. \A s \in Seq(Digest) : Registers!Elements(s) \subseteq Digest
    BY DEF Registers!Elements
  <1>3. ASSUME NEW d \in Digest
        PROVE  Registers!Times(d, bank[n]) <= Registers!Times(d, Digests(log[n]))
    <2>1. Logged(n, d) = Extended(n, d) + Due(n, d) BY DEF EventsInv, Counted
    <2>2. Logged(n, d) \in Nat /\ Extended(n, d) \in Nat /\ Due(n, d) \in Nat
      BY CountTypes DEF Followed
    <2>3. Extended(n, d) <= Logged(n, d) BY <2>1, <2>2
    <2> QED BY <2>3, Zenon DEF Logged, Extended
  <1> QED BY <1>1, <1>2, <1>3, Zenon DEF Registers!Accounts

AllAccount == \A n \in Pcr : Followed(n) => Registers!Accounts(Digests(log[n]), bank[n])

RefinementInv == TypeInv /\ OrderInv /\ EventsInv /\ RequestedInv /\ SilentInv /\ TurnInv

LEMMA RefinementInvariant ==
  ASSUME ~MemoryFails, OnlyCalculated
  PROVE  Spec => []RefinementInv
  <1>1. Init => RefinementInv
    BY InitType, ReplayInit, EventsInit, SilentInit, TurnInit DEF RefinementInv
  <1>2. RefinementInv /\ [Next]_vars => RefinementInv'
    <2> SUFFICES ASSUME RefinementInv, [Next]_vars PROVE RefinementInv' OBVIOUS
    <2>1. TypeInv' /\ OrderInv' /\ EventsInv' /\ RequestedInv' /\ SilentInv'
      BY NextType, OrderNext, EventsNext, RequestedNext, SilentNext DEF RefinementInv
    <2>2. TurnInv' BY <2>1, TurnNext DEF RefinementInv
    <2> QED BY <2>1, <2>2 DEF RefinementInv
  <1> QED BY <1>1, <1>2, PTL DEF Spec

\* ImplementsRegisters holds of every run in which allocations succeed and
\* only registers are asked for that the program calculates: a register is
\* extended between its reset and its output only, with digests that its log
\* accounts for, and it is printed when log and register balance
\* (main.c:430-545).  Where memory fails a log can be lost, and a register that
\* is not calculated is printed as the program's memory has it.
THEOREM ImplementsJournal ==
  ASSUME ~MemoryFails, OnlyCalculated
  PROVE  Spec => ImplementsRegisters
  <1>1. Init => Registers!AbsInit
    <2> SUFFICES ASSUME Init PROVE Registers!AbsInit OBVIOUS
    <2>1. bank = [n \in Pcr |-> Unset] /\ \A n \in Pcr : log[n] = <<>> BY DEF Init
    <2>2. Shown = {} BY NothingShown DEF Init
    <2>3. Journal = [n \in Pcr |-> <<>>] BY <2>1 DEF Journal, Digests
    <2> QED BY <2>1, <2>2, <2>3, Zenon DEF Registers!AbsInit, Journal, Digests, Shown
  <1>2. RefinementInv => AllAccount BY JournalAccounts DEF RefinementInv, AllAccount
  <1>3. RefinementInv /\ RefinementInv' /\ AllAccount' /\ [Next]_vars => [Registers!AbsNext]_(Registers!absVars)
    <2> SUFFICES ASSUME RefinementInv, RefinementInv', AllAccount', [Next]_vars
                 PROVE  [Registers!AbsNext]_(Registers!absVars) OBVIOUS
    <2>1. CASE UNCHANGED <<bank, Journal, Shown>>
      BY <2>1, Zenon DEF Registers!absVars, Journal, Digests, Shown
    <2>2. ASSUME NEW n \in Pcr, Resets(n)
          PROVE  Registers!Reset(n)
      BY <2>2, Zenon DEF Registers!Reset, Resets, Journal, Digests, Shown
    <2>3. ASSUME NEW ns \in SUBSET Pcr, Shows(ns)
          PROVE  Registers!Publish(ns)
      <3>1. \A n \in ns : bank[n] # Unset /\ Registers!Balanced(bank[n], Journal[n])
        <4> SUFFICES ASSUME NEW n \in ns PROVE bank[n] # Unset /\ Registers!Balanced(bank[n], Journal[n])
          OBVIOUS
        <4>1. n \in Pcr /\ bank[n] # Unset /\ cur > 5 BY <2>3 DEF Shows
        <4>2. Registers!Balanced(bank[n], Digests(log[n]))
          BY <4>1, LogAccounts DEF RefinementInv
        <4> QED BY <4>1, <4>2 DEF Journal
      <3> QED BY <2>3, <3>1, Zenon DEF Registers!Publish, Shows, Journal, Digests, Shown
    <2>4. ASSUME NEW n \in Pcr, NEW js \in Seq(Digest), NEW es \in Seq(Digest), Extends(n, js, es), Followed(n)'
          PROVE  Registers!AbsNext
      <3>1. /\ bank[n] # Unset /\ bank[n] \in Seq(Digest) /\ Journal[n] = Digests(log[n])
            /\ Journal[n] \in Seq(Digest)
        BY <2>4, CountTypes DEF Extends, RefinementInv, Journal
      <3>2. Journal'[n] = Journal[n] \o js /\ bank'[n] = bank[n] \o es
        <4>1. DOMAIN Journal = Pcr /\ DOMAIN bank = Pcr
          BY DEF Journal, RefinementInv, TypeInv, TypeOK
        <4> QED BY <2>4, <4>1 DEF Extends
      <3>3. js = Registers!Added(Journal[n], Journal'[n]) /\ es = Registers!Added(bank[n], bank'[n])
        BY <3>1, <3>2, AddedIs
      <3>4. Registers!Accounts(Journal[n] \o js, bank[n] \o es)
        <4>1. Registers!Accounts(Journal'[n], bank'[n])
          BY <2>4 DEF AllAccount, Journal, Digests
        <4> QED BY <3>2, <4>1
      <3> DEFINE Adds(r) ==
                   /\ bank[r] # Unset /\ r \notin Shown
                   /\ Registers!Accounts(Journal[r] \o Registers!Added(Journal[r], Journal'[r]),
                                         bank[r] \o Registers!Added(bank[r], bank'[r]))
                   /\ Journal' = [Journal EXCEPT ![r] = @ \o Registers!Added(Journal[r], Journal'[r])]
                   /\ bank' = [bank EXCEPT ![r] = @ \o Registers!Added(bank[r], bank'[r])]
                   /\ UNCHANGED Shown
      <3>5. Adds(n)
        <4> HIDE DEF Journal, Shown
        <4> QED BY <2>4, <3>3, <3>4, Zenon DEF Extends
      <3>6. \E r \in Pcr : Adds(r) BY <3>5, Zenon
      <3> QED BY <3>6, Zenon DEF Registers!AbsNext, Registers!Advance, Journal, Digests, Shown
    <2>5. ASSUME NEW n \in Pcr, Resets(n)
          PROVE  Registers!AbsNext BY <2>2, <2>5, Zenon DEF Registers!AbsNext
    <2>6. ASSUME NEW ns \in SUBSET Pcr, Shows(ns)
          PROVE  Registers!AbsNext BY <2>3, <2>6, Zenon DEF Registers!AbsNext
    <2> QED BY <2>1, <2>4, <2>5, <2>6, StepOfRegisters DEF RefinementInv
  <1> QED BY <1>1, <1>2, <1>3, RefinementInvariant, PTL DEF Spec, ImplementsRegisters, Registers!AbsSpec

-----------------------------------------------------------------------------
(* The files below a path *)

Entries(S) == UNION {Children[d] : d \in S \cap Dir}

IsLevels(g, p, n) ==
  g = [k \in 0 .. n |-> IF k = 0 THEN {p} ELSE g[k - 1] \cup UNION {Children[d] : d \in g[k - 1] \cap Dir}]

\* The recursive function by which Below is defined, and its solution.
LevelFunction(p, n) == CHOOSE g : IsLevels(g, p, n)

LEMMA LevelsExist ==
  ASSUME NEW p, NEW n \in Nat
  PROVE  \E g : IsLevels(g, p, n)
  <1> DEFINE S == {m \in 0 .. n : \E g : IsLevels(g, p, m)}
  <1>1. 0 \in S
    <2> DEFINE g == [k \in 0 .. 0 |-> {p}]
    <2>1. IsLevels(g, p, 0)
      <3>1. \A k \in 0 .. 0 : k = 0 OBVIOUS
      <3> QED BY <3>1, Zenon DEF IsLevels
    <2>2. \E h : IsLevels(h, p, 0) BY <2>1
    <2> QED BY <2>2
  <1>2. ASSUME NEW m \in 0 .. n - 1, m \in S PROVE m + 1 \in S
    <2>1. PICK g : IsLevels(g, p, m) BY <1>2
    <2> DEFINE F(f, k) == IF k = 0 THEN {p} ELSE f[k - 1] \cup UNION {Children[d] : d \in f[k - 1] \cap Dir}
               h == [k \in 0 .. m + 1 |-> F(g, k)]
    <2>2. ASSUME NEW k \in 0 .. m PROVE h[k] = g[k]
      <3>1. k \in 0 .. m + 1 OBVIOUS
      <3>2. h[k] = F(g, k) BY <3>1, Zenon
      <3>3. g[k] = F(g, k) BY <2>1, Zenon DEF IsLevels
      <3> QED BY <3>2, <3>3
    <2>3. ASSUME NEW k \in 0 .. m + 1
          PROVE  F(g, k) = F(h, k)
      <3>1. CASE k = 0 BY <3>1
      <3>2. CASE k # 0
        <4>1. k - 1 \in 0 .. m BY <3>2
        <4>2. h[k - 1] = g[k - 1] BY <4>1, <2>2
        <4> QED BY <3>2, <4>2
      <3> QED BY <3>1, <3>2
    <2>4. IsLevels(h, p, m + 1) BY <2>3, Zenon DEF IsLevels
    <2>5. m + 1 \in 0 .. n OBVIOUS
    <2> QED BY <2>4, <2>5
  <1>3. \A m \in 0 .. n : m \in S
    <2> HIDE DEF S
    <2> QED BY <1>1, <1>2, InductionUpTo
  <1>4. n \in S BY <1>3
  <1> QED BY <1>4

\* The names at most k directories below p.
Level(p, k) == LevelFunction(p, Cardinality(Dir))[k]

Depths == Cardinality(Dir)

LEMMA LevelsUnfold ==
  /\ Depths \in Nat
  /\ \A p : /\ Level(p, 0) = {p}
            /\ \A k \in 1 .. Depths : Level(p, k) = Level(p, k - 1) \cup Entries(Level(p, k - 1))
            /\ Below(p) = Level(p, Depths)
  <1>1. Depths \in Nat BY TreeAssumption, FS_CardinalityType DEF Depths
  <1>2. ASSUME NEW p
        PROVE  /\ Level(p, 0) = {p}
               /\ \A k \in 1 .. Depths : Level(p, k) = Level(p, k - 1) \cup Entries(Level(p, k - 1))
               /\ Below(p) = Level(p, Depths)
    <2> DEFINE g == LevelFunction(p, Cardinality(Dir))
               n == Depths
    <2>1. IsLevels(g, p, n) BY <1>1, LevelsExist, Zenon DEF LevelFunction, Depths
    <2>2. g = [k \in 0 .. n |-> IF k = 0 THEN {p} ELSE g[k - 1] \cup UNION {Children[d] : d \in g[k - 1] \cap Dir}]
      BY <2>1 DEF IsLevels
    <2> HIDE DEF g, n
    <2>3. \A k \in 0 .. n : g[k] = IF k = 0 THEN {p} ELSE g[k - 1] \cup UNION {Children[d] : d \in g[k - 1] \cap Dir}
      BY <2>2, Zenon
    <2>4. 0 \in 0 .. n /\ \A k \in 1 .. n : k \in 0 .. n /\ k # 0 BY <1>1 DEF n
    <2>5. g[0] = {p} /\ \A k \in 1 .. n : g[k] = g[k - 1] \cup Entries(g[k - 1])
      BY <2>3, <2>4, Zenon DEF Entries
    <2>6. Below(p) = g[n] BY Zenon DEF Below, g, n, LevelFunction, Depths, IsLevels
    <2> QED BY <2>5, <2>6, Zenon DEF g, n, Level
  <1> QED BY <1>1, <1>2

LEMMA EntriesOf ==
  /\ \A S : \A d \in S \cap Dir : Children[d] \subseteq Entries(S)
  /\ \A S : \A x \in Entries(S) : \E d \in S \cap Dir : x \in Children[d]
  /\ \A S, T : S \cap Dir \subseteq T => Entries(S) \subseteq Entries(T) BY DEF Entries

\* A set that holds p and is closed under listing holds all that is below p.
LEMMA BelowLeast ==
  ASSUME NEW p, NEW S, p \in S, Entries(S) \subseteq S
  PROVE  Below(p) \subseteq S
  <1> DEFINE K == {k \in 0 .. Depths : Level(p, k) \subseteq S}
  <1>1. 0 \in K BY LevelsUnfold
  <1>2. ASSUME NEW k \in 0 .. Depths - 1, k \in K PROVE k + 1 \in K
    <2>1. k + 1 \in 1 .. Depths /\ (k + 1) - 1 = k /\ k + 1 \in 0 .. Depths BY LevelsUnfold
    <2>2. Level(p, k + 1) = Level(p, k) \cup Entries(Level(p, k))
      BY <2>1, LevelsUnfold, Zenon
    <2>3. Entries(Level(p, k)) \subseteq Entries(S)
      <3>1. Level(p, k) \subseteq S BY <1>2
      <3> QED BY <3>1, EntriesOf
    <2> QED BY <1>2, <2>1, <2>2, <2>3
  <1>3. \A k \in 0 .. Depths : k \in K
    <2> HIDE DEF K
    <2> QED BY <1>1, <1>2, LevelsUnfold, InductionUpTo
  <1>4. Depths \in K BY <1>3, LevelsUnfold
  <1> QED BY <1>4, LevelsUnfold

LEMMA ChildrenType == \A d \in Dir : Children[d] \subseteq File \cup Dir
  BY FilesAssumption

\* The directories that the k-th level adds.
Newly(p, k) == (Level(p, k) \ Level(p, k - 1)) \cap Dir

LEMMA LevelNext ==
  ASSUME NEW p, NEW k \in 1 .. Depths
  PROVE  /\ Level(p, k) = Level(p, k - 1) \cup Entries(Level(p, k - 1))
         /\ k # 1 => Level(p, k - 1) = Level(p, k - 2) \cup Entries(Level(p, k - 2))
         /\ k # 1 => \A x \in Newly(p, k) : \E d \in Newly(p, k - 1) : x \in Children[d]
  <1>1. Level(p, k) = Level(p, k - 1) \cup Entries(Level(p, k - 1)) BY LevelsUnfold
  <1>2. ASSUME k # 1
        PROVE  /\ Level(p, k - 1) = Level(p, k - 2) \cup Entries(Level(p, k - 2))
               /\ Newly(p, k - 1) = (Level(p, k - 1) \ Level(p, k - 2)) \cap Dir
    <2>1. k - 1 \in 1 .. Depths /\ (k - 1) - 1 = k - 2 BY <1>2, LevelsUnfold
    <2> QED BY <2>1, LevelsUnfold DEF Newly
  <1>3. ASSUME k # 1, NEW x \in Newly(p, k)
        PROVE  \E d \in Newly(p, k - 1) : x \in Children[d]
    <2>1. x \in Entries(Level(p, k - 1)) /\ x \notin Level(p, k - 1) BY <1>1, <1>3 DEF Newly
    <2>2. PICK d \in Level(p, k - 1) \cap Dir : x \in Children[d] BY <2>1, EntriesOf
    <2>3. d \notin Level(p, k - 2)
      <3>1. SUFFICES ASSUME d \in Level(p, k - 2) PROVE x \in Level(p, k - 1) BY <2>1
      <3>2. Children[d] \subseteq Entries(Level(p, k - 2)) BY <3>1, EntriesOf
      <3> QED BY <1>2, <1>3, <2>2, <3>2
    <2> QED BY <1>2, <1>3, <2>2, <2>3
  <1> QED BY <1>1, <1>2, <1>3

\* No chain of directories is longer than their number, so Below is complete.
LEMMA BelowClosed ==
  ASSUME NEW p
  PROVE  p \in Below(p) /\ Entries(Below(p)) \subseteq Below(p)
  <1>1. PICK level \in [Dir -> 1 .. Depths] :
          \A d \in Dir : \A e \in Children[d] \cap Dir : level[e] < level[d]
    BY TreeAssumption DEF Depths
  <1>2. \A d \in Dir : level[d] \in 1 .. Depths BY <1>1
  <1>3. Depths \in Nat BY LevelsUnfold
  <1>4. \A k \in 0 .. Depths : p \in Level(p, k)
    <2> DEFINE K == {k \in 0 .. Depths : p \in Level(p, k)}
    <2>1. 0 \in K BY <1>3, LevelsUnfold
    <2>2. ASSUME NEW k \in 0 .. Depths - 1, k \in K PROVE k + 1 \in K
      <3>1. k + 1 \in 1 .. Depths /\ (k + 1) - 1 = k BY <1>3
      <3>2. Level(p, k + 1) = Level(p, k) \cup Entries(Level(p, k))
        BY <3>1, LevelsUnfold, Zenon
      <3> QED BY <2>2, <3>1, <3>2
    <2>3. \A k \in 0 .. Depths : k \in K
      <3> HIDE DEF K
      <3> QED BY <1>3, <2>1, <2>2, InductionUpTo
    <2> QED BY <2>3
  <1>5. CASE p \notin Dir
    <2> DEFINE S == {p}
    <2>1. Entries(S) \subseteq S BY <1>5, EntriesOf
    <2>2. Below(p) \subseteq S
      <3> HIDE DEF S
      <3>1. p \in S BY DEF S
      <3> QED BY <2>1, <3>1, BelowLeast
    <2>3. p \in Below(p) BY <1>3, <1>4, LevelsUnfold
    <2>4. Below(p) = S BY <2>2, <2>3
    <2> QED BY <2>1, <2>3, <2>4
  <1>6. CASE p \in Dir
    <2> DEFINE K == {k \in 0 .. Depths : k # 0 => \A x \in Newly(p, k) : level[x] + k <= level[p]}
    <2>1. 0 \in K BY <1>3
    <2>2. ASSUME NEW k \in 0 .. Depths - 1, k \in K PROVE k + 1 \in K
      <3>1. k + 1 \in 1 .. Depths /\ (k + 1) - 1 = k /\ k + 1 \in 0 .. Depths BY <1>3
      <3> SUFFICES ASSUME NEW x \in Newly(p, k + 1) PROVE level[x] + (k + 1) <= level[p]
        BY <3>1
      <3>2. x \in Dir BY DEF Newly
      <3>3. CASE k = 0
        <4>1. x \in Level(p, k + 1) /\ x \notin Level(p, k) BY <3>1 DEF Newly
        <4>2. Level(p, k) = {p} /\ Level(p, k + 1) = Level(p, k) \cup Entries(Level(p, k))
          BY <3>1, <3>3, LevelsUnfold
        <4>3. x \in Entries({p}) BY <4>1, <4>2
        <4>4. x \in Children[p] BY <4>3, EntriesOf
        <4>5. level[x] < level[p] /\ level[x] \in Nat /\ level[p] \in Nat
          BY <1>1, <1>2, <1>3, <1>6, <3>2, <4>4
        <4> QED BY <3>3, <4>5
      <3>4. CASE k # 0
        <4>1. k + 1 # 1 BY <3>4
        <4>2. PICK d \in Newly(p, k) : x \in Children[d] BY <3>1, <4>1, LevelNext
        <4>3. d \in Dir BY DEF Newly
        <4>4. level[d] + k <= level[p] BY <2>2, <3>4
        <4>5. level[x] < level[d] /\ level[x] \in Nat /\ level[d] \in Nat /\ level[p] \in Nat
          BY <1>1, <1>2, <1>3, <1>6, <3>2, <4>2, <4>3
        <4> QED BY <4>4, <4>5
      <3> QED BY <3>3, <3>4
    <2>3. \A k \in 0 .. Depths : k \in K
      <3> HIDE DEF K
      <3> QED BY <1>3, <2>1, <2>2, InductionUpTo
    <2>4. Depths \in 1 .. Depths BY <1>2, <1>3, <1>6
    <2>5. Newly(p, Depths) = {}
      <3> SUFFICES ASSUME NEW x \in Newly(p, Depths) PROVE FALSE OBVIOUS
      <3>1. level[x] + Depths <= level[p] BY <2>3, <2>4
      <3>2. x \in Dir BY DEF Newly
      <3> QED BY <1>2, <1>3, <1>6, <3>1, <3>2
    <2>6. Below(p) = Level(p, Depths) /\ Level(p, Depths) = Level(p, Depths - 1) \cup Entries(Level(p, Depths - 1))
      BY <2>4, LevelsUnfold
    <2>7. Level(p, Depths) \cap Dir \subseteq Level(p, Depths - 1) BY <2>5 DEF Newly
    <2>8. Entries(Level(p, Depths)) \subseteq Entries(Level(p, Depths - 1))
      BY <2>7, EntriesOf
    <2>9. Depths \in 0 .. Depths BY <1>3
    <2>10. p \in Below(p) BY <1>4, <2>6, <2>9
    <2>11. Entries(Below(p)) \subseteq Below(p) BY <2>6, <2>8, Zenon
    <2> QED BY <2>10, <2>11
  <1> QED BY <1>5, <1>6

LEMMA BelowTransitive == \A p : \A x \in Below(p) : Below(x) \subseteq Below(p)
  BY BelowClosed, BelowLeast

LEMMA BelowChildren ==
  ASSUME NEW p, NEW d \in Below(p) \cap Dir
  PROVE  \A c \in Children[d] : c \in Below(p) BY BelowClosed, EntriesOf

LEMMA BelowFile == \A p : p \notin Dir => Below(p) = {p}
  <1> SUFFICES ASSUME NEW p, p \notin Dir PROVE Below(p) = {p} OBVIOUS
  <1> DEFINE S == {p}
  <1>1. Entries(S) \subseteq S /\ p \in S BY EntriesOf
  <1>2. Below(p) \subseteq S
    <2> HIDE DEF S
    <2> QED BY <1>1, BelowLeast
  <1> QED BY <1>2, BelowClosed

\* What is below p comes from a directory below p.
LEMMA BelowParent ==
  ASSUME NEW p, NEW x \in Below(p), x # p
  PROVE  \E d \in Below(p) \cap Dir : x \in Children[d]
  <1> DEFINE S == {y \in Below(p) : y = p \/ \E d \in Below(p) \cap Dir : y \in Children[d]}
  <1>1. p \in S BY BelowClosed
  <1>2. Entries(S) \subseteq S
    <2> SUFFICES ASSUME NEW y \in Entries(S) PROVE y \in S OBVIOUS
    <2>1. PICK d \in S \cap Dir : y \in Children[d]
      <3> HIDE DEF S
      <3> QED BY EntriesOf
    <2>2. y \in Below(p) BY <2>1, BelowChildren
    <2> QED BY <2>1, <2>2
  <1>3. Below(p) \subseteq S
    <2> HIDE DEF S
    <2> QED BY <1>1, <1>2, BelowLeast
  <1> QED BY <1>3

\* The names below a directory are itself and those below its entries.
LEMMA BelowDir ==
  ASSUME NEW e \in Dir, NEW x
  PROVE  x \in Below(e) <=> x = e \/ \E c \in Children[e] : x \in Below(c)
  <1> DEFINE S == {e} \cup UNION {Below(c) : c \in Children[e]}
  <1>1. Entries(S) \subseteq S
    <2> SUFFICES ASSUME NEW y \in Entries(S) PROVE y \in S OBVIOUS
    <2>1. PICK d \in S \cap Dir : y \in Children[d]
      <3> HIDE DEF S
      <3> QED BY EntriesOf
    <2>2. CASE d = e
      <3>1. y \in Below(y) BY BelowClosed
      <3> QED BY <2>1, <2>2, <3>1
    <2>3. CASE d # e
      <3>1. PICK c \in Children[e] : d \in Below(c) BY <2>1, <2>3
      <3>2. y \in Below(c) BY <2>1, <3>1, BelowChildren
      <3> QED BY <3>2
    <2> QED BY <2>2, <2>3
  <1>2. Below(e) \subseteq S
    <2>1. e \in S OBVIOUS
    <2> HIDE DEF S
    <2> QED BY <1>1, <2>1, BelowLeast
  <1>3. ASSUME NEW c \in Children[e] PROVE Below(c) \subseteq Below(e)
    <2>1. c \in Below(e) BY BelowClosed, BelowChildren
    <2> QED BY <2>1, BelowTransitive
  <1> QED BY <1>2, <1>3, BelowClosed

\* No directory is inside itself.
LEMMA NotInside ==
  ASSUME NEW d \in Dir, NEW c \in Children[d]
  PROVE  d \notin Below(c)
  <1>1. PICK level \in [Dir -> 1 .. Depths] :
          \A x \in Dir : \A e \in Children[x] \cap Dir : level[e] < level[x]
    BY TreeAssumption DEF Depths
  <1>2. \A x \in Dir : level[x] \in 1 .. Depths BY <1>1
  <1>3. Depths \in Nat BY LevelsUnfold
  <1>4. CASE c \notin Dir
    <2>1. Below(c) = {c} BY <1>4, BelowFile
    <2> QED BY <1>4, <2>1
  <1>5. CASE c \in Dir
    <2> DEFINE S == {y \in Below(c) : y \in Dir => level[y] <= level[c]}
    <2>1. c \in S BY <1>2, <1>3, <1>5, BelowClosed
    <2>2. Entries(S) \subseteq S
      <3> SUFFICES ASSUME NEW y \in Entries(S) PROVE y \in S OBVIOUS
      <3>1. PICK x \in S \cap Dir : y \in Children[x]
        <4> HIDE DEF S
        <4> QED BY EntriesOf
      <3>2. y \in Below(c) BY <3>1, BelowChildren
      <3>3. ASSUME y \in Dir PROVE level[y] <= level[c]
        <4>1. level[y] < level[x] /\ level[x] <= level[c] BY <1>1, <3>1, <3>3
        <4>2. level[y] \in Nat /\ level[x] \in Nat /\ level[c] \in Nat
          BY <1>2, <1>3, <1>5, <3>1, <3>3
        <4> QED BY <4>1, <4>2
      <3> QED BY <3>2, <3>3
    <2>3. Below(c) \subseteq S
      <3> HIDE DEF S
      <3> QED BY <2>1, <2>2, BelowLeast
    <2>4. level[c] < level[d] /\ level[c] \in Nat /\ level[d] \in Nat
      BY <1>1, <1>2, <1>3, <1>5
    <2>5. d \in Below(c) => level[d] <= level[c] BY <2>3
    <2> QED BY <2>4, <2>5
  <1> QED BY <1>4, <1>5

LEMMA OneParent ==
  \A d, e : \A x : d \in Dir /\ e \in Dir /\ x \in Children[d] /\ x \in Children[e] => d = e
  BY TreeAssumption

\* Two entries of a directory have nothing in common.
LEMMA SiblingsApart ==
  ASSUME NEW d \in Dir, NEW a \in Children[d], NEW b \in Children[d], a # b
  PROVE  \A x \in Below(a) : x \notin Below(b)
  <1> DEFINE S == Below(a) \ Below(b)
  <1>1. a \in S
    <2>1. a \in Below(a) BY BelowClosed
    <2>2. ASSUME a \in Below(b) PROVE FALSE
      <3>1. PICK y \in Below(b) \cap Dir : a \in Children[y] BY <2>2, BelowParent
      <3>2. y = d BY <3>1, OneParent
      <3> QED BY <3>1, <3>2, NotInside
    <2> QED BY <2>1, <2>2
  <1>2. Entries(S) \subseteq S
    <2> SUFFICES ASSUME NEW x \in Entries(S) PROVE x \in S OBVIOUS
    <2>1. PICK y \in S \cap Dir : x \in Children[y]
      <3> HIDE DEF S
      <3> QED BY EntriesOf
    <2>2. x \in Below(a) BY <2>1, BelowChildren
    <2>3. ASSUME x \in Below(b) PROVE FALSE
      <3>1. CASE x = b
        <4>1. y = d BY <2>1, <3>1, OneParent
        <4> QED BY <2>1, <4>1, NotInside
      <3>2. CASE x # b
        <4>1. PICK z \in Below(b) \cap Dir : x \in Children[z] BY <2>3, <3>2, BelowParent
        <4>2. z = y BY <2>1, <4>1, OneParent
        <4> QED BY <2>1, <4>1, <4>2
      <3> QED BY <3>1, <3>2
    <2> QED BY <2>2, <2>3
  <1>3. Below(a) \subseteq S
    <2> HIDE DEF S
    <2> QED BY <1>1, <1>2, BelowLeast
  <1> QED BY <1>3

-----------------------------------------------------------------------------
(* The walk of calculate_paths measures every file below the paths once. *)

\* How often a file has been measured, and how many of the first n paths lead to it.
Seen(f, s) == Registers!Times(Content(f), s)
Passed(f, n) == Cardinality({k \in 1 .. n : f \in Below(Paths[k])})

OnlyFiles(s) == \A k \in DOMAIN s : \E f \in File : s[k] = Content(f)

\* The register after the first n paths.
FilesSoFar(s, n) ==
  OnlyFiles(s) /\ \A f \in File : Seen(f, s) = IF fs[f] = "absent" THEN 0 ELSE Passed(f, n)

\* The entries on the stack of open directories, and what is below them.
On(w, k, e) == k \in DOMAIN w /\ e \in w[k]
Ahead(w, x) == \E k, e : On(w, k, e) /\ x \in Below(e)

\* No name is below two of the entries.
Apart(w) ==
  \A k, l, e, g, x : On(w, k, e) /\ On(w, l, g) /\ x \in Below(e) /\ x \in Below(g) => k = l /\ e = g

Listed(e) == \E d \in Dir : e \in Children[d]
Inside(w, p) == \A k, e : On(w, k, e) => e \in Below(p) /\ Listed(e)

Walked(w, f, n) == f \in Below(Paths[n]) /\ ~Ahead(w, f)

\* The register during the walk of the n-th path.
WalkSoFar(w, s, n) ==
  /\ n \in 1 .. Len(Paths) /\ Apart(w) /\ Inside(w, Paths[n]) /\ OnlyFiles(s)
  /\ \A f \in File : Seen(f, s) = IF fs[f] = "absent" THEN 0
                                  ELSE Passed(f, n - 1) + (IF Walked(w, f, n) THEN 1 ELSE 0)

LEMMA PassedNext ==
  ASSUME NEW n \in Nat \ {0}, NEW f
  PROVE  /\ Passed(f, n) = Passed(f, n - 1) + (IF f \in Below(Paths[n]) THEN 1 ELSE 0)
         /\ Passed(f, n - 1) \in Nat
  <1> DEFINE A == {k \in 1 .. n - 1 : f \in Below(Paths[k])}
             B == {k \in 1 .. n : f \in Below(Paths[k])}
  <1>1. IsFiniteSet(A)
    <2>1. IsFiniteSet(1 .. n - 1) BY FS_Interval
    <2> QED BY <2>1, FS_Subset
  <1>2. Cardinality(A) \in Nat BY <1>1, FS_CardinalityType
  <1>3. n \notin A /\ (1 .. n) = (1 .. n - 1) \cup {n} OBVIOUS
  <1>4. CASE f \in Below(Paths[n])
    <2>1. B = A \cup {n} BY <1>3, <1>4
    <2>2. Cardinality(A \cup {n}) = Cardinality(A) + 1
      <3> HIDE DEF A
      <3> QED BY <1>1, <1>3, FS_AddElement
    <2> QED BY <1>2, <1>4, <2>1, <2>2 DEF Passed
  <1>5. CASE f \notin Below(Paths[n])
    <2>1. B = A BY <1>3, <1>5
    <2> HIDE DEF A, B
    <2>2. Passed(f, n) = Passed(f, n - 1) BY <2>1 DEF Passed, A, B
    <2>3. Passed(f, n - 1) \in Nat BY <1>2 DEF Passed, A
    <2> QED BY <1>5, <2>2, <2>3
  <1> QED BY <1>4, <1>5

LEMMA ContentApart == \A f, g : Content(f) = Content(g) => f = g
  <1> SUFFICES ASSUME NEW f, NEW g, Content(f) = Content(g) PROVE f = g OBVIOUS
  <1>1. Content(f)[2][1] = f /\ Content(g)[2][1] = g BY DEF Content
  <1> QED BY <1>1

LEMMA ContentType == \A f \in File : Content(f) \in Digest
  BY DigestType DEF Content, Kind, Name

\* One more file has been measured.
LEMMA SeenNext ==
  ASSUME NEW s \in Seq(Digest), NEW g \in File
  PROVE  /\ \A f \in File : Seen(f, s) \in Nat /\ Seen(f, Append(s, Content(g))) = Seen(f, s) + (IF f = g THEN 1 ELSE 0)
         /\ OnlyFiles(s) => OnlyFiles(Append(s, Content(g)))
  <1>1. ASSUME NEW f \in File
        PROVE  Seen(f, s) \in Nat /\ Seen(f, Append(s, Content(g))) = Seen(f, s) + (IF f = g THEN 1 ELSE 0)
    <2>1. Seen(f, s) \in Nat BY TimesNat DEF Seen
    <2>2. Seen(f, Append(s, Content(g))) = Seen(f, s) + One(Content(f), Content(g))
      BY ContentType, TimesAppend DEF Seen
    <2>3. One(Content(f), Content(g)) = IF f = g THEN 1 ELSE 0
      BY ContentApart, Zenon DEF One
    <2> QED BY <2>1, <2>2, <2>3
  <1>2. ASSUME OnlyFiles(s) PROVE OnlyFiles(Append(s, Content(g)))
    <2> DEFINE d == Content(g)
    <2>1. d \in Digest BY ContentType
    <2> SUFFICES ASSUME NEW k \in DOMAIN Append(s, d) PROVE \E f \in File : Append(s, d)[k] = Content(f)
      BY DEF OnlyFiles
    <2>2. (k \in DOMAIN s /\ Append(s, d)[k] = s[k]) \/ Append(s, d)[k] = d
      <3> HIDE DEF d
      <3> QED BY <2>1
    <2> QED BY <1>2, <2>2 DEF OnlyFiles
  <1> QED BY <1>1, <1>2

LEMMA FilesStart == FilesSoFar(<<>>, 0)
  <1>1. \A f : {k \in 1 .. 0 : f \in Below(Paths[k])} = {} OBVIOUS
  <1>2. \A f : Passed(f, 0) = 0 BY <1>1, FS_EmptySet DEF Passed
  <1>3. OnlyFiles(<<>>) BY DEF OnlyFiles
  <1> QED BY <1>2, <1>3, TimesEmpty DEF FilesSoFar, Seen

\* A path that is a file.
LEMMA FilePath ==
  ASSUME NEW s \in Seq(Digest), NEW n \in Nat \ {0}, FilesSoFar(s, n - 1), Paths[n] \in File,
         fs[Paths[n]] # "absent"
  PROVE  FilesSoFar(Append(s, Content(Paths[n])), n)
  <1> DEFINE g == Paths[n]
  <1>1. Below(g) = {g} BY BelowFile, FilesAssumption
  <1>2. ASSUME NEW f \in File
        PROVE  Seen(f, Append(s, Content(g))) = IF fs[f] = "absent" THEN 0 ELSE Passed(f, n)
    <2>1. Seen(f, Append(s, Content(g))) = Seen(f, s) + (IF f = g THEN 1 ELSE 0) BY SeenNext
    <2>2. Seen(f, s) = IF fs[f] = "absent" THEN 0 ELSE Passed(f, n - 1) BY DEF FilesSoFar
    <2>3. Passed(f, n) = Passed(f, n - 1) + (IF f = g THEN 1 ELSE 0) /\ Passed(f, n - 1) \in Nat
      BY <1>1, PassedNext
    <2> HIDE DEF g
    <2>4. fs[f] = "absent" => f # g BY DEF g
    <2> QED BY <2>1, <2>2, <2>3, <2>4
  <1>3. OnlyFiles(Append(s, Content(g))) BY SeenNext DEF FilesSoFar
  <1> QED BY <1>2, <1>3 DEF FilesSoFar

\* A path that is a directory.
LEMMA OpenWalk ==
  ASSUME NEW s \in Seq(Digest), NEW n \in 1 .. Len(Paths), FilesSoFar(s, n - 1), Paths[n] \in Dir
  PROVE  WalkSoFar(<<Children[Paths[n]]>>, s, n)
  <1> DEFINE p == Paths[n]
             w == <<Children[p]>>
  <1>1. \A k, e : On(w, k, e) <=> k = 1 /\ e \in Children[p] BY DEF On
  <1> HIDE DEF p, w
  <1>2. p \in Dir BY DEF p
  <1>3. Apart(w)
    <2> SUFFICES ASSUME NEW k, NEW l, NEW e, NEW g, NEW x,
                        On(w, k, e), On(w, l, g), x \in Below(e), x \in Below(g)
                 PROVE  k = l /\ e = g BY Zenon DEF Apart
    <2>1. k = 1 /\ l = 1 /\ e \in Children[p] /\ g \in Children[p] BY <1>1
    <2>2. e = g BY <1>2, <2>1, SiblingsApart
    <2> QED BY <2>1, <2>2
  <1>4. Inside(w, p)
    <2>1. p \in Below(p) BY BelowClosed
    <2> QED BY <1>1, <1>2, <2>1, BelowChildren DEF Inside, Listed
  <1>5. ASSUME NEW f \in File PROVE ~Walked(w, f, n)
    <2>1. f # p BY <1>2, FilesAssumption
    <2>2. f \in Below(p) => \E c \in Children[p] : f \in Below(c) BY <1>2, <2>1, BelowDir
    <2> QED BY <1>1, <2>2, Zenon DEF Walked, Ahead, p
  <1>6. \A f : Passed(f, n - 1) \in Nat
    <2>1. n \in Nat \ {0} OBVIOUS
    <2> QED BY <2>1, PassedNext, Zenon
  <1>7. \A f \in File : Seen(f, s) = IF fs[f] = "absent" THEN 0
                                  ELSE Passed(f, n - 1) + (IF Walked(w, f, n) THEN 1 ELSE 0)
    BY <1>5, <1>6 DEF FilesSoFar
  <1> QED BY <1>3, <1>4, <1>7 DEF WalkSoFar, FilesSoFar, p, w

\* The walk of a path is over.
LEMMA CloseWalk ==
  ASSUME NEW s, NEW n, WalkSoFar(<<>>, s, n)
  PROVE  FilesSoFar(s, n)
  <1>1. n \in Nat \ {0} /\ OnlyFiles(s) BY DEF WalkSoFar
  <1>2. \A f : ~Ahead(<<>>, f) BY DEF Ahead, On
  <1>3. ASSUME NEW f \in File PROVE Seen(f, s) = IF fs[f] = "absent" THEN 0 ELSE Passed(f, n)
    <2>1. Walked(<<>>, f, n) <=> f \in Below(Paths[n]) BY <1>2 DEF Walked
    <2> QED BY <1>1, <2>1, PassedNext DEF WalkSoFar
  <1> QED BY <1>1, <1>3 DEF FilesSoFar

\* The stack with an entry of its top read, with a directory opened, and with
\* the directory on top closed.
Taken(w, e) == [w EXCEPT ![Len(w)] = @ \ {e}]
Popped(w) == SubSeq(w, 1, Len(w) - 1)

Stack == Seq(SUBSET (File \cup Dir))

LEMMA StackEntries ==
  ASSUME NEW w \in Stack, w # <<>>, NEW e \in w[Len(w)]
  PROVE  /\ Taken(w, e) \in Stack /\ Len(Taken(w, e)) = Len(w) /\ Taken(w, e) # <<>>
         /\ \A k, x : On(Taken(w, e), k, x) <=> On(w, k, x) /\ ~(k = Len(w) /\ x = e)
         /\ On(w, Len(w), e)
  <1> DEFINE n == Len(w)
             t == Taken(w, e)
             T == SUBSET (File \cup Dir)
  <1>1. n \in Nat /\ n # 0 /\ n \in 1 .. n /\ DOMAIN w = 1 .. n /\ w \in [1 .. n -> T]
    BY DEF Stack
  <1>2. w[n] \in T /\ w[n] \ {e} \in T BY <1>1
  <1> HIDE DEF T
  <1>3. t \in [1 .. n -> T] /\ DOMAIN t = 1 .. n /\ t[n] = w[n] \ {e} /\ \A k \in 1 .. n : k # n => t[k] = w[k]
    BY <1>1, <1>2 DEF Taken
  <1>4. t \in Seq(T) /\ Len(t) = n BY <1>1, <1>3, FunctionIsSeq
  <1>5. t # <<>>
    <2>1. Len(<<>>) = 0 OBVIOUS
    <2> HIDE DEF t, n
    <2> QED BY <1>1, <1>4, <2>1, Zenon
  <1> HIDE DEF t
  <1>6. \A k, x : On(t, k, x) <=> On(w, k, x) /\ ~(k = n /\ x = e) BY <1>1, <1>3 DEF On
  <1>7. On(w, n, e) BY <1>1 DEF On
  <1> QED BY <1>4, <1>5, <1>6, <1>7 DEF Stack, t, T

LEMMA StackPush ==
  ASSUME NEW w \in Stack, NEW S \in SUBSET (File \cup Dir)
  PROVE  \A k, x : On(Append(w, S), k, x) <=> On(w, k, x) \/ (k = Len(w) + 1 /\ x \in S)
  <1> DEFINE T == SUBSET (File \cup Dir)
             t == Append(w, S)
  <1>1. w \in Seq(T) /\ S \in T BY DEF Stack
  <1> HIDE DEF T
  <1>2. /\ DOMAIN w = 1 .. Len(w) /\ DOMAIN t = 1 .. Len(w) + 1 /\ Len(w) \in Nat
        /\ \A k \in 1 .. Len(w) : t[k] = w[k]
        /\ t[Len(w) + 1] = S BY <1>1
  <1> HIDE DEF t
  <1>3. \A k : k \in 1 .. Len(w) + 1 <=> k \in 1 .. Len(w) \/ k = Len(w) + 1 BY <1>2
  <1>4. Len(w) + 1 \notin 1 .. Len(w) BY <1>2
  <1>5. \A k, x : On(t, k, x) <=> On(w, k, x) \/ (k = Len(w) + 1 /\ x \in S)
    BY <1>2, <1>3, <1>4, Zenon DEF On
  <1> QED BY <1>5 DEF t

LEMMA StackPop ==
  ASSUME NEW w \in Stack, w # <<>>, w[Len(w)] = {}
  PROVE  \A k, x : On(Popped(w), k, x) <=> On(w, k, x)
  <1> DEFINE T == SUBSET (File \cup Dir)
             t == Popped(w)
             n == Len(w)
  <1>1. w \in Seq(T) BY DEF Stack
  <1> HIDE DEF T
  <1>2. n \in Nat /\ n # 0 /\ DOMAIN w = 1 .. n BY <1>1
  <1>3. DOMAIN t = 1 .. n - 1 /\ \A k \in 1 .. n - 1 : t[k] = w[k] BY <1>1, <1>2 DEF Popped
  <1> HIDE DEF t, n
  <1>4. \A k : k \in 1 .. n <=> k \in 1 .. n - 1 \/ k = n BY <1>2
  <1>5. \A x : x \notin w[n] BY DEF n
  <1>6. \A k, x : On(t, k, x) <=> On(w, k, x) BY <1>2, <1>3, <1>4, <1>5, Zenon DEF On
  <1> QED BY <1>6 DEF t

\* What is ahead when a file has been read, a directory entered or left.
LEMMA ReadAhead ==
  ASSUME NEW w \in Stack, w # <<>>, NEW e \in w[Len(w)] \cap File, Apart(w)
  PROVE  /\ Apart(Taken(w, e)) /\ \A p : Inside(w, p) => Inside(Taken(w, e), p) /\ e \in Below(p)
         /\ Ahead(w, e) /\ \A f \in File : Ahead(Taken(w, e), f) <=> Ahead(w, f) /\ f # e
  <1> DEFINE t == Taken(w, e)
  <1>1. /\ \A k, x : On(t, k, x) <=> On(w, k, x) /\ ~(k = Len(w) /\ x = e)
        /\ On(w, Len(w), e) BY StackEntries
  <1> HIDE DEF t
  <1>2. Below(e) = {e} BY BelowFile, FilesAssumption
  <1>3. Apart(t)
    <2> SUFFICES ASSUME NEW k, NEW l, NEW a, NEW b, NEW x,
                        On(t, k, a), On(t, l, b), x \in Below(a), x \in Below(b)
                 PROVE  k = l /\ a = b BY Zenon DEF Apart
    <2>1. On(w, k, a) /\ On(w, l, b) BY <1>1
    <2> QED BY <2>1, Zenon DEF Apart
  <1>4. \A p : Inside(w, p) => Inside(t, p) /\ e \in Below(p) BY <1>1, Zenon DEF Inside
  <1>5. Ahead(w, e) BY <1>1, <1>2 DEF Ahead
  <1>6. ASSUME NEW f, Ahead(t, f) PROVE Ahead(w, f) /\ f # e
    <2>1. PICK k, x : On(t, k, x) /\ f \in Below(x) BY <1>6 DEF Ahead
    <2>2. On(w, k, x) /\ ~(k = Len(w) /\ x = e) BY <1>1, <2>1
    <2>3. Ahead(w, f) BY <2>1, <2>2, Zenon DEF Ahead
    <2>4. f # e BY <1>1, <1>2, <2>1, <2>2 DEF Apart
    <2> QED BY <2>3, <2>4
  <1>7. ASSUME NEW f, Ahead(w, f), f # e PROVE Ahead(t, f)
    <2>1. PICK k, x : On(w, k, x) /\ f \in Below(x) BY <1>7 DEF Ahead
    <2>2. x # e BY <1>2, <1>7, <2>1
    <2> QED BY <1>1, <2>1, <2>2, Zenon DEF Ahead
  <1> QED BY <1>3, <1>4, <1>5, <1>6, <1>7 DEF t

LEMMA EnterAhead ==
  ASSUME NEW w \in Stack, w # <<>>, NEW e \in w[Len(w)] \cap Dir, Apart(w)
  PROVE  LET t == Append(Taken(w, e), Children[e])
         IN  /\ Apart(t) /\ \A p : Inside(w, p) => Inside(t, p)
             /\ \A f \in File : Ahead(t, f) <=> Ahead(w, f)
  <1> DEFINE u == Taken(w, e)
             t == Append(u, Children[e])
             n == Len(w)
  <1>1. /\ u \in Stack /\ Len(u) = n
        /\ \A k, x : On(u, k, x) <=> On(w, k, x) /\ ~(k = n /\ x = e)
        /\ On(w, n, e) BY StackEntries
  <1>2. Children[e] \in SUBSET (File \cup Dir) BY ChildrenType
  <1>3. \A k, x : On(t, k, x) <=> On(u, k, x) \/ (k = n + 1 /\ x \in Children[e])
    BY <1>1, <1>2, StackPush
  <1> HIDE DEF t, u, n
  <1>4. \A k, x : On(t, k, x) <=> (On(w, k, x) /\ ~(k = n /\ x = e)) \/ (k = n + 1 /\ x \in Children[e])
    BY <1>1, <1>3, Zenon
  <1>5. \A c \in Children[e] : \A x \in Below(c) : x \in Below(e) BY BelowDir
  <1>6. Apart(t)
    <2> SUFFICES ASSUME NEW k, NEW l, NEW a, NEW b, NEW x,
                        On(t, k, a), On(t, l, b), x \in Below(a), x \in Below(b)
                 PROVE  k = l /\ a = b BY Zenon DEF Apart
    <2>1. CASE On(w, k, a) /\ On(w, l, b) BY <2>1, Zenon DEF Apart
    <2>2. ASSUME NEW j, NEW c, On(w, j, c), ~(j = n /\ c = e), x \in Below(c), x \in Below(e) PROVE FALSE
      BY <1>1, <2>2, Zenon DEF Apart
    <2>3. CASE k = n + 1 /\ a \in Children[e] /\ l = n + 1 /\ b \in Children[e]
      <3>1. a = b BY <2>3, SiblingsApart
      <3> QED BY <2>3, <3>1
    <2> QED BY <1>4, <1>5, <2>1, <2>2, <2>3, Zenon
  <1>7. ASSUME NEW p, Inside(w, p) PROVE Inside(t, p)
    <2>1. e \in Below(p) BY <1>1, <1>7 DEF Inside
    <2>2. \A c \in Children[e] : c \in Below(p) /\ Listed(c)
      BY <2>1, BelowChildren DEF Listed
    <2> QED BY <1>4, <1>7, <2>2, Zenon DEF Inside
  <1>8. ASSUME NEW f \in File PROVE Ahead(t, f) <=> Ahead(w, f)
    <2>1. ASSUME Ahead(t, f) PROVE Ahead(w, f)
      <3>1. PICK k, x : On(t, k, x) /\ f \in Below(x) BY <2>1 DEF Ahead
      <3> QED BY <1>1, <1>4, <1>5, <3>1, Zenon DEF Ahead
    <2>2. ASSUME Ahead(w, f) PROVE Ahead(t, f)
      <3>1. PICK k, x : On(w, k, x) /\ f \in Below(x) BY <2>2 DEF Ahead
      <3>2. CASE k = n /\ x = e
        <4>1. f # e BY FilesAssumption
        <4>2. PICK c \in Children[e] : f \in Below(c) BY <3>1, <3>2, <4>1, BelowDir
        <4> QED BY <1>4, <4>2, Zenon DEF Ahead
      <3>3. CASE ~(k = n /\ x = e) BY <1>4, <3>1, <3>3, Zenon DEF Ahead
      <3> QED BY <3>2, <3>3
    <2> QED BY <2>1, <2>2
  <1> QED BY <1>6, <1>7, <1>8 DEF t, u

\* The steps of the walk.
LEMMA WalkReads ==
  ASSUME NEW s \in Seq(Digest), NEW w \in Stack, w # <<>>, NEW e \in w[Len(w)] \cap File, NEW n, WalkSoFar(w, s, n)
  PROVE  /\ fs[e] # "absent" => WalkSoFar(Taken(w, e), Append(s, Content(e)), n)
         /\ fs[e] = "absent" => WalkSoFar(Taken(w, e), s, n)
  <1> DEFINE t == Taken(w, e)
             p == Paths[n]
  <1>1. /\ Apart(w) /\ Inside(w, p) /\ n \in 1 .. Len(Paths) /\ OnlyFiles(s)
        /\ \A f \in File : Seen(f, s) = IF fs[f] = "absent" THEN 0
                                  ELSE Passed(f, n - 1) + (IF Walked(w, f, n) THEN 1 ELSE 0)
    BY DEF WalkSoFar
  <1>2. Apart(t) /\ Inside(t, p) /\ e \in Below(p) /\ Ahead(w, e)
        /\ \A f \in File : Ahead(t, f) <=> Ahead(w, f) /\ f # e BY <1>1, ReadAhead
  <1> HIDE DEF t, p
  <1>3. /\ \A f \in File : f # e => (Walked(t, f, n) <=> Walked(w, f, n))
        /\ Walked(t, e, n) /\ ~Walked(w, e, n) BY <1>2 DEF Walked, p
  <1>4. \A f : Passed(f, n - 1) \in Nat
    <2>1. n \in Nat \ {0} BY <1>1
    <2> QED BY <2>1, PassedNext, Zenon
  <1>5. ASSUME fs[e] # "absent"
        PROVE  WalkSoFar(t, Append(s, Content(e)), n)
    <2> DEFINE r == Append(s, Content(e))
    <2>1. OnlyFiles(r) /\ \A f \in File : Seen(f, s) \in Nat /\ Seen(f, r) = Seen(f, s) + (IF f = e THEN 1 ELSE 0)
      BY <1>1, SeenNext
    <2> HIDE DEF r
    <2>2. ASSUME NEW f \in File
          PROVE  Seen(f, r) = IF fs[f] = "absent" THEN 0
                              ELSE Passed(f, n - 1) + (IF Walked(t, f, n) THEN 1 ELSE 0)
      <3>1. CASE f = e BY <1>1, <1>3, <1>4, <1>5, <2>1, <3>1
      <3>2. CASE f # e BY <1>1, <1>3, <1>4, <2>1, <3>2
      <3> QED BY <3>1, <3>2
    <2> QED BY <1>1, <1>2, <2>1, <2>2 DEF WalkSoFar, r, p
  <1>6. ASSUME fs[e] = "absent"
        PROVE  WalkSoFar(t, s, n)
    <2>2. ASSUME NEW f \in File
          PROVE  Seen(f, s) = IF fs[f] = "absent" THEN 0
                              ELSE Passed(f, n - 1) + (IF Walked(t, f, n) THEN 1 ELSE 0)
      <3>1. CASE f = e BY <1>1, <1>6, <3>1
      <3>2. CASE f # e BY <1>1, <1>3, <3>2
      <3> QED BY <3>1, <3>2
    <2> QED BY <1>1, <1>2, <2>2 DEF WalkSoFar, p
  <1> QED BY <1>5, <1>6 DEF t

\* Steps that leave the files ahead alone.
LEMMA WalkSame ==
  ASSUME NEW s, NEW w, NEW t, NEW n, WalkSoFar(w, s, n), Apart(t), Inside(t, Paths[n]),
         \A f \in File : Ahead(t, f) <=> Ahead(w, f)
  PROVE  WalkSoFar(t, s, n)
  <1>1. \A f \in File : Walked(t, f, n) <=> Walked(w, f, n) BY DEF Walked
  <1> QED BY <1>1, Zenon DEF WalkSoFar

LEMMA WalkEnters ==
  ASSUME NEW s, NEW w \in Stack, w # <<>>, NEW e \in w[Len(w)] \cap Dir, NEW n, WalkSoFar(w, s, n)
  PROVE  WalkSoFar(Append(Taken(w, e), Children[e]), s, n)
  <1> DEFINE t == Append(Taken(w, e), Children[e])
  <1>1. Apart(w) /\ Inside(w, Paths[n]) BY DEF WalkSoFar
  <1>2. Apart(t) /\ Inside(t, Paths[n]) /\ \A f \in File : Ahead(t, f) <=> Ahead(w, f)
    BY <1>1, EnterAhead
  <1> HIDE DEF t
  <1> QED BY <1>2, WalkSame DEF t

LEMMA WalkLeaves ==
  ASSUME NEW s, NEW w \in Stack, w # <<>>, w[Len(w)] = {}, NEW n, WalkSoFar(w, s, n)
  PROVE  WalkSoFar(Popped(w), s, n)
  <1> DEFINE t == Popped(w)
  <1>1. \A k, x : On(t, k, x) <=> On(w, k, x) BY StackPop
  <1> HIDE DEF t
  <1>2. Apart(t) /\ Inside(t, Paths[n]) /\ \A f : Ahead(t, f) <=> Ahead(w, f)
    BY <1>1, Zenon DEF WalkSoFar, Apart, Inside, Ahead
  <1> QED BY <1>2, WalkSame DEF t

\* What a walk comes across is below the path, and no directory is absent.
LEMMA WalkMeets ==
  ASSUME NEW s, NEW w \in Stack, w # <<>>, NEW e \in w[Len(w)], NEW n, WalkSoFar(w, s, n)
  PROVE  e \in Below(Paths[n]) /\ Listed(e) BY StackEntries DEF WalkSoFar, Inside

-----------------------------------------------------------------------------
(* The registers are the reference values. *)

\* The handler to which a program point belongs.
At(label, n) ==
  /\ label \in {"crtm", "firmware", "pei", "dxe"} => n = 0
  /\ label \in {"acpi", "bootorder", "bootxxxx"} => n = 1
  /\ label = "drivers" => n = 2
  /\ label \in {"bootloaders", "kernel", "boot action"} => n = 4
  /\ label \in GptLabel => n = 5
  /\ label \in {"secureboot", "sbatlevel"} => n = 7
  /\ label \in {"grub", "grub commands"} => n = 8
  /\ label \in {"paths", "walk", "cmdline", "initrd"} => n = 9
  /\ label = "separator" => n \in {0, 1, 2, 3, 4, 6, 7}

PointInv == pc \in HandlerLabel => At(pc, cur)

Crtm == <<"crtm", <<>>>>
PeiVolume == <<"peifv", <<Firmware>>>>
DxeVolume == <<"dxefv", <<Firmware>>>>
Order1 == <<"bootorder", opts.list["bootorder"]>>
Action4 == <<"calling efi application", <<>>>>
SecureBoot == [k \in 1 .. 5 |-> <<SecureBootVars[k], Optional(SecureBootVars[k])>>]

\* The files of the first k - 1 ACPI options.
AcpiBefore(k) ==
  IF k = 1 THEN <<>>
  ELSE IF k = 2 THEN Optional("tableloader")
  ELSE IF k = 3 THEN Optional("tableloader") \o Optional("acpirsdp")
  ELSE IF k = 4 THEN Optional("tableloader") \o Optional("acpirsdp") \o Optional("tpmlog")
  ELSE Optional("tableloader") \o Optional("acpirsdp") \o Optional("tpmlog") \o Optional("acpitables")

\* One digest for each of the first k - 1 files of a list.
Some(kind, o, k) == Each(kind, SubSeq(opts.list[o], 1, k - 1))

BootImages == Each("pe", opts.list["bootloader"])

GrubLinesBefore(k) == [j \in 1 .. k - 1 |-> GrubCommand(j)]

\* What the register of handler n holds at each of its steps, in round k of a
\* loop, with the open directories w.
SoFar(label, n, k, w, s) ==
  /\ label = "crtm" => s = <<>>
  /\ label \in {"firmware", "pei"} => s = <<Crtm>>
  /\ label = "dxe" => s = <<Crtm, PeiVolume>>
  /\ label = "acpi" => k <= 5 /\ s = Each("content", AcpiBefore(k))
  /\ label = "bootorder" => s = AcpiReference
  /\ label = "bootxxxx" => k <= Len(opts.list["bootxxxx"]) + 1 /\ s = AcpiReference \o (<<Order1>> \o Some("efivar", "bootxxxx", k))
  /\ label = "drivers" => k <= Len(opts.list["driver"]) + 1 /\ s = Some("pe", "driver", k)
  /\ label = "bootloaders" => k <= Len(opts.list["bootloader"]) + 1 /\ s = Some("pe", "bootloader", k)
  /\ label = "kernel" => Given("kernel") /\ s = BootImages
  /\ label = "boot action" => s = BootImages \o KernelReference
  /\ label \in {"gpt separator", "gpt"} => s = <<>>
  /\ label \in {"exit boot", "boot exited"} => s = Each("content", Optional("gpt"))
  /\ label = "secureboot" => k <= 6 /\ s = SubSeq(SecureBoot, 1, k - 1)
  /\ label = "sbatlevel" => s = Append(SecureBoot, Separator)
  /\ label = "grub" => s = <<>>
  /\ label = "grub commands" => Given("grubcmds") /\ k <= GrubLines + 1 /\ s = GrubLinesBefore(k)
  /\ label = "paths" => k <= Len(Paths) + 1 /\ FilesSoFar(s, k - 1)
  /\ label = "walk" => WalkSoFar(w, s, k)
  /\ label = "cmdline" => FilesSoFar(s, Len(Paths))
  /\ label = "initrd" => \E files \in Seq(Digest) : FilesSoFar(files, Len(Paths)) /\ s = Append(files, CmdlineDigest)
  /\ label = "separator" =>
       /\ n = 0 => s = <<Crtm, PeiVolume, DxeVolume>>
       /\ n = 1 => s = AcpiReference \o BootVarReference
       /\ n = 2 => s = Each("pe", opts.list["driver"])
       /\ n \in {3, 6} => s = <<>>
       /\ n = 4 => s = Append(BootImages \o KernelReference, Action4)
       /\ n = 7 => s = SecureBoot
  /\ label = "dispatch" => Matches(n, s)

\* The register of the handler that runs is as far as its step.
RunningInv == pc \in HandlerLabel /\ ~Unnoticed(cur) => SoFar(pc, cur, i, walk, bank[cur])

\* The registers of the handlers that have returned match the reference.
FinishedInv ==
  \A n \in Calculated : n < cur /\ n \in Requested /\ ~Unnoticed(n) => Matches(n, bank[n])

\* The value behind a register that has been printed.
PrintedInv == \A k \in DOMAIN out : out[k].t = "pcr" => out[k].pcr \in Requested /\ out[k].value = bank[out[k].pcr]

Ends == pc' \in {"exited", "crashed"}

LEMMA SoFarIntro0 ==
  ASSUME NEW n, NEW k, NEW w, NEW s
  PROVE  /\ s = <<>> => SoFar("crtm", n, k, w, s)
         /\ s = <<Crtm>> => SoFar("firmware", n, k, w, s) /\ SoFar("pei", n, k, w, s)
         /\ s = <<Crtm, PeiVolume>> => SoFar("dxe", n, k, w, s)
         /\ n = 0 /\ s = <<Crtm, PeiVolume, DxeVolume>> => SoFar("separator", n, k, w, s)
         /\ Matches(n, s) => SoFar("dispatch", n, k, w, s)
  <1>1. 0 \notin {3, 6} /\ 0 # 1 /\ 0 # 2 /\ 0 # 4 /\ 0 # 7 OBVIOUS
  <1> QED BY <1>1, Zenon DEF SoFar

LEMMA SoFarIntro1 ==
  ASSUME NEW n, NEW k, NEW w, NEW s
  PROVE  /\ k <= 5 /\ s = Each("content", AcpiBefore(k)) => SoFar("acpi", n, k, w, s)
         /\ s = AcpiReference => SoFar("bootorder", n, k, w, s)
         /\ k <= Len(opts.list["bootxxxx"]) + 1 /\ s = AcpiReference \o (<<Order1>> \o Some("efivar", "bootxxxx", k))
              => SoFar("bootxxxx", n, k, w, s)
         /\ n = 1 /\ s = AcpiReference \o BootVarReference => SoFar("separator", n, k, w, s)
  <1>1. 1 \notin {3, 6} /\ 1 # 0 /\ 1 # 2 /\ 1 # 4 /\ 1 # 7 OBVIOUS
  <1> QED BY <1>1, Zenon DEF SoFar

LEMMA SoFarIntro24 ==
  ASSUME NEW n, NEW k, NEW w, NEW s
  PROVE  /\ k <= Len(opts.list["driver"]) + 1 /\ s = Some("pe", "driver", k) => SoFar("drivers", n, k, w, s)
         /\ n = 2 /\ s = Each("pe", opts.list["driver"]) => SoFar("separator", n, k, w, s)
         /\ n \in {3, 6} /\ s = <<>> => SoFar("separator", n, k, w, s)
         /\ k <= Len(opts.list["bootloader"]) + 1 /\ s = Some("pe", "bootloader", k) => SoFar("bootloaders", n, k, w, s)
         /\ Given("kernel") /\ s = BootImages => SoFar("kernel", n, k, w, s)
         /\ s = BootImages \o KernelReference => SoFar("boot action", n, k, w, s)
         /\ n = 4 /\ s = Append(BootImages \o KernelReference, Action4) => SoFar("separator", n, k, w, s)
  <1>1. 2 \notin {3, 6} /\ 2 # 0 /\ 2 # 1 /\ 2 # 4 /\ 2 # 7 /\ 4 \notin {3, 6} /\ 4 # 0 /\ 4 # 1 /\ 4 # 7
        /\ \A m \in {3, 6} : m \notin {0, 1, 2, 4, 7} OBVIOUS
  <1> QED BY <1>1, Zenon DEF SoFar

LEMMA SoFarIntro578 ==
  ASSUME NEW n, NEW k, NEW w, NEW s
  PROVE  /\ s = <<>> => SoFar("gpt separator", n, k, w, s) /\ SoFar("gpt", n, k, w, s)
         /\ s = Each("content", Optional("gpt")) => SoFar("exit boot", n, k, w, s) /\ SoFar("boot exited", n, k, w, s)
         /\ k <= 6 /\ s = SubSeq(SecureBoot, 1, k - 1) => SoFar("secureboot", n, k, w, s)
         /\ n = 7 /\ s = SecureBoot => SoFar("separator", n, k, w, s)
         /\ s = Append(SecureBoot, Separator) => SoFar("sbatlevel", n, k, w, s)
         /\ s = <<>> => SoFar("grub", n, k, w, s)
         /\ Given("grubcmds") /\ k <= GrubLines + 1 /\ s = GrubLinesBefore(k) => SoFar("grub commands", n, k, w, s)
  <1>1. 7 \notin {3, 6} /\ 7 # 0 /\ 7 # 1 /\ 7 # 2 /\ 7 # 4 OBVIOUS
  <1> QED BY <1>1, Zenon DEF SoFar

LEMMA SoFarIntro9 ==
  ASSUME NEW n, NEW k, NEW w, NEW s
  PROVE  /\ k <= Len(Paths) + 1 /\ FilesSoFar(s, k - 1) => SoFar("paths", n, k, w, s)
         /\ WalkSoFar(w, s, k) => SoFar("walk", n, k, w, s)
         /\ FilesSoFar(s, Len(Paths)) => SoFar("cmdline", n, k, w, s)
         /\ (\E files \in Seq(Digest) : FilesSoFar(files, Len(Paths)) /\ s = Append(files, CmdlineDigest))
              => SoFar("initrd", n, k, w, s) BY Zenon DEF SoFar

\* What the steps of a handler do to the register.
LEMMA ValueMoves ==
  ASSUME TypeInv, pc \in HandlerLabel
  PROVE  /\ cur \in 0 .. 9 /\ cur \in Pcr /\ bank[cur] \in Seq(Digest)
         /\ \A ds : HashExtend(ds) => bank'[cur] = bank[cur] \o ds
         /\ \A d : MakesEvent(d) => bank'[cur] = Append(bank[cur], d) /\ walk' = walk
         /\ Skip \/ Warn => bank' = bank /\ walk' = walk
         /\ \A label : Goto(label) => pc' = label /\ i' = 1
         /\ Return => pc' = "dispatch"
         /\ Again => pc' = pc /\ i' = i + 1
         /\ Fail \/ Crash => Ends
  <1>1. cur \in 0 .. 9 /\ cur \in Pcr /\ bank[cur] # Unset
    BY CalculatedArePcrs DEF TypeInv, Active, Calculated
  <1>2. bank \in [Pcr -> Seq(Digest) \cup {Unset}] /\ bank[cur] \in Seq(Digest)
    BY <1>1 DEF TypeInv, TypeOK
  <1>3. ASSUME NEW ds, HashExtend(ds) PROVE bank'[cur] = bank[cur] \o ds
    BY <1>1, <1>2, <1>3 DEF HashExtend
  <1>4. ASSUME NEW d PROVE bank[cur] \o <<d>> = Append(bank[cur], d)
    <2>1. bank[cur] \in Seq(Digest \cup {d}) /\ d \in Digest \cup {d} BY <1>2, SeqMonotonic
    <2> QED BY <2>1, AppendIsConcat
  <1>6. ASSUME NEW d, MakesEvent(d)
        PROVE  bank'[cur] = Append(bank[cur], d) /\ walk' = walk
    <2>1. HashExtend(<<d>>) /\ walk' = walk BY <1>6 DEF MakesEvent, LogAndExtend
    <2> QED BY <1>3, <1>4, <2>1
  <1>7. /\ Skip \/ Warn => bank' = bank /\ walk' = walk
        /\ \A label : Goto(label) => pc' = label /\ i' = 1
        /\ Return => pc' = "dispatch"
        /\ Again => pc' = pc /\ i' = i + 1
        /\ Fail \/ Crash => Ends BY DEF Skip, Warn, Goto, Return, Again, Fail, Crash, Ends
  <1> QED BY <1>1, <1>2, <1>3, <1>6, <1>7

\* The forms of the reference values.
LEMMA EachForm ==
  ASSUME NEW kind \in Kind
  PROVE  /\ Each(kind, <<>>) = <<>>
         /\ \A f \in Name : Each(kind, <<f>>) = <<<<kind, <<f>>>>>>
         /\ \A s \in Seq(Name) : Each(kind, s) \in Seq(Digest) /\ Len(Each(kind, s)) = Len(s)
         /\ \A s \in Seq(Name), f \in Name : Each(kind, Append(s, f)) = Append(Each(kind, s), <<kind, <<f>>>>)
  <1>1. Each(kind, <<>>) = <<>> BY DEF Each
  <1>2. ASSUME NEW f \in Name PROVE Each(kind, <<f>>) = <<<<kind, <<f>>>>>> BY DEF Each
  <1>3. ASSUME NEW s \in Seq(Name) PROVE Each(kind, s) \in Seq(Digest) /\ Len(Each(kind, s)) = Len(s)
    <2>1. Len(s) \in Nat /\ DOMAIN s = 1 .. Len(s) /\ \A k \in 1 .. Len(s) : s[k] \in Name
      OBVIOUS
    <2>2. Each(kind, s) \in [1 .. Len(s) -> Digest] BY <2>1, DigestType DEF Each
    <2> QED BY <2>1, <2>2, FunctionIsSeq
  <1>4. ASSUME NEW s \in Seq(Name), NEW f \in Name
        PROVE  Each(kind, Append(s, f)) = Append(Each(kind, s), <<kind, <<f>>>>)
    <2>1. Append(s, f) \in Seq(Name) /\ Len(Append(s, f)) = Len(s) + 1 OBVIOUS
    <2>2. Append(Each(kind, s), <<kind, <<f>>>>)
            = [k \in 1 .. Len(s) + 1 |-> IF k \in 1 .. Len(s) THEN <<kind, <<s[k]>>>> ELSE <<kind, <<f>>>>]
      <3> DEFINE e == Each(kind, s)
                 d == <<kind, <<f>>>>
      <3>1. e \in Seq(Digest) /\ Len(e) = Len(s) /\ \A k \in 1 .. Len(s) : e[k] = <<kind, <<s[k]>>>>
        BY <1>3 DEF Each
      <3>2. d \in Digest /\ Len(s) \in Nat BY DigestType
      <3>3. Append(e, d) = [k \in 1 .. Len(s) + 1 |-> IF k \in 1 .. Len(s) THEN e[k] ELSE d]
        <4> HIDE DEF e, d
        <4>1. Append(e, d) = [k \in 1 .. Len(e) + 1 |-> IF k \in 1 .. Len(e) THEN e[k] ELSE d]
          BY <3>1, <3>2, AppendIsFunction
        <4> QED BY <3>1, <4>1, Zenon
      <3> QED BY <3>1, <3>3
    <2>3. Each(kind, Append(s, f))
            = [k \in 1 .. Len(s) + 1 |-> IF k \in 1 .. Len(s) THEN <<kind, <<s[k]>>>> ELSE <<kind, <<f>>>>]
      BY <2>1 DEF Each
    <2> QED BY <2>2, <2>3
  <1> QED BY <1>1, <1>2, <1>3, <1>4

\* Optional parts, element by element.
LEMMA OptionalForm ==
  ASSUME NEW o \in FileOption
  PROVE  /\ opts.file[o] = NoFile => Optional(o) = <<>>
         /\ opts.file[o] # NoFile => Optional(o) = <<opts.file[o]>>
  BY Zenon DEF Optional, Given

LEMMA DigestsAppendToSecond ==
  \A a, b \in Seq(Digest), x \in Digest : Append(a \o b, x) = a \o Append(b, x)
  <1> SUFFICES ASSUME NEW a \in Seq(Digest), NEW b \in Seq(Digest), NEW x \in Digest
               PROVE  Append(a \o b, x) = a \o Append(b, x) BY Zenon
  <1> QED OBVIOUS


\* The loops over the files of an option.
LEMMA SomeForm ==
  ASSUME TypeInv, NEW kind \in Kind, NEW o \in ListOption
  PROVE  LET s == opts.list[o]
         IN  /\ s \in Seq(Name) /\ Len(s) \in Nat
             /\ Some(kind, o, 1) = <<>> /\ Some(kind, o, Len(s) + 1) = Each(kind, s)
             /\ \A k \in 1 .. Len(s) : /\ Some(kind, o, k) \in Seq(Digest) /\ <<kind, <<s[k]>>>> \in Digest
                                       /\ Some(kind, o, k + 1) = Append(Some(kind, o, k), <<kind, <<s[k]>>>>)
  <1> DEFINE s == opts.list[o]
  <1>1. s \in Seq(Name) /\ Len(s) \in Nat BY OptsType
  <1> HIDE DEF s
  <1>2. Some(kind, o, 1) = <<>>
    <2>1. 1 - 1 = 0 OBVIOUS
    <2>2. SubSeq(s, 1, 0) = <<>> BY <1>1, PrefixEnds
    <2> QED BY <2>1, <2>2, EachForm DEF Some, s
  <1>3. Some(kind, o, Len(s) + 1) = Each(kind, s)
    <2>1. (Len(s) + 1) - 1 = Len(s) BY <1>1
    <2>2. SubSeq(s, 1, Len(s)) = s BY <1>1, PrefixEnds
    <2> QED BY <2>1, <2>2 DEF Some, s
  <1>4. ASSUME NEW k \in 1 .. Len(s)
        PROVE  /\ Some(kind, o, k) \in Seq(Digest) /\ <<kind, <<s[k]>>>> \in Digest
               /\ Some(kind, o, k + 1) = Append(Some(kind, o, k), <<kind, <<s[k]>>>>)
    <2>1. /\ SubSeq(s, 1, k - 1) \in Seq(Name) /\ s[k] \in Name
          /\ SubSeq(s, 1, k) = Append(SubSeq(s, 1, k - 1), s[k]) BY <1>1, PrefixNext
    <2>2. (k + 1) - 1 = k OBVIOUS
    <2> QED BY <2>1, <2>2, EachForm, DigestType DEF Some, s
  <1> QED BY <1>1, <1>2, <1>3, <1>4 DEF s

\* A step of a handler goes on where its register says, or ends the program.
Kept == Ends \/ SoFar(pc', cur, i', walk', bank'[cur])

LEMMA AppendParts ==
  ASSUME NEW T, NEW u \in Seq(T), NEW x \in T
  PROVE  /\ Append(u, x) \in Seq(T) /\ Len(Append(u, x)) = Len(u) + 1
         /\ \A k \in 1 .. Len(u) : Append(u, x)[k] = u[k]
         /\ Append(u, x)[Len(u) + 1] = x BY AppendProperties

LEMMA AppendFourth ==
  ASSUME NEW a, NEW b, NEW c, NEW d
  PROVE  Append(<<a, b, c>>, d) = <<a, b, c, d>>
  <1> DEFINE S == {a, b, c, d}
             s == Append(<<a, b, c>>, d)
             t == <<a, b, c, d>>
  <1>1. <<a, b, c>> \in Seq(S) /\ Len(<<a, b, c>>) = 3 /\ d \in S
        /\ <<a, b, c>>[1] = a /\ <<a, b, c>>[2] = b /\ <<a, b, c>>[3] = c OBVIOUS
  <1>2. t \in Seq(S) /\ Len(t) = 4 /\ t[1] = a /\ t[2] = b /\ t[3] = c /\ t[4] = d OBVIOUS
  <1> DEFINE r == <<a, b, c>>
  <1> HIDE DEF S, r
  <1>3. s \in Seq(S) /\ Len(s) = 4 /\ s[1] = a /\ s[2] = b /\ s[3] = c /\ s[4] = d
    <2>1. r \in Seq(S) /\ Len(r) = 3 /\ d \in S /\ r[1] = a /\ r[2] = b /\ r[3] = c
      BY <1>1 DEF r
    <2>2. /\ Append(r, d) \in Seq(S) /\ Len(Append(r, d)) = Len(r) + 1
          /\ (\A k \in 1 .. Len(r) : Append(r, d)[k] = r[k])
          /\ Append(r, d)[Len(r) + 1] = d BY <2>1, AppendParts, Zenon
    <2>3. Append(r, d) \in Seq(S) /\ Len(Append(r, d)) = 4 /\ Append(r, d)[1] = a /\ Append(r, d)[2] = b
          /\ Append(r, d)[3] = c /\ Append(r, d)[4] = d BY <2>1, <2>2
    <2> QED BY <2>3 DEF r
  <1> HIDE DEF s, t
  <1>4. \A k \in 1 .. Len(s) : s[k] = t[k]
    <2>1. \A k \in 1 .. Len(s) : k = 1 \/ k = 2 \/ k = 3 \/ k = 4 BY <1>3
    <2> QED BY <1>2, <1>3, <2>1
  <1>5. s = t BY <1>2, <1>3, <1>4, SeqEqual
  <1> QED BY <1>5 DEF s, t

LEMMA ReferenceIs ==
  /\ Reference(0) = <<Crtm, PeiVolume, DxeVolume, Separator>>
  /\ Reference(1) = AcpiReference \o BootVarReference \o <<Separator>>
  /\ Reference(2) = Each("pe", opts.list["driver"]) \o <<Separator>>
  /\ \A n \in {3, 6} : Reference(n) = <<Separator>>
  /\ Reference(4) = BootImages \o KernelReference \o <<Action4, Separator>>
  /\ Reference(5) = Each("content", Optional("gpt")) \o <<Separator, Invocation, Returned>>
  /\ Reference(7) = SecureBoot \o <<Separator>> \o Each("sbatlevel", Optional("sbatlevel"))
  /\ Reference(8) = [k \in 1 .. (IF Given("grubcmds") THEN GrubLines ELSE 0) |-> GrubCommand(k)]
  <1>1. Reference(0) = <<Crtm, PeiVolume, DxeVolume, Separator>>
    BY DEF Reference, Crtm, PeiVolume, DxeVolume
  <1>2. Reference(1) = AcpiReference \o BootVarReference \o <<Separator>> BY DEF Reference
  <1>3. Reference(2) = Each("pe", opts.list["driver"]) \o <<Separator>> BY DEF Reference
  <1>4. \A n \in {3, 6} : Reference(n) = <<Separator>>
    <2>1. Reference(3) = <<Separator>> /\ Reference(6) = <<Separator>> BY DEF Reference
    <2> QED BY <2>1, Zenon
  <1>5. Reference(4) = BootImages \o KernelReference \o <<Action4, Separator>>
    <2>1. 4 # 0 /\ 4 # 1 /\ 4 # 2 /\ 4 \notin {3, 6} /\ 4 # 5 /\ 4 # 7 /\ 4 # 8 OBVIOUS
    <2> QED BY <2>1, Zenon DEF Reference, BootImages, Action4
  <1>6. Reference(5) = Each("content", Optional("gpt")) \o <<Separator, Invocation, Returned>>
    BY DEF Reference
  <1>7. Reference(7) = SecureBoot \o <<Separator>> \o Each("sbatlevel", Optional("sbatlevel"))
    BY DEF Reference, SecureBoot
  <1>8. Reference(8) = [k \in 1 .. (IF Given("grubcmds") THEN GrubLines ELSE 0) |-> GrubCommand(k)]
    BY DEF Reference
  <1> QED BY <1>1, <1>2, <1>3, <1>4, <1>5, <1>6, <1>7, <1>8

LEMMA MatchesIs ==
  ASSUME NEW v
  PROVE  /\ \A n \in {0, 1, 2, 3, 4, 5, 6, 7} : v = Reference(n) => Matches(n, v)
         /\ MatchesPcr8(v) => Matches(8, v)
         /\ MatchesPcr9(v) => Matches(9, v)
  <1>1. \A n \in {0, 1, 2, 3, 4, 5, 6, 7} : n # 8 /\ n # 9 OBVIOUS
  <1> QED BY <1>1 DEF Matches

LEMMA Pcr0Value ==
  ASSUME TypeInv, PointInv, RunningInv, ~Unnoticed(cur), CalculatePcr0
  PROVE  Kept
  <1>1. pc \in {"crtm", "firmware", "pei", "dxe"} /\ pc \in HandlerLabel
    BY DEF CalculatePcr0, MeasureCrtm, ReadFirmware, MeasurePei, MeasureDxe, HandlerLabel
  <1>2. cur = 0 BY <1>1, Zenon DEF PointInv, At
  <1>3. SoFar(pc, cur, i, walk, bank[cur]) BY <1>1, Zenon DEF RunningInv
  <1>4. fs[Firmware] # "corrupt" BY <1>2 DEF Unnoticed
  <1>5. CASE MeasureCrtm
    <2>1. bank[cur] = <<>> BY <1>3, <1>5, Zenon DEF MeasureCrtm, SoFar
    <2>2. MakesEvent(Crtm) /\ Goto("firmware")
      BY <1>5, MakesEventIntro, Zenon DEF MeasureCrtm, Crtm
    <2>3. bank'[cur] = <<Crtm>> /\ pc' = "firmware"
      BY <1>1, <2>1, <2>2, ValueMoves, TupleAppend, Zenon
    <2> QED BY <2>3, SoFarIntro0, Zenon DEF Kept
  <1>6. CASE ReadFirmware
    <2>1. bank[cur] = <<Crtm>> BY <1>3, <1>6, Zenon DEF ReadFirmware, SoFar
    <2>2. ((Skip \/ Warn) /\ Goto("pei")) \/ Fail \/ Crash BY <1>6, Zenon DEF ReadFirmware
    <2>3. Ends \/ (bank'[cur] = <<Crtm>> /\ pc' = "pei")
      BY <1>1, <2>1, <2>2, ValueMoves, Zenon
    <2> QED BY <2>3, SoFarIntro0, Zenon DEF Kept
  <1>7. CASE MeasurePei
    <2>1. bank[cur] = <<Crtm>> BY <1>3, <1>7, Zenon DEF MeasurePei, SoFar
    <2>2. (MakesEvent(PeiVolume) /\ Goto("dxe")) \/ Fail \/ Crash
      BY <1>4, <1>7, MakesEventIntro, Zenon DEF MeasurePei, MeasureVolume, Undecompressed, PeiVolume
    <2>3. Ends \/ (bank'[cur] = <<Crtm, PeiVolume>> /\ pc' = "dxe")
      BY <1>1, <2>1, <2>2, ValueMoves, TupleAppend, Zenon
    <2> QED BY <2>3, SoFarIntro0, Zenon DEF Kept
  <1>8. CASE MeasureDxe
    <2>1. bank[cur] = <<Crtm, PeiVolume>> BY <1>3, <1>8, Zenon DEF MeasureDxe, SoFar
    <2>2. (MakesEvent(DxeVolume) /\ Goto("separator")) \/ Fail \/ Crash
      BY <1>4, <1>8, MakesEventIntro, Zenon DEF MeasureDxe, MeasureVolume, Undecompressed, DxeVolume
    <2>3. Append(<<Crtm, PeiVolume>>, DxeVolume) = <<Crtm, PeiVolume, DxeVolume>>
      BY TupleAppend, Zenon
    <2>4. Ends \/ (bank'[cur] = <<Crtm, PeiVolume, DxeVolume>> /\ pc' = "separator")
      BY <1>1, <2>1, <2>2, <2>3, ValueMoves, Zenon
    <2> QED BY <1>2, <2>4, SoFarIntro0, Zenon DEF Kept
  <1> QED BY <1>5, <1>6, <1>7, <1>8 DEF CalculatePcr0

LEMMA SecureBootVarType ==
  ASSUME NEW k \in 1 .. 5
  PROVE  SecureBootVars[k] \in Kind /\ SecureBootVars[k] \in FileOption
  <1>1. k \in {1, 2, 3, 4, 5} OBVIOUS
  <1>2. SecureBootVars[k] \in {"secureboot", "pk", "kek", "db", "dbx"}
    BY <1>1 DEF SecureBootVars
  <1> QED BY <1>2 DEF Kind, FileOption, ValueOption

\* The parts of the reference values.
LEMMA PartTypes ==
  ASSUME TypeInv
  PROVE  /\ \A o \in FileOption : Optional(o) \in Seq(Name)
         /\ SecureBoot \in Seq(Digest) /\ Len(SecureBoot) = 5
         /\ Separator \in Digest /\ Action4 \in Digest /\ Invocation \in Digest /\ Returned \in Digest
         /\ \A k : AcpiBefore(k) \in Seq(Name)
         /\ AcpiReference \in Seq(Digest) /\ Order1 \in Digest /\ BootImages \in Seq(Digest)
         /\ KernelReference \in Seq(Digest)
  <1>1. /\ \A o \in FileOption : opts.file[o] \in Name
        /\ \A o \in ListOption : opts.list[o] \in Seq(Name) BY OptsType
  <1>2. ASSUME NEW o \in FileOption PROVE Optional(o) \in Seq(Name)
    <2>1. <<opts.file[o]>> \in Seq(Name) /\ <<>> \in Seq(Name) BY <1>1, SeqOfOne, Zenon
    <2> QED BY <2>1, Zenon DEF Optional
  <1>3. /\ "content" \in Kind /\ "bootorder" \in Kind /\ "pe" \in Kind
        /\ "tableloader" \in FileOption /\ "acpirsdp" \in FileOption /\ "tpmlog" \in FileOption
        /\ "acpitables" \in FileOption /\ "kernel" \in FileOption /\ "config" \in FileOption
        /\ "bootorder" \in ListOption /\ "bootloader" \in ListOption
    BY DEF Kind, FileOption, ValueOption, AcpiOption, ListOption
  <1>4. Separator \in Digest /\ Action4 \in Digest /\ Invocation \in Digest /\ Returned \in Digest
    BY DigestType DEF Separator, Action4, Invocation, Returned, Kind
  <1>5. SecureBoot \in Seq(Digest) /\ Len(SecureBoot) = 5
    <2>1. ASSUME NEW k \in 1 .. 5
          PROVE  <<SecureBootVars[k], Optional(SecureBootVars[k])>> \in Digest
      <3>1. SecureBootVars[k] \in Kind /\ SecureBootVars[k] \in FileOption
        BY SecureBootVarType
      <3> QED BY <1>2, <3>1, DigestType
    <2>2. SecureBoot \in [1 .. 5 -> Digest] BY <2>1 DEF SecureBoot
    <2>3. 5 \in Nat OBVIOUS
    <2> QED BY <2>2, <2>3, FunctionIsSeq
  <1> DEFINE first == Optional("tableloader")
             second == first \o Optional("acpirsdp")
             third == second \o Optional("tpmlog")
             fourth == third \o Optional("acpitables")
  <1>6. first \in Seq(Name) /\ second \in Seq(Name) /\ third \in Seq(Name) /\ fourth \in Seq(Name)
    BY <1>2, <1>3, ConcatProperties
  <1>7. \A k : AcpiBefore(k) \in Seq(Name)
    <2>1. <<>> \in Seq(Name) OBVIOUS
    <2> QED BY <1>6, <2>1, Zenon DEF AcpiBefore
  <1>8. AcpiReference \in Seq(Digest) BY <1>3, <1>6, EachForm DEF AcpiReference
  <1>9. Order1 \in Digest /\ BootImages \in Seq(Digest)
    BY <1>1, <1>3, DigestType, EachForm DEF Order1, BootImages
  <1>10. KernelReference \in Seq(Digest)
    <2>1. Optional("kernel") \o Optional("config") \in Seq(Name)
      BY <1>2, <1>3, ConcatProperties
    <2>2. <<"pe", Optional("kernel") \o Optional("config")>> \in Digest
      BY <1>3, <2>1, DigestType
    <2> DEFINE d == <<"pe", Optional("kernel") \o Optional("config")>>
    <2>3. <<d>> \in Seq(Digest) /\ <<>> \in Seq(Digest) BY <2>2, SeqOfOne
    <2> QED BY <2>3, Zenon DEF KernelReference
  <1> QED BY <1>2, <1>4, <1>5, <1>7, <1>8, <1>9, <1>10

LEMMA AcpiStep ==
  ASSUME TypeInv
  PROVE  /\ AcpiBefore(1) = <<>> /\ Each("content", AcpiBefore(5)) = AcpiReference
         /\ \A k \in 1 .. 4 : AcpiBefore(k + 1) = AcpiBefore(k) \o Optional(AcpiOrder[k])
         /\ \A k \in 1 .. 4 : AcpiOrder[k] \in FileOption
  <1>1. AcpiBefore(1) = <<>> /\ AcpiBefore(2) = Optional("tableloader")
        /\ AcpiBefore(3) = Optional("tableloader") \o Optional("acpirsdp")
        /\ AcpiBefore(4) = Optional("tableloader") \o Optional("acpirsdp") \o Optional("tpmlog")
        /\ AcpiBefore(5) = Optional("tableloader") \o Optional("acpirsdp") \o Optional("tpmlog")
                             \o Optional("acpitables") BY DEF AcpiBefore
  <1>2. AcpiOrder[1] = "tableloader" /\ AcpiOrder[2] = "acpirsdp" /\ AcpiOrder[3] = "tpmlog"
        /\ AcpiOrder[4] = "acpitables" BY DEF AcpiOrder
  <1>3. <<>> \o Optional("tableloader") = Optional("tableloader")
    <2>1. Optional("tableloader") \in Seq(Name) BY PartTypes DEF FileOption, AcpiOption
    <2> QED BY <2>1, ConcatEmpty
  <1>4. ASSUME NEW k \in 1 .. 4
        PROVE  AcpiBefore(k + 1) = AcpiBefore(k) \o Optional(AcpiOrder[k]) /\ AcpiOrder[k] \in FileOption
    <2>1. k = 1 \/ k = 2 \/ k = 3 \/ k = 4 OBVIOUS
    <2>2. 1 + 1 = 2 /\ 2 + 1 = 3 /\ 3 + 1 = 4 /\ 4 + 1 = 5 OBVIOUS
    <2>3. CASE k = 1 BY <1>1, <1>2, <1>3, <2>2, <2>3, Zenon DEF FileOption, AcpiOption
    <2>4. CASE k = 2 BY <1>1, <1>2, <2>2, <2>4, Zenon DEF FileOption, AcpiOption
    <2>5. CASE k = 3 BY <1>1, <1>2, <2>2, <2>5, Zenon DEF FileOption, AcpiOption
    <2>6. CASE k = 4 BY <1>1, <1>2, <2>2, <2>6, Zenon DEF FileOption, AcpiOption
    <2> QED BY <2>1, <2>3, <2>4, <2>5, <2>6
  <1>5. Each("content", AcpiBefore(5)) = AcpiReference BY <1>1, Zenon DEF AcpiReference
  <1> QED BY <1>1, <1>4, <1>5

LEMMA Pcr1Value ==
  ASSUME TypeInv, PointInv, RunningInv, ~Unnoticed(cur), CalculatePcr1
  PROVE  Kept
  <1>1. pc \in {"acpi", "bootorder", "bootxxxx"} /\ pc \in HandlerLabel
    BY DEF CalculatePcr1, MeasureAcpi, AcpiDone, MeasureBootOrder, MeasureDefaultBootOption,
       MeasureBootOption, BootOptionsDone, HandlerLabel
  <1>2. cur = 1 BY <1>1, Zenon DEF PointInv, At
  <1>3. SoFar(pc, cur, i, walk, bank[cur]) BY <1>1, Zenon DEF RunningInv
  <1>4. ~MemoryFails BY <1>2 DEF Unnoticed
  <1>5. /\ \A o \in FileOption : opts.file[o] \in Name
        /\ i \in Nat \ {0} /\ "content" \in Kind /\ "efivar" \in Kind /\ "bootxxxx" \in ListOption
    BY OptsType DEF TypeInv, TypeOK, Kind, ListOption
  <1>6. /\ AcpiReference \in Seq(Digest) /\ Order1 \in Digest /\ <<Order1>> \in Seq(Digest)
        /\ \A k : AcpiBefore(k) \in Seq(Name) BY PartTypes, SeqOfOne
  <1>7. CASE MeasureAcpi
    <2> DEFINE f == opts.file[AcpiOrder[i]]
    <2>1. bank[cur] = Each("content", AcpiBefore(i)) /\ i \in 1 .. 4
      <3>1. i <= 4 BY <1>7 DEF MeasureAcpi, AcpiOrder
      <3>2. bank[cur] = Each("content", AcpiBefore(i))
        BY <1>3, <1>7, Zenon DEF MeasureAcpi, SoFar
      <3>3. i \in 1 .. 4 BY <1>5, <3>1
      <3> QED BY <3>2, <3>3
    <2>2. AcpiOrder[i] \in FileOption /\ f \in Name BY <1>5, <2>1, AcpiStep
    <2>3. i' = i + 1 /\ i' <= 5 /\ pc' = "acpi"
      <3>1. i' = i + 1 /\ pc' = "acpi" BY <1>1, <1>7, ValueMoves, Zenon DEF MeasureAcpi
      <3> QED BY <2>1, <3>1
    <2>4. AcpiBefore(i + 1) = AcpiBefore(i) \o Optional(AcpiOrder[i]) /\ AcpiBefore(i) \in Seq(Name)
      BY <1>6, <2>1, AcpiStep
    <2>5. bank'[cur] = Each("content", AcpiBefore(i + 1))
      <3>1. CASE f = NoFile
        <4>1. bank'[cur] = bank[cur] BY <1>7, <3>1 DEF MeasureAcpi, Skip
        <4>2. AcpiBefore(i + 1) = AcpiBefore(i)
          BY <2>2, <2>4, <3>1, OptionalForm, ConcatEmpty
        <4> QED BY <2>1, <4>1, <4>2
      <3>2. CASE f # NoFile
        <4>1. MakesEvent(Content(f)) BY <1>7, <3>2, MakesEventIntro DEF MeasureAcpi
        <4>2. bank'[cur] = Append(Each("content", AcpiBefore(i)), Content(f))
          BY <1>1, <2>1, <4>1, ValueMoves, Zenon
        <4>3. AcpiBefore(i + 1) = Append(AcpiBefore(i), f)
          <5>1. Optional(AcpiOrder[i]) = <<f>> BY <2>2, <3>2, OptionalForm
          <5> HIDE DEF f
          <5> QED BY <2>2, <2>4, <5>1, AppendAsConcat
        <4>4. Each("content", AcpiBefore(i + 1)) = Append(Each("content", AcpiBefore(i)), Content(f))
          <5> HIDE DEF f
          <5> QED BY <1>5, <2>2, <2>4, <4>3, EachForm DEF Content
        <4> QED BY <4>2, <4>4, Zenon
      <3> QED BY <3>1, <3>2
    <2>6. i' <= 5 /\ bank'[cur] = Each("content", AcpiBefore(i')) BY <2>3, <2>5
    <2> QED BY <2>3, <2>6, SoFarIntro1, Zenon DEF Kept
  <1>8. CASE AcpiDone
    <2>1. i <= 5 /\ bank[cur] = Each("content", AcpiBefore(i))
      BY <1>3, <1>8, Zenon DEF AcpiDone, SoFar
    <2>2. i = 5
      <3>1. i > 4 BY <1>8 DEF AcpiDone, AcpiOrder
      <3> QED BY <1>5, <2>1, <3>1
    <2>3. bank[cur] = AcpiReference BY <2>1, <2>2, AcpiStep
    <2>4. bank'[cur] = AcpiReference /\ pc' = "bootorder"
      BY <1>8, <2>3 DEF AcpiDone, Skip, Goto
    <2> QED BY <2>4, SoFarIntro1, Zenon DEF Kept
  <1> DEFINE boot == opts.list["bootxxxx"]
             part(k) == Some("efivar", "bootxxxx", k)
  <1>9. /\ Len(boot) \in Nat
        /\ part(1) = <<>> /\ part(Len(boot) + 1) = Each("efivar", boot)
        /\ \A k \in 1 .. Len(boot) : /\ part(k) \in Seq(Digest) /\ <<"efivar", <<boot[k]>>>> \in Digest
                                     /\ part(k + 1) = Append(part(k), <<"efivar", <<boot[k]>>>>)
    BY <1>5, SomeForm
  <1>10. CASE MeasureBootOrder
    <2>1. bank[cur] = AcpiReference BY <1>3, <1>10, Zenon DEF MeasureBootOrder, SoFar
    <2>2. MakesEvent(Order1) /\ Goto("bootxxxx")
      BY <1>10, MakesEventIntro, Zenon DEF MeasureBootOrder, Order1
    <2>3. bank'[cur] = Append(AcpiReference, Order1) /\ pc' = "bootxxxx" /\ i' = 1
      BY <1>1, <2>1, <2>2, ValueMoves, Zenon
    <2>4. Append(AcpiReference, Order1) = AcpiReference \o (<<Order1>> \o part(1))
      <3>1. <<Order1>> \o part(1) = <<Order1>> BY <1>9, ShortSequences, Zenon
      <3>2. Append(AcpiReference, Order1) = AcpiReference \o <<Order1>>
        BY <1>6, AppendAsConcat
      <3> QED BY <3>1, <3>2
    <2>5. 1 <= Len(boot) + 1
      <3> HIDE DEF boot
      <3> QED BY <1>9
    <2>6. i' <= Len(boot) + 1 /\ bank'[cur] = AcpiReference \o (<<Order1>> \o part(i'))
      BY <2>3, <2>4, <2>5
    <2> QED BY <2>3, <2>6, SoFarIntro1, Zenon DEF Kept
  <1>11. CASE MeasureDefaultBootOption
    <2> DEFINE default == <<"boot0000", <<>>>>
    <2>1. /\ i <= Len(boot) + 1 /\ bank[cur] = AcpiReference \o (<<Order1>> \o part(i))
          /\ boot = <<>> BY <1>3, <1>11, Zenon DEF MeasureDefaultBootOption, SoFar
    <2>2. i = 1
      <3>1. Len(boot) = 0 BY <2>1
      <3> HIDE DEF boot, part
      <3> QED BY <1>5, <2>1, <3>1
    <2>3. bank[cur] = AcpiReference \o <<Order1>>
      <3>1. <<Order1>> \o part(1) = <<Order1>> BY <1>9, ShortSequences, Zenon
      <3> QED BY <2>1, <2>2, <3>1
    <2>4. MakesEvent(default) /\ Goto("separator")
      BY <1>4, <1>11, MakesEventIntro, Zenon DEF MeasureDefaultBootOption
    <2>5. bank'[cur] = Append(AcpiReference \o <<Order1>>, default) /\ pc' = "separator"
      BY <1>1, <2>3, <2>4, ValueMoves, Zenon
    <2>6. default \in Digest BY DigestType DEF Kind
    <2>7. BootVarReference = <<Order1>> \o <<default>>
      BY <2>1, Zenon DEF BootVarReference, Order1
    <2>8. bank'[cur] = AcpiReference \o BootVarReference
      <3> HIDE DEF default
      <3>1. Append(AcpiReference \o <<Order1>>, default) = AcpiReference \o Append(<<Order1>>, default)
        BY <1>6, <2>6, DigestsAppendToSecond, Zenon
      <3>2. Append(<<Order1>>, default) = <<Order1>> \o <<default>> BY ShortSequences, Zenon
      <3> QED BY <2>5, <2>7, <3>1, <3>2, Zenon
    <2> QED BY <1>2, <2>5, <2>8, SoFarIntro1, Zenon DEF Kept
  <1>12. CASE MeasureBootOption
    <2> DEFINE d == <<"efivar", <<boot[i]>>>>
    <2>1. bank[cur] = AcpiReference \o (<<Order1>> \o part(i)) /\ i \in 1 .. Len(boot)
      <3>1. bank[cur] = AcpiReference \o (<<Order1>> \o part(i))
        BY <1>3, <1>12, Zenon DEF MeasureBootOption, SoFar
      <3>2. i <= Len(boot) BY <1>12 DEF MeasureBootOption
      <3> HIDE DEF boot, part
      <3> QED BY <1>5, <1>9, <3>1, <3>2
    <2>2. (MakesEvent(d) /\ Again) \/ Fail \/ Crash
      BY <1>12, MakesEventIntro, Zenon DEF MeasureBootOption
    <2>3. CASE MakesEvent(d) /\ Again
      <3>1. bank'[cur] = Append(AcpiReference \o (<<Order1>> \o part(i)), d) /\ i' = i + 1 /\ pc' = pc
        BY <1>1, <2>1, <2>3, ValueMoves, Zenon
      <3>2. pc' = "bootxxxx" BY <1>12, <3>1 DEF MeasureBootOption
      <3>3. part(i) \in Seq(Digest) /\ d \in Digest /\ part(i + 1) = Append(part(i), d)
        BY <1>9, <2>1
      <3>4. i' <= Len(boot) + 1
        <4> HIDE DEF boot
        <4> QED BY <1>9, <2>1, <3>1
      <3>5. bank'[cur] = AcpiReference \o (<<Order1>> \o part(i + 1))
        <4> DEFINE e == part(i)
        <4>1. e \in Seq(Digest) /\ d \in Digest /\ part(i + 1) = Append(e, d)
              /\ bank'[cur] = Append(AcpiReference \o (<<Order1>> \o e), d) BY <3>1, <3>3
        <4> HIDE DEF d, e, boot
        <4>2. <<Order1>> \o e \in Seq(Digest) BY <1>6, <4>1, ConcatProperties
        <4>3. Append(AcpiReference \o (<<Order1>> \o e), d) = AcpiReference \o Append(<<Order1>> \o e, d)
          BY <1>6, <4>1, <4>2, DigestsAppendToSecond, Zenon
        <4>4. Append(<<Order1>> \o e, d) = <<Order1>> \o Append(e, d)
          BY <1>6, <4>1, DigestsAppendToSecond, Zenon
        <4> QED BY <4>1, <4>3, <4>4, Zenon
      <3>6. bank'[cur] = AcpiReference \o (<<Order1>> \o part(i')) BY <3>1, <3>5
      <3> QED BY <3>2, <3>4, <3>6, SoFarIntro1, Zenon DEF Kept
    <2> QED BY <1>1, <2>2, <2>3, ValueMoves, Zenon DEF Kept
  <1>13. CASE BootOptionsDone
    <2>1. /\ i <= Len(boot) + 1 /\ bank[cur] = AcpiReference \o (<<Order1>> \o part(i))
          /\ boot # <<>> BY <1>3, <1>13, Zenon DEF BootOptionsDone, SoFar
    <2>2. i = Len(boot) + 1
      <3>1. i > Len(boot) BY <1>13 DEF BootOptionsDone
      <3> HIDE DEF boot, part
      <3> QED BY <1>5, <1>9, <2>1, <3>1
    <2>3. <<Order1>> \o part(i) = BootVarReference
      BY <1>9, <2>1, <2>2, Zenon DEF BootVarReference, Order1
    <2>4. bank'[cur] = AcpiReference \o BootVarReference /\ pc' = "separator"
      BY <1>13, <2>1, <2>3 DEF BootOptionsDone, Skip, Goto
    <2> QED BY <1>2, <2>4, SoFarIntro1, Zenon DEF Kept
  <1> QED BY <1>7, <1>8, <1>10, <1>11, <1>12, <1>13 DEF CalculatePcr1

LEMMA Pcr2Value ==
  ASSUME TypeInv, PointInv, RunningInv, ~Unnoticed(cur), CalculatePcr2
  PROVE  Kept
  <1>1. pc = "drivers" /\ pc \in HandlerLabel
    BY DEF CalculatePcr2, MeasureDriver, DriversDone, HandlerLabel
  <1>2. cur = 2 BY <1>1, Zenon DEF PointInv, At
  <1> DEFINE s == opts.list["driver"]
             part(k) == Some("pe", "driver", k)
  <1>3. i <= Len(s) + 1 /\ bank[cur] = part(i)
    <2>1. SoFar(pc, cur, i, walk, bank[cur]) BY <1>1, Zenon DEF RunningInv
    <2> QED BY <1>1, <2>1, Zenon DEF SoFar
  <1>4. i \in Nat \ {0} /\ "pe" \in Kind /\ "driver" \in ListOption
    BY DEF TypeInv, TypeOK, Kind, ListOption
  <1>5. /\ Len(s) \in Nat
        /\ part(1) = <<>> /\ part(Len(s) + 1) = Each("pe", s)
        /\ \A k \in 1 .. Len(s) : /\ part(k) \in Seq(Digest) /\ <<"pe", <<s[k]>>>> \in Digest
                                  /\ part(k + 1) = Append(part(k), <<"pe", <<s[k]>>>>)
    BY <1>4, SomeForm
  <1>6. CASE MeasureDriver
    <2>1. i <= Len(s) /\ ((MakesEvent(<<"pe", <<s[i]>>>>) /\ Again) \/ Fail \/ Crash)
      BY <1>6, MakesEventIntro, Zenon DEF MeasureDriver, PeRefused
    <2>2. CASE MakesEvent(<<"pe", <<s[i]>>>>) /\ Again
      <3>1. bank'[cur] = Append(part(i), <<"pe", <<s[i]>>>>) /\ i' = i + 1 /\ pc' = "drivers"
        BY <1>1, <1>3, <2>2, ValueMoves, Zenon
      <3>2. i \in 1 .. Len(s) /\ i + 1 <= Len(s) + 1
        <4> HIDE DEF s, part
        <4> QED BY <1>4, <1>5, <2>1
      <3>3. part(i + 1) = Append(part(i), <<"pe", <<s[i]>>>>) BY <1>5, <3>2
      <3>4. i' <= Len(s) + 1 /\ bank'[cur] = part(i') BY <3>1, <3>2, <3>3
      <3> QED BY <3>1, <3>4, SoFarIntro24, Zenon DEF Kept
    <2> QED BY <1>1, <2>1, <2>2, ValueMoves, Zenon DEF Kept
  <1>7. CASE DriversDone
    <2>1. i = Len(s) + 1
      <3>1. i > Len(s) BY <1>7 DEF DriversDone
      <3> HIDE DEF s, part
      <3> QED BY <1>3, <1>4, <1>5, <3>1
    <2>2. bank'[cur] = Each("pe", s) /\ pc' = "separator"
      BY <1>3, <1>5, <1>7, <2>1 DEF DriversDone, Skip, Goto
    <2> QED BY <1>2, <2>2, SoFarIntro24, Zenon DEF Kept
  <1> QED BY <1>6, <1>7 DEF CalculatePcr2

LEMMA Pcr4Value ==
  ASSUME TypeInv, PointInv, RunningInv, ~Unnoticed(cur), CalculatePcr4
  PROVE  Kept
  <1>1. pc \in {"bootloaders", "kernel", "boot action"} /\ pc \in HandlerLabel
    BY DEF CalculatePcr4, MeasureBootloader, BootloadersDone, MeasureKernel, MeasureBootAction, HandlerLabel
  <1>2. cur = 4 BY <1>1, Zenon DEF PointInv, At
  <1>3. SoFar(pc, cur, i, walk, bank[cur]) BY <1>1, Zenon DEF RunningInv
  <1> DEFINE s == opts.list["bootloader"]
             part(k) == Some("pe", "bootloader", k)
  <1>4. i \in Nat \ {0} /\ "pe" \in Kind /\ "bootloader" \in ListOption
        /\ "kernel" \in FileOption /\ "config" \in FileOption
    BY DEF TypeInv, TypeOK, Kind, ListOption, FileOption, ValueOption
  <1>5. /\ s \in Seq(Name) /\ Len(s) \in Nat
        /\ part(1) = <<>> /\ part(Len(s) + 1) = Each("pe", s)
        /\ \A k \in 1 .. Len(s) : /\ part(k) \in Seq(Digest) /\ <<"pe", <<s[k]>>>> \in Digest
                                  /\ part(k + 1) = Append(part(k), <<"pe", <<s[k]>>>>)
    BY <1>4, SomeForm
  <1>6. ~MemoryFails /\ \A k \in 1 .. Len(s) : fs[s[k]] # "bad"
    <2>1. DOMAIN s = 1 .. Len(s)
      <3> HIDE DEF s
      <3> QED BY <1>5
    <2> QED BY <1>2, <2>1 DEF Unnoticed
  <1>7. BootImages \in Seq(Digest) /\ KernelReference \in Seq(Digest) /\ Action4 \in Digest
    BY PartTypes
  <1>8. CASE MeasureBootloader
    <2>1. i <= Len(s) /\ i \in 1 .. Len(s)
      <3>1. i <= Len(s) BY <1>8 DEF MeasureBootloader
      <3> HIDE DEF s
      <3> QED BY <1>4, <1>5, <3>1
    <2>2. (MakesEvent(<<"pe", <<s[i]>>>>) /\ Again) \/ Fail \/ Crash
      <3>1. fs[s[i]] # "bad" /\ ~MemoryFails BY <1>6, <2>1
      <3> QED BY <1>8, <3>1, MakesEventIntro, Zenon DEF MeasureBootloader
    <2>3. CASE MakesEvent(<<"pe", <<s[i]>>>>) /\ Again
      <3>1. bank[cur] = part(i) /\ pc = "bootloaders"
        BY <1>3, <1>8, Zenon DEF MeasureBootloader, SoFar
      <3>2. bank'[cur] = Append(part(i), <<"pe", <<s[i]>>>>) /\ i' = i + 1 /\ pc' = "bootloaders"
        BY <1>1, <2>3, <3>1, ValueMoves, Zenon
      <3>3. i + 1 <= Len(s) + 1
        <4> HIDE DEF s, part
        <4> QED BY <1>4, <1>5, <2>1
      <3>4. part(i + 1) = Append(part(i), <<"pe", <<s[i]>>>>) BY <1>5, <2>1
      <3>5. i' <= Len(s) + 1 /\ bank'[cur] = part(i') BY <3>2, <3>3, <3>4
      <3> QED BY <3>2, <3>5, SoFarIntro24, Zenon DEF Kept
    <2> QED BY <1>1, <2>2, <2>3, ValueMoves, Zenon DEF Kept
  <1>9. CASE BootloadersDone
    <2>1. i <= Len(s) + 1 /\ bank[cur] = part(i)
      BY <1>3, <1>9, Zenon DEF BootloadersDone, SoFar
    <2>2. i = Len(s) + 1
      <3>1. i > Len(s) BY <1>9 DEF BootloadersDone
      <3> HIDE DEF s, part
      <3> QED BY <1>4, <1>5, <2>1, <3>1
    <2>3. bank'[cur] = BootImages /\ (IF Given("kernel") THEN pc' = "kernel" ELSE pc' = "boot action")
      <3>1. Skip /\ Goto(IF Given("kernel") THEN "kernel" ELSE "boot action")
        BY <1>9, Zenon DEF BootloadersDone
      <3>2. bank'[cur] = bank[cur] BY <3>1 DEF Skip
      <3>3. part(Len(s) + 1) = BootImages BY <1>5, Zenon DEF BootImages
      <3> QED BY <2>1, <2>2, <3>1, <3>2, <3>3, Zenon DEF Goto
    <2>4. CASE Given("kernel") BY <2>3, <2>4, SoFarIntro24, Zenon DEF Kept
    <2>5. CASE ~Given("kernel")
      <3>1. KernelReference = <<>> BY <2>5, Zenon DEF KernelReference
      <3>2. BootImages \o KernelReference = BootImages BY <1>7, <3>1, ConcatEmpty
      <3> QED BY <2>3, <2>5, <3>2, SoFarIntro24, Zenon DEF Kept
    <2> QED BY <2>4, <2>5
  <1>10. CASE MeasureKernel
    <2> DEFINE k == opts.file["kernel"]
               c == opts.file["config"]
               d == <<"pe", IF c = NoFile THEN <<k>> ELSE <<k, c>>>>
    <2>1. Given("kernel") /\ bank[cur] = BootImages
      BY <1>3, <1>10, Zenon DEF MeasureKernel, SoFar
    <2>2. (MakesEvent(d) /\ Goto("boot action")) \/ Fail \/ Crash
      BY <1>10, MakesEventIntro, Zenon DEF MeasureKernel, PeRefused
    <2>3. KernelReference = <<d>>
      <3>1. Optional("kernel") = <<k>> BY <1>4, <2>1, OptionalForm DEF Given
      <3>2. Optional("kernel") \o Optional("config") = IF c = NoFile THEN <<k>> ELSE <<k, c>>
        <4>1. CASE c = NoFile
          <5>1. Optional("config") = <<>> BY <1>4, <4>1, OptionalForm
          <5> QED BY <3>1, <4>1, <5>1, ShortSequences, Zenon
        <4>2. CASE c # NoFile
          <5>1. Optional("config") = <<c>> BY <1>4, <4>2, OptionalForm
          <5> QED BY <3>1, <4>2, <5>1, ShortSequences, Zenon
        <4> QED BY <4>1, <4>2
      <3> QED BY <2>1, <3>2, Zenon DEF KernelReference
    <2>4. Append(BootImages, d) = BootImages \o KernelReference
      <3>1. d \in Digest
        <4>1. <<d>> \in Seq(Digest) BY <1>7, <2>3
        <4> HIDE DEF d
        <4>2. <<d>>[1] \in Digest BY <4>1
        <4> QED BY <4>2
      <3> HIDE DEF d
      <3> QED BY <1>7, <2>3, <3>1, AppendAsConcat
    <2>5. Ends \/ (bank'[cur] = Append(BootImages, d) /\ pc' = "boot action")
      BY <1>1, <2>1, <2>2, ValueMoves, Zenon
    <2> QED BY <2>4, <2>5, SoFarIntro24, Zenon DEF Kept
  <1>11. CASE MeasureBootAction
    <2>1. bank[cur] = BootImages \o KernelReference
      BY <1>3, <1>11, Zenon DEF MeasureBootAction, SoFar
    <2>2. MakesEvent(Action4) /\ Goto("separator")
      BY <1>11, MakesEventIntro, Zenon DEF MeasureBootAction, Action4
    <2>3. bank'[cur] = Append(BootImages \o KernelReference, Action4) /\ pc' = "separator"
      BY <1>1, <2>1, <2>2, ValueMoves, Zenon
    <2> QED BY <1>2, <2>3, SoFarIntro24, Zenon DEF Kept
  <1> QED BY <1>8, <1>9, <1>10, <1>11 DEF CalculatePcr4

LEMMA Pcr5Value ==
  ASSUME TypeInv, PointInv, RunningInv, ~Unnoticed(cur), CalculatePcr5
  PROVE  Kept
  <1>1. pc \in GptLabel /\ pc \in HandlerLabel
    BY DEF CalculatePcr5, LogGptSeparator, MeasureGpt, LogExitBootInvocation, LogExitBootReturned,
       GptLabel, HandlerLabel
  <1>2. cur = 5 BY <1>1, Zenon DEF PointInv, At
  <1>3. SoFar(pc, cur, i, walk, bank[cur]) BY <1>1, Zenon DEF RunningInv
  <1>4. CASE LogGptSeparator
    <2>1. bank[cur] = <<>> BY <1>3, <1>4, Zenon DEF LogGptSeparator, SoFar
    <2>2. (bank' = bank /\ Goto("gpt")) \/ Fail BY <1>4 DEF LogGptSeparator, LogOnly
    <2>3. Ends \/ (bank'[cur] = <<>> /\ pc' = "gpt")
      BY <2>1, <2>2, Zenon DEF Goto, Fail, Ends
    <2> QED BY <2>3, SoFarIntro578, Zenon DEF Kept
  <1>5. CASE MeasureGpt
    <2> DEFINE f == opts.file["gpt"]
    <2>1. bank[cur] = <<>> BY <1>3, <1>5, Zenon DEF MeasureGpt, SoFar
    <2>2. \/ f = NoFile /\ Skip /\ Goto("exit boot")
          \/ f # NoFile /\ MakesEvent(Content(f)) /\ Goto("exit boot")
          \/ Fail BY <1>5, MakesEventIntro, Zenon DEF MeasureGpt
    <2>3. "gpt" \in FileOption /\ "content" \in Kind /\ f \in Name
      BY OptsType DEF FileOption, LooseOption, Kind
    <2>4. CASE f = NoFile /\ Skip /\ Goto("exit boot")
      <3>1. Each("content", Optional("gpt")) = <<>> BY <2>3, <2>4, OptionalForm, EachForm
      <3>2. bank'[cur] = <<>> /\ pc' = "exit boot" BY <2>1, <2>4 DEF Skip, Goto
      <3> QED BY <3>1, <3>2, SoFarIntro578, Zenon DEF Kept
    <2>5. CASE f # NoFile /\ MakesEvent(Content(f)) /\ Goto("exit boot")
      <3>1. Each("content", Optional("gpt")) = <<Content(f)>>
        BY <2>3, <2>5, OptionalForm, EachForm DEF Content
      <3>2. bank'[cur] = Append(<<>>, Content(f)) /\ pc' = "exit boot"
        BY <1>1, <2>1, <2>5, ValueMoves, Zenon
      <3>3. bank'[cur] = Each("content", Optional("gpt"))
        BY <3>1, <3>2, ShortSequences, Zenon
      <3> QED BY <3>2, <3>3, SoFarIntro578, Zenon DEF Kept
    <2> QED BY <1>1, <2>2, <2>4, <2>5, ValueMoves, Zenon DEF Kept
  <1>6. CASE LogExitBootInvocation
    <2>1. bank[cur] = Each("content", Optional("gpt"))
      BY <1>3, <1>6, Zenon DEF LogExitBootInvocation, SoFar
    <2>2. bank'[cur] = Each("content", Optional("gpt")) /\ pc' = "boot exited"
      BY <1>6, <2>1 DEF LogExitBootInvocation, LogOnly, Goto
    <2> QED BY <2>2, SoFarIntro578, Zenon DEF Kept
  <1>7. CASE LogExitBootReturned
    <2>1. bank[cur] = Each("content", Optional("gpt"))
      BY <1>3, <1>7, Zenon DEF LogExitBootReturned, SoFar
    <2>2. HashExtend(<<Separator, Invocation, Returned>>) /\ Return
      BY <1>7, Zenon DEF LogExitBootReturned
    <2>3. bank'[cur] = Each("content", Optional("gpt")) \o <<Separator, Invocation, Returned>> /\ pc' = "dispatch"
      BY <1>1, <2>1, <2>2, ValueMoves, Zenon
    <2>4. bank'[cur] = Reference(cur) BY <1>2, <2>3, ReferenceIs, Zenon
    <2>5. cur \in {0, 1, 2, 3, 4, 5, 6, 7} BY <1>2
    <2>6. Matches(cur, bank'[cur]) BY <2>4, <2>5, MatchesIs, Zenon
    <2> QED BY <2>3, <2>6, SoFarIntro0, Zenon DEF Kept
  <1> QED BY <1>4, <1>5, <1>6, <1>7 DEF CalculatePcr5

LEMMA Pcr7Value ==
  ASSUME TypeInv, PointInv, RunningInv, ~Unnoticed(cur), CalculatePcr7
  PROVE  Kept
  <1>1. pc \in {"secureboot", "sbatlevel"} /\ pc \in HandlerLabel
    BY DEF CalculatePcr7, MeasureSecureBootVar, SecureBootDone, MeasureSbatLevel, HandlerLabel
  <1>2. cur = 7 BY <1>1, Zenon DEF PointInv, At
  <1>3. SoFar(pc, cur, i, walk, bank[cur]) BY <1>1, Zenon DEF RunningInv
  <1>4. i \in Nat \ {0} /\ "sbatlevel" \in Kind /\ "sbatlevel" \in FileOption
        /\ \A o \in FileOption : opts.file[o] \in Name
    BY OptsType DEF TypeInv, TypeOK, Kind, FileOption, ValueOption
  <1>5. SecureBoot \in Seq(Digest) /\ Len(SecureBoot) = 5 /\ Separator \in Digest
    BY PartTypes
  <1>6. CASE MeasureSecureBootVar
    <2> DEFINE d == <<SecureBootVars[i], Optional(SecureBootVars[i])>>
    <2>1. bank[cur] = SubSeq(SecureBoot, 1, i - 1) /\ pc = "secureboot"
      BY <1>3, <1>6, Zenon DEF MeasureSecureBootVar, SoFar
    <2>2. i \in 1 .. 5
      <3>1. i <= 5 BY <1>6 DEF MeasureSecureBootVar, SecureBootVars
      <3> QED BY <1>4, <3>1
    <2>3. (MakesEvent(d) /\ Again) \/ Fail \/ Crash
      <3>1. SecureBootVars[i] \in FileOption BY <2>2, SecureBootVarType
      <3>2. IF opts.file[SecureBootVars[i]] = NoFile
            THEN d = <<SecureBootVars[i], <<>>>>
            ELSE d = <<SecureBootVars[i], <<opts.file[SecureBootVars[i]]>>>>
        BY <3>1, OptionalForm
      <3> HIDE DEF d
      <3> QED BY <1>6, <3>2, MakesEventIntro DEF MeasureSecureBootVar
    <2>4. CASE MakesEvent(d) /\ Again
      <3>1. bank'[cur] = Append(SubSeq(SecureBoot, 1, i - 1), d) /\ i' = i + 1 /\ pc' = "secureboot"
        BY <1>1, <2>1, <2>4, ValueMoves, Zenon
      <3>2. SecureBoot[i] = d BY <2>2 DEF SecureBoot
      <3>3. SubSeq(SecureBoot, 1, i) = Append(SubSeq(SecureBoot, 1, i - 1), d)
        <4> HIDE DEF d
        <4> QED BY <1>5, <2>2, <3>2, PrefixNext
      <3>4. i' <= 6 /\ i' - 1 = i BY <2>2, <3>1
      <3>5. bank'[cur] = SubSeq(SecureBoot, 1, i' - 1) BY <3>1, <3>3, <3>4, Zenon
      <3> QED BY <3>1, <3>4, <3>5, SoFarIntro578, Zenon DEF Kept
    <2> QED BY <1>1, <2>3, <2>4, ValueMoves, Zenon DEF Kept
  <1>7. CASE SecureBootDone
    <2>1. i <= 6 /\ bank[cur] = SubSeq(SecureBoot, 1, i - 1)
      BY <1>3, <1>7, Zenon DEF SecureBootDone, SoFar
    <2>2. i - 1 = 5
      <3>1. i > 5 BY <1>7 DEF SecureBootDone, SecureBootVars
      <3> QED BY <1>4, <2>1, <3>1
    <2>3. bank[cur] = SecureBoot BY <1>5, <2>1, <2>2, PrefixEnds
    <2>4. bank'[cur] = SecureBoot /\ pc' = "separator"
      BY <1>7, <2>3 DEF SecureBootDone, Skip, Goto
    <2> QED BY <1>2, <2>4, SoFarIntro578, Zenon DEF Kept
  <1>8. CASE MeasureSbatLevel
    <2> DEFINE f == opts.file["sbatlevel"]
               s == SecureBoot \o <<Separator>>
    <2>1. bank[cur] = s
      <3>1. bank[cur] = Append(SecureBoot, Separator)
        BY <1>3, <1>8, Zenon DEF MeasureSbatLevel, SoFar
      <3> QED BY <1>5, <3>1, AppendAsConcat
    <2>2. s \in Seq(Digest) BY <1>5, SeqOfOne, ConcatProperties
    <2>3. \/ f # NoFile /\ MakesEvent(<<"sbatlevel", <<f>>>>) /\ Return
          \/ f = NoFile /\ Skip /\ Return
          \/ Fail BY <1>8, MakesEventIntro, Zenon DEF MeasureSbatLevel, Given
    <2>4. Ends \/ (pc' = "dispatch" /\ bank'[cur] = s \o Each("sbatlevel", Optional("sbatlevel")))
      <3>1. CASE f # NoFile /\ MakesEvent(<<"sbatlevel", <<f>>>>) /\ Return
        <4> DEFINE d == <<"sbatlevel", <<f>>>>
        <4>1. Each("sbatlevel", Optional("sbatlevel")) = <<d>> /\ d \in Digest
          BY <1>4, <3>1, OptionalForm, EachForm, DigestType
        <4>2. bank'[cur] = Append(s, d) /\ pc' = "dispatch"
          BY <1>1, <2>1, <3>1, ValueMoves, Zenon
        <4>3. Append(s, d) = s \o <<d>>
          <5> HIDE DEF s, d
          <5> QED BY <2>2, <4>1, AppendAsConcat
        <4> QED BY <4>1, <4>2, <4>3, Zenon
      <3>2. CASE f = NoFile /\ Skip /\ Return
        <4>1. Each("sbatlevel", Optional("sbatlevel")) = <<>>
          BY <1>4, <3>2, OptionalForm, EachForm
        <4>2. bank'[cur] = s /\ pc' = "dispatch" BY <2>1, <3>2 DEF Skip, Return
        <4>3. s \o <<>> = s
          <5> HIDE DEF s
          <5> QED BY <2>2, ConcatEmpty
        <4> QED BY <4>1, <4>2, <4>3, Zenon
      <3>3. Fail => Ends BY DEF Fail, Ends
      <3> QED BY <2>3, <3>1, <3>2, <3>3, Zenon
    <2>5. Ends \/ (pc' = "dispatch" /\ bank'[cur] = Reference(cur))
      BY <1>2, <2>4, ReferenceIs, Zenon
    <2>6. cur \in {0, 1, 2, 3, 4, 5, 6, 7} BY <1>2
    <2>7. Ends \/ (pc' = "dispatch" /\ Matches(cur, bank'[cur]))
      BY <2>5, <2>6, MatchesIs, Zenon
    <2> QED BY <2>7, SoFarIntro0, Zenon DEF Kept
  <1> QED BY <1>6, <1>7, <1>8 DEF CalculatePcr7

\* The lines of the GRUB command file.
LEMMA GrubForm ==
  ASSUME TypeInv
  PROVE  /\ GrubLines \in Nat /\ GrubLinesBefore(1) = <<>>
         /\ \A k \in Nat \ {0} : /\ GrubLinesBefore(k) \in Seq(Digest)
                                 /\ GrubLinesBefore(k + 1) = Append(GrubLinesBefore(k), GrubCommand(k))
  <1>1. GrubLines \in Nat BY FilesAssumption
  <1>2. GrubLinesBefore(1) = <<>> BY DEF GrubLinesBefore
  <1>3. ASSUME NEW k \in Nat \ {0}
        PROVE  GrubCommand(k) \in Digest
    <2>1. GrubFile \in Name /\ "grub command" \in Kind
      BY OptsType DEF GrubFile, FileOption, ValueOption, Kind
    <2>2. [j \in 1 .. k |-> GrubFile] \in [1 .. k -> Name] BY <2>1
    <2>3. [j \in 1 .. k |-> GrubFile] \in Seq(Name) BY <2>2, FunctionIsSeq
    <2> QED BY <2>1, <2>3, DigestType DEF GrubCommand
  <1>4. ASSUME NEW k \in Nat \ {0}
        PROVE  /\ GrubLinesBefore(k) \in Seq(Digest)
               /\ GrubLinesBefore(k + 1) = Append(GrubLinesBefore(k), GrubCommand(k))
    <2> DEFINE s == GrubLinesBefore(k)
    <2>1. k - 1 \in Nat /\ s \in [1 .. k - 1 -> Digest] BY <1>3 DEF GrubLinesBefore
    <2>2. s \in Seq(Digest) /\ Len(s) = k - 1
      <3> HIDE DEF s
      <3> QED BY <2>1, FunctionIsSeq
    <2>3. Append(s, GrubCommand(k))
            = [j \in 1 .. Len(s) + 1 |-> IF j \in 1 .. Len(s) THEN s[j] ELSE GrubCommand(k)]
      <3> HIDE DEF s
      <3> QED BY <1>3, <2>2, AppendIsFunction
    <2>4. Len(s) + 1 = k /\ (k + 1) - 1 = k
      <3> HIDE DEF s
      <3> QED BY <2>2
    <2>5. \A j \in 1 .. k : (IF j \in 1 .. k - 1 THEN s[j] ELSE GrubCommand(k)) = GrubCommand(j)
      <3> SUFFICES ASSUME NEW j \in 1 .. k
                   PROVE  (IF j \in 1 .. k - 1 THEN s[j] ELSE GrubCommand(k)) = GrubCommand(j)
        OBVIOUS
      <3>1. j \in 1 .. k - 1 \/ j = k OBVIOUS
      <3>2. j \in 1 .. k - 1 => s[j] = GrubCommand(j) BY DEF GrubLinesBefore
      <3>3. k \notin 1 .. k - 1 OBVIOUS
      <3> HIDE DEF s
      <3> QED BY <3>1, <3>2, <3>3, Zenon
    <2>6. GrubLinesBefore(k + 1) = [j \in 1 .. k |-> GrubCommand(j)]
      BY <2>4 DEF GrubLinesBefore
    <2>7. Append(s, GrubCommand(k)) = [j \in 1 .. k |-> IF j \in 1 .. k - 1 THEN s[j] ELSE GrubCommand(k)]
      <3> HIDE DEF s
      <3> QED BY <2>2, <2>3, <2>4
    <2> HIDE DEF s
    <2>8. Append(s, GrubCommand(k)) = [j \in 1 .. k |-> GrubCommand(j)] BY <2>5, <2>7
    <2> QED BY <2>2, <2>6, <2>8 DEF s
  <1> QED BY <1>1, <1>2, <1>4

LEMMA Pcr8Value ==
  ASSUME TypeInv, PointInv, RunningInv, ~Unnoticed(cur), CalculatePcr8
  PROVE  Kept
  <1>1. pc \in {"grub", "grub commands"} /\ pc \in HandlerLabel
    BY DEF CalculatePcr8, ReadGrub, MeasureGrubCommand, HandlerLabel
  <1>2. cur = 8 BY <1>1, Zenon DEF PointInv, At
  <1>3. SoFar(pc, cur, i, walk, bank[cur]) BY <1>1, Zenon DEF RunningInv
  <1>4. i \in Nat \ {0} BY DEF TypeInv, TypeOK
  <1>5. CASE ReadGrub
    <2>1. bank[cur] = <<>> BY <1>3, <1>5, Zenon DEF ReadGrub, SoFar
    <2>2. \/ ~Given("grubcmds") /\ Skip /\ Return
          \/ Given("grubcmds") /\ Skip /\ Goto("grub commands")
          \/ Fail BY <1>5, Zenon DEF ReadGrub, Given, GrubFile
    <2>3. CASE ~Given("grubcmds") /\ Skip /\ Return
      <3>1. Reference(8) = <<>> BY <2>3, ReferenceIs
      <3>2. bank'[cur] = <<>> /\ pc' = "dispatch" BY <2>1, <2>3 DEF Skip, Return
      <3>3. Matches(cur, bank'[cur]) BY <1>2, <3>1, <3>2, MatchesIs, Zenon DEF MatchesPcr8
      <3> QED BY <3>2, <3>3, SoFarIntro0, Zenon DEF Kept
    <2>4. CASE Given("grubcmds") /\ Skip /\ Goto("grub commands")
      <3>1. bank'[cur] = <<>> /\ pc' = "grub commands" /\ i' = 1
        BY <2>1, <2>4 DEF Skip, Goto
      <3>2. 1 <= GrubLines + 1 BY FilesAssumption
      <3>3. i' <= GrubLines + 1 /\ bank'[cur] = GrubLinesBefore(i') BY <3>1, <3>2, GrubForm
      <3> QED BY <2>4, <3>1, <3>3, SoFarIntro578, Zenon DEF Kept
    <2> QED BY <1>1, <2>2, <2>3, <2>4, ValueMoves, Zenon DEF Kept
  <1>6. CASE MeasureGrubCommand
    <2>1. Given("grubcmds") /\ i <= GrubLines + 1 /\ bank[cur] = GrubLinesBefore(i) /\ pc = "grub commands"
      BY <1>3, <1>6, Zenon DEF MeasureGrubCommand, SoFar
    <2> DEFINE garbage == <<"garbage", <<>>>>
    <2>2. \/ i <= GrubLines /\ MakesEvent(GrubCommand(i)) /\ Again
          \/ i > GrubLines /\ MakesEvent(garbage) /\ Return
          \/ i > GrubLines /\ Skip /\ Return
      BY <1>6, MakesEventIntro, Zenon DEF MeasureGrubCommand
    <2>3. CASE i <= GrubLines /\ MakesEvent(GrubCommand(i)) /\ Again
      <3>1. bank'[cur] = Append(GrubLinesBefore(i), GrubCommand(i)) /\ i' = i + 1 /\ pc' = "grub commands"
        BY <1>1, <2>1, <2>3, ValueMoves, Zenon
      <3>2. bank'[cur] = GrubLinesBefore(i + 1) BY <1>4, <3>1, GrubForm
      <3>3. i + 1 <= GrubLines + 1 BY <1>4, <2>3, GrubForm
      <3>4. i' <= GrubLines + 1 /\ bank'[cur] = GrubLinesBefore(i')
        BY <3>1, <3>2, <3>3, Zenon
      <3> QED BY <2>1, <3>1, <3>4, SoFarIntro578, Zenon DEF Kept
    <2>4. CASE i > GrubLines /\ ((MakesEvent(garbage) /\ Return) \/ (Skip /\ Return))
      <3>1. i - 1 = GrubLines
        <4>1. GrubLines \in Nat /\ i <= GrubLines + 1 /\ i > GrubLines
          BY <2>1, <2>4, FilesAssumption, Zenon
        <4> QED BY <1>4, <4>1
      <3>2. bank[cur] = Reference(8) BY <2>1, <3>1, ReferenceIs DEF GrubLinesBefore
      <3>3. pc' = "dispatch" /\ bank'[cur] \in {Reference(8), Append(Reference(8), garbage)}
        <4>1. CASE MakesEvent(garbage) /\ Return BY <1>1, <3>2, <4>1, ValueMoves, Zenon
        <4>2. CASE Skip /\ Return BY <1>1, <3>2, <4>2, ValueMoves, Zenon
        <4> QED BY <2>4, <4>1, <4>2
      <3>4. Matches(cur, bank'[cur]) BY <1>2, <2>1, <3>3, MatchesIs, Zenon DEF MatchesPcr8
      <3> QED BY <3>3, <3>4, SoFarIntro0, Zenon DEF Kept
    <2> QED BY <2>2, <2>3, <2>4
  <1> QED BY <1>5, <1>6 DEF CalculatePcr8

LEMMA SeparatorValue ==
  ASSUME TypeInv, PointInv, RunningInv, ~Unnoticed(cur), MeasureSeparator
  PROVE  Kept
  <1>1. pc = "separator" /\ pc \in HandlerLabel BY DEF MeasureSeparator, HandlerLabel
  <1>2. cur \in {0, 1, 2, 3, 4, 6, 7} BY <1>1, Zenon DEF PointInv, At
  <1> DEFINE s == bank[cur]
  <1>3. /\ cur = 0 => s = <<Crtm, PeiVolume, DxeVolume>>
        /\ cur = 1 => s = AcpiReference \o BootVarReference
        /\ cur = 2 => s = Each("pe", opts.list["driver"])
        /\ cur \in {3, 6} => s = <<>>
        /\ cur = 4 => s = Append(BootImages \o KernelReference, Action4)
        /\ cur = 7 => s = SecureBoot
    <2>1. SoFar(pc, cur, i, walk, s) BY <1>1, Zenon DEF RunningInv
    <2> QED BY <1>1, <2>1, Zenon DEF SoFar
  <1>4. cur = 1 => ~MemoryFails BY DEF Unnoticed
  <1>5. (MakesEvent(Separator) /\ IF cur = 7 THEN Goto("sbatlevel") ELSE Return) \/ Fail
    BY <1>4, MakesEventIntro, Zenon DEF MeasureSeparator
  <1>6. CASE MakesEvent(Separator) /\ IF cur = 7 THEN Goto("sbatlevel") ELSE Return
    <2>1. bank'[cur] = Append(s, Separator) /\ (IF cur = 7 THEN pc' = "sbatlevel" ELSE pc' = "dispatch")
      BY <1>1, <1>6, ValueMoves, Zenon
    <2>2. CASE cur = 7 BY <1>3, <2>1, <2>2, SoFarIntro578, Zenon DEF Kept
    <2>3. CASE cur # 7
      <3>1. /\ BootImages \o KernelReference \in Seq(Digest) /\ Action4 \in Digest /\ Separator \in Digest
            /\ AcpiReference \in Seq(Digest) /\ <<Separator>> \in Seq(Digest) /\ <<Action4>> \in Seq(Digest)
        BY PartTypes, ConcatProperties, SeqOfOne
      <3>2. bank[cur] \in Seq(Digest) BY <1>1, ValueMoves, Zenon
      <3>3. Append(s, Separator) = Reference(cur)
        <4>1. CASE cur = 0
          <5>1. Append(<<Crtm, PeiVolume, DxeVolume>>, Separator) = <<Crtm, PeiVolume, DxeVolume, Separator>>
            BY AppendFourth, Zenon
          <5> QED BY <1>3, <4>1, <5>1, ReferenceIs, Zenon
        <4>2. CASE cur = 1
          <5>1. Append(s, Separator) = s \o <<Separator>> BY <3>1, <3>2, AppendAsConcat
          <5> QED BY <1>3, <4>2, <5>1, ReferenceIs, Zenon
        <4>3. CASE cur = 2
          <5>1. Append(s, Separator) = s \o <<Separator>> BY <3>1, <3>2, AppendAsConcat
          <5> QED BY <1>3, <4>3, <5>1, ReferenceIs, Zenon
        <4>4. CASE cur \in {3, 6} BY <1>3, <4>4, ShortSequences, ReferenceIs, Zenon
        <4>5. CASE cur = 4
          <5> DEFINE x == BootImages \o KernelReference
          <5>1. s = Append(x, Action4) /\ x \in Seq(Digest) BY <1>3, <3>1, <4>5
          <5> HIDE DEF x
          <5>2. Append(x, Action4) = x \o <<Action4>> BY <3>1, <5>1, AppendAsConcat
          <5>3. Append(x \o <<Action4>>, Separator) = x \o Append(<<Action4>>, Separator)
            BY <3>1, <5>1, DigestsAppendToSecond, Zenon
          <5>4. Append(<<Action4>>, Separator) = <<Action4, Separator>>
            BY ShortSequences, Zenon
          <5>5. Append(s, Separator) = x \o <<Action4, Separator>>
            BY <5>1, <5>2, <5>3, <5>4, Zenon
          <5> QED BY <4>5, <5>5, ReferenceIs, Zenon DEF x
        <4> QED BY <1>2, <2>3, <4>1, <4>2, <4>3, <4>4, <4>5
      <3>4. cur \in {0, 1, 2, 3, 4, 5, 6, 7} BY <1>2
      <3>5. Matches(cur, bank'[cur]) BY <2>1, <3>3, <3>4, MatchesIs, Zenon
      <3> QED BY <2>1, <2>3, <3>5, SoFarIntro0, Zenon DEF Kept
    <2> QED BY <2>2, <2>3
  <1> QED BY <1>1, <1>5, <1>6, ValueMoves, Zenon DEF Kept

LEMMA PrefixOfConcat ==
  ASSUME NEW T, NEW a \in Seq(T), NEW b \in Seq(T)
  PROVE  a \o b \in Seq(T) /\ Len(a \o b) - Len(b) = Len(a) /\ Len(a \o b) >= Len(b) /\ SubSeq(a \o b, 1, Len(a)) = a
  <1> DEFINE c == a \o b
  <1>1. /\ Len(a) \in Nat /\ Len(b) \in Nat /\ c \in Seq(T) /\ Len(c) = Len(a) + Len(b)
        /\ \A k \in 1 .. Len(a) : c[k] = a[k] OBVIOUS
  <1> HIDE DEF c
  <1>2. /\ SubSeq(c, 1, Len(a)) \in Seq(T) /\ Len(SubSeq(c, 1, Len(a))) = Len(a)
        /\ \A k \in 1 .. Len(a) : SubSeq(c, 1, Len(a))[k] = c[k] BY <1>1
  <1> DEFINE s == SubSeq(c, 1, Len(a))
  <1>3. s \in Seq(T) /\ Len(s) = Len(a) /\ \A k \in 1 .. Len(s) : s[k] = a[k] BY <1>1, <1>2
  <1> HIDE DEF s
  <1>4. s = a BY <1>3, SeqEqual
  <1>5. Len(c) - Len(b) = Len(a) /\ Len(c) >= Len(b) BY <1>1
  <1> QED BY <1>1, <1>4, <1>5 DEF c, s

\* The command line and the initrd close the register of PCR 9.
LEMMA Pcr9End ==
  ASSUME TypeInv, NEW files \in Seq(Digest), FilesSoFar(files, Len(Paths))
  PROVE  /\ Pcr9Tail \in Seq(Digest) /\ CmdlineDigest \in Digest
         /\ MatchesPcr9(files \o Pcr9Tail)
  <1>1. "content" \in Kind /\ "cmdline" \in Kind /\ "cmdline initrd=initrd" \in Kind
        /\ "initrd" \in FileOption /\ "cmdline" \in FileOption /\ "addzeros" \in FileOption
        /\ "path" \in ListOption BY DEF Kind, FileOption, ValueOption, ListOption
  <1>2. CmdlineDigest \in Digest
    <2>1. opts.file["cmdline"] \in Name /\ opts.file["addzeros"] \in Name BY <1>1, OptsType
    <2>2. <<opts.file["cmdline"], opts.file["addzeros"]>> \in Seq(Name) BY <2>1
    <2>3. (IF Given("initrd") THEN "cmdline initrd=initrd" ELSE "cmdline") \in Kind
      BY <1>1, Zenon
    <2> QED BY <2>2, <2>3, DigestType DEF CmdlineDigest
  <1>3. Pcr9Tail \in Seq(Digest)
    <2>1. Optional("initrd") \in Seq(Name) BY <1>1, PartTypes
    <2>2. Each("content", Optional("initrd")) \in Seq(Digest) /\ <<CmdlineDigest>> \in Seq(Digest)
      BY <1>1, <1>2, <2>1, EachForm, SeqOfOne
    <2> QED BY <2>2, ConcatProperties DEF Pcr9Tail
  <1> DEFINE t == Pcr9Tail
             v == files \o t
  <1>4. /\ v \in Seq(Digest) /\ Len(v) - Len(t) = Len(files) /\ Len(v) >= Len(t)
        /\ SubSeq(v, 1, Len(files)) = files BY <1>3, PrefixOfConcat
  <1>5. \A f \in File : Registers!Times(Content(f), files) = IF fs[f] = "absent" THEN 0 ELSE Occurrences(f)
    <2>1. DOMAIN Paths = 1 .. Len(Paths)
      <3>1. Paths \in Seq(Name) BY <1>1, OptsType DEF Paths
      <3> QED BY <3>1
    <2>2. \A f : Occurrences(f) = Passed(f, Len(Paths)) BY <2>1 DEF Occurrences, Passed
    <2> QED BY <2>2, Zenon DEF FilesSoFar, Seen
  <1>6. \A k \in DOMAIN files : \E f \in File : files[k] = Content(f)
    BY Zenon DEF FilesSoFar, OnlyFiles
  <1>7. SubSeq(v, 1, Len(v) - Len(t)) = files /\ Len(v) >= Len(t) /\ v = files \o t BY <1>4
  <1> HIDE DEF v
  <1>8. MatchesPcr9(v) BY <1>5, <1>6, <1>7, Zenon DEF MatchesPcr9
  <1> QED BY <1>2, <1>3, <1>8 DEF v

LEMMA Pcr9Value ==
  ASSUME TypeInv, PointInv, RunningInv, fs \in FileSystems, ~Unnoticed(cur), CalculatePcr9
  PROVE  Kept
  <1>1. pc \in {"paths", "walk", "cmdline", "initrd"} /\ pc \in HandlerLabel
    <2>1. pc \in {"paths", "walk", "cmdline", "initrd"}
      BY DEF CalculatePcr9, RejectPath, MeasurePath, WalkPath, PathsDone, AtPath, DirectoryDone, EnterDirectory,
         MeasureFileEntry, FileEntryFails, MeasureCmdline, MeasureInitrd
    <2> QED BY <2>1 DEF HandlerLabel
  <1>2. cur = 9 BY <1>1, Zenon DEF PointInv, At
  <1> DEFINE s == bank[cur]
  <1>3. SoFar(pc, cur, i, walk, s) BY <1>1, Zenon DEF RunningInv
  <1>4. ~MemoryFails /\ \A k \in DOMAIN Paths : \A e \in Below(Paths[k]) : fs[e] # "locked"
    BY <1>2 DEF Unnoticed
  <1>5. i \in Nat \ {0} /\ Paths \in Seq(Name) /\ Len(Paths) \in Nat /\ DOMAIN Paths = 1 .. Len(Paths)
    <2>1. Paths \in Seq(Name) /\ i \in Nat \ {0}
      BY OptsType DEF TypeInv, TypeOK, Paths, ListOption
    <2> QED BY <2>1
  <1>6. s \in Seq(Digest) BY <1>1, ValueMoves, Zenon
  <1>7. CASE RejectPath BY <1>1, <1>7, ValueMoves, Zenon DEF RejectPath, Kept
  <1>8. AtPath => /\ i \in 1 .. Len(Paths) /\ FilesSoFar(s, i - 1) /\ pc = "paths"
                  /\ \A e \in Below(Paths[i]) : fs[e] # "locked"
    <2> SUFFICES ASSUME AtPath
                 PROVE  /\ i \in 1 .. Len(Paths) /\ FilesSoFar(s, i - 1) /\ pc = "paths"
                        /\ \A e \in Below(Paths[i]) : fs[e] # "locked" OBVIOUS
    <2>1. i <= Len(Paths) /\ pc = "paths" BY DEF AtPath
    <2>2. FilesSoFar(s, i - 1) BY <1>3, <2>1, Zenon DEF SoFar
    <2>3. i \in 1 .. Len(Paths) BY <1>5, <2>1
    <2> QED BY <1>4, <1>5, <2>1, <2>2, <2>3
  <1>9. CASE MeasurePath
    <2>1. AtPath /\ Paths[i] \in File /\ fs[Paths[i]] # "absent" /\ Again
      BY <1>9, Zenon DEF MeasurePath
    <2>2. Paths[i] \in Below(Paths[i]) BY BelowClosed
    <2>3. MakesEvent(Content(Paths[i]))
      BY <1>4, <1>8, <1>9, <2>1, <2>2, MakesEventIntro DEF MeasurePath, Readable
    <2>4. bank'[cur] = Append(s, Content(Paths[i])) /\ i' = i + 1 /\ pc' = "paths"
      BY <1>1, <1>8, <2>1, <2>3, ValueMoves, Zenon
    <2>5. FilesSoFar(Append(s, Content(Paths[i])), i) BY <1>5, <1>6, <1>8, <2>1, FilePath
    <2>6. i' <= Len(Paths) + 1 /\ i' - 1 = i BY <1>5, <1>8, <2>1, <2>4
    <2>7. FilesSoFar(bank'[cur], i' - 1) BY <2>4, <2>5, <2>6
    <2> QED BY <2>4, <2>6, <2>7, SoFarIntro9, Zenon DEF Kept
  <1>10. CASE WalkPath
    <2>1. AtPath /\ Paths[i] \in Dir BY <1>10, Zenon DEF WalkPath
    <2>2. Fail \/ (walk' = <<Children[Paths[i]]>> /\ pc' = "walk" /\ i' = i /\ bank' = bank)
      BY <1>10 DEF WalkPath
    <2>3. WalkSoFar(<<Children[Paths[i]]>>, s, i) BY <1>6, <1>8, <2>1, OpenWalk
    <2>4. Ends \/ (pc' = "walk" /\ WalkSoFar(walk', bank'[cur], i'))
      BY <1>1, <2>2, <2>3, ValueMoves
    <2> QED BY <2>4, SoFarIntro9, Zenon DEF Kept
  <1>11. CASE PathsDone
    <2>1. FilesSoFar(s, i - 1) /\ i <= Len(Paths) + 1
      BY <1>3, <1>11, Zenon DEF PathsDone, SoFar
    <2>2. i - 1 = Len(Paths)
      <3>1. i > Len(Paths) BY <1>11 DEF PathsDone
      <3> QED BY <1>5, <2>1, <3>1
    <2>3. FilesSoFar(bank'[cur], Len(Paths)) /\ pc' = "cmdline"
      BY <1>11, <2>1, <2>2 DEF PathsDone, Skip, Goto
    <2> QED BY <2>3, SoFarIntro9, Zenon DEF Kept
  <1>12. pc = "walk" => /\ WalkSoFar(walk, s, i) /\ i \in 1 .. Len(Paths)
                        /\ walk \in Stack /\ walk # <<>> /\ Depth = Len(walk) /\ Depth \in Nat
                        /\ \A e \in walk[Len(walk)] : /\ fs[e] # "locked" /\ Read(e) = Taken(walk, e)
                                                      /\ e \in Dir => Readable(e)
    <2> SUFFICES ASSUME pc = "walk"
                 PROVE  /\ WalkSoFar(walk, s, i) /\ i \in 1 .. Len(Paths)
                        /\ walk \in Stack /\ walk # <<>> /\ Depth = Len(walk) /\ Depth \in Nat
                        /\ \A e \in walk[Len(walk)] : /\ fs[e] # "locked" /\ Read(e) = Taken(walk, e)
                                                      /\ e \in Dir => Readable(e) OBVIOUS
    <2>1. WalkSoFar(walk, s, i) BY <1>3, Zenon DEF SoFar
    <2>2. i \in 1 .. Len(Paths) BY <2>1, Zenon DEF WalkSoFar
    <2>3. walk \in Stack /\ walk # <<>> /\ Depth = Len(walk) /\ Depth \in Nat
      BY DEF TypeInv, TypeOK, Active, Stack, Depth
    <2>4. ASSUME NEW e \in walk[Len(walk)]
          PROVE  /\ fs[e] # "locked" /\ Read(e) = Taken(walk, e)
                 /\ e \in Dir => Readable(e)
      <3>1. e \in Below(Paths[i]) /\ Listed(e) BY <2>1, <2>3, WalkMeets
      <3>2. fs[e] # "locked" BY <1>4, <1>5, <2>2, <3>1
      <3>3. ASSUME e \in Dir PROVE fs[e] # "absent"
        <4>1. PICK d \in Dir : e \in Children[d] BY <3>1 DEF Listed
        <4>2. e \in Children[d] \cap Dir BY <3>3, <4>1
        <4> QED BY <4>2, TreeAssumption, Zenon
      <3> QED BY <2>3, <3>2, <3>3 DEF Readable, Read, Taken
    <2> QED BY <2>1, <2>2, <2>3, <2>4
  <1>13. CASE DirectoryDone
    <2>1. pc = "walk" /\ walk[Depth] = {} /\ LeaveDirectory BY <1>13 DEF DirectoryDone
    <2>2. WalkSoFar(Popped(walk), s, i) BY <1>12, <2>1, WalkLeaves, Zenon
    <2>3. walk' = Popped(walk) /\ bank' = bank BY <1>12, <2>1 DEF LeaveDirectory, Popped
    <2>4. CASE Depth = 1
      <3>1. walk \in Stack /\ Len(walk) = 1 BY <1>12, <2>1, <2>4, Zenon
      <3>2. Popped(walk) = <<>> BY <3>1 DEF Popped, Stack
      <3>3. FilesSoFar(s, i) BY <2>2, <3>2, CloseWalk
      <3>4. pc' = "paths" /\ i' = i + 1 BY <2>1, <2>4 DEF LeaveDirectory
      <3>5. i' <= Len(Paths) + 1 /\ i' - 1 = i BY <1>5, <1>12, <2>1, <3>4
      <3>6. FilesSoFar(bank'[cur], i' - 1) BY <2>3, <3>3, <3>5
      <3> QED BY <3>4, <3>5, <3>6, SoFarIntro9, Zenon DEF Kept
    <2>5. CASE Depth # 1
      <3>1. pc' = "walk" /\ i' = i BY <2>1, <2>5 DEF LeaveDirectory
      <3>2. WalkSoFar(walk', bank'[cur], i') BY <2>2, <2>3, <3>1
      <3> QED BY <3>1, <3>2, SoFarIntro9, Zenon DEF Kept
    <2> QED BY <2>4, <2>5
  <1>14. ASSUME NEW e \in Dir, EnterDirectory(e) PROVE Kept
    <2>1. pc = "walk" /\ e \in walk[Len(walk)] /\ e \in walk[Len(walk)] \cap Dir
      BY <1>12, <1>14 DEF EnterDirectory
    <2>2. Readable(e) /\ Read(e) = Taken(walk, e) /\ walk \in Stack /\ walk # <<>> /\ WalkSoFar(walk, s, i)
      BY <1>12, <2>1, Zenon
    <2>3. walk' = Append(Taken(walk, e), Children[e]) /\ UNCHANGED <<pc, i, bank>>
      BY <1>4, <1>14, <2>2 DEF EnterDirectory
    <2>4. WalkSoFar(Append(Taken(walk, e), Children[e]), s, i) BY <2>1, <2>2, WalkEnters
    <2>5. pc' = "walk" /\ WalkSoFar(walk', bank'[cur], i') BY <2>1, <2>3, <2>4
    <2> QED BY <2>5, SoFarIntro9, Zenon DEF Kept
  <1>15. ASSUME NEW e \in File, MeasureFileEntry(e) PROVE Kept
    <2>1. pc = "walk" /\ e \in walk[Len(walk)] /\ e \in walk[Len(walk)] \cap File
      BY <1>12, <1>15 DEF MeasureFileEntry
    <2>2. Read(e) = Taken(walk, e) /\ walk \in Stack /\ walk # <<>> /\ WalkSoFar(walk, s, i)
      BY <1>12, <2>1, Zenon
    <2>3. /\ walk' = Taken(walk, e) /\ UNCHANGED <<pc, i>>
          /\ \/ Readable(e) /\ HashExtend(<<Content(e)>>)
             \/ fs[e] = "absent" /\ bank' = bank BY <1>4, <1>15, <2>2 DEF MeasureFileEntry
    <2>4. /\ fs[e] # "absent" => WalkSoFar(Taken(walk, e), Append(s, Content(e)), i)
          /\ fs[e] = "absent" => WalkSoFar(Taken(walk, e), s, i)
      BY <1>6, <2>1, <2>2, WalkReads
    <2>5. WalkSoFar(walk', bank'[cur], i')
      <3>1. CASE Readable(e) /\ HashExtend(<<Content(e)>>)
        <4>1. bank'[cur] = s \o <<Content(e)>> BY <1>1, <3>1, ValueMoves, Zenon
        <4>2. s \o <<Content(e)>> = Append(s, Content(e))
          <5> HIDE DEF s
          <5> QED BY <1>6, ContentType, AppendAsConcat
        <4>3. fs[e] # "absent" BY <3>1 DEF Readable
        <4> QED BY <2>3, <2>4, <4>1, <4>2, <4>3
      <3>2. CASE fs[e] = "absent" /\ bank' = bank BY <2>3, <2>4, <3>2
      <3> QED BY <2>3, <3>1, <3>2
    <2>6. pc' = "walk" BY <2>1, <2>3
    <2> QED BY <2>5, <2>6, SoFarIntro9, Zenon DEF Kept
  <1>16. ASSUME NEW e \in File PROVE ~FileEntryFails(e)
    <2> SUFFICES ASSUME FileEntryFails(e) PROVE FALSE OBVIOUS
    <2>1. pc = "walk" /\ e \in walk[Len(walk)] /\ fs[e] = "locked"
      BY <1>4, <1>12 DEF FileEntryFails
    <2> QED BY <1>12, <2>1
  <1>17. CASE MeasureCmdline
    <2>1. FilesSoFar(s, Len(Paths)) BY <1>3, <1>17, Zenon DEF MeasureCmdline, SoFar
    <2>2. (MakesEvent(CmdlineDigest) /\ Goto("initrd")) \/ Fail
      BY <1>17, MakesEventIntro, Zenon DEF MeasureCmdline
    <2>3. Ends \/ (bank'[cur] = Append(s, CmdlineDigest) /\ pc' = "initrd")
      BY <1>1, <2>2, ValueMoves, Zenon
    <2> QED BY <1>6, <2>1, <2>3, SoFarIntro9, Zenon DEF Kept
  <1>18. CASE MeasureInitrd
    <2> DEFINE f == opts.file["initrd"]
    <2>1. PICK files \in Seq(Digest) : FilesSoFar(files, Len(Paths)) /\ s = Append(files, CmdlineDigest)
      BY <1>3, <1>18, Zenon DEF MeasureInitrd, SoFar
    <2>2. Pcr9Tail \in Seq(Digest) /\ CmdlineDigest \in Digest /\ MatchesPcr9(files \o Pcr9Tail)
      BY <2>1, Pcr9End
    <2>3. \/ f = NoFile /\ Skip /\ Return
          \/ f # NoFile /\ MakesEvent(Content(f)) /\ Return
          \/ Fail BY <1>18, MakesEventIntro, Zenon DEF MeasureInitrd
    <2>4. "initrd" \in FileOption /\ "content" \in Kind /\ f \in Name
      BY OptsType DEF FileOption, ValueOption, Kind
    <2>5. s = files \o <<CmdlineDigest>> /\ <<CmdlineDigest>> \in Seq(Digest)
      BY <2>1, <2>2, AppendAsConcat, SeqOfOne
    <2>6. Ends \/ (pc' = "dispatch" /\ bank'[cur] = files \o Pcr9Tail)
      <3>1. CASE f = NoFile /\ Skip /\ Return
        <4>1. Each("content", Optional("initrd")) = <<>>
          BY <2>4, <3>1, OptionalForm, EachForm
        <4>2. Pcr9Tail = <<CmdlineDigest>> BY <4>1, ShortSequences, Zenon DEF Pcr9Tail
        <4>3. bank'[cur] = s /\ pc' = "dispatch" BY <3>1 DEF Skip, Return
        <4> QED BY <2>5, <4>2, <4>3
      <3>2. CASE f # NoFile /\ MakesEvent(Content(f)) /\ Return
        <4>1. Each("content", Optional("initrd")) = <<Content(f)>> /\ Content(f) \in Digest
          BY <2>4, <3>2, OptionalForm, EachForm, DigestType DEF Content
        <4>2. Pcr9Tail = Append(<<CmdlineDigest>>, Content(f))
          BY <4>1, ShortSequences, Zenon DEF Pcr9Tail
        <4>3. bank'[cur] = Append(s, Content(f)) /\ pc' = "dispatch"
          BY <1>1, <3>2, ValueMoves, Zenon
        <4>4. Append(files \o <<CmdlineDigest>>, Content(f)) = files \o Append(<<CmdlineDigest>>, Content(f))
          BY <2>5, <4>1, DigestsAppendToSecond, Zenon
        <4> QED BY <2>5, <4>2, <4>3, <4>4, Zenon
      <3>3. Fail => Ends BY DEF Fail, Ends
      <3> QED BY <2>3, <3>1, <3>2, <3>3, Zenon
    <2>7. Ends \/ (pc' = "dispatch" /\ Matches(cur, bank'[cur]))
      BY <1>2, <2>2, <2>6, MatchesIs, Zenon
    <2> QED BY <2>7, SoFarIntro0, Zenon DEF Kept
  <1> QED BY <1>7, <1>9, <1>10, <1>11, <1>13, <1>14, <1>15, <1>16, <1>17, <1>18, Zenon DEF CalculatePcr9

-----------------------------------------------------------------------------
(* A step that leaves options and files alone leaves the reference values. *)

LEMMA SameFiles ==
  ASSUME UNCHANGED <<opts, fs>>
  PROVE  /\ \A f, n : Passed(f, n)' = Passed(f, n)
         /\ \A f, s : Seen(f, s)' = Seen(f, s)
         /\ \A s, n : FilesSoFar(s, n)' <=> FilesSoFar(s, n)
         /\ \A w, s, n : WalkSoFar(w, s, n)' <=> WalkSoFar(w, s, n)
  <1>1. Paths' = Paths BY DEF Paths
  <1>2. \A f, n : Passed(f, n)' = Passed(f, n) BY <1>1 DEF Passed
  <1>3. \A f, s : Seen(f, s)' = Seen(f, s) BY DEF Seen
  <1>4. \A s, n : FilesSoFar(s, n)' <=> FilesSoFar(s, n) BY <1>2, <1>3, Zenon DEF FilesSoFar
  <1>5. \A w, s, n : WalkSoFar(w, s, n)' <=> WalkSoFar(w, s, n)
    BY <1>1, <1>2, <1>3 DEF WalkSoFar, Walked
  <1> QED BY <1>2, <1>3, <1>4, <1>5

LEMMA SameParts ==
  ASSUME UNCHANGED <<opts, fs>>
  PROVE  /\ \A o : (Given(o)' <=> Given(o)) /\ Optional(o)' = Optional(o)
         /\ \A kind, o, k : Some(kind, o, k)' = Some(kind, o, k)
         /\ \A k : AcpiBefore(k)' = AcpiBefore(k) /\ GrubLinesBefore(k)' = GrubLinesBefore(k)
         /\ PeiVolume' = PeiVolume /\ DxeVolume' = DxeVolume /\ Order1' = Order1
         /\ SecureBoot' = SecureBoot /\ AcpiReference' = AcpiReference /\ BootVarReference' = BootVarReference
         /\ BootImages' = BootImages /\ KernelReference' = KernelReference
         /\ CmdlineDigest' = CmdlineDigest /\ Pcr9Tail' = Pcr9Tail /\ Paths' = Paths
         /\ Requested' = Requested
  <1>1. /\ \A o : (Given(o)' <=> Given(o)) /\ Optional(o)' = Optional(o)
        /\ PeiVolume' = PeiVolume /\ DxeVolume' = DxeVolume /\ Order1' = Order1
        /\ Paths' = Paths /\ Requested' = Requested
    BY DEF Given, Optional, PeiVolume, DxeVolume, Firmware, Order1, Paths, Requested
  <1>2. \A kind, o, k : Some(kind, o, k)' = Some(kind, o, k) BY DEF Some
  <1>3. \A k : AcpiBefore(k)' = AcpiBefore(k) /\ GrubLinesBefore(k)' = GrubLinesBefore(k)
    BY <1>1 DEF AcpiBefore, GrubLinesBefore, GrubCommand, GrubFile
  <1>4. SecureBoot' = SecureBoot /\ AcpiReference' = AcpiReference
    BY <1>1 DEF SecureBoot, AcpiReference
  <1>5. BootVarReference' = BootVarReference /\ BootImages' = BootImages
    BY DEF BootVarReference, BootImages
  <1>6. KernelReference' = KernelReference BY <1>1 DEF KernelReference
  <1>7. CmdlineDigest' = CmdlineDigest BY <1>1 DEF CmdlineDigest
  <1>8. Pcr9Tail' = Pcr9Tail BY <1>1, <1>7 DEF Pcr9Tail
  <1> QED BY <1>1, <1>2, <1>3, <1>4, <1>5, <1>6, <1>7, <1>8

LEMMA SameReference ==
  ASSUME UNCHANGED <<opts, fs>>
  PROVE  /\ \A n : Unnoticed(n)' <=> Unnoticed(n)
         /\ \A n, v : Matches(n, v)' <=> Matches(n, v)
  <1>1. \A n : Unnoticed(n)' <=> Unnoticed(n) BY DEF Unnoticed, Firmware, Paths
  <1>2. Reference(8)' = Reference(8) BY DEF Reference, Given, GrubCommand, GrubFile
  <1>3. \A v : MatchesPcr8(v)' <=> MatchesPcr8(v) BY <1>2, SameParts DEF MatchesPcr8
  <1>4. \A f : Occurrences(f)' = Occurrences(f) BY SameParts DEF Occurrences
  <1>5. \A v : MatchesPcr9(v)' <=> MatchesPcr9(v) BY <1>4, SameParts DEF MatchesPcr9
  <1>6. \A n : Reference(n)' = Reference(n)
    BY SameParts DEF Reference, Firmware, GrubCommand, GrubFile
  <1>7. \A n, v : Matches(n, v)' <=> Matches(n, v) BY <1>3, <1>5, <1>6, Zenon DEF Matches
  <1> QED BY <1>1, <1>7

LEMMA SameSoFar ==
  ASSUME UNCHANGED <<opts, fs>>
  PROVE  \A label, n, k, w, s : SoFar(label, n, k, w, s) => SoFar(label, n, k, w, s)'
  <1> SUFFICES ASSUME NEW label, NEW n, NEW k, NEW w, NEW s,
                      SoFar(label, n, k, w, s)
               PROVE  SoFar(label, n, k, w, s)' OBVIOUS
  <1>1. /\ opts' = opts /\ Paths' = Paths /\ (Given("kernel")' <=> Given("kernel"))
        /\ (Given("grubcmds")' <=> Given("grubcmds"))
        /\ Optional("gpt")' = Optional("gpt")
        /\ PeiVolume' = PeiVolume /\ DxeVolume' = DxeVolume /\ Order1' = Order1
        /\ SecureBoot' = SecureBoot /\ AcpiReference' = AcpiReference /\ BootVarReference' = BootVarReference
        /\ BootImages' = BootImages /\ KernelReference' = KernelReference /\ CmdlineDigest' = CmdlineDigest
    BY SameParts
  <1>2. /\ AcpiBefore(k)' = AcpiBefore(k) /\ GrubLinesBefore(k)' = GrubLinesBefore(k)
        /\ Some("efivar", "bootxxxx", k)' = Some("efivar", "bootxxxx", k)
        /\ Some("pe", "driver", k)' = Some("pe", "driver", k)
        /\ Some("pe", "bootloader", k)' = Some("pe", "bootloader", k) BY SameParts
  <1>3. /\ FilesSoFar(s, k - 1)' <=> FilesSoFar(s, k - 1)
        /\ FilesSoFar(s, Len(Paths))' <=> FilesSoFar(s, Len(Paths))
        /\ \A files \in Seq(Digest) : FilesSoFar(files, Len(Paths))' <=> FilesSoFar(files, Len(Paths))
        /\ WalkSoFar(w, s, k)' <=> WalkSoFar(w, s, k) BY <1>1, SameFiles
  <1>4. Matches(n, s)' <=> Matches(n, s) BY SameReference
  <1>5. (/\ label = "crtm" => s = <<>>
         /\ label \in {"firmware", "pei"} => s = <<Crtm>>
         /\ label = "dxe" => s = <<Crtm, PeiVolume>>
         /\ label = "acpi" => k <= 5 /\ s = Each("content", AcpiBefore(k))
         /\ label = "bootorder" => s = AcpiReference)'
    BY <1>1, <1>2, <1>3, <1>4, Zenon DEF SoFar
  <1>6. (/\ label = "bootxxxx" => k <= Len(opts.list["bootxxxx"]) + 1 /\ s = AcpiReference \o (<<Order1>> \o Some("efivar", "bootxxxx", k))
         /\ label = "drivers" => k <= Len(opts.list["driver"]) + 1 /\ s = Some("pe", "driver", k)
         /\ label = "bootloaders" => k <= Len(opts.list["bootloader"]) + 1 /\ s = Some("pe", "bootloader", k))'
    BY <1>1, <1>2, <1>3, <1>4, Zenon DEF SoFar
  <1>7. (/\ label = "kernel" => Given("kernel") /\ s = BootImages
         /\ label = "boot action" => s = BootImages \o KernelReference
         /\ label \in {"gpt separator", "gpt"} => s = <<>>
         /\ label \in {"exit boot", "boot exited"} => s = Each("content", Optional("gpt")))'
    BY <1>1, <1>2, <1>3, <1>4, Zenon DEF SoFar
  <1>8. (/\ label = "secureboot" => k <= 6 /\ s = SubSeq(SecureBoot, 1, k - 1)
         /\ label = "sbatlevel" => s = Append(SecureBoot, Separator)
         /\ label = "grub" => s = <<>>
         /\ label = "grub commands" => Given("grubcmds") /\ k <= GrubLines + 1 /\ s = GrubLinesBefore(k))'
    BY <1>1, <1>2, <1>3, <1>4, Zenon DEF SoFar
  <1>9. (/\ label = "paths" => k <= Len(Paths) + 1 /\ FilesSoFar(s, k - 1)
         /\ label = "walk" => WalkSoFar(w, s, k)
         /\ label = "cmdline" => FilesSoFar(s, Len(Paths))
         /\ label = "initrd" => \E files \in Seq(Digest) : FilesSoFar(files, Len(Paths)) /\ s = Append(files, CmdlineDigest))'
    BY <1>1, <1>2, <1>3, <1>4, Zenon DEF SoFar
  <1>10. (/\ label = "separator" =>
               /\ n = 0 => s = <<Crtm, PeiVolume, DxeVolume>>
               /\ n = 1 => s = AcpiReference \o BootVarReference
               /\ n = 2 => s = Each("pe", opts.list["driver"])
               /\ n \in {3, 6} => s = <<>>
               /\ n = 4 => s = Append(BootImages \o KernelReference, Action4)
               /\ n = 7 => s = SecureBoot
          /\ label = "dispatch" => Matches(n, s))'
    BY <1>1, <1>2, <1>3, <1>4, Zenon DEF SoFar
  <1> QED BY <1>5, <1>6, <1>7, <1>8, <1>9, <1>10 DEF SoFar

-----------------------------------------------------------------------------
(* Where the steps of the handlers go, and what they leave alone. *)

HandlerStep ==
  \/ CalculatePcr0 \/ CalculatePcr1 \/ CalculatePcr2 \/ CalculatePcr4 \/ CalculatePcr5
  \/ CalculatePcr7 \/ CalculatePcr8 \/ CalculatePcr9 \/ MeasureSeparator

\* The program points of a handler.
Points(n) ==
  IF n = 0 THEN {"crtm", "firmware", "pei", "dxe", "separator"}
  ELSE IF n = 1 THEN {"acpi", "bootorder", "bootxxxx", "separator"}
  ELSE IF n = 2 THEN {"drivers", "separator"}
  ELSE IF n = 4 THEN {"bootloaders", "kernel", "boot action", "separator"}
  ELSE IF n = 5 THEN GptLabel
  ELSE IF n = 7 THEN {"secureboot", "sbatlevel", "separator"}
  ELSE IF n = 8 THEN {"grub", "grub commands"}
  ELSE IF n = 9 THEN {"paths", "walk", "cmdline", "initrd"}
  ELSE {"separator"}

LEMMA PointsAt ==
  \A n \in Calculated : \A label \in Points(n) : At(label, n)
  <1> SUFFICES ASSUME NEW n \in Calculated, NEW label \in Points(n) PROVE At(label, n)
    OBVIOUS
  <1>1. n \in {0, 1, 2, 3, 4, 5, 6, 7, 8, 9} BY DEF Calculated
  <1>2. CASE n = 0 BY <1>2 DEF Points, At, GptLabel
  <1>3. CASE n = 1 BY <1>3 DEF Points, At, GptLabel
  <1>4. CASE n = 2 BY <1>4 DEF Points, At, GptLabel
  <1>5. CASE n \in {3, 6} BY <1>5 DEF Points, At, GptLabel
  <1>6. CASE n = 4 BY <1>6 DEF Points, At, GptLabel
  <1>7. CASE n = 5 BY <1>7 DEF Points, At, GptLabel
  <1>8. CASE n = 7 BY <1>8 DEF Points, At, GptLabel
  <1>9. CASE n = 8 BY <1>9 DEF Points, At, GptLabel
  <1>10. CASE n = 9 BY <1>10 DEF Points, At, GptLabel
  <1> QED BY <1>1, <1>2, <1>3, <1>4, <1>5, <1>6, <1>7, <1>8, <1>9, <1>10

\* A step from a point of a handler to another, to the end of the handler, or
\* to the end of the program.
Within(S) == /\ UNCHANGED <<opts, fs>>
             /\ \/ cur' = cur /\ pc' \in S
                \/ cur' = cur + 1 /\ pc' = "dispatch"
                \/ cur' = cur /\ Ends

LEMMA StaysIntro ==
  ASSUME NEW S
  PROVE  /\ \A label \in S : (Skip \/ Warn) /\ Goto(label) => Within(S)
         /\ \A d : \A label \in S : (MakesEvent(d) \/ LogOnly(d)) /\ Goto(label) => Within(S)
         /\ \A d, text : \A label \in S : LogAndExtend(d, text) /\ Goto(label) => Within(S)
         /\ pc \in S /\ (Skip \/ Warn) /\ Again => Within(S)
         /\ \A d, text : pc \in S /\ LogAndExtend(d, text) /\ Again => Within(S)
         /\ \A d : pc \in S /\ MakesEvent(d) /\ Again => Within(S)
         /\ (Skip \/ Warn) /\ Return => Within(S)
         /\ \A d : MakesEvent(d) /\ Return => Within(S)
         /\ Fail \/ Crash => Within(S)
  BY DEF Within, Ends, MakesEvent, LogAndExtend, Skip, Warn, Goto, LogOnly, Again, Return, Fail, Crash

LEMMA Pcr0Stays == CalculatePcr0 => Within(Points(0))
  <1>1. Points(0) = {"crtm", "firmware", "pei", "dxe", "separator"} BY DEF Points
  <1>2. \A label \in {"crtm", "firmware", "pei", "dxe", "separator"} : label \in Points(0)
    BY <1>1
  <1>3. CalculatePcr0 => MeasureCrtm \/ ReadFirmware \/ MeasurePei \/ MeasureDxe
    BY DEF CalculatePcr0
  <1>4. MeasureCrtm \/ ReadFirmware => Within(Points(0))
    BY <1>2, StaysIntro, MakesEventIntro, Zenon DEF MeasureCrtm, ReadFirmware
  <1>5. MeasurePei \/ MeasureDxe => Within(Points(0))
    <2>1. \A kind, dump : \A label \in Points(0) : MeasureVolume(kind, dump, label) => Within(Points(0))
      BY StaysIntro, MakesEventIntro, Zenon DEF MeasureVolume
    <2> QED BY <1>2, <2>1, Zenon DEF MeasurePei, MeasureDxe
  <1> QED BY <1>3, <1>4, <1>5

LEMMA Pcr1Stays == CalculatePcr1 => Within(Points(1))
  <1>1. \A label \in {"acpi", "bootorder", "bootxxxx", "separator"} : label \in Points(1)
    BY DEF Points
  <1>2. MeasureAcpi \/ AcpiDone \/ MeasureBootOrder \/ BootOptionsDone => Within(Points(1))
    BY <1>1, StaysIntro, MakesEventIntro, Zenon DEF MeasureAcpi, AcpiDone, MeasureBootOrder, BootOptionsDone
  <1>3. MeasureDefaultBootOption \/ MeasureBootOption => Within(Points(1))
    BY <1>1, StaysIntro, MakesEventIntro, Zenon DEF MeasureDefaultBootOption, MeasureBootOption
  <1> QED BY <1>2, <1>3 DEF CalculatePcr1

LEMMA Pcr2Stays == CalculatePcr2 => Within(Points(2))
  <1>1. \A label \in {"drivers", "separator"} : label \in Points(2) BY DEF Points
  <1> QED BY <1>1, StaysIntro, MakesEventIntro, Zenon DEF CalculatePcr2, MeasureDriver, DriversDone, PeRefused

LEMMA Pcr4Stays == CalculatePcr4 => Within(Points(4))
  <1>0. Points(4) = {"bootloaders", "kernel", "boot action", "separator"} BY DEF Points
  <1>1. \A label \in {"bootloaders", "kernel", "boot action", "separator"} : label \in Points(4)
    BY <1>0, Zenon
  <1>2. MeasureBootloader \/ MeasureKernel \/ MeasureBootAction => Within(Points(4))
    BY <1>1, StaysIntro, MakesEventIntro, Zenon DEF MeasureBootloader, MeasureKernel, MeasureBootAction, PeRefused
  <1>3. BootloadersDone => Within(Points(4))
    <2>1. (IF Given("kernel") THEN "kernel" ELSE "boot action") \in Points(4) BY <1>1, Zenon
    <2> QED BY <2>1, StaysIntro, MakesEventIntro, Zenon DEF BootloadersDone
  <1> QED BY <1>2, <1>3 DEF CalculatePcr4

LEMMA Pcr5Stays == CalculatePcr5 => Within(Points(5))
  <1>1. \A label \in GptLabel : label \in Points(5) BY DEF Points
  <1>2. \A label \in {"gpt separator", "gpt", "exit boot", "boot exited"} : label \in Points(5)
    BY <1>1, Zenon DEF GptLabel
  <1>3. LogGptSeparator \/ MeasureGpt \/ LogExitBootInvocation => Within(Points(5))
    BY <1>2, StaysIntro, MakesEventIntro, Zenon DEF LogGptSeparator, MeasureGpt, LogExitBootInvocation
  <1>4. LogExitBootReturned => Within(Points(5)) BY DEF LogExitBootReturned, Within, Return
  <1> QED BY <1>3, <1>4 DEF CalculatePcr5

LEMMA Pcr7Stays == CalculatePcr7 => Within(Points(7))
  <1>1. \A label \in {"secureboot", "sbatlevel", "separator"} : label \in Points(7)
    BY DEF Points
  <1> QED BY <1>1, StaysIntro, MakesEventIntro, Zenon DEF CalculatePcr7, MeasureSecureBootVar, SecureBootDone, MeasureSbatLevel

LEMMA Pcr8Stays == CalculatePcr8 => Within(Points(8))
  <1>0. Points(8) = {"grub", "grub commands"} BY DEF Points
  <1>1. \A label \in {"grub", "grub commands"} : label \in Points(8) BY <1>0, Zenon
  <1> QED BY <1>1, StaysIntro, MakesEventIntro, Zenon DEF CalculatePcr8, ReadGrub, MeasureGrubCommand

LEMMA Pcr9Stays == CalculatePcr9 => Within(Points(9))
  <1>1. \A label \in {"paths", "walk", "cmdline", "initrd"} : label \in Points(9)
    BY DEF Points
  <1>2. RejectPath \/ MeasurePath \/ PathsDone \/ MeasureCmdline \/ MeasureInitrd => Within(Points(9))
    BY <1>1, StaysIntro, MakesEventIntro, Zenon DEF RejectPath, MeasurePath, AtPath, PathsDone, MeasureCmdline, MeasureInitrd
  <1>3. WalkPath => Within(Points(9)) BY <1>1, Zenon DEF WalkPath, Within, Fail, Ends
  <1>4. pc = "walk" /\ LeaveDirectory => Within(Points(9))
    BY <1>1, Zenon DEF LeaveDirectory, Within
  <1>5. DirectoryDone => Within(Points(9)) BY <1>4 DEF DirectoryDone
  <1>6. \A e \in Dir : EnterDirectory(e) => Within(Points(9))
    BY <1>1, Zenon DEF EnterDirectory, Within
  <1>7. \A e \in File : MeasureFileEntry(e) => Within(Points(9))
    BY <1>1, Zenon DEF MeasureFileEntry, Within
  <1>8. \A e \in File : FileEntryFails(e) => Within(Points(9))
    BY <1>4, StaysIntro, MakesEventIntro, Zenon DEF FileEntryFails
  <1> QED BY <1>2, <1>3, <1>5, <1>6, <1>7, <1>8, Zenon DEF CalculatePcr9

LEMMA SeparatorStays == MeasureSeparator => Within({"separator", "sbatlevel"})
  <1>1. "sbatlevel" \in {"separator", "sbatlevel"} OBVIOUS
  <1> QED BY <1>1, StaysIntro, MakesEventIntro, Zenon DEF MeasureSeparator

LEMMA PointsHandled ==
  \A n \in Calculated : \A label \in Points(n) : label \in HandlerLabel
  <1> SUFFICES ASSUME NEW n \in Calculated, NEW label \in Points(n) PROVE label \in HandlerLabel
    OBVIOUS
  <1>1. \/ label \in {"crtm", "firmware", "pei", "dxe", "separator", "acpi", "bootorder", "bootxxxx"}
        \/ label \in {"drivers", "bootloaders", "kernel", "boot action"}
        \/ label \in GptLabel
        \/ label \in {"secureboot", "sbatlevel", "grub", "grub commands"}
        \/ label \in {"paths", "walk", "cmdline", "initrd"} BY DEF Points
  <1>2. CASE label \in {"crtm", "firmware", "pei", "dxe", "separator", "acpi", "bootorder", "bootxxxx"}
    BY <1>2, Zenon DEF HandlerLabel
  <1>3. CASE label \in {"drivers", "bootloaders", "kernel", "boot action"}
    BY <1>3, Zenon DEF HandlerLabel
  <1>4. CASE label \in GptLabel BY <1>4, Zenon DEF HandlerLabel, GptLabel
  <1>5. CASE label \in {"secureboot", "sbatlevel", "grub", "grub commands"}
    BY <1>5, Zenon DEF HandlerLabel
  <1>6. CASE label \in {"paths", "walk", "cmdline", "initrd"}
    BY <1>6, Zenon DEF HandlerLabel
  <1> QED BY <1>1, <1>2, <1>3, <1>4, <1>5, <1>6

\* Where a step of a handler goes.
HandlerMoves ==
  \/ cur' = cur /\ pc' \in HandlerLabel /\ At(pc', cur)
  \/ cur' = cur + 1 /\ pc' = "dispatch"
  \/ cur' = cur /\ Ends

LEMMA WithinMoves ==
  ASSUME NEW n \in Calculated, cur = n, Within(Points(n))
  PROVE  HandlerMoves /\ UNCHANGED <<opts, fs>>
  BY PointsAt, PointsHandled, Zenon DEF Within, HandlerMoves

\* The handler to which a step belongs.
LEMMA HandlerCur ==
  ASSUME PointInv
  PROVE  /\ CalculatePcr0 => cur = 0 /\ pc \in HandlerLabel
         /\ CalculatePcr1 => cur = 1 /\ pc \in HandlerLabel
         /\ CalculatePcr2 => cur = 2 /\ pc \in HandlerLabel
         /\ CalculatePcr4 => cur = 4 /\ pc \in HandlerLabel
         /\ CalculatePcr5 => cur = 5 /\ pc \in HandlerLabel
         /\ CalculatePcr7 => cur = 7 /\ pc \in HandlerLabel
         /\ CalculatePcr8 => cur = 8 /\ pc \in HandlerLabel
         /\ CalculatePcr9 => cur = 9 /\ pc \in HandlerLabel
         /\ MeasureSeparator => pc = "separator" /\ pc \in HandlerLabel
  <1>1. CalculatePcr0 => pc \in {"crtm", "firmware", "pei", "dxe"} /\ pc \in HandlerLabel
    BY DEF CalculatePcr0, MeasureCrtm, ReadFirmware, MeasurePei, MeasureDxe, HandlerLabel
  <1>2. CalculatePcr1 => pc \in {"acpi", "bootorder", "bootxxxx"} /\ pc \in HandlerLabel
    BY DEF CalculatePcr1, MeasureAcpi, AcpiDone, MeasureBootOrder, MeasureDefaultBootOption, MeasureBootOption,
           BootOptionsDone, HandlerLabel
  <1>3. CalculatePcr2 => pc = "drivers" /\ pc \in HandlerLabel
    BY DEF CalculatePcr2, MeasureDriver, DriversDone, HandlerLabel
  <1>4. CalculatePcr4 => pc \in {"bootloaders", "kernel", "boot action"} /\ pc \in HandlerLabel
    BY DEF CalculatePcr4, MeasureBootloader, BootloadersDone, MeasureKernel, MeasureBootAction, HandlerLabel
  <1>5. CalculatePcr5 => pc \in GptLabel /\ pc \in HandlerLabel
    BY DEF CalculatePcr5, LogGptSeparator, MeasureGpt, LogExitBootInvocation, LogExitBootReturned, GptLabel,
           HandlerLabel
  <1>6. CalculatePcr7 => pc \in {"secureboot", "sbatlevel"} /\ pc \in HandlerLabel
    BY DEF CalculatePcr7, MeasureSecureBootVar, SecureBootDone, MeasureSbatLevel, HandlerLabel
  <1>7. CalculatePcr8 => pc \in {"grub", "grub commands"} /\ pc \in HandlerLabel
    BY DEF CalculatePcr8, ReadGrub, MeasureGrubCommand, HandlerLabel
  <1>8. CalculatePcr9 => pc \in {"paths", "walk", "cmdline", "initrd"} /\ pc \in HandlerLabel
    BY DEF CalculatePcr9, RejectPath, MeasurePath, AtPath, WalkPath, PathsDone, DirectoryDone, EnterDirectory,
           MeasureFileEntry, FileEntryFails, MeasureCmdline, MeasureInitrd, HandlerLabel
  <1>9. MeasureSeparator => pc = "separator" /\ pc \in HandlerLabel
    BY DEF MeasureSeparator, HandlerLabel
  <1> QED BY <1>1, <1>2, <1>3, <1>4, <1>5, <1>6, <1>7, <1>8, <1>9, Zenon DEF PointInv, At

LEMMA SeparatorMoves ==
  ASSUME PointInv, MeasureSeparator
  PROVE  HandlerMoves /\ UNCHANGED <<opts, fs>>
  <1>1. pc = "separator" /\ pc \in HandlerLabel BY HandlerCur
  <1>2. UNCHANGED <<opts, fs>> BY SeparatorStays DEF Within
  <1>3. \/ cur = 7 /\ cur' = cur /\ pc' = "sbatlevel"
        \/ cur' = cur + 1 /\ pc' = "dispatch"
        \/ cur' = cur /\ Ends BY DEF MeasureSeparator, Goto, Return, Fail, Ends
  <1>4. "sbatlevel" \in HandlerLabel /\ At("sbatlevel", 7)
    <2>1. 7 \in Calculated /\ "sbatlevel" \in Points(7) BY DEF Calculated, Points
    <2> QED BY <2>1, PointsAt, PointsHandled
  <1> QED BY <1>2, <1>3, <1>4, Zenon DEF HandlerMoves

LEMMA HandlerGoes ==
  ASSUME PointInv, HandlerStep
  PROVE  HandlerMoves /\ pc \in HandlerLabel /\ UNCHANGED <<opts, fs>>
  <1>1. {0, 1, 2, 4, 5, 7, 8, 9} \subseteq Calculated BY DEF Calculated
  <1>2. CASE CalculatePcr0 BY <1>1, <1>2, HandlerCur, Pcr0Stays, WithinMoves, Zenon
  <1>3. CASE CalculatePcr1 BY <1>1, <1>3, HandlerCur, Pcr1Stays, WithinMoves, Zenon
  <1>4. CASE CalculatePcr2 BY <1>1, <1>4, HandlerCur, Pcr2Stays, WithinMoves, Zenon
  <1>5. CASE CalculatePcr4 BY <1>1, <1>5, HandlerCur, Pcr4Stays, WithinMoves, Zenon
  <1>6. CASE CalculatePcr5 BY <1>1, <1>6, HandlerCur, Pcr5Stays, WithinMoves, Zenon
  <1>7. CASE CalculatePcr7 BY <1>1, <1>7, HandlerCur, Pcr7Stays, WithinMoves, Zenon
  <1>8. CASE CalculatePcr8 BY <1>1, <1>8, HandlerCur, Pcr8Stays, WithinMoves, Zenon
  <1>9. CASE CalculatePcr9 BY <1>1, <1>9, HandlerCur, Pcr9Stays, WithinMoves, Zenon
  <1>10. CASE MeasureSeparator BY <1>10, HandlerCur, SeparatorMoves, Zenon
  <1> QED BY <1>2, <1>3, <1>4, <1>5, <1>6, <1>7, <1>8, <1>9, <1>10 DEF HandlerStep

LEMMA HandlerKept ==
  ASSUME TypeInv, PointInv, RunningInv, fs \in FileSystems, HandlerStep, ~Unnoticed(cur)
  PROVE  Kept
  BY Pcr0Value, Pcr1Value, Pcr2Value, Pcr4Value, Pcr5Value, Pcr7Value, Pcr8Value, Pcr9Value, SeparatorValue,
     Zenon DEF HandlerStep

\* A handler changes the register of its own PCR only, and prints nothing.
LEMMA HandlerAlone ==
  ASSUME TypeInv, HandlerStep
  PROVE  out' = out /\ \A n \in Pcr : n # cur => bank'[n] = bank[n]
  <1>1. out' = out
    BY Pcr0Quiet, Pcr1Quiet, Pcr24Quiet, Pcr5Quiet, Pcr78Quiet, Pcr9Quiet, Zenon DEF HandlerStep, Quiet
  <1>2. Form => \A n \in Pcr : n # cur => bank'[n] = bank[n]
    BY MeasuredAt DEF Form, Unmeasured
  <1>3. CalculatePcr5 => \A n \in Pcr : n # cur => bank'[n] = bank[n] BY Pcr5Form
  <1> QED
    BY <1>1, <1>2, <1>3, Pcr0Form, Pcr1Form, Pcr2Form, Pcr4Form, Pcr7Form, Pcr8Form, Pcr9Form, SeparatorForm,
       Zenon DEF HandlerStep

-----------------------------------------------------------------------------
(* The invariant *)

\* Registers are printed when all have been calculated.
EndInv == pc \in {"open log"} \cup Printing \/ (\E k \in DOMAIN out : out[k].t = "pcr") => cur = 10

FilesInv == fs \in FileSystems

ReferenceInv == PointInv /\ RunningInv /\ FinishedInv /\ PrintedInv /\ EndInv /\ FilesInv

LEMMA PointsApart ==
  /\ "dispatch" \notin HandlerLabel /\ "open log" \notin HandlerLabel
  /\ \A label \in HandlerLabel : label \notin {"exited", "crashed"} /\ label \notin {"open log"} \cup Printing
  /\ \A label \in {"start", "parse", "validate", "dispatch", "exited", "crashed"} \cup Printing :
       label \notin HandlerLabel
  /\ \A label \in {"start", "parse", "validate", "dispatch", "exited", "crashed"} :
       label \notin {"open log"} \cup Printing BY DEF HandlerLabel, Printing

LEMMA NoElement == \A k : k \notin DOMAIN <<>>
  OBVIOUS

\* Nothing has been printed.
LEMMA NothingPrinted ==
  ASSUME out' = <<>>, pc' \notin {"open log"} \cup Printing
  PROVE  PrintedInv' /\ EndInv'
  <1>1. \A k : k \notin DOMAIN out' BY NoElement, Zenon
  <1>2. PrintedInv' BY <1>1, Zenon DEF PrintedInv
  <1>3. EndInv' BY <1>1, Zenon DEF EndInv
  <1> QED BY <1>2, <1>3

LEMMA HandlerPoint ==
  ASSUME HandlerMoves
  PROVE  /\ PointInv'
         /\ pc' \notin {"open log"} \cup Printing
         /\ pc' \in HandlerLabel => cur' = cur /\ ~Ends
  <1>1. CASE cur' = cur /\ pc' \in HandlerLabel /\ At(pc', cur)
    <2>1. ~Ends /\ pc' \notin {"open log"} \cup Printing BY <1>1, PointsApart DEF Ends
    <2>2. PointInv' BY <1>1 DEF PointInv, At
    <2> QED BY <1>1, <2>1, <2>2
  <1>2. CASE pc' = "dispatch" \/ Ends
    <2>1. pc' \notin HandlerLabel /\ pc' \notin {"open log"} \cup Printing
      BY <1>2, PointsApart DEF Ends
    <2> QED BY <2>1 DEF PointInv
  <1> QED BY <1>1, <1>2 DEF HandlerMoves

LEMMA HandlerReference ==
  ASSUME TypeInv, SilentInv, ReferenceInv, HandlerStep
  PROVE  ReferenceInv'
  <1>1. HandlerMoves /\ pc \in HandlerLabel /\ UNCHANGED <<opts, fs>>
    BY HandlerGoes DEF ReferenceInv
  <1>2. out' = <<>> BY <1>1, HandlerAlone, SilentBefore
  <1>3. /\ PointInv' /\ pc' \notin {"open log"} \cup Printing
        /\ pc' \in HandlerLabel => cur' = cur /\ ~Ends BY <1>1, HandlerPoint
  <1>4. cur \in 0 .. 9 BY <1>1 DEF TypeInv, Active, Calculated
  <1>5. ~Unnoticed(cur) => Kept BY HandlerKept DEF ReferenceInv, FilesInv
  <1>6. /\ \A n : Unnoticed(n)' <=> Unnoticed(n)
        /\ \A n, v : Matches(n, v)' <=> Matches(n, v)
        /\ \A label, n, k, w, s : SoFar(label, n, k, w, s) => SoFar(label, n, k, w, s)'
        /\ Requested' = Requested BY <1>1, SameReference, SameSoFar, SameParts
  <1>7. RunningInv'
    <2> SUFFICES ASSUME pc' \in HandlerLabel, ~Unnoticed(cur)'
                 PROVE  SoFar(pc, cur, i, walk, bank[cur])' BY DEF RunningInv
    <2>1. cur' = cur /\ ~Ends BY <1>3
    <2>2. ~Unnoticed(cur) BY <1>6, <2>1, Zenon
    <2>3. SoFar(pc', cur', i', walk', bank'[cur']) BY <1>5, <2>1, <2>2, Zenon DEF Kept
    <2> QED BY <1>6, <2>3, Zenon
  <1>8. FinishedInv'
    <2> SUFFICES ASSUME NEW n \in Calculated, n < cur', n \in Requested', ~Unnoticed(n)'
                 PROVE  Matches(n, bank[n])' BY DEF FinishedInv
    <2>1. n \in Requested /\ ~Unnoticed(n) /\ n \in Pcr BY <1>6, CalculatedArePcrs, Zenon
    <2>2. CASE n = cur
      <3>1. cur' # cur BY <1>4, <2>2
      <3>2. cur' = cur + 1 /\ pc' = "dispatch" /\ ~Ends
        BY <1>1, <3>1, Zenon DEF HandlerMoves, Ends
      <3>3. SoFar("dispatch", cur, i', walk', bank'[cur])
        BY <1>5, <2>1, <2>2, <3>2, Zenon DEF Kept
      <3>4. Matches(n, bank'[n]) BY <2>2, <3>3, Zenon DEF SoFar
      <3> QED BY <1>6, <3>4, Zenon
    <2>3. CASE n # cur
      <3>1. cur' = cur \/ cur' = cur + 1 BY <1>1 DEF HandlerMoves
      <3>2. n < cur BY <1>4, <2>3, <3>1 DEF Calculated
      <3>3. Matches(n, bank[n]) /\ bank'[n] = bank[n]
        BY <2>1, <2>3, <3>2, HandlerAlone, Zenon DEF ReferenceInv, FinishedInv
      <3> QED BY <1>6, <3>3, Zenon
    <2> QED BY <2>2, <2>3
  <1>9. FilesInv' BY <1>1 DEF ReferenceInv, FilesInv
  <1> QED BY <1>2, <1>3, <1>7, <1>8, <1>9, NothingPrinted DEF ReferenceInv

\* A handler starts with an empty register.
LEMMA FirstSoFar ==
  ASSUME TypeInv, NEW n \in Calculated, NEW w
  PROVE  SoFar(FirstStep[n + 1], n, 1, w, <<>>) /\ At(FirstStep[n + 1], n)
  <1>1. /\ FirstStep[0 + 1] = "crtm" /\ FirstStep[1 + 1] = "acpi" /\ FirstStep[2 + 1] = "drivers"
        /\ FirstStep[3 + 1] = "separator" /\ FirstStep[4 + 1] = "bootloaders"
        /\ FirstStep[5 + 1] = "gpt separator" /\ FirstStep[6 + 1] = "separator"
        /\ FirstStep[7 + 1] = "secureboot" /\ FirstStep[8 + 1] = "grub" /\ FirstStep[9 + 1] = "paths"
    BY DEF FirstStep
  <1>2. /\ "driver" \in ListOption /\ "bootloader" \in ListOption /\ "path" \in ListOption /\ "pe" \in Kind
        /\ "content" \in Kind BY DEF ListOption, Kind
  <1>3. /\ Len(opts.list["driver"]) \in Nat /\ Some("pe", "driver", 1) = <<>>
        /\ Len(opts.list["bootloader"]) \in Nat /\ Some("pe", "bootloader", 1) = <<>>
        /\ Len(Paths) \in Nat BY <1>2, SomeForm DEF Paths
  <1>4. \A m \in Nat : 1 <= m + 1 OBVIOUS
  <1>5. 1 <= 5 /\ 1 <= 6 /\ 1 - 1 = 0 /\ 3 \in {3, 6} /\ 6 \in {3, 6} OBVIOUS
  <1>6. <<>> = Each("content", AcpiBefore(1)) BY <1>2, AcpiStep, EachForm
  <1>7. <<>> = SubSeq(SecureBoot, 1, 1 - 1)
    <2>1. SubSeq(SecureBoot, 1, 0) = <<>> BY PartTypes, PrefixEnds
    <2> QED BY <1>5, <2>1
  <1>8. FilesSoFar(<<>>, 1 - 1) BY <1>5, FilesStart
  <1> DEFINE Starts(label, m) == SoFar(label, m, 1, w, <<>>) /\ At(label, m)
  <1>9. /\ At("crtm", 0) /\ At("acpi", 1) /\ At("drivers", 2) /\ At("separator", 3) /\ At("bootloaders", 4)
        /\ At("gpt separator", 5) /\ At("separator", 6) /\ At("secureboot", 7) /\ At("grub", 8) /\ At("paths", 9)
    BY DEF At, GptLabel
  <1>10. Starts("crtm", 0) BY <1>9, SoFarIntro0, Zenon
  <1>11. Starts("acpi", 1)
    <2>1. SoFar("acpi", 1, 1, w, <<>>) BY <1>5, <1>6, SoFarIntro1, Zenon
    <2> QED BY <1>9, <2>1, Zenon
  <1>12. Starts("drivers", 2)
    <2>1. SoFar("drivers", 2, 1, w, <<>>) BY <1>3, <1>4, SoFarIntro24, Zenon
    <2> QED BY <1>9, <2>1, Zenon
  <1>13. Starts("separator", 3) /\ Starts("separator", 6)
    <2>1. SoFar("separator", 3, 1, w, <<>>) /\ SoFar("separator", 6, 1, w, <<>>)
      BY <1>5, SoFarIntro24, Zenon
    <2> QED BY <1>9, <2>1, Zenon
  <1>14. Starts("bootloaders", 4)
    <2>1. SoFar("bootloaders", 4, 1, w, <<>>) BY <1>3, <1>4, SoFarIntro24, Zenon
    <2> QED BY <1>9, <2>1, Zenon
  <1>15. Starts("gpt separator", 5) BY <1>9, SoFarIntro578, Zenon
  <1>16. Starts("secureboot", 7)
    <2>1. SoFar("secureboot", 7, 1, w, <<>>) BY <1>5, <1>7, SoFarIntro578, Zenon
    <2> QED BY <1>9, <2>1, Zenon
  <1>17. Starts("grub", 8) BY <1>9, SoFarIntro578, Zenon
  <1>18. Starts("paths", 9)
    <2>1. SoFar("paths", 9, 1, w, <<>>) BY <1>3, <1>4, <1>8, SoFarIntro9, Zenon
    <2> QED BY <1>9, <2>1, Zenon
  <1>19. n = 0 \/ n = 1 \/ n = 2 \/ n = 3 \/ n = 4 \/ n = 5 \/ n = 6 \/ n = 7 \/ n = 8 \/ n = 9
    BY DEF Calculated
  <1> HIDE DEF Starts
  <1>20. Starts(FirstStep[n + 1], n)
    BY <1>1, <1>10, <1>11, <1>12, <1>13, <1>14, <1>15, <1>16, <1>17, <1>18, <1>19, Zenon
  <1> QED BY <1>20 DEF Starts

LEMMA ParseReference ==
  ASSUME TypeInv, OrderInv, SilentInv, ReferenceInv, Parse
  PROVE  ReferenceInv'
  <1>1. cur = 0 /\ cur' = 0 /\ pc' \in {"parse", "validate", "dispatch", "exited"} /\ pc \in Waiting
    BY ParseOrder, ParseForm, ParseStarts DEF Waiting
  <1>2. out' = <<>> BY <1>1, MainQuiet, SilentBefore DEF Quiet
  <1>3. fs' = fs
    BY DEF Parse, Start, ParseFlag, ParseFormat, ParsePcrs, ParseValue, ParseLoose, ParseList, ParseAcpi,
           ParseInvalid, ParseEnd, Validate, Parsing, Parsed, Skip, Fail
  <1>4. pc' \notin HandlerLabel /\ pc' \notin {"open log"} \cup Printing
    BY <1>1, PointsApart
  <1>5. PointInv' /\ RunningInv' BY <1>4 DEF PointInv, RunningInv
  <1>6. FinishedInv'
    <2>1. \A n \in Calculated : ~(n < 0) BY DEF Calculated
    <2> QED BY <1>1, <2>1 DEF FinishedInv
  <1>7. FilesInv' BY <1>3 DEF ReferenceInv, FilesInv
  <1> QED BY <1>2, <1>4, <1>5, <1>6, <1>7, NothingPrinted DEF ReferenceInv

\* Outside the handlers, while the registers stay.
LEMMA ReferenceKept ==
  ASSUME ReferenceInv, UNCHANGED <<opts, fs, bank, cur>>, pc' \notin HandlerLabel, PrintedInv', EndInv'
  PROVE  ReferenceInv'
  <1>1. PointInv' /\ RunningInv' BY DEF PointInv, RunningInv
  <1>2. /\ \A n : Unnoticed(n)' <=> Unnoticed(n)
        /\ \A n, v : Matches(n, v)' <=> Matches(n, v)
        /\ Requested' = Requested BY SameReference, SameParts
  <1>3. FinishedInv'
    <2> SUFFICES ASSUME NEW n \in Calculated, n < cur', n \in Requested', ~Unnoticed(n)'
                 PROVE  Matches(n, bank[n])' BY DEF FinishedInv
    <2>1. n \in Requested /\ ~Unnoticed(n) /\ n < cur BY <1>2, Zenon
    <2>2. Matches(n, bank[n]) /\ bank'[n] = bank[n]
      BY <2>1, Zenon DEF ReferenceInv, FinishedInv
    <2> QED BY <1>2, <2>2, Zenon
  <1>4. FilesInv' BY DEF ReferenceInv, FilesInv
  <1> QED BY <1>1, <1>3, <1>4 DEF ReferenceInv

LEMMA DispatchReference ==
  ASSUME TypeInv, OrderInv, SilentInv, ReferenceInv, Dispatch
  PROVE  ReferenceInv'
  <1>1. pc = "dispatch" /\ cur \in 0 .. 10 /\ out = <<>>
    <2>1. pc = "dispatch" /\ pc \in Waiting
      BY DEF Dispatch, NotRequested, CallHandler, AllCalculated, Waiting
    <2> QED BY <2>1, SilentBefore DEF TypeInv, TypeOK
  <1>2. UNCHANGED <<opts, fs, out>> /\ out' = <<>>
    BY <1>1 DEF Dispatch, NotRequested, CallHandler, AllCalculated, Skip
  <1>3. /\ \A n : Unnoticed(n)' <=> Unnoticed(n)
        /\ \A n, v : Matches(n, v)' <=> Matches(n, v)
        /\ \A label, n, k, w, s : SoFar(label, n, k, w, s) => SoFar(label, n, k, w, s)'
        /\ Requested' = Requested BY <1>2, SameReference, SameSoFar, SameParts
  <1>4. CASE NotRequested
    <2>1. cur \in Calculated \ Requested /\ cur' = cur + 1 /\ pc' = "dispatch" /\ bank' = bank
      BY <1>4 DEF NotRequested, Return, Skip
    <2>2. pc' \notin HandlerLabel /\ pc' \notin {"open log"} \cup Printing
      BY <2>1, PointsApart
    <2>3. PointInv' /\ RunningInv' BY <2>2 DEF PointInv, RunningInv
    <2>4. FinishedInv'
      <3> SUFFICES ASSUME NEW n \in Calculated, n < cur', n \in Requested', ~Unnoticed(n)'
                   PROVE  Matches(n, bank[n])' BY DEF FinishedInv
      <3>1. n \in Requested /\ ~Unnoticed(n) /\ n # cur BY <1>3, <2>1, Zenon
      <3>2. n < cur BY <1>1, <2>1, <3>1 DEF Calculated
      <3>3. Matches(n, bank[n]) /\ bank'[n] = bank[n]
        BY <2>1, <3>1, <3>2, Zenon DEF ReferenceInv, FinishedInv
      <3> QED BY <1>3, <3>3, Zenon
    <2>5. FilesInv' BY <1>2 DEF ReferenceInv, FilesInv
    <2> QED BY <1>2, <2>2, <2>3, <2>4, <2>5, NothingPrinted DEF ReferenceInv
  <1>5. CASE CallHandler
    <2>1. /\ cur \in Calculated /\ cur \in Pcr /\ cur' = cur /\ pc' \in HandlerLabel /\ bank'[cur] = <<>>
          /\ \A n \in Pcr : n # cur => bank'[n] = bank[n] BY <1>5, CallHandlerForm
    <2>2. pc' = FirstStep[cur + 1] /\ i' = 1 BY <1>5 DEF CallHandler, Goto
    <2>3. SoFar(pc', cur', i', walk', bank'[cur']) /\ At(pc', cur')
      BY <2>1, <2>2, FirstSoFar, Zenon
    <2>4. PointInv' BY <2>3 DEF PointInv, At
    <2>5. RunningInv'
      <3>1. SoFar(pc, cur, i, walk, bank[cur])' BY <1>3, <2>3, Zenon
      <3> QED BY <3>1 DEF RunningInv
    <2>6. FinishedInv'
      <3> SUFFICES ASSUME NEW n \in Calculated, n < cur', n \in Requested', ~Unnoticed(n)'
                   PROVE  Matches(n, bank[n])' BY DEF FinishedInv
      <3>1. n \in Requested /\ ~Unnoticed(n) /\ n < cur /\ n \in Pcr
        BY <1>3, <2>1, CalculatedArePcrs, Zenon
      <3>2. n # cur BY <1>1, <3>1 DEF Calculated
      <3>3. Matches(n, bank[n]) /\ bank'[n] = bank[n]
        BY <2>1, <3>1, <3>2, Zenon DEF ReferenceInv, FinishedInv
      <3> QED BY <1>3, <3>3, Zenon
    <2>7. FilesInv' BY <1>2 DEF ReferenceInv, FilesInv
    <2> QED BY <1>2, <2>1, <2>4, <2>5, <2>6, <2>7, PointsApart, NothingPrinted DEF ReferenceInv
  <1>6. CASE AllCalculated
    <2>1. cur' = cur /\ pc' = "open log" /\ bank' = bank /\ cur \notin Calculated
      BY <1>6 DEF AllCalculated, Goto, Skip
    <2>2. cur = 10 BY <1>1, <2>1, LastCur DEF Calculated
    <2>3. PrintedInv' BY <1>2 DEF PrintedInv
    <2>4. EndInv' BY <2>1, <2>2 DEF EndInv
    <2>5. pc' \notin HandlerLabel BY <2>1, PointsApart
    <2> QED BY <1>2, <2>1, <2>3, <2>4, <2>5, ReferenceKept
  <1> QED BY <1>4, <1>5, <1>6 DEF Dispatch

\* What a sequence of tokens says about registers.
Truthful(s) == \A k \in DOMAIN s : s[k].t = "pcr" => s[k].pcr \in Requested /\ s[k].value = bank[s[k].pcr]

LEMMA TruthfulJoin ==
  ASSUME NEW T, NEW a \in Seq(T), NEW b \in Seq(T), Truthful(a), Truthful(b)
  PROVE  a \o b \in Seq(T) /\ Truthful(a \o b)
  <1> DEFINE c == a \o b
  <1>1. c \in Seq(T) BY ConcatProperties
  <1>2. \A k \in DOMAIN c : (\E j \in DOMAIN a : c[k] = a[j]) \/ \E j \in DOMAIN b : c[k] = b[j]
    BY ConcatElements
  <1> HIDE DEF c
  <1>3. Truthful(c) BY <1>2, Zenon DEF Truthful
  <1> QED BY <1>1, <1>3 DEF c

LEMMA TruthfulLine ==
  ASSUME TypeInv, NEW n \in Pcr, n \in Requested
  PROVE  Truthful(<<Line(n)>>) /\ <<Line(n)>> \in Seq(TokenOf(TokenType))
  <1>1. Line(n).t = "pcr" /\ Line(n).pcr = n /\ Line(n).value = bank[n] BY DEF Line, Token
  <1>2. <<Line(n)>> \in Seq(TokenOf(TokenType)) BY LineType, TokenSets
  <1> HIDE DEF Line
  <1>3. \A x : \A k \in DOMAIN <<x>> : <<x>>[k] = x OBVIOUS
  <1>4. Truthful(<<Line(n)>>)
    <2> SUFFICES ASSUME NEW k \in DOMAIN <<Line(n)>>
                 PROVE  <<Line(n)>>[k].pcr \in Requested /\ <<Line(n)>>[k].value = bank[<<Line(n)>>[k].pcr]
      BY DEF Truthful
    <2>1. <<Line(n)>>[k] = Line(n) BY <1>3, Zenon
    <2> QED BY <1>1, <2>1, Zenon
  <1> QED BY <1>2, <1>4

LEMMA TruthfulAggregate ==
  ASSUME TypeInv, Requested \subseteq Pcr
  PROVE  Truthful(<<Aggregate>>) /\ <<Aggregate>> \in Seq(TokenOf(TokenType))
  <1>1. Aggregate.t # "pcr" BY DEF Aggregate, Token
  <1>2. Aggregate \in TokenOf(TokenType) BY AggregateType DEF Aggregate
  <1> HIDE DEF Aggregate
  <1>3. \A x : \A k \in DOMAIN <<x>> : <<x>>[k] = x OBVIOUS
  <1>4. <<Aggregate>> \in Seq(TokenOf(TokenType)) BY <1>2, SeqOfOne, Zenon
  <1>5. Truthful(<<Aggregate>>) BY <1>1, <1>3, Zenon DEF Truthful
  <1> QED BY <1>4, <1>5

LEMMA TruthfulLog ==
  ASSUME NEW ts \in Seq(TokenOf(LogTokenType))
  PROVE  Truthful(ts) /\ ts \in Seq(TokenOf(TokenType))
  <1>1. Truthful(ts) BY SilentTokens, Zenon DEF Truthful
  <1>2. ts \in Seq(TokenOf(TokenType)) BY TokenSets
  <1> QED BY <1>1, <1>2

LEMMA OutputReference ==
  ASSUME TypeInv, RequestedInv, SilentInv, ReferenceInv, Output
  PROVE  ReferenceInv'
  <1>1. pc \in {"open log"} \cup Printing /\ cur = 10
    <2>1. pc \in {"open log"} \cup Printing BY OutputStarts
    <2> QED BY <2>1, Zenon DEF ReferenceInv, EndInv
  <1>2. UNCHANGED <<opts, bank>> BY OutputSteps
  <1>3. UNCHANGED <<fs, cur>>
    BY DEF Output, OpenLog, PrintLog, LogDone, OpenSummary, PrintRegister, SummaryDone, PrintAggregate,
           Emit, Skip, Goto, Again, Fail
  <1>4. EndInv' BY <1>1, <1>3, Zenon DEF EndInv
  <1>5. Requested \subseteq Pcr BY <1>1, PointsDistinct, Zenon DEF RequestedInv, Calculating
  <1>6. out \in Seq(TokenOf(TokenType)) /\ Truthful(out)
    BY Zenon DEF SilentInv, ReferenceInv, PrintedInv, Truthful
  <1>7. \/ pc = "print log" /\ Fail
        \/ \E ts \in Seq(TokenOf(LogTokenType)) : PrintsLog(ts)
        \/ \E n \in Requested, ts \in Seq(TokenOf(LogTokenType)) : PrintsLine(n, ts)
        \/ PrintsAggregate BY OutputSteps
  <1>8. Truthful(out') /\ pc' \in {"exited"} \cup Printing
    <2>1. CASE pc = "print log" /\ Fail
      <3>1. out' = out /\ pc' = "exited" BY <2>1 DEF Fail
      <3> QED BY <1>6, <3>1, Zenon
    <2>2. ASSUME NEW ts \in Seq(TokenOf(LogTokenType)), PrintsLog(ts)
          PROVE  Truthful(out') /\ pc' \in {"exited"} \cup Printing
      <3>1. out' = out \o ts /\ pc' \in Printing BY <2>2 DEF PrintsLog, Printing
      <3> QED BY <1>6, <3>1, TruthfulLog, TruthfulJoin, Zenon
    <2>3. ASSUME NEW n \in Requested, NEW ts \in Seq(TokenOf(LogTokenType)), PrintsLine(n, ts)
          PROVE  Truthful(out') /\ pc' \in {"exited"} \cup Printing
      <3> DEFINE line == <<Line(n)>>
      <3>1. out' = (out \o line) \o ts /\ pc' \in Printing BY <2>3 DEF PrintsLine, Printing
      <3>2. Truthful(line) /\ line \in Seq(TokenOf(TokenType)) BY <1>5, TruthfulLine
      <3> HIDE DEF line
      <3>3. Truthful(out \o line) /\ out \o line \in Seq(TokenOf(TokenType))
        BY <1>6, <3>2, TruthfulJoin, Zenon
      <3> QED BY <3>1, <3>3, TruthfulLog, TruthfulJoin, Zenon
    <2>4. CASE PrintsAggregate
      <3>1. (out' = out \/ out' = out \o <<Aggregate>>) /\ pc' = "exited"
        BY <2>4, Zenon DEF PrintsAggregate
      <3> QED BY <1>5, <1>6, <3>1, TruthfulAggregate, TruthfulJoin, Zenon
    <2> QED BY <1>7, <2>1, <2>2, <2>3, <2>4, Zenon
  <1>9. PrintedInv'
    <2>1. Requested' = Requested BY <1>2 DEF Requested
    <2> QED BY <1>2, <1>8, <2>1, Zenon DEF PrintedInv, Truthful
  <1>10. pc' \notin HandlerLabel BY <1>8, PointsApart, Zenon
  <1> QED BY <1>2, <1>3, <1>4, <1>9, <1>10, ReferenceKept

\* The program dies, or nothing happens.
LEMMA StutterReference ==
  ASSUME ReferenceInv, UNCHANGED vars
  PROVE  ReferenceInv'
  <1>1. UNCHANGED <<opts, fs, pc, cur, i, walk, bank, out>> BY DEF vars
  <1>2. /\ \A n : Unnoticed(n)' <=> Unnoticed(n)
        /\ \A n, v : Matches(n, v)' <=> Matches(n, v)
        /\ \A label, n, k, w, s : SoFar(label, n, k, w, s) => SoFar(label, n, k, w, s)'
        /\ Requested' = Requested BY <1>1, SameReference, SameSoFar, SameParts
  <1>3. PointInv' BY <1>1 DEF ReferenceInv, PointInv, At
  <1>4. RunningInv'
    <2> SUFFICES ASSUME pc' \in HandlerLabel, ~Unnoticed(cur)'
                 PROVE  SoFar(pc, cur, i, walk, bank[cur])' BY DEF RunningInv
    <2>1. ~Unnoticed(cur) /\ pc \in HandlerLabel BY <1>1, <1>2, Zenon
    <2>2. SoFar(pc', cur', i', walk', bank'[cur'])
      BY <1>1, <2>1, Zenon DEF ReferenceInv, RunningInv
    <2> QED BY <1>2, <2>2, Zenon
  <1>5. FinishedInv'
    <2> SUFFICES ASSUME NEW n \in Calculated, n < cur', n \in Requested', ~Unnoticed(n)'
                 PROVE  Matches(n, bank[n])' BY DEF FinishedInv
    <2>1. n \in Requested /\ ~Unnoticed(n) /\ n < cur BY <1>1, <1>2, Zenon
    <2>2. Matches(n, bank[n]) /\ bank'[n] = bank[n]
      BY <1>1, <2>1, Zenon DEF ReferenceInv, FinishedInv
    <2> QED BY <1>2, <2>2, Zenon
  <1>6. PrintedInv' /\ EndInv' /\ FilesInv'
    BY <1>1, <1>2 DEF ReferenceInv, PrintedInv, EndInv, FilesInv
  <1> QED BY <1>3, <1>4, <1>5, <1>6 DEF ReferenceInv

LEMMA CrashReference ==
  ASSUME ReferenceInv, Crash
  PROVE  ReferenceInv'
  <1>1. UNCHANGED <<opts, fs, bank, cur, out>> /\ pc' = "crashed" BY DEF Crash
  <1>2. pc' \notin HandlerLabel /\ pc' \notin {"open log"} \cup Printing
    BY <1>1, PointsApart
  <1>3. Requested' = Requested BY <1>1 DEF Requested
  <1>4. PrintedInv' BY <1>1, <1>3, Zenon DEF ReferenceInv, PrintedInv
  <1>5. EndInv' BY <1>1, <1>2, Zenon DEF ReferenceInv, EndInv
  <1> QED BY <1>1, <1>2, <1>4, <1>5, ReferenceKept

LEMMA InitReference == Init => ReferenceInv
  <1> SUFFICES ASSUME Init PROVE ReferenceInv OBVIOUS
  <1>1. pc = "start" /\ cur = 0 /\ out = <<>> /\ fs \in FileSystems BY DEF Init
  <1>2. pc \notin HandlerLabel /\ pc \notin {"open log"} \cup Printing BY <1>1, PointsApart
  <1>3. PointInv /\ RunningInv BY <1>2 DEF PointInv, RunningInv
  <1>4. FinishedInv
    <2>1. \A n \in Calculated : ~(n < 0) BY DEF Calculated
    <2> QED BY <1>1, <2>1 DEF FinishedInv
  <1>5. PrintedInv /\ EndInv BY <1>1, <1>2, NoElement, Zenon DEF PrintedInv, EndInv
  <1> QED BY <1>1, <1>3, <1>4, <1>5 DEF ReferenceInv, FilesInv

LEMMA NextReference ==
  TypeInv /\ OrderInv /\ RequestedInv /\ SilentInv /\ ReferenceInv /\ [Next]_vars => ReferenceInv'
  <1> SUFFICES ASSUME TypeInv, OrderInv, RequestedInv, SilentInv, ReferenceInv, [Next]_vars
               PROVE  ReferenceInv' OBVIOUS
  <1>1. \/ Parse \/ Dispatch \/ HandlerStep \/ Output
        \/ Crash \/ UNCHANGED vars BY Zenon DEF Next, HandlerStep, OutOfMemory, Terminated
  <1> QED
    BY <1>1, ParseReference, DispatchReference, HandlerReference, OutputReference, CrashReference,
       StutterReference, Zenon

\* PublishedMatchReference holds of every run: a summary line shows what a
\* measured boot with the given files leaves in the PCR, for every number of
\* boot options, drivers, boot loaders and paths, every tree of directories
\* read in every order, and whichever PCRs are asked for, unless the input is
\* one whose failure the program does not notice (pcrs.c:53-749,
\* paths.c:34-131, main.c:401-545).  A handler that returns has measured
\* everything its options name, and one that could not prints nothing.
THEOREM PublishedIsReference == Spec => []PublishedMatchReference
  <1> DEFINE Inv == TypeInv /\ OrderInv /\ RequestedInv /\ SilentInv /\ ReferenceInv
  <1>1. Init => Inv BY InitType, ReplayInit, SilentInit, InitReference
  <1>2. Inv /\ [Next]_vars => Inv'
    BY NextType, OrderNext, RequestedNext, SilentNext, NextReference
  <1>3. Inv => PublishedMatchReference
    <2> SUFFICES ASSUME ReferenceInv, NEW k \in DOMAIN out, out[k].t = "pcr", out[k].pcr \in Calculated,
                        ~Unnoticed(out[k].pcr)
                 PROVE  Matches(out[k].pcr, out[k].value) BY DEF PublishedMatchReference
    <2>1. out[k].pcr \in Requested /\ out[k].value = bank[out[k].pcr] /\ cur = 10
      BY Zenon DEF ReferenceInv, PrintedInv, EndInv
    <2>2. out[k].pcr < cur BY <2>1 DEF Calculated
    <2> QED BY <2>1, <2>2, Zenon DEF ReferenceInv, FinishedInv
  <1> QED BY <1>1, <1>2, <1>3, PTL DEF Spec

-----------------------------------------------------------------------------
(* The output as a document: the logs it is printed from *)

\* No text that a file gives needs an escape or overflows the line buffer.
FilesPlain == QuotedFiles = {} /\ LongFiles = {}

\* A step that adds an event with a plain text to the log of cur, drops it, or
\* leaves the logs alone; calculate_pcr8 may find other texts behind its buffer.
Journals ==
  \/ log' = log
  \/ \E d : EvlogAdd(d, "plain")
  \/ cur = 8 /\ \E d : \E text \in Text : EvlogAdd(d, text)

\* The files whose texts go into the logs have been given.
GivenInv ==
  /\ pc \in {"dispatch"} \cup HandlerLabel => ValidRequest
  /\ pc \in HandlerLabel => cur \in Requested

PlainInv == FilesPlain => \A n \in Pcr \ {8} : \A k \in DOMAIN log[n] : log[n][k].text = "plain"

LEMMA PlainTexts == FilesPlain => \A f : NameOf(f) = "plain" /\ TextOf(f) = "plain"
  BY DEF FilesPlain, NameOf, TextOf

LEMMA JournalsIntro ==
  ASSUME FilesPlain
  PROVE  /\ \A d : Measure(d) \/ LogOnly(d) => Journals
         /\ \A d, f : MeasureText(d, NameOf(f)) \/ MeasureText(d, TextOf(f)) => Journals
         /\ \A f : MeasurePlaceholder(f) => Journals
         /\ Skip \/ Warn \/ Fail \/ Crash => Journals
  BY PlainTexts, Zenon
  DEF Journals, Measure, MeasureText, MeasurePlaceholder, LogAndExtend, LogOnly, Skip, Warn, Fail, Crash

LEMMA Pcr0Journals == FilesPlain /\ (CalculatePcr0) => Journals
  BY JournalsIntro, Zenon
  DEF CalculatePcr0, MeasureCrtm, ReadFirmware, MeasurePei, MeasureDxe, MeasureVolume

LEMMA Pcr124Journals == FilesPlain /\ (CalculatePcr1 \/ CalculatePcr2 \/ CalculatePcr4) => Journals
  <1>1. FilesPlain /\ CalculatePcr1 => Journals
    BY JournalsIntro, Zenon
    DEF CalculatePcr1, MeasureAcpi, AcpiDone, MeasureBootOrder, MeasureDefaultBootOption, MeasureBootOption,
        BootOptionsDone
  <1>2. FilesPlain /\ (CalculatePcr2 \/ CalculatePcr4) => Journals
    BY JournalsIntro, Zenon
    DEF CalculatePcr2, MeasureDriver, DriversDone, PeRefused, CalculatePcr4, MeasureBootloader, BootloadersDone,
        MeasureKernel, MeasureBootAction
  <1> QED BY <1>1, <1>2

LEMMA Pcr57Journals == FilesPlain /\ (CalculatePcr5 \/ CalculatePcr7 \/ MeasureSeparator) => Journals
  <1>1. LogExitBootReturned => Journals BY Zenon DEF LogExitBootReturned, Journals
  <1> QED
    BY <1>1, JournalsIntro, Zenon
    DEF CalculatePcr5, LogGptSeparator, MeasureGpt, LogExitBootInvocation, CalculatePcr7,
        MeasureSecureBootVar, SecureBootDone, MeasureSbatLevel, MeasureSeparator

LEMMA Pcr8Journals ==
  ASSUME TypeInv, ReferenceInv, FilesPlain, CalculatePcr8
  PROVE  Journals
  <1>1. CASE ReadGrub BY <1>1, JournalsIntro, Zenon DEF ReadGrub
  <1>2. CASE MeasureGrubCommand
    <2>1. pc = "grub commands" /\ pc \in HandlerLabel
      BY <1>2 DEF MeasureGrubCommand, HandlerLabel
    <2>2. cur = 8 BY <2>1 DEF ReferenceInv, PointInv, At
    <2>3. (\E d : \E text \in Text : EvlogAdd(d, text)) \/ log' = log
      BY <1>2, TextKinds, Zenon DEF MeasureGrubCommand, MeasureText, LogAndExtend, Skip
    <2> QED BY <2>2, <2>3, Zenon DEF Journals
  <1> QED BY <1>1, <1>2 DEF CalculatePcr8

LEMMA Pcr9Journals ==
  ASSUME FilesPlain, CalculatePcr9
  PROVE  Journals
  <1>1. CASE RejectPath \/ MeasurePath \/ PathsDone
    BY <1>1, JournalsIntro, Zenon DEF RejectPath, MeasurePath, PathsDone
  <1>2. CASE WalkPath \/ DirectoryDone \/ \E e \in Dir : EnterDirectory(e)
    BY <1>2, JournalsIntro, Zenon DEF WalkPath, DirectoryDone, LeaveDirectory, EnterDirectory, Journals
  <1>3. CASE \E e \in File : MeasureFileEntry(e) \/ FileEntryFails(e)
    BY <1>3, JournalsIntro, PlainTexts, Zenon DEF MeasureFileEntry, FileEntryFails, LeaveDirectory, Journals
  <1>4. CASE MeasureCmdline \/ MeasureInitrd
    BY <1>4, JournalsIntro, Zenon DEF MeasureCmdline, MeasureInitrd
  <1> QED BY <1>1, <1>2, <1>3, <1>4 DEF CalculatePcr9

\* The options stay as they are from Validate on, the files always.
LEMMA OptionsStay ==
  ASSUME ReferenceInv, Dispatch \/ HandlerStep \/ Output \/ OutOfMemory
  PROVE  UNCHANGED <<opts, fs>>
  <1>1. Dispatch => UNCHANGED <<opts, fs>>
    BY DEF Dispatch, NotRequested, CallHandler, AllCalculated, Skip
  <1>2. Output => UNCHANGED <<opts, fs>>
    BY DEF Output, OpenLog, PrintLog, LogDone, OpenSummary, PrintRegister, SummaryDone, PrintAggregate,
           Emit, Skip, Fail
  <1>3. OutOfMemory => UNCHANGED <<opts, fs>> BY DEF OutOfMemory, Crash
  <1>4. HandlerStep => UNCHANGED <<opts, fs>> BY HandlerGoes DEF ReferenceInv
  <1> QED BY <1>1, <1>2, <1>3, <1>4

LEMMA ParseGiven ==
  ASSUME Parse
  PROVE  fs' = fs /\ log' = log /\ GivenInv'
  <1>1. fs' = fs
    BY DEF Parse, Start, ParseFlag, ParseFormat, ParsePcrs, ParseValue, ParseLoose, ParseList, ParseAcpi,
           ParseInvalid, ParseEnd, Validate, Parsing, Parsed, Skip, Fail
  <1>2. pc' \in {"parse", "validate", "exited"} \/ (pc' = "dispatch" /\ ValidRequest /\ Skip)
    BY DEF Parse, Start, ParseFlag, ParseFormat, ParsePcrs, ParseValue, ParseLoose, ParseList, ParseAcpi,
           ParseInvalid, ParseEnd, Validate, Parsing, Parsed, Goto, Fail
  <1>3. CASE pc' \in {"parse", "validate", "exited"}
    BY <1>1, <1>3, ParseForm, PointsApart DEF GivenInv
  <1>4. CASE pc' = "dispatch" /\ ValidRequest /\ Skip
    BY <1>1, <1>4, ParseForm, PointsApart DEF GivenInv, ValidRequest, Skip, Requested, Given
  <1> QED BY <1>2, <1>3, <1>4

LEMMA GivenNext ==
  ASSUME TypeInv, ReferenceInv, GivenInv, [Next]_vars
  PROVE  GivenInv' /\ fs' = fs
  <1>1. CASE Parse BY <1>1, ParseGiven
  <1>2. ASSUME UNCHANGED <<opts, fs>>
        PROVE  ValidRequest' = ValidRequest /\ Requested' = Requested
    BY <1>2 DEF ValidRequest, Requested, Given
  <1>3. CASE Dispatch
    <2>1. UNCHANGED <<opts, fs>> /\ pc = "dispatch"
      BY <1>3, OptionsStay DEF Dispatch, NotRequested, CallHandler, AllCalculated
    <2>2. pc' \in HandlerLabel => cur' = cur /\ cur \in Requested
      BY <1>3, PointsApart DEF Dispatch, NotRequested, CallHandler, AllCalculated, Goto, Return
    <2> QED BY <1>2, <2>1, <2>2 DEF GivenInv
  <1>4. CASE HandlerStep
    <2>1. UNCHANGED <<opts, fs>> /\ pc \in HandlerLabel /\ HandlerMoves
      BY <1>4, HandlerGoes DEF ReferenceInv
    <2>2. pc' \in HandlerLabel => cur' = cur BY <2>1, HandlerPoint
    <2> QED BY <1>2, <2>1, <2>2 DEF GivenInv
  <1>5. CASE Output \/ OutOfMemory
    <2>1. UNCHANGED <<opts, fs>> BY <1>5, OptionsStay
    <2>2. pc' \in Printing \cup {"exited", "crashed"}
      BY <1>5 DEF Output, OpenLog, PrintLog, LogDone, OpenSummary, PrintRegister, SummaryDone, PrintAggregate,
                  Emit, Goto, Again, Fail, OutOfMemory, Crash, Printing
    <2>3. pc' \notin {"dispatch"} \cup HandlerLabel BY <2>2, PointsApart DEF Printing
    <2> QED BY <2>1, <2>3 DEF GivenInv
  <1>6. CASE UNCHANGED vars BY <1>2, <1>6 DEF vars, GivenInv
  <1> QED BY <1>1, <1>3, <1>4, <1>5, <1>6 DEF Next, HandlerStep, Terminated

LEMMA AppendPlain ==
  ASSUME NEW s \in Seq(Entry), NEW d, \A k \in DOMAIN s : s[k].text = "plain"
  PROVE  LET t == Append(s, [digest |-> d, text |-> "plain"])
         IN  \A k \in DOMAIN t : t[k].text = "plain"
  <1> DEFINE e == [digest |-> d, text |-> "plain"]
             t == Append(s, e)
  <1>1. e.text = "plain" OBVIOUS
  <1> HIDE DEF e
  <1>2. s \in Seq(Entry \cup {e}) /\ e \in Entry \cup {e} OBVIOUS
  <1>3. /\ DOMAIN t = 1 .. Len(s) + 1 /\ DOMAIN s = 1 .. Len(s) /\ Len(s) \in Nat
        /\ t[Len(s) + 1] = e /\ \A k \in 1 .. Len(s) : t[k] = s[k] BY <1>2
  <1>4. \A k \in 1 .. Len(s) + 1 : k \in 1 .. Len(s) \/ k = Len(s) + 1 BY <1>3
  <1> HIDE DEF t
  <1>5. \A k \in DOMAIN t : t[k].text = "plain" BY <1>1, <1>3, <1>4
  <1> QED BY <1>5 DEF t, e

LEMMA PlainNext ==
  ASSUME TypeInv, ReferenceInv, GivenInv, PlainInv, [Next]_vars
  PROVE  PlainInv'
  <1>1. fs' = fs BY GivenNext
  <1> SUFFICES ASSUME FilesPlain
               PROVE  \A n \in Pcr \ {8} : \A k \in DOMAIN log'[n] : log'[n][k].text = "plain"
    BY <1>1 DEF PlainInv, FilesPlain, QuotedFiles, LongFiles
  <1>2. \A n \in Pcr \ {8} : \A k \in DOMAIN log[n] : log[n][k].text = "plain"
    BY DEF PlainInv
  <1>3. Journals
    <2>1. Parse \/ Dispatch \/ Output \/ OutOfMemory => log' = log
      BY ParseForm DEF Dispatch, NotRequested, CallHandler, AllCalculated, Skip, Output, OpenLog, PrintLog, LogDone,
         OpenSummary, PrintRegister, SummaryDone, PrintAggregate, Emit, Fail, OutOfMemory, Crash
    <2>2. HandlerStep => Journals
      BY Pcr0Journals, Pcr124Journals, Pcr57Journals, Pcr8Journals, Pcr9Journals, Zenon DEF HandlerStep
    <2>3. UNCHANGED vars => log' = log BY DEF vars
    <2> QED BY <2>1, <2>2, <2>3, Zenon DEF Next, HandlerStep, Terminated, Journals
  <1>4. CASE log' = log BY <1>2, <1>4
  <1>5. ASSUME NEW d, EvlogAdd(d, "plain")
        PROVE  \A n \in Pcr \ {8} : \A k \in DOMAIN log'[n] : log'[n][k].text = "plain"
    <2> SUFFICES ASSUME NEW n \in Pcr \ {8}
                 PROVE  \A k \in DOMAIN log'[n] : log'[n][k].text = "plain" OBVIOUS
    <2>1. log \in [Pcr -> Seq(Entry)] BY DEF TypeInv, TypeOK
    <2>2. \/ log'[n] \in {log[n], <<>>}
          \/ log'[n] = Append(log[n], [digest |-> d, text |-> "plain"])
      BY <1>5, <2>1 DEF EvlogAdd, WithEntry
    <2>3. CASE log'[n] \in {log[n], <<>>}
      <3>1. \A k \in DOMAIN <<>> : FALSE OBVIOUS
      <3> QED BY <1>2, <2>3, <3>1
    <2>4. CASE log'[n] = Append(log[n], [digest |-> d, text |-> "plain"])
      BY <1>2, <2>1, <2>4, AppendPlain
    <2> QED BY <2>2, <2>3, <2>4
  <1>6. ASSUME cur = 8, NEW d, NEW text \in Text, EvlogAdd(d, text)
        PROVE  \A n \in Pcr \ {8} : \A k \in DOMAIN log'[n] : log'[n][k].text = "plain"
    <2>1. log \in [Pcr -> Seq(Entry)] BY DEF TypeInv, TypeOK
    <2>2. \A n \in Pcr \ {8} : log'[n] = log[n] BY <1>6, <2>1 DEF EvlogAdd, WithEntry
    <2> QED BY <1>2, <2>2
  <1> QED BY <1>3, <1>4, <1>5, <1>6 DEF Journals

-----------------------------------------------------------------------------
(* The output as a document: its tokens *)

Tokens == TokenOf(TokenType)

\* The tokens that may stand next to each other.
Neighbours == {p \in Tokens \X Tokens : Follows(p[1].t, p[2].t)}

LEMMA NeighboursIntro ==
  ASSUME NEW a \in Tokens, NEW b \in Tokens, Follows(a.t, b.t)
  PROVE  <<a, b>> \in Neighbours BY DEF Neighbours

\* A sequence of tokens from one that starts to one that ends.
Spans(s, starts, ends) ==
  /\ s \in Seq(Tokens) /\ s # <<>> /\ Linked(s, Neighbours)
  /\ s[1].t = starts /\ s[Len(s)].t = ends

LEMMA SpansConcat ==
  ASSUME NEW a, NEW b, NEW starts, NEW x, NEW y, NEW ends,
         Spans(a, starts, x), Spans(b, y, ends), Follows(x, y)
  PROVE  Spans(a \o b, starts, ends)
  <1> DEFINE T == Tokens
             R == Neighbours
  <1>1. /\ a \in Seq(T) /\ b \in Seq(T) /\ a # <<>> /\ b # <<>>
        /\ Linked(a, R) /\ Linked(b, R)
        /\ a[1].t = starts /\ a[Len(a)].t = x /\ b[1].t = y /\ b[Len(b)].t = ends
    BY DEF Spans
  <1> HIDE DEF T
  <1>2. a[Len(a)] \in T /\ b[1] \in T BY <1>1
  <1>3. <<a[Len(a)], b[1]>> \in R BY <1>1, <1>2, NeighboursIntro DEF T
  <1> HIDE DEF R
  <1>4. /\ Linked(a \o b, R) /\ a \o b \in Seq(T) /\ a \o b # <<>>
        /\ (a \o b)[1] = a[1] /\ (a \o b)[Len(a \o b)] = b[Len(b)]
    BY <1>1, <1>3, LinkedConcat
  <1> QED BY <1>1, <1>4 DEF Spans, T, R

LEMMA SpansOne ==
  ASSUME NEW tok \in Tokens
  PROVE  Spans(<<tok>>, tok.t, tok.t)
  <1>1. \A T : \A x \in T : <<x>> \in Seq(T) /\ <<x>> # <<>> /\ <<x>>[1] = x /\ <<x>>[Len(<<x>>)] = x
    OBVIOUS
  <1>2. Linked(<<tok>>, Neighbours) BY LinkedOne, Zenon
  <1> QED BY <1>1, <1>2, Zenon DEF Spans

LEMMA SpansEnds ==
  ASSUME NEW s, NEW starts, NEW ends, Spans(s, starts, ends)
  PROVE  /\ s[1] \in Tokens /\ s[1].t = starts
         /\ s[Len(s)] \in Tokens /\ s[Len(s)].t = ends
  <1> DEFINE T == Tokens
  <1>1. s \in Seq(T) /\ s # <<>> /\ s[1].t = starts /\ s[Len(s)].t = ends BY DEF Spans
  <1> HIDE DEF T
  <1>2. s[1] \in T /\ s[Len(s)] \in T BY <1>1
  <1> QED BY <1>1, <1>2 DEF T

LEMMA TokenSpans ==
  ASSUME NEW t \in TokenType, NEW n \in Nat, NEW v \in Seq(Digest) \cup {Unset}
  PROVE  Spans(<<Token(t, n, v)>>, t, t)
  <1>1. Token(t, n, v) \in Tokens /\ Token(t, n, v).t = t BY DEF Token, Tokens, TokenOf
  <1> QED BY <1>1, SpansOne

LEMMA SpansPunctuation ==
  ASSUME NEW t \in Mark, Json
  PROVE  Spans(Punctuation(t), t, t)
  <1>1. t \in TokenType /\ 0 \in Nat /\ <<>> \in Seq(Digest) \cup {Unset}
    <2>1. t \in TokenType BY DEF Mark, TokenType
    <2>2. 0 \in Nat /\ <<>> \in Seq(Digest) OBVIOUS
    <2> QED BY <2>1, <2>2
  <1>2. Punctuation(t) = <<Token(t, 0, <<>>)>> BY DEF Punctuation
  <1> QED BY <1>1, <1>2, TokenSpans

\* An object and the mark behind it.
LEMMA SpansEntry ==
  ASSUME NEW n \in Nat, NEW e \in Entry, e.text = "plain", NEW last, Json
  PROVE  Spans(EntryTokens(n, e, last), "event", IF last THEN "]" ELSE ",")
  <1> DEFINE m == IF last THEN "]" ELSE ","
  <1>1. <<e.digest>> \in Seq(Digest) \cup {Unset} /\ "event" \in TokenType /\ m \in Mark /\ Follows("event", m)
    BY DEF Entry, TokenType, Mark, Follows, Object
  <1>2. EntryTokens(n, e, last) = <<Token("event", n, <<e.digest>>)>> \o Punctuation(m)
    BY DEF EntryTokens
  <1> HIDE DEF m
  <1>3. Spans(<<Token("event", n, <<e.digest>>)>>, "event", "event") /\ Spans(Punctuation(m), m, m)
    BY <1>1, TokenSpans, SpansPunctuation
  <1>4. Spans(EntryTokens(n, e, last), "event", m) BY <1>1, <1>2, <1>3, SpansConcat
  <1> QED BY <1>4 DEF m

\* The text of a log whose lines fit.
LEMMA SpansLog ==
  ASSUME TypeInv, Json, NEW n \in Pcr, log[n] # <<>>, NEW last \in BOOLEAN,
         \A k \in DOMAIN log[n] : log[n][k].text = "plain"
  PROVE  Spans(LogTokens(n, last), "event", IF last THEN "]" ELSE ",")
  <1> DEFINE l == log[n]
             m(k) == IF last /\ k = Len(l) THEN "]" ELSE ","
             parts == [k \in DOMAIN l |-> EntryTokens(n, l[k], last /\ k = Len(l))]
             T == Tokens
             R == Neighbours
  <1>1. /\ l \in Seq(Entry) /\ Len(l) \in Nat \ {0} /\ DOMAIN l = 1 .. Len(l) /\ \A k \in 1 .. Len(l) : l[k] \in Entry
        /\ n \in Nat BY DEF TypeInv, TypeOK, Pcr
  <1>2. ASSUME NEW k \in 1 .. Len(l)
        PROVE  Spans(EntryTokens(n, l[k], last /\ k = Len(l)), "event", m(k))
    <2>1. l[k].text = "plain" /\ l[k] \in Entry BY <1>1
    <2> HIDE DEF l
    <2> QED BY <1>1, <2>1, SpansEntry
  <1>3. parts \in Seq(Seq(T)) /\ Len(parts) = Len(l)
        /\ \A k \in 1 .. Len(l) : Spans(parts[k], "event", m(k))
    <2>1. \A k \in 1 .. Len(l) : parts[k] = EntryTokens(n, l[k], last /\ k = Len(l)) BY <1>1
    <2>2. \A k \in 1 .. Len(l) : parts[k] \in Seq(T) BY <1>2, <2>1 DEF Spans
    <2>3. parts = [k \in 1 .. Len(l) |-> parts[k]] BY <1>1
    <2> HIDE DEF parts, m, l, T
    <2>4. parts \in [1 .. Len(l) -> Seq(T)] BY <2>2, <2>3
    <2>5. parts \in Seq(Seq(T)) /\ Len(parts) = Len(l) BY <1>1, <2>4, FunctionIsSeq
    <2>6. \A k \in 1 .. Len(l) : Spans(parts[k], "event", m(k)) BY <1>2, <2>1
    <2> QED BY <2>5, <2>6
  <1>4. \A k \in 1 .. Len(l) - 1 : m(k) = "," BY <1>1
  <1>5. m(Len(l)) = IF last THEN "]" ELSE "," OBVIOUS
  <1>6. Follows(",", "event") BY DEF Follows, Object
  <1>7. LogTokens(n, last) = FlattenSeq(parts) BY DEF LogTokens
  <1> HIDE DEF l, parts, m
  <1>8. \A k \in 1 .. Len(parts) : parts[k] # <<>> /\ Linked(parts[k], R) BY <1>3 DEF Spans
  <1>9. ASSUME NEW k \in 1 .. Len(parts) - 1
        PROVE  <<parts[k][Len(parts[k])], parts[k + 1][1]>> \in R
    <2>0. k \in 1 .. Len(l) - 1 BY <1>3
    <2>1. k \in 1 .. Len(l) /\ k + 1 \in 1 .. Len(l) /\ m(k) = ","
      <3>1. k \in 1 .. Len(l) /\ k + 1 \in 1 .. Len(l) BY <1>1, <2>0
      <3> QED BY <1>4, <2>0, <3>1, Zenon
    <2>2. Spans(parts[k], "event", ",") /\ Spans(parts[k + 1], "event", m(k + 1))
      BY <1>3, <2>1
    <2> DEFINE a == parts[k][Len(parts[k])]
               b == parts[k + 1][1]
    <2>3. a \in T /\ a.t = "," /\ b \in T /\ b.t = "event"
      <3>1. \A s, starts, ends : Spans(s, starts, ends) =>
              s[1] \in T /\ s[1].t = starts /\ s[Len(s)] \in T /\ s[Len(s)].t = ends
        BY SpansEnds
      <3> DEFINE u == parts[k]
                 v == parts[k + 1]
                 w == m(k + 1)
      <3>2. Spans(u, "event", ",") /\ Spans(v, "event", w) BY <2>2
      <3> HIDE DEF u, v, w
      <3>3. u[Len(u)] \in T /\ u[Len(u)].t = "," BY <3>1, <3>2, Zenon
      <3>4. v[1] \in T /\ v[1].t = "event" BY <3>1, <3>2, Zenon
      <3> QED BY <3>3, <3>4 DEF u, v
    <2> HIDE DEF a, b
    <2>5. <<a, b>> \in R BY <1>6, <2>3, NeighboursIntro
    <2> QED BY <2>5 DEF a, b
  <1>10. parts # <<>> BY <1>1, <1>3
  <1> DEFINE f == FlattenSeq(parts)
             e == Len(parts)
  <1> HIDE DEF T, R
  <1>11. /\ Linked(f, R) /\ f \in Seq(T) /\ f # <<>>
         /\ f[1] = parts[1][1] /\ f[Len(f)] = parts[e][Len(parts[e])]
    BY <1>3, <1>8, <1>9, <1>10, LinkedFlatten
  <1>12. e = Len(l) /\ 1 \in 1 .. Len(l) /\ e \in 1 .. Len(l) BY <1>1, <1>3
  <1>13. parts[1][1].t = "event" /\ parts[e][Len(parts[e])].t = m(Len(l))
    BY <1>3, <1>12 DEF Spans
  <1>14. Spans(f, "event", m(Len(l)))
    <2> HIDE DEF f, e
    <2> QED BY <1>11, <1>13 DEF Spans, T, R
  <1> QED BY <1>5, <1>7, <1>14

Expected == Json /\ opts.pcrs # <<>> /\ TextsPlain

\* A document of arrays, perhaps an empty one.
Complete(s) == s = <<>> \/ Spans(s, "[", "]")

\* How far the array of a loop over the registers is, by its next position.
Reached(k, end) == Spans(out, "[", IF k = 1 THEN "[" ELSE IF k <= Len(opts.pcrs) THEN "," ELSE end)

\* How far the document is.
DocumentInv ==
  Expected =>
    /\ pc = "print log" => i <= Len(opts.pcrs) + 1 /\ Reached(i, "]")
    /\ pc \in {"open summary", "print aggregate"} => Complete(out)
    /\ pc = "print summary" => i <= Len(opts.pcrs) + 1 /\ Reached(i, "pcr")
    /\ ret = 0 => Complete(out) \/ Spans(out, "[", "aggregate") \/ Spans(out, "aggregate", "aggregate")

\* Positions of a loop over n elements.
LEMMA Positions ==
  \A n \in Nat \ {0}, j \in Nat \ {0} :
    /\ j <= n => j \in 1 .. n /\ j + 1 <= n + 1 /\ j + 1 # 1 /\ (j < n <=> j + 1 <= n) /\ (j < n <=> j # n)
    /\ j > n => j # 1 /\ ~(j <= n)
    /\ 1 <= n + 1 OBVIOUS

\* What the output steps read: a list of registers.
LEMMA OutputReads ==
  ASSUME TypeInv, RequestedInv, Expected, Output
  PROVE  /\ Len(opts.pcrs) \in Nat \ {0} /\ i \in Nat \ {0}
         /\ \A k \in 1 .. Len(opts.pcrs) : opts.pcrs[k] \in Pcr
  <1>1. Requested \subseteq Pcr
    BY OutputStarts, PointsDistinct, Zenon DEF RequestedInv, Calculating
  <1>2. opts.pcrs \in Seq(Nat) /\ \A k \in 1 .. Len(opts.pcrs) : opts.pcrs[k] \in Pcr
    BY <1>1, ListedType
  <1>3. opts.pcrs # <<>> /\ i \in Nat \ {0} BY DEF Expected, TypeInv, TypeOK
  <1> QED BY <1>2, <1>3

\* A document that goes on with an array.
LEMMA OpenArray ==
  ASSUME Expected, Complete(out)
  PROVE  Spans(out \o Punctuation("["), "[", "[")
  <1>1. Spans(Punctuation("["), "[", "[") /\ Follows("]", "[")
    BY SpansPunctuation DEF Mark, Expected, Follows
  <1>2. CASE out = <<>>
    <2>1. <<>> \o Punctuation("[") = Punctuation("[") BY <1>1, ConcatEmpty DEF Spans
    <2> QED BY <1>1, <1>2, <2>1
  <1>3. CASE Spans(out, "[", "]") BY <1>1, <1>3, SpansConcat
  <1> QED BY <1>2, <1>3 DEF Complete

LEMMA OpenLogDocument ==
  ASSUME TypeInv, RequestedInv, SilentInv, Expected, OpenLog
  PROVE  /\ ret' = ret /\ opts' = opts
         /\ \/ pc' = "print log" /\ i' <= Len(opts.pcrs) + 1 /\ Reached(i, "]")'
            \/ pc' = "open summary" /\ Complete(out')
  <1>1. Output /\ pc = "open log" /\ ret' = ret /\ opts' = opts
    BY DEF Output, OpenLog, Emit, Skip
  <1>2. out = <<>> /\ Complete(out) /\ Len(opts.pcrs) \in Nat \ {0}
    <2>1. out = <<>> BY <1>1, PointsDistinct DEF SilentInv
    <2> QED BY <1>1, <2>1, OutputReads DEF Complete
  <1>3. CASE opts.flag["eventlog"]
    <2>1. pc' = "print log" /\ i' = 1 /\ out' = out \o Punctuation("[")
      BY <1>3 DEF OpenLog, Emit, Goto
    <2>2. Spans(out', "[", "[") BY <1>2, <2>1, OpenArray
    <2>3. Reached(i, "]")' BY <2>1, <2>2 DEF Reached, Spans
    <2>4. i' <= Len(opts.pcrs) + 1 BY <1>2, <2>1, Positions
    <2> QED BY <1>1, <2>1, <2>3, <2>4
  <1>4. CASE ~opts.flag["eventlog"] BY <1>1, <1>2, <1>4 DEF OpenLog, Skip, Goto, Complete
  <1> QED BY <1>3, <1>4

LEMMA PrintLogDocument ==
  ASSUME TypeInv, RequestedInv, SilentInv, PlainInv, DocumentInv, Expected, PrintLog
  PROVE  \/ pc' = "exited" /\ ret' = -1
         \/ /\ ret' = ret /\ opts' = opts
            /\ pc' = "print log" /\ i' <= Len(opts.pcrs) + 1 /\ Reached(i, "]")'
  <1>1. CASE Fail BY <1>1 DEF Fail
  <1>2. CASE ~Fail
    <2> DEFINE n == opts.pcrs[i]
               ts == LogTokens(n, i = Len(opts.pcrs))
               end == IF i = Len(opts.pcrs) THEN "]" ELSE ","
               x == IF i = 1 THEN "[" ELSE IF i <= Len(opts.pcrs) THEN "," ELSE "]"
    <2>1. /\ Output /\ pc = "print log" /\ i <= Len(opts.pcrs) /\ log[n] # <<>>
          /\ out' = out \o ts /\ i' = i + 1 /\ pc' = pc /\ ret' = ret /\ opts' = opts
      BY <1>2 DEF Output, PrintLog, Again
    <2>2. /\ Len(opts.pcrs) \in Nat \ {0} /\ i \in Nat \ {0}
          /\ \A k \in 1 .. Len(opts.pcrs) : opts.pcrs[k] \in Pcr BY <2>1, OutputReads
    <2>3. /\ i \in 1 .. Len(opts.pcrs) /\ i' <= Len(opts.pcrs) + 1 /\ i' # 1
          /\ (i' <= Len(opts.pcrs) <=> i # Len(opts.pcrs)) BY <2>1, <2>2, Positions, Zenon
    <2>4. n \in Pcr BY <2>2, <2>3
    <2>5. Spans(ts, "event", end)
      <3>1. \A k \in DOMAIN log[n] : log[n][k].text = "plain"
        BY <2>4, Zenon DEF PlainInv, Expected, TextsPlain, FilesPlain
      <3>2. (i = Len(opts.pcrs)) \in BOOLEAN OBVIOUS
      <3> HIDE DEF n
      <3> QED BY <2>1, <2>4, <3>1, <3>2, SpansLog DEF Expected
    <2>6. Spans(out, "[", x) /\ Follows(x, "event")
      <3>1. Spans(out, "[", x) BY <2>1 DEF DocumentInv, Reached
      <3>2. x \in {"[", ","} BY <2>1
      <3>3. Follows("[", "event") /\ Follows(",", "event") BY DEF Follows, Object
      <3> QED BY <3>1, <3>2, <3>3
    <2>7. Spans(out', "[", end)
      <3> HIDE DEF x, ts, end
      <3> QED BY <2>1, <2>5, <2>6, SpansConcat
    <2>8. Reached(i, "]")'
      <3>1. end = IF i' = 1 THEN "[" ELSE IF i' <= Len(opts.pcrs) THEN "," ELSE "]" BY <2>3
      <3> HIDE DEF end
      <3> QED BY <2>1, <2>7, <3>1 DEF Reached, Spans
    <2> QED BY <2>1, <2>3, <2>8
  <1> QED BY <1>1, <1>2

LEMMA LogDoneDocument ==
  ASSUME TypeInv, RequestedInv, DocumentInv, Expected, LogDone
  PROVE  ret' = ret /\ opts' = opts /\ pc' = "open summary" /\ Complete(out')
  <1>1. /\ Output /\ pc = "print log" /\ i > Len(opts.pcrs) /\ out' = out /\ ret' = ret /\ opts' = opts
        /\ pc' = "open summary" BY DEF Output, LogDone, Skip, Goto
  <1>2. i # 1 /\ ~(i <= Len(opts.pcrs)) BY <1>1, OutputReads, Positions, Zenon
  <1> QED BY <1>1, <1>2 DEF DocumentInv, Reached, Complete

LEMMA OpenSummaryDocument ==
  ASSUME TypeInv, RequestedInv, DocumentInv, Expected, OpenSummary
  PROVE  /\ ret' = ret /\ opts' = opts
         /\ \/ pc' = "print summary" /\ i' <= Len(opts.pcrs) + 1 /\ Reached(i, "pcr")'
            \/ pc' = "print aggregate" /\ Complete(out')
  <1>1. Output /\ pc = "open summary" /\ ret' = ret /\ opts' = opts
    BY DEF Output, OpenSummary, Emit, Skip
  <1>2. Complete(out) /\ Len(opts.pcrs) \in Nat \ {0} BY <1>1, OutputReads DEF DocumentInv
  <1>3. CASE opts.flag["summary"]
    <2>1. pc' = "print summary" /\ i' = 1 /\ out' = out \o Punctuation("[")
      BY <1>3 DEF OpenSummary, Emit, Goto
    <2>2. Spans(out', "[", "[") BY <1>2, <2>1, OpenArray
    <2>3. Reached(i, "pcr")' BY <2>1, <2>2 DEF Reached, Spans
    <2>4. i' <= Len(opts.pcrs) + 1 BY <1>2, <2>1, Positions
    <2> QED BY <1>1, <2>1, <2>3, <2>4
  <1>4. CASE ~opts.flag["summary"] BY <1>1, <1>2, <1>4 DEF OpenSummary, Skip, Goto, Complete
  <1> QED BY <1>3, <1>4

LEMMA PrintRegisterDocument ==
  ASSUME TypeInv, RequestedInv, SilentInv, DocumentInv, Expected, PrintRegister
  PROVE  /\ ret' = ret /\ opts' = opts
         /\ pc' = "print summary" /\ i' <= Len(opts.pcrs) + 1 /\ Reached(i, "pcr")'
  <1> DEFINE n == opts.pcrs[i]
             line == <<Token("pcr", n, bank[n])>>
             rest == IF i < Len(opts.pcrs) THEN Punctuation(",") ELSE <<>>
             end == IF i < Len(opts.pcrs) THEN "," ELSE "pcr"
             x == IF i = 1 THEN "[" ELSE IF i <= Len(opts.pcrs) THEN "," ELSE "pcr"
  <1>1. /\ Output /\ pc = "print summary" /\ i <= Len(opts.pcrs) /\ i' = i + 1 /\ pc' = pc
        /\ out' = (out \o line) \o rest /\ ret' = ret /\ opts' = opts
    BY DEF Output, PrintRegister, Again
  <1>2. /\ Len(opts.pcrs) \in Nat \ {0} /\ i \in Nat \ {0}
        /\ \A k \in 1 .. Len(opts.pcrs) : opts.pcrs[k] \in Pcr BY <1>1, OutputReads
  <1>3. /\ i \in 1 .. Len(opts.pcrs) /\ i' <= Len(opts.pcrs) + 1 /\ i' # 1
        /\ (i' <= Len(opts.pcrs) <=> i < Len(opts.pcrs)) BY <1>1, <1>2, Positions, Zenon
  <1>4. Spans(line, "pcr", "pcr")
    <2>1. n \in Pcr BY <1>2, <1>3
    <2> HIDE DEF n
    <2>2. n \in Nat /\ bank[n] \in Seq(Digest) \cup {Unset} /\ "pcr" \in TokenType
      BY <2>1 DEF TypeInv, TypeOK, Pcr, TokenType
    <2> QED BY <2>2, TokenSpans
  <1>5. Spans(out, "[", x) /\ Follows(x, "pcr")
    <2>1. Spans(out, "[", x) BY <1>1 DEF DocumentInv, Reached
    <2>2. x \in {"[", ","} BY <1>1
    <2>3. Follows("[", "pcr") /\ Follows(",", "pcr") BY DEF Follows, Object
    <2> QED BY <2>1, <2>2, <2>3
  <1> HIDE DEF x, line
  <1>6. Spans(out \o line, "[", "pcr") BY <1>4, <1>5, SpansConcat
  <1>7. Spans(out', "[", end)
    <2> DEFINE so == out \o line
    <2>1. CASE i < Len(opts.pcrs)
      <3>1. Spans(Punctuation(","), ",", ",") /\ Follows("pcr", ",")
        BY SpansPunctuation DEF Mark, Expected, Follows, Object
      <3>2. out' = so \o Punctuation(",") /\ end = "," /\ Spans(so, "[", "pcr")
        BY <1>1, <1>6, <2>1
      <3> HIDE DEF so, end
      <3> QED BY <3>1, <3>2, SpansConcat
    <2>2. CASE ~(i < Len(opts.pcrs))
      <3>1. out' = so \o <<>> /\ end = "pcr" /\ Spans(so, "[", "pcr") BY <1>1, <1>6, <2>2
      <3> HIDE DEF so, end
      <3>2. so \o <<>> = so BY <3>1, ConcatEmpty DEF Spans
      <3> QED BY <3>1, <3>2
    <2> QED BY <2>1, <2>2
  <1>8. Reached(i, "pcr")'
    <2>1. end = IF i' = 1 THEN "[" ELSE IF i' <= Len(opts.pcrs) THEN "," ELSE "pcr" BY <1>3
    <2> HIDE DEF end
    <2> QED BY <1>1, <1>7, <2>1 DEF Reached, Spans
  <1> QED BY <1>1, <1>3, <1>8

LEMMA SummaryDoneDocument ==
  ASSUME TypeInv, RequestedInv, DocumentInv, Expected, SummaryDone
  PROVE  ret' = ret /\ opts' = opts /\ pc' = "print aggregate" /\ Complete(out')
  <1>1. /\ Output /\ pc = "print summary" /\ i > Len(opts.pcrs) /\ out' = out \o Punctuation("]")
        /\ ret' = ret /\ opts' = opts /\ pc' = "print aggregate"
    BY DEF Output, SummaryDone, Emit, Goto
  <1>2. i # 1 /\ ~(i <= Len(opts.pcrs)) BY <1>1, OutputReads, Positions, Zenon
  <1>3. Spans(out, "[", "pcr") BY <1>1, <1>2 DEF DocumentInv, Reached
  <1>4. Spans(Punctuation("]"), "]", "]") /\ Follows("pcr", "]")
    BY SpansPunctuation DEF Mark, Expected, Follows, Object
  <1> QED BY <1>1, <1>3, <1>4, SpansConcat DEF Complete

LEMMA PrintAggregateDocument ==
  ASSUME TypeInv, RequestedInv, SilentInv, DocumentInv, Expected, PrintAggregate
  PROVE  /\ pc' = "exited"
         /\ Complete(out') \/ Spans(out', "[", "aggregate") \/ Spans(out', "aggregate", "aggregate")
  <1>1. Output /\ pc = "print aggregate" /\ pc' = "exited" /\ out' \in {out, Append(out, Aggregate)}
    BY Zenon DEF Output, PrintAggregate, Aggregate
  <1>2. Complete(out) BY <1>1 DEF DocumentInv
  <1>3. Aggregate \in Tokens /\ Aggregate.t = "aggregate"
    <2>1. Requested \subseteq Pcr
      BY <1>1, OutputStarts, PointsDistinct, Zenon DEF RequestedInv, Calculating
    <2>2. \A x, y, z : Token(x, y, z).t = x BY DEF Token
    <2> QED BY <2>1, <2>2, AggregateType, Zenon DEF Aggregate, Tokens
  <1> HIDE DEF Aggregate
  <1>4. Spans(<<Aggregate>>, "aggregate", "aggregate") BY <1>3, SpansOne
  <1>5. Append(out, Aggregate) = out \o <<Aggregate>> /\ <<>> \o <<Aggregate>> = <<Aggregate>>
    <2> DEFINE T == Tokens
    <2>1. out \in Seq(T) /\ Aggregate \in T BY <1>3 DEF SilentInv, Tokens
    <2> HIDE DEF T
    <2> QED BY <2>1, AppendIsConcat
  <1>6. CASE out' = out BY <1>1, <1>2, <1>6
  <1>7. CASE out' = out \o <<Aggregate>>
    <2>1. CASE out = <<>> BY <1>1, <1>4, <1>5, <1>7, <2>1
    <2>2. CASE Spans(out, "[", "]")
      <3>1. Follows("]", "aggregate") BY DEF Follows
      <3> QED BY <1>1, <1>4, <1>7, <2>2, <3>1, SpansConcat
    <2> QED BY <1>2, <2>1, <2>2 DEF Complete
  <1> QED BY <1>1, <1>5, <1>6, <1>7

\* The exit statuses are not mixed up.
LEMMA Statuses == 1 # 0 /\ -1 # 0
  OBVIOUS

LEMMA OutputDocument ==
  ASSUME TypeInv, RequestedInv, SilentInv, ReferenceInv, PlainInv, DocumentInv, Output
  PROVE  DocumentInv'
  <1>1. opts' = opts /\ fs' = fs BY OptionsStay
  <1>2. Expected' = Expected
    <2>1. log' = log
      BY DEF Output, OpenLog, PrintLog, LogDone, OpenSummary, PrintRegister, SummaryDone, PrintAggregate,
             Emit, Skip, Fail
    <2> QED BY <1>1, <2>1 DEF Expected, Json, TextsPlain, QuotedFiles, LongFiles
  <1>3. ret # 0
    <2>1. pc # "exited" BY OutputStarts, PointsDistinct, Zenon DEF Calculating
    <2> QED BY <2>1, Statuses DEF SilentInv
  <1> SUFFICES ASSUME Expected
               PROVE  /\ pc' = "print log" => i' <= Len(opts.pcrs) + 1 /\ Reached(i, "]")'
                      /\ pc' \in {"open summary", "print aggregate"} => Complete(out')
                      /\ pc' = "print summary" => i' <= Len(opts.pcrs) + 1 /\ Reached(i, "pcr")'
                      /\ ret' = 0 => \/ Complete(out') \/ Spans(out', "[", "aggregate")
                                     \/ Spans(out', "aggregate", "aggregate")
    BY <1>1, <1>2 DEF DocumentInv, Spans, Complete
  <1>4. CASE OpenLog BY <1>3, <1>4, OpenLogDocument
  <1>5. CASE PrintLog BY <1>3, <1>5, PrintLogDocument, Statuses
  <1>6. CASE LogDone BY <1>3, <1>6, LogDoneDocument
  <1>7. CASE OpenSummary BY <1>3, <1>7, OpenSummaryDocument
  <1>8. CASE PrintRegister BY <1>3, <1>8, PrintRegisterDocument
  <1>9. CASE SummaryDone BY <1>3, <1>9, SummaryDoneDocument
  <1>10. CASE PrintAggregate BY <1>10, PrintAggregateDocument
  <1> QED BY <1>4, <1>5, <1>6, <1>7, <1>8, <1>9, <1>10 DEF Output

LEMMA NextDocument ==
  ASSUME TypeInv, RequestedInv, SilentInv, ReferenceInv, PlainInv, DocumentInv, [Next]_vars
  PROVE  DocumentInv'
  <1>1. ASSUME pc' \notin Printing, ret' # 0
        PROVE  DocumentInv' BY <1>1 DEF DocumentInv, Printing
  <1>2. CASE Output BY <1>2, OutputDocument
  <1>3. CASE UNCHANGED vars
    BY <1>3 DEF vars, DocumentInv, Expected, Json, TextsPlain, QuotedFiles, LongFiles, Reached, Spans, Complete
  <1>4. CASE OutOfMemory
    <2>1. pc' \notin Printing /\ ret' = ret /\ pc # "exited"
      BY <1>4 DEF OutOfMemory, Crash, Printing
    <2> QED BY <1>1, <2>1, Statuses DEF SilentInv
  <1>5. CASE Next /\ ~Output /\ ~OutOfMemory /\ ~Terminated
    <2>1. ret = 1 BY <1>5, CalculatingQuiet, SilentBefore
    <2>2. CASE Quiet
      <3>1. pc' \notin Printing
        <4>1. pc' \in Waiting \cup HandlerLabel \cup {"crashed", "exited"} BY <2>2 DEF Quiet
        <4> QED BY <4>1, PointsDistinct
      <3>2. ret' # 0 BY <2>1, <2>2, Statuses DEF Quiet
      <3> QED BY <1>1, <3>1, <3>2
    <2>3. CASE AllCalculated
      <3>1. pc' = "open log" /\ ret' = ret BY <2>3 DEF AllCalculated, Goto, Skip
      <3>2. pc' \notin Printing BY <3>1, PointsDistinct, Zenon
      <3> QED BY <1>1, <2>1, <3>1, <3>2, Statuses
    <2> QED BY <1>5, <2>2, <2>3, CalculatingQuiet
  <1> QED BY <1>2, <1>3, <1>4, <1>5 DEF Terminated

\* A sequence of tokens that has come to an end is well formed.
LEMMA SpansIsDocument ==
  ASSUME NEW starts \in {"[", "aggregate"}, NEW ends \in {"]", "aggregate"}, Spans(out, starts, ends)
  PROVE  JsonDocuments(out)
  <1>1. \A k \in 1 .. Len(out) - 1 : <<out[k], out[k + 1]>> \in Neighbours
    BY Zenon DEF Spans, Linked
  <1>2. \A k \in 1 .. Len(out) - 1 : Follows(out[k].t, out[k + 1].t) BY <1>1 DEF Neighbours
  <1> QED BY <1>2 DEF JsonDocuments, Spans

\* What a run that goes on may talk of: an input it could not read, or memory,
\* while it parses its options; later also what it has found in the files.
Unread ==
  MemoryFails \/ opts.flag["verbose"] \/ \E f \in File \cup Dir : ~Readable(f)

Excused ==
  \/ Unread
  \/ Given("ovmf") /\ Undecompressed
  \/ \E k \in DOMAIN opts.list["bootloader"] : fs[opts.list["bootloader"][k]] = "bad"

SaidInv ==
  /\ said \in BOOLEAN
  /\ said => Excused
  /\ said /\ pc \in {"start", "parse"} => Unread

\* The step says nothing, or has an excuse.
SaysWhy == said' = said \/ (said' = TRUE /\ Excused)

LEMMA SaysWhyIntro ==
  ASSUME said \in BOOLEAN
  PROVE  /\ \A d : Measure(d) \/ LogOnly(d) => SaysWhy
         /\ \A d, text : MeasureText(d, text) => SaysWhy
         /\ \A d, text : EvlogAdd(d, text) /\ ReportsLoss(d, text) => SaysWhy
         /\ Warn /\ Excused => SaysWhy
         /\ Skip \/ Fail \/ Crash => SaysWhy
  <1>1. ASSUME NEW d, NEW text, EvlogAdd(d, text), ReportsLoss(d, text)
        PROVE  SaysWhy
    <2>1. CASE MemoryFails
      <3>1. said' \in BOOLEAN /\ (said => said') BY <1>1, Zenon DEF ReportsLoss
      <3>2. Excused BY <2>1 DEF Excused, Unread
      <3> QED BY <3>1, <3>2, Zenon DEF SaysWhy
    <2>2. CASE ~MemoryFails BY <1>1, <2>2, Zenon DEF EvlogAdd, ReportsLoss, SaysWhy
    <2> QED BY <2>1, <2>2
  <1> QED
    BY <1>1, Zenon
    DEF Measure, MeasureText, LogAndExtend, LogOnly, Warn, Skip, Fail, Crash, SaysWhy

LEMMA UnreadExcuses == (MemoryFails \/ \E f \in File \cup Dir : ~Readable(f)) => Excused
  BY DEF Excused, Unread

LEMMA Pcr0Says ==
  ASSUME TypeInv, ReferenceInv, GivenInv, said \in BOOLEAN, CalculatePcr0
  PROVE  SaysWhy
  <1>1. CASE MeasureCrtm \/ MeasurePei \/ MeasureDxe
    BY <1>1, SaysWhyIntro, Zenon DEF MeasureCrtm, MeasurePei, MeasureDxe, MeasureVolume
  <1>2. CASE ReadFirmware
    <2>1. pc = "firmware" /\ pc \in HandlerLabel BY <1>2 DEF ReadFirmware, HandlerLabel
    <2>2. cur = 0 BY <2>1 DEF ReferenceInv, PointInv, At
    <2>3. Given("ovmf") BY <2>1, <2>2 DEF GivenInv, ValidRequest
    <2>4. Undecompressed => Excused BY <2>3 DEF Excused
    <2> QED BY <1>2, <2>4, SaysWhyIntro, Zenon DEF ReadFirmware
  <1> QED BY <1>1, <1>2 DEF CalculatePcr0

LEMMA Pcr124Says ==
  ASSUME TypeInv, said \in BOOLEAN, CalculatePcr1 \/ CalculatePcr2 \/ CalculatePcr4
  PROVE  SaysWhy
  <1>1. CalculatePcr1 => SaysWhy
    BY SaysWhyIntro, Zenon
    DEF CalculatePcr1, MeasureAcpi, AcpiDone, MeasureBootOrder, MeasureDefaultBootOption, MeasureBootOption,
        BootOptionsDone
  <1>2. CalculatePcr2 => SaysWhy
    BY SaysWhyIntro, Zenon DEF CalculatePcr2, MeasureDriver, DriversDone, PeRefused
  <1>3. MeasureBootloader => SaysWhy
    <2> SUFFICES ASSUME MeasureBootloader PROVE SaysWhy OBVIOUS
    <2> DEFINE s == opts.list["bootloader"]
    <2>1. i <= Len(s) BY DEF MeasureBootloader
    <2>2. i \in DOMAIN s
      <3>1. s \in Seq(Name) /\ i \in Nat \ {0} BY DEF TypeInv, TypeOK, Options, ListOption
      <3> HIDE DEF s
      <3> QED BY <2>1, <3>1
    <2>3. fs[s[i]] = "bad" \/ MemoryFails => Excused
      BY <2>2, UnreadExcuses, Zenon DEF Excused
    <2>4. \/ MeasureText(<<"pe", <<s[i]>>>>, NameOf(s[i])) \/ Fail \/ Crash
          \/ (fs[s[i]] = "bad" \/ MemoryFails) /\ said' = TRUE
      BY Zenon DEF MeasureBootloader, MeasurePlaceholder
    <2> HIDE DEF s
    <2> QED BY <2>3, <2>4, SaysWhyIntro, Zenon DEF SaysWhy
  <1>4. BootloadersDone \/ MeasureKernel \/ MeasureBootAction => SaysWhy
    BY SaysWhyIntro, Zenon DEF BootloadersDone, MeasureKernel, PeRefused, MeasureBootAction
  <1> QED BY <1>1, <1>2, <1>3, <1>4 DEF CalculatePcr4

LEMMA Pcr578Says ==
  ASSUME said \in BOOLEAN, CalculatePcr5 \/ CalculatePcr7 \/ CalculatePcr8 \/ MeasureSeparator
  PROVE  SaysWhy
  <1>1. CalculatePcr5 => SaysWhy
    BY SaysWhyIntro, Zenon
    DEF CalculatePcr5, LogGptSeparator, MeasureGpt, LogExitBootInvocation, LogExitBootReturned
  <1>2. CalculatePcr7 \/ CalculatePcr8 => SaysWhy
    BY SaysWhyIntro, Zenon
    DEF CalculatePcr7, MeasureSecureBootVar, SecureBootDone, MeasureSbatLevel, CalculatePcr8, ReadGrub,
        MeasureGrubCommand
  <1>3. MeasureSeparator => SaysWhy
    BY SaysWhyIntro, UnreadExcuses, Zenon DEF MeasureSeparator
  <1> QED BY <1>1, <1>2, <1>3

LEMMA Pcr9Says ==
  ASSUME said \in BOOLEAN, CalculatePcr9
  PROVE  SaysWhy
  <1>1. CASE RejectPath \/ PathsDone \/ MeasureCmdline \/ MeasureInitrd
    BY <1>1, SaysWhyIntro, Zenon DEF RejectPath, PathsDone, MeasureCmdline, MeasureInitrd
  <1>2. CASE MeasurePath
    <2>1. ~Readable(Paths[i]) \/ MemoryFails => Excused
      BY <1>2, UnreadExcuses, Zenon DEF MeasurePath
    <2> QED BY <1>2, <2>1, SaysWhyIntro, Zenon DEF MeasurePath
  <1>3. CASE WalkPath \/ DirectoryDone \/ \E e \in Dir : EnterDirectory(e)
    BY <1>3, Zenon DEF WalkPath, DirectoryDone, Silently, EnterDirectory, Fail, SaysWhy
  <1>4. ASSUME NEW e \in File, MeasureFileEntry(e) PROVE SaysWhy
    <2>1. (EvlogAdd(Content(e), TextOf(e)) /\ ReportsLoss(Content(e), TextOf(e))) \/ said' = said
      BY <1>4, Zenon DEF MeasureFileEntry
    <2> QED BY <2>1, SaysWhyIntro, Zenon DEF SaysWhy
  <1>5. ASSUME NEW e \in File, FileEntryFails(e) PROVE SaysWhy
    <2>1. Excused
      <3>1. fs[e] = "locked" \/ MemoryFails BY <1>5, Zenon DEF FileEntryFails
      <3>2. fs[e] = "locked" => ~Readable(e) BY DEF Readable
      <3> QED BY <3>1, <3>2, UnreadExcuses, Zenon
    <2>2. Fail \/ said' = TRUE BY <1>5, Zenon DEF FileEntryFails
    <2> QED BY <2>1, <2>2, SaysWhyIntro, Zenon DEF SaysWhy
  <1> QED BY <1>1, <1>2, <1>3, <1>4, <1>5 DEF CalculatePcr9

LEMMA ParseSays ==
  ASSUME TypeInv, SaidInv, Parse
  PROVE  SaidInv'
  <1>1. fs' = fs BY ParseGiven
  <1>2. CASE Start \/ ParseInvalid \/ ParseEnd \/ Validate \/ Fail
    <2>1. said' = said /\ opts' = opts /\ (pc' = "parse" => pc = "start")
      BY <1>2, Zenon DEF Start, ParseInvalid, ParseEnd, Validate, Skip, Goto, Fail
    <2>2. pc' = "start" => pc = "start"
      BY <1>2, Zenon DEF Start, ParseInvalid, ParseEnd, Validate, Goto, Fail
    <2>3. Excused' = Excused /\ Unread' = Unread
      BY <1>1, <2>1 DEF Excused, Unread, Readable, Given, Undecompressed, Firmware
    <2> QED BY <2>1, <2>2, <2>3, Zenon DEF SaidInv
  \* An option that has been read leaves --verbose as it was, or sets it.
  <1>3. ASSUME pc = "parse", said' \in BOOLEAN, opts.flag["verbose"] => opts'.flag["verbose"],
               said' => \/ said \/ opts'.flag["verbose"] \/ MemoryFails
                        \/ \E f \in File \cup Dir : ~Readable(f)
        PROVE  SaidInv'
    <2>1. \A f : Readable(f)' = Readable(f) BY <1>1 DEF Readable
    <2>2. Unread => Unread' BY <1>3, <2>1, Zenon DEF Unread
    <2>3. said' => Unread'
      <3>1. CASE said BY <1>3, <2>2, <3>1 DEF SaidInv
      <3>2. CASE ~said BY <1>3, <2>1, <3>2, Zenon DEF Unread
      <3> QED BY <3>1, <3>2
    <2>4. Unread' => Excused' BY DEF Excused
    <2> QED BY <1>3, <2>3, <2>4, Zenon DEF SaidInv
  <1>4. /\ opts.flag \in [FlagOption \cup {"json"} -> BOOLEAN] /\ "verbose" \in FlagOption
        /\ opts \in Options BY DEF TypeInv, TypeOK, Options, FlagOption
  <1>5. said \in BOOLEAN BY DEF SaidInv
  <1>6. CASE ParseFlag
    <2>1. opts.flag["verbose"] => opts'.flag["verbose"]
      BY <1>4, <1>6 DEF ParseFlag, Parsed, Options
    <2>2. NextArg.opt = "verbose" => opts'.flag["verbose"]
      BY <1>4, <1>6 DEF ParseFlag, Parsed, Options
    <2>3. pc = "parse" /\ said' = (said \/ NextArg.opt = "verbose")
      BY <1>6 DEF ParseFlag, Parsing
    <2> QED BY <1>3, <1>5, <2>1, <2>2, <2>3, Zenon
  <1>7. CASE ParseFormat
    <2>1. opts'.flag["verbose"] = opts.flag["verbose"]
      BY <1>4, <1>7 DEF ParseFormat, Parsed, Options
    <2>2. pc = "parse" /\ said' = said BY <1>7 DEF ParseFormat, Parsing, Silently
    <2> QED BY <1>3, <1>5, <2>1, <2>2, Zenon
  <1>8. CASE ParsePcrs \/ ParseValue \/ ParseLoose \/ ParseList
    <2>1. Fail \/ (opts'.flag = opts.flag /\ said' = said)
      BY <1>4, <1>8 DEF ParsePcrs, ParseValue, ParseLoose, ParseList, Parsed, Options, Silently
    <2>2. pc = "parse" BY <1>8 DEF ParsePcrs, ParseValue, ParseLoose, ParseList, Parsing
    <2> QED BY <1>2, <1>3, <1>5, <2>1, <2>2, Zenon
  <1>9. CASE ParseAcpi
    <2>1. opts'.flag = opts.flag BY <1>4, <1>9 DEF ParseAcpi, Parsed, Options
    <2>2. NextArg.val \in File \cup Dir
      <3>1. NextArg.val \in Name BY <1>9, ArgumentType DEF ParseAcpi, FileOption
      <3> QED BY <1>9, <3>1 DEF ParseAcpi, Name
    <2>3. pc = "parse" /\ (said' = said \/ (said' = TRUE /\ (~Readable(NextArg.val) \/ MemoryFails)))
      BY <1>9, Zenon DEF ParseAcpi, Parsing, Silently
    <2> QED BY <1>3, <1>5, <2>1, <2>2, <2>3, Zenon
  <1> QED BY <1>2, <1>6, <1>7, <1>8, <1>9 DEF Parse

LEMMA NextSays ==
  ASSUME TypeInv, ReferenceInv, GivenInv, SaidInv, [Next]_vars
  PROVE  SaidInv'
  <1>1. CASE Parse BY <1>1, ParseSays
  <1>2. ASSUME UNCHANGED <<opts, fs>>
        PROVE  Excused' = Excused /\ Unread' = Unread
    BY <1>2 DEF Excused, Unread, Readable, Given, Undecompressed, Firmware
  <1>3. ASSUME UNCHANGED <<opts, fs>>, SaysWhy, pc' \notin {"start", "parse"}
        PROVE  SaidInv'
    <2>1. said' \in BOOLEAN BY <1>3, Zenon DEF SaysWhy, SaidInv
    <2>2. said' => Excused BY <1>3, Zenon DEF SaysWhy, SaidInv
    <2>3. Excused' = Excused BY <1>2, <1>3
    <2>4. said' => Excused' BY <2>2, <2>3, Zenon
    <2> QED BY <1>3, <2>1, <2>4, Zenon DEF SaidInv
  <1>4. CASE Dispatch \/ Output \/ OutOfMemory
    <2>1. said' = said
      BY <1>4, Zenon
      DEF Dispatch, NotRequested, CallHandler, AllCalculated, Skip, Output, OpenLog, PrintLog, LogDone,
          OpenSummary, PrintRegister, SummaryDone, PrintAggregate, Emit, Fail, OutOfMemory, Crash
    <2>2. pc' \in {"dispatch", "open log"} \cup HandlerLabel \cup Printing \cup {"exited", "crashed"}
      <3>1. Output \/ OutOfMemory => pc' \in Printing \cup {"exited", "crashed"}
        BY DEF Output, OpenLog, PrintLog, LogDone, OpenSummary, PrintRegister, SummaryDone, PrintAggregate,
               Emit, Goto, Again, Fail, OutOfMemory, Crash, Printing
      <3>2. NotRequested \/ AllCalculated => pc' \in {"dispatch", "open log"}
        BY DEF NotRequested, AllCalculated, Goto, Return
      <3>3. CallHandler => cur \in Calculated /\ pc' = FirstStep[cur + 1]
        BY DEF CallHandler, Goto
      <3>4. CallHandler => pc' \in HandlerLabel BY <3>3, FirstStepLabel DEF HandlerLabel
      <3> QED BY <1>4, <3>1, <3>2, <3>4, Zenon DEF Dispatch
    <2>3. pc' \notin {"start", "parse"} BY <2>2, PointsApart DEF Printing, HandlerLabel
    <2> QED BY <1>3, <1>4, <2>1, <2>3, OptionsStay DEF SaysWhy
  <1>5. CASE HandlerStep
    <2>1. HandlerMoves /\ UNCHANGED <<opts, fs>> BY <1>5, HandlerGoes DEF ReferenceInv
    <2>2. pc' \notin {"start", "parse"}
      BY <2>1 DEF HandlerMoves, Points, Ends, HandlerLabel, GptLabel
    <2>3. SaysWhy
      BY <1>5, Pcr0Says, Pcr124Says, Pcr578Says, Pcr9Says, Zenon DEF HandlerStep, SaidInv
    <2> QED BY <1>3, <2>1, <2>2, <2>3
  <1>6. CASE UNCHANGED vars
    <2>1. said' = said /\ pc' = pc /\ UNCHANGED <<opts, fs>> BY <1>6 DEF vars
    <2> QED BY <1>2, <2>1, Zenon DEF SaidInv
  <1> QED BY <1>1, <1>4, <1>5, <1>6 DEF Next, HandlerStep, Terminated

\* OutputSound holds of every run.  With --format json the arrays of the event
\* log and of the summary and the aggregate are well formed whatever the list
\* of PCRs, repeated or not, as long as no text needs an escape: the last comma of the
\* last log gives way to the bracket, and a PCR without a log ends the program
\* before the summary.  A run that fails has published nothing, and what is
\* published is the reference value (main.c:469-545).
THEOREM OutputIsSound == Spec => []OutputSound
  <1> DEFINE Known == TypeInv /\ OrderInv /\ RequestedInv /\ SilentInv /\ ReferenceInv
             Inv == Known /\ GivenInv /\ PlainInv /\ DocumentInv /\ SaidInv
  <1>1. Init => Inv
    <2> SUFFICES ASSUME Init PROVE Inv OBVIOUS
    <2>1. Known BY InitType, ReplayInit, SilentInit, InitReference
    <2>2. pc = "start" /\ ret = 1 /\ \A n \in Pcr : log[n] = <<>> BY DEF Init
    <2>3. GivenInv /\ DocumentInv
      BY <2>2, PointsApart, Statuses, Zenon DEF GivenInv, DocumentInv, Expected
    <2>4. PlainInv BY <2>2, NoElement, Zenon DEF PlainInv
    <2>5. SaidInv BY Zenon DEF Init, SaidInv
    <2> QED BY <2>1, <2>3, <2>4, <2>5
  <1>2. Inv /\ [Next]_vars => Inv'
    <2>1. Known /\ [Next]_vars => Known'
      BY NextType, OrderNext, RequestedNext, SilentNext, NextReference
    <2> HIDE DEF Known
    <2>2. Known => TypeInv /\ RequestedInv /\ SilentInv /\ ReferenceInv BY DEF Known
    <2> QED BY <2>1, <2>2, GivenNext, PlainNext, NextDocument, NextSays
  <1>3. Inv => JsonWellFormed
    <2> SUFFICES ASSUME DocumentInv, ret = 0, Expected
                 PROVE  JsonDocuments(out) BY DEF JsonWellFormed, Expected
    <2>1. CASE out = <<>>
      <3>1. Len(out) - 1 = -1 BY <2>1
      <3> QED BY <2>1, <3>1 DEF JsonDocuments
    <2>2. CASE out # <<>> BY <2>2, SpansIsDocument DEF DocumentInv, Complete
    <2> QED BY <2>1, <2>2
  <1>4. Inv => SaidForReason BY Zenon DEF SaidInv, Excused, Unread, SaidForReason
  <1> QED BY <1>1, <1>2, <1>3, <1>4, FailuresAreSilent, PublishedIsReference, PTL DEF Spec, OutputSound
=============================================================================
