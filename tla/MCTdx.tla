-------------------------------- MODULE MCTdx --------------------------------
(***************************************************************************)
(* Instances of TdxReference for TLC: command lines, and file systems with *)
(* at most one fault.                                                      *)
(***************************************************************************)
EXTENDS TdxReference, TLC

CONSTANTS Module, Ovmf, Kernel, Config, Cmdline, Var, Table, Loader, Dump, Literal8

MCFile == {Module, Ovmf, Kernel, Config, Cmdline, Var, Table, Loader, Dump, Literal8, Stable202408}

Healthy == [f \in MCFile |-> "ok"]

Faults ==
  ({Module, Ovmf, Kernel, Config, Cmdline, Var, Table} \X {"absent", "locked"})
  \cup ({Ovmf, Kernel, Config, Var, Literal8} \X {"bad"})
  \cup {<<Ovmf, "unsound">>, <<Dump, "locked">>, <<Cmdline, "long">>, <<Cmdline, "quoted">>, <<Kernel, "quoted">>}

MCEnvironments ==
  [fs : {Healthy}, short : BOOLEAN]
    \cup [fs : {[Healthy EXCEPT ![x[1]] = x[2]] : x \in Faults}, short : {FALSE}]

-----------------------------------------------------------------------------

Arg(o, v) == <<[opt |-> o, val |-> v]>>
Flag(o) == Arg(o, NoFile)
Opt(o, v) == {<<>>, Arg(o, v)}

\* One choice of each of the sets of a sequence, concatenated.
Combine(sets) ==
  LET C[k \in 0 .. Len(sets)] ==
        IF k = 0 THEN {<<>>} ELSE {c \o x : c \in C[k - 1], x \in sets[k]}
  IN  C[Len(sets)]

All == Arg("format", "json") \o Flag("eventlog") \o Flag("summary")

\* MRSEAM, MRTD and RTMR0: firmware and its configuration.
FirmwareLines ==
  Combine(<<{Arg("mrs", <<0, 1, 5>>), Arg("mrs", <<1>>)}, Opt("ovmf", Ovmf),
            {Arg("tdxmodule", Module)}, Opt("qemuversion", Literal8),
            Opt("ovmfversion", Stable202408),
            {<<>>, Arg("pk", Var) \o Arg("acpitables", Table) \o Arg("tableloader", Loader)},
            {<<>>, Arg("bootxxxx", Var) \o Arg("bootxxxx", Table) \o Arg("bootorder", Literal8)}, {All}>>)

\* RTMR1 to RTMR3, alone and behind RTMR0.
KernelLines ==
  Combine(<<{Arg("mrs", <<2, 3, 4>>), Arg("mrs", <<1, 2>>)},
            {Arg("kernel", Kernel), Arg("kernel", Kernel) \o Arg("config", Config) \o Arg("dumpkernel", Dump)},
            Opt("ovmfversion", Stable202408),
            {<<>>, Arg("cmdline", Cmdline), Arg("cmdline", Cmdline) \o Arg("addzeros", Literal8)}, {All}>>)

\* Lists of registers and output flags.
OutputLines ==
  Combine(<<{Arg("mrs", <<4>>), Arg("mrs", <<3, 5>>), Arg("mrs", <<5, 3, 5>>), Arg("mrs", <<3, 3>>),
             Arg("mrs", <<3, 4>>), Arg("mrs", <<3>>) \o Arg("mrs", <<4>>)},
            {Arg("cmdline", Cmdline) \o Arg("tdxmodule", Module)},
            {Arg("format", "json"), Arg("format", "text")},
            Opt("eventlog", NoFile), Opt("summary", NoFile)>>)

\* Command lines that are refused, and bare ones.
RefusedLines ==
  {Arg("mrs", <<3>>) \o Arg("cmdline", Cmdline) \o x :
     x \in {Flag("verbose"), Flag("dumpkernel"), Flag("mrs"), Flag("unknown"), Arg("format", "xml"),
            Arg("mrs", <<6>>), Arg("addzeros", Literal8)}}
  \cup {Arg("mrs", <<n>>) \o All : n \in {0, 2, 3, 5}}
  \cup {<<>>, Flag("summary"), All}

MCCommandLines == FirmwareLines \cup KernelLines \cup OutputLines \cup RefusedLines
=============================================================================
