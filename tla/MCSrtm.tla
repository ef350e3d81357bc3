------------------------------- MODULE MCSrtm -------------------------------
(***************************************************************************)
(* Instances of SrtmReference for TLC: the command lines of the runs and   *)
(* the file systems they start in.  A file system has one fault at most:   *)
(* one file is missing, cannot be opened, or is refused by its reader.     *)
(***************************************************************************)
EXTENDS SrtmReference, TLC

CONSTANTS Fw, Dump, Tables, Loader, Var, Driver, Loader2, Kernel, Config, Gpt, Sbat, Grub,
          Cmdline, Initrd, Zeros, Leaf, Nested, Top, Sub

MCFile == {Fw, Dump, Tables, Loader, Var, Driver, Loader2, Kernel, Config, Gpt, Sbat, Grub,
           Cmdline, Initrd, Zeros, Leaf, Nested}
MCDir == {Top, Sub}

\* Top holds a file and a directory with another file.
MCChildren == (Top :> {Leaf, Sub}) @@ (Sub :> {Nested})

Healthy == [f \in MCFile \cup MCDir |-> "ok"]

Faults ==
  ({Tables, Var, Driver, Loader2, Kernel, Config, Gpt, Grub, Cmdline, Initrd, Leaf, Nested, Fw}
     \X {"absent", "locked"})
  \cup ({Var, Driver, Loader2, Kernel, Config, Gpt, Fw} \X {"bad"})
  \cup {<<Dump, "locked">>, <<Zeros, "bad">>, <<Top, "absent">>, <<Top, "locked">>, <<Sub, "locked">>, <<Fw, "corrupt">>}

MCFileSystems == {Healthy} \cup {[Healthy EXCEPT ![x[1]] = x[2]] : x \in Faults}

\* The states a text in the event log depends on, and failures the run survives.
TextFaults ==
  ({Grub, Cmdline, Driver, Loader2, Kernel, Gpt, Leaf, Initrd} \X {"quoted"})
  \cup ({Grub, Cmdline, Leaf} \X {"long"})
  \cup {<<Loader2, "bad">>, <<Fw, "corrupt">>, <<Tables, "locked">>, <<Leaf, "locked">>}

TextFileSystems == {Healthy} \cup {[Healthy EXCEPT ![x[1]] = x[2]] : x \in TextFaults}

-----------------------------------------------------------------------------
(* Command lines *)

Arg(o, v) == <<[opt |-> o, val |-> v]>>
Flag(o) == Arg(o, NoFile)

\* With or without an argument.
Opt(o, v) == {<<>>, Arg(o, v)}

\* One choice of each of the sets of a sequence, concatenated.
Combine(sets) ==
  LET C[k \in 0 .. Len(sets)] ==
        IF k = 0 THEN {<<>>} ELSE {c \o x : c \in C[k - 1], x \in sets[k]}
  IN  C[Len(sets)]

All == {Arg("format", "json") \o Flag("eventlog") \o Flag("summary") \o Flag("aggregate")}

\* PCRs 0 to 2, the platform firmware.
PlatformLines ==
  Combine(<<{Arg("pcrs", <<0, 1, 2>>)}, Opt("ovmf", Fw), Opt("dumppei", Dump), Opt("dumpdxe", Dump),
            {<<>>, Arg("acpitables", Tables), Arg("acpitables", Tables) \o Arg("tableloader", Loader)},
            Opt("bootorder", Zeros),
            {<<>>, Arg("bootxxxx", Var), Arg("bootxxxx", Var) \o Arg("bootxxxx", Zeros)},
            {<<>>, Arg("driver", Driver) \o Arg("driver", Kernel)}, All>>)

\* PCRs 3 to 7, the boot loader and the policies.
BootLines ==
  Combine(<<{Arg("pcrs", <<4, 5>>) \o Arg("pcrs", <<7, 3, 6>>)},
            {<<>>, Arg("kernel", Kernel), Arg("kernel", Kernel) \o Arg("config", Config)},
            {<<>>, Arg("bootloader", Loader2) \o Arg("bootloader", Driver)},
            Opt("gpt", Gpt), Opt("db", Var), Opt("sbatlevel", Sbat), All>>)

\* PCRs 8 and 9, GRUB and the operating system.
OsLines ==
  Combine(<<{Arg("pcrs", <<9>>), Arg("pcrs", <<9, 8>>) \o Arg("grubcmds", Grub)},
            {<<>>, Arg("path", Top), Arg("path", Leaf) \o Arg("path", Top) \o Arg("path", Sub)},
            Opt("cmdline", Cmdline), Opt("initrd", Initrd), Opt("addzeros", Zeros), All>>)

BootChainLines == PlatformLines \cup BootLines \cup OsLines

\* Lists of PCRs, output flags and malformed command lines.
OutputLines ==
  Combine(<<{<<>>, Arg("pcrs", <<3>>), Arg("pcrs", <<6, 3, 6>>), Arg("pcrs", <<3, 8>>),
             Arg("pcrs", <<8, 3>>), Arg("pcrs", <<8>>), Arg("pcrs", <<8>>) \o Arg("grubcmds", Grub),
             Arg("pcrs", <<9>>) \o Arg("cmdline", Cmdline), Arg("pcrs", <<11>>), Arg("pcrs", <<3, 11>>),
             Arg("pcrs", <<3, 99>>)},
            {<<>>, Arg("format", "json"), Arg("format", "text"), Arg("format", "xml")},
            {<<>>, Flag("eventlog")}, {<<>>, Flag("summary")}, {<<>>, Flag("aggregate")},
            {<<>>, Flag("verbose"), Flag("gpt"), Flag("pcrs"), Flag("kernel"), Flag("unknown")}>>)

\* One command line per handler, for the run in which allocations fail.
MemoryLines ==
  Combine(<<{Arg("pcrs", <<0>>) \o Arg("ovmf", Fw),
             Arg("pcrs", <<1>>) \o Arg("acpitables", Tables) \o Arg("bootorder", Zeros),
             Arg("pcrs", <<1, 3>>) \o Arg("bootxxxx", Var),
             Arg("pcrs", <<2>>) \o Arg("driver", Driver),
             Arg("pcrs", <<4>>) \o Arg("kernel", Kernel) \o Arg("bootloader", Loader2),
             Arg("pcrs", <<5>>) \o Arg("gpt", Gpt),
             Arg("pcrs", <<7>>) \o Arg("sbatlevel", Sbat),
             Arg("pcrs", <<8>>) \o Arg("grubcmds", Grub),
             Arg("pcrs", <<9>>) \o Arg("path", Top) \o Arg("path", Leaf)
               \o Arg("cmdline", Cmdline) \o Arg("initrd", Initrd)},
            All>>)

OutputAndMemoryLines == OutputLines \cup MemoryLines
=============================================================================
