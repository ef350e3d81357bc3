-------------------------------- MODULE MCSnp --------------------------------
(***************************************************************************)
(* Instances of SnpReference for TLC: command lines, and file systems with *)
(* at most one fault.                                                      *)
(***************************************************************************)
EXTENDS SnpReference, TLC

CONSTANTS Ovmf, Ragged, Empty, Kernel, Initrd, Cmdline

MCFile == {Ovmf, Ragged, Empty, Kernel, Initrd, Cmdline}

\* A page counts two.
MCSize == (Ovmf :> 4) @@ (Ragged :> 3) @@ [f \in MCFile |-> 0]

Healthy == [f \in MCFile |-> "ok"]

MCEnvironments ==
  [fs : {Healthy}, short : BOOLEAN]
    \cup [fs : {[Healthy EXCEPT ![f] = s] : f \in MCFile, s \in FileState}, short : {FALSE}]

Arg(o, v) == <<[opt |-> o, val |-> v]>>
Opt(o, v) == {<<>>, Arg(o, v)}

\* One choice of each of the sets of a sequence, concatenated.
Combine(sets) ==
  LET C[k \in 0 .. Len(sets)] ==
        IF k = 0 THEN {<<>>} ELSE {c \o x : c \in C[k - 1], x \in sets[k]}
  IN  C[Len(sets)]

GuestLines ==
  Combine(<<{Arg("ovmf", Ovmf)}, Opt("kernel", Kernel), Opt("initrd", Initrd),
            Opt("cmdline", Cmdline), Opt("vmm-type", "ec2"), {Arg("vcpus", 1), Arg("vcpus", 2)}>>)

\* Other images, and options that are repeated or refused.
OtherLines ==
  {Arg("ovmf", f) \o Arg("verbose", NoFile) : f \in {Ragged, Empty}}
    \cup {Arg("ovmf", Ragged) \o Arg("vmm-type", "ec2") \o Arg("ovmf", Ovmf) \o Arg("vmm-type", "qemu")}
    \cup Combine(<<{Arg("ovmf", Ovmf)},
                   {Arg("vcpus", 0), Arg("vcpus", -1), Arg("vmm-type", "other"), Arg("unknown", NoFile),
                    Arg("vcpus", 3)}>>)
    \cup {<<>>, Arg("kernel", Kernel)}

MCCommandLines == GuestLines \cup OtherLines
=============================================================================
