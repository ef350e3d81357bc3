---------------------------- MODULE SnpReference ----------------------------
(***************************************************************************)
(* What calculate-snp-mr is for: the digest of the guest that QEMU or EC2  *)
(* launches from the given files.                                          *)
(***************************************************************************)
EXTENDS SnpLaunch, SequencesExt

ImagePages ==
  [k \in 1 .. OvmfSize \div PageSize |->
     LET off == (k - 1) * PageSize
     IN  PageOf(<<"image", FileOf("ovmf"), off>>, "normal", Top - OvmfSize + off)]

HashesPage ==
  PageOf(<<"hashes">>
           \o (IF Given("cmdline") THEN <<"content with zero", FileOf("cmdline")>> ELSE <<"empty">>)
           \o (IF Given("initrd") THEN <<"content", FileOf("initrd")>> ELSE <<"empty">>)
           \o <<"content", FileOf("kernel")>>,
         "normal", Low(\h10))

\* The pages that OVMF reserves for the launch, by their number from 8 MiB.  That of the
\* GHCB is shared with the hypervisor and not measured.
Reserved(n) ==
  CASE n = \hD -> PageOf(<<"zeros">>, "secrets", Low(n))
    [] n = \hE -> PageOf(<<"zeros">>, "cpuid", Low(n))
    [] n = \h10 /\ Given("kernel") -> HashesPage
    [] OTHER -> PageOf(<<"zeros">>, "zero", Low(n))

InOrder(numbers) == [k \in DOMAIN numbers |-> Reserved(numbers[k])]

\* In the order of the addresses.
Numbers == [k \in 1 .. 31 |-> IF k <= 9 THEN k - 1 ELSE k]

CpuidLast ==
  [k \in 1 .. 31 |-> IF k < 14 THEN Numbers[k] ELSE IF k < 31 THEN Numbers[k + 1] ELSE \hE]

\* QEMU goes through the memory in the order of the addresses, EC2 leaves the
\* CPUID values to the end.
LowMemory ==
  IF opts.vmm = "qemu" THEN InOrder(Numbers) ELSE InOrder(CpuidLast)

SaveAreaPages ==
  [v \in 1 .. opts.vcpus |->
     PageOf(<<"vmsa", Vmsa(IF v = 1 THEN ResetVector ELSE ApVector, opts.vmm)>>, "vmsa", VmsaGpa)]

LaunchReference == ImagePages \o LowMemory \o SaveAreaPages

Unread(o) == Given(o) /\ fs[FileOf(o)] # "ok"

\* The inputs the program spoils without a word: a firmware or a command line
\* that it cannot read, a kernel or an initial file system whose hash fails,
\* and a firmware that does not end with a page.
Unnoticed ==
  \/ Unread("ovmf") \/ Unread("cmdline")
  \/ Given("kernel") /\ (Unread("kernel") \/ Unread("initrd"))
  \/ OvmfSize % PageSize # 0

-----------------------------------------------------------------------------

\* Every variable keeps its range; the loops over addresses stay below their
\* last page (snp.c:387-413).
TypeOK ==
  /\ argv \in Seq(Argument) /\ opts \in Options /\ pc \in Label
  /\ gpa \in Nat
  /\ pc \in {"sec memory", "ghcb", "temp ram"} => gpa \in Low(0) .. Low(\h20)
  /\ \A k \in DOMAIN info :
       /\ info[k].contents[1] \in Source /\ info[k].type \in PageType
       /\ info[k].type = "vmsa" => info[k].contents[2] \in SaveArea
       /\ info[k].gpa \in Nat /\ (info[k].gpa < Top \/ info[k].gpa = VmsaGpa)
  /\ ret \in {-1, 0, 1}

\* What is printed is the digest of the guest that the files and options
\* describe, whatever options were repeated and in whatever order they came,
\* unless one of the files was lost in a way the program ignores
\* (snp.c:385-433, main.c:147-149).
PublishedIsReference ==
  out # Unprinted /\ ~Unnoticed => out = <<LaunchReference>> \/ (short /\ out = <<Garbage>>)

\* The digest of the memory the caller never initialised is printed for no
\* other reason than a file that was read in vain (snp.c:366-380, 443).
GarbageNeedsReason ==
  out = <<Garbage>> => ret = 0 /\ (short \/ Unread("ovmf") \/ Unread("cmdline"))

\* What is printed is the digest of the guest, or else one of the known reasons
\* has spoilt it (snp.c:385-443, main.c:125-149).
PrintedIsReference == TypeOK /\ PublishedIsReference /\ GarbageNeedsReason

\* The calls of the program are ones the secure processor would accept: a page
\* of memory is measured once, in spite of the two loops, the separate CPUID,
\* secrets and hashes pages and the two places of the CPUID page, and the
\* digest that is printed is that of all of them (snp.c:387-433).
Processor == INSTANCE SnpProcessor WITH
  launch <- info,
  digest <- IF out \in {Unprinted, <<Garbage>>} THEN <<>> ELSE out[1]

ImplementsProcessor == Processor!SnpSpec
=============================================================================
