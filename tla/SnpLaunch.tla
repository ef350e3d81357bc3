------------------------------ MODULE SnpLaunch ------------------------------
(***************************************************************************)
(* calculate-snp-mr: the launch digest of an AMD SEV-SNP guest.  The       *)
(* hypervisor hands the pages of the guest to the secure processor one by  *)
(* one; each call hashes a PAGE_INFO that holds the digest so far, so the  *)
(* digest is represented by the sequence of the pages (the hash is free of *)
(* collisions).                                                            *)
(*                                                                         *)
(* The contents of a page are a tuple of where they come from.  Addresses  *)
(* and sizes are real ones in units of 4096 / PageSize bytes.              *)
(***************************************************************************)
EXTENDS Integers, Sequences, FiniteSets

CONSTANTS File,          \* files
          NoFile,        \* an option that was not given
          Size,          \* Size[f]: the size of a file
          Environments,  \* the states of the files and of the memory the runs may start with
          CommandLines,  \* the command lines the runs may start with
          PageSize,      \* 4096 bytes
          Top,           \* 4 GiB, where the image of the firmware ends
          VmsaGpa,       \* the address all save areas are measured at
          Garbage        \* a digest that is uninitialised stack memory

Name == File \cup {NoFile}

\* "absent", "locked": there is no such file, or it cannot be opened.
\* "failing": opened, and reading stops with an error.
FileState == {"ok", "absent", "locked", "failing"}

FileOption == {"kernel", "initrd", "cmdline", "ovmf"}

\* An argument with its value; "unknown" also stands for an option without one.
Argument == [opt : FileOption, val : File]
              \cup [opt : {"vcpus"}, val : Int]
              \cup [opt : {"vmm-type"}, val : {"qemu", "ec2", "other"}]
              \cup [opt : {"verbose", "unknown"}, val : {NoFile}]

Options == [file : [FileOption -> Name], vcpus : Nat, vmm : {"qemu", "ec2"}]

PageType == {"normal", "vmsa", "zero", "secrets", "cpuid"}

\* What a page holds, the first element of its contents.
Source == {"image", "beyond", "hashes", "vmsa", "zeros"}

\* The fields of a save area that differ between the processors of a guest and
\* between hypervisors, and one of the many that do not.
SaveArea == [cs_base : Nat, rip : Nat, cs_attrib : Nat, ss_attrib : Nat, tr_attrib : Nat,
             efer : Nat, rdx : Nat, mxcsr : Nat, x87_fcw : Nat]

\* What the page of the hashes is made of.
Word == {"garbage", "zeros", "hashes", "empty", "content", "part", "content with zero"} \cup File

Page == [contents : Seq(Word) \cup ({"image", "beyond"} \X File \X Nat) \cup ({"vmsa"} \X SaveArea),
         type : PageType, gpa : Nat]

Label == {"parse", "validate", "read ovmf", "read cmdline", "hash files", "image", "sec memory",
          "ghcb", "secrets", "cpuid", "svsm", "kernel hashes", "temp ram", "last cpuid", "boot vcpu",
          "other vcpus", "publish", "exited", "crashed"}

ASSUME AddressAssumption ==
  /\ PageSize \in Nat \ {0} /\ Top = \h100000 * PageSize /\ VmsaGpa \in Nat
  /\ Size \in [File -> 0 .. Top]

ASSUME FilesAssumption ==
  /\ NoFile \notin File
  /\ Environments \subseteq [fs : [File -> FileState], short : BOOLEAN]
  /\ CommandLines \subseteq Seq(Argument)

\* The memory the digest is printed from when it was not computed.
ASSUME GarbageAssumption == Garbage \notin Seq(Page)

VARIABLES
  argv,    \* the arguments not parsed yet
  opts,    \* what the parsed ones have set
  fs,      \* fs[f]: the state of a file
  short,   \* allocations may fail in this run
  pc,      \* the next step
  gpa,     \* gpa, offset or i of the loop the program is in
  hashes,  \* the three hashes of the page hashes
  info,    \* the pages hashed into info.digest_cur
  out,     \* what was printed as the launch digest
  ret      \* the exit status, 1 while running

environment == <<argv, opts, fs, short>>
vars == <<argv, opts, fs, short, pc, gpa, hashes, info, out, ret>>

Unprinted == <<>>

Init ==
  /\ argv \in CommandLines
  /\ \E e \in Environments : fs = e.fs /\ short = e.short
  /\ opts = [file |-> [o \in FileOption |-> NoFile], vcpus |-> 1, vmm |-> "qemu"]
  /\ pc = "parse" /\ gpa = 0
  /\ hashes = <<"garbage">> /\ info = <<>>
  /\ out = Unprinted /\ ret = 1

\* The addresses from 8 MiB, 0x800000, by pages.
Low(n) == (\h800 + n) * PageSize

Goto(label, start) == pc' = label /\ gpa' = start

Exit(status, printed) ==
  /\ pc' = "exited" /\ ret' = status /\ out' = printed
  /\ UNCHANGED <<environment, gpa, hashes, info>>

Crash ==
  pc' = "crashed" /\ UNCHANGED <<environment, gpa, hashes, info, out, ret>>

\* Nothing is hashed in this step.
Skip == UNCHANGED <<environment, hashes, info, out, ret>>

Given(o) == opts.file[o] # NoFile
FileOf(o) == opts.file[o]

-----------------------------------------------------------------------------
(* main *)

NextArg == argv[1]

Parsing == pc = "parse" /\ argv # <<>>

Parsed(newOpts) ==
  /\ argv' = Tail(argv) /\ opts' = newOpts
  /\ UNCHANGED <<fs, short, pc, gpa, hashes, info, out, ret>>

ParseFile ==
  /\ Parsing /\ NextArg.opt \in FileOption
  /\ Parsed([opts EXCEPT !.file[NextArg.opt] = NextArg.val])

ParseVcpus ==
  /\ Parsing /\ NextArg.opt = "vcpus" /\ NextArg.val > 0
  /\ Parsed([opts EXCEPT !.vcpus = NextArg.val])

ParseVmm ==
  /\ Parsing /\ NextArg.opt = "vmm-type" /\ NextArg.val \in {"qemu", "ec2"}
  /\ Parsed([opts EXCEPT !.vmm = NextArg.val])

ParseVerbose == Parsing /\ NextArg.opt = "verbose" /\ Parsed(opts)

ParseRefused ==
  /\ Parsing
  /\ \/ NextArg.opt = "unknown"
     \/ NextArg.opt = "vcpus" /\ NextArg.val <= 0
     \/ NextArg.opt = "vmm-type" /\ NextArg.val = "other"
  /\ Exit(-1, out)

ParseEnd == pc = "parse" /\ argv = <<>> /\ Goto("validate", 0) /\ Skip

Validate ==
  /\ pc = "validate"
  /\ IF Given("ovmf") THEN Goto("read ovmf", 0) /\ Skip ELSE Exit(-1, out)

\* calculate_mr returns 0 whatever happened, also when it left at once and mr
\* is still what was on the stack.
Abandon == Exit(0, <<Garbage>>)

Publish == pc = "publish" /\ Exit(0, <<info>>)

-----------------------------------------------------------------------------
(* calculate_mr: the files *)

\* read_file needs all of the file, and memory for it.
ReadFile(f, success) ==
  \/ fs[f] = "ok" /\ success /\ Skip
  \/ (fs[f] # "ok" \/ short) /\ Abandon

ReadOvmf ==
  /\ pc = "read ovmf"
  /\ ReadFile(FileOf("ovmf"), Goto(IF Given("cmdline") THEN "read cmdline" ELSE "hash files", 0))

\* The copy with the trailing zero is used without a look at its pointer.
ReadCmdline ==
  /\ pc = "read cmdline"
  /\ ReadFile(FileOf("cmdline"), Goto("hash files", 0)) \/ (short /\ Crash)

\* The hash of a file that cannot be opened stays zero, as hashes_init ignores
\* the result of hash_file; that of one that fails is the hash of a part.
FileHash(f) ==
  CASE fs[f] = "ok" -> <<"content", f>>
    [] fs[f] = "failing" -> <<"part", f>>
    [] OTHER -> <<"zeros">>

Nothing == <<"empty">>

CmdlineHash ==
  IF Given("cmdline") THEN <<"content with zero", FileOf("cmdline")>> ELSE Nothing

InitrdHash == IF Given("initrd") THEN FileHash(FileOf("initrd")) ELSE Nothing

\* [fault] The fields of the table in the order of the arguments.
HashPageSwapped ==
  <<"hashes">> \o CmdlineHash \o FileHash(FileOf("kernel")) \o InitrdHash

\* struct sev_hash_table: a header and the entries in this order.
HashTable(cmdline, initrd, kernel) == <<"hashes">> \o cmdline \o initrd \o kernel

\* The table at offset 3072 of a page of zeros.
HashPage == HashTable(CmdlineHash, InitrdHash, FileHash(FileOf("kernel")))

HashFiles ==
  /\ pc = "hash files"
  /\ hashes' = IF Given("kernel") THEN HashPage ELSE hashes
  /\ Goto("image", 0)
  /\ UNCHANGED <<environment, info, out, ret>>

-----------------------------------------------------------------------------
(* calculate_mr: the pages *)

PageOf(contents, type, address) == [contents |-> contents, type |-> type, gpa |-> address]

\* memset of the contents for a call without a page.
Blank == <<"zeros">>

\* page_info_update
Update(page) ==
  /\ info' = Append(info, page)
  /\ UNCHANGED <<environment, hashes, out, ret>>

OvmfSize == Size[FileOf("ovmf")]

\* The last page of an image whose size is no multiple of a page is read
\* beyond the buffer.
MeasureImage ==
  /\ pc = "image" /\ gpa < OvmfSize
  /\ Goto("image", gpa + PageSize)
  /\ \/ /\ gpa + PageSize <= OvmfSize
        /\ Update(PageOf(<<"image", FileOf("ovmf"), gpa>>, "normal", Top - OvmfSize + gpa))
     \/ /\ gpa + PageSize > OvmfSize
        /\ Update(PageOf(<<"beyond", FileOf("ovmf"), gpa>>, "normal", Top - OvmfSize + gpa))

MeasureBeyond == pc = "image" /\ gpa < OvmfSize /\ gpa + PageSize > OvmfSize /\ Crash

ImageDone == pc = "image" /\ gpa >= OvmfSize /\ Goto("sec memory", Low(0)) /\ Skip

\* One of the loops over pages of zeros, up to the page last.
ZeroPages(label, last, next, start) ==
  /\ pc = label
  /\ IF gpa < Low(last)
     THEN Update(PageOf(Blank, "zero", gpa)) /\ Goto(label, gpa + PageSize)
     ELSE Goto(next, start) /\ Skip

SecMemory == ZeroPages("sec memory", 9, "ghcb", Low(\hA))

Ghcb == ZeroPages("ghcb", \hD, "secrets", 0)

Secrets ==
  /\ pc = "secrets"
  /\ Update(PageOf(Blank, "secrets", Low(\hD)))
  /\ Goto("cpuid", 0)

CpuidPage == PageOf(Blank, "cpuid", Low(\hE))

Cpuid ==
  /\ pc = "cpuid"
  /\ IF Given("kernel") THEN Goto("svsm", 0) ELSE Goto("temp ram", Low(\hF))
  /\ IF opts.vmm = "qemu" THEN Update(CpuidPage) ELSE Skip

Svsm ==
  /\ pc = "svsm" /\ Goto("kernel hashes", 0)
  /\ Update(PageOf(Blank, "zero", Low(\hF)))

KernelHashes ==
  /\ pc = "kernel hashes" /\ Goto("temp ram", Low(\h11))
  /\ Update(PageOf(hashes, "normal", Low(\h10)))

TempRam == ZeroPages("temp ram", \h20, "last cpuid", 0)

\* [fault] The page of CPUID values is measured by both.
LastCpuidBoth ==
  /\ pc = "last cpuid" /\ Goto("boot vcpu", 0)
  /\ Update(CpuidPage)

LastCpuid ==
  /\ pc = "last cpuid" /\ Goto("boot vcpu", 0)
  /\ IF opts.vmm = "ec2" THEN Update(CpuidPage) ELSE Skip

\* Addresses as pairs of 16 bits.
ResetVector == <<\hFFFF, \hFFF0>>
ApVector == <<\h80, \hB004>>

\* vmcb_save_area_init; the base of CS counts 64 KiB.
Vmsa(eip, vmm) ==
  [cs_base |-> eip[1], rip |-> eip[2], efer |-> \h1000,
   cs_attrib |-> IF vmm = "ec2" /\ eip = ResetVector THEN \h9A ELSE \h9B,
   ss_attrib |-> IF vmm = "qemu" THEN \h93 ELSE \h92,
   tr_attrib |-> IF vmm = "qemu" THEN \h8B ELSE \h83,
   rdx |-> IF vmm = "qemu" THEN \h800F12 ELSE 0,
   mxcsr |-> IF vmm = "qemu" THEN \h1F80 ELSE 0,
   x87_fcw |-> IF vmm = "qemu" THEN \h37F ELSE 0]

VmsaPage(eip) == PageOf(<<"vmsa", Vmsa(eip, opts.vmm)>>, "vmsa", VmsaGpa)

BootVcpu ==
  /\ pc = "boot vcpu"
  /\ Update(VmsaPage(ResetVector))
  /\ Goto("other vcpus", 1)

OtherVcpus ==
  /\ pc = "other vcpus"
  /\ IF gpa < opts.vcpus
     THEN Update(VmsaPage(ApVector)) /\ Goto("other vcpus", gpa + 1)
     ELSE Goto("publish", 0) /\ Skip

\* Each call of hash_buf and hash_file needs a digest context and does not
\* look at the pointer.
OutOfMemory ==
  /\ short /\ (pc = "image" => gpa < OvmfSize)
  /\ pc \in {"image", "sec memory", "ghcb", "secrets", "temp ram", "boot vcpu"}
       \cup (IF Given("kernel") THEN {"hash files"} ELSE {})
  /\ Crash

-----------------------------------------------------------------------------

Main == ParseFile \/ ParseVcpus \/ ParseVmm \/ ParseVerbose \/ ParseRefused \/ ParseEnd
          \/ Validate \/ Publish

CalculateMr ==
  \/ ReadOvmf \/ ReadCmdline \/ HashFiles \/ MeasureImage \/ MeasureBeyond \/ ImageDone
  \/ SecMemory \/ Ghcb \/ Secrets \/ Cpuid \/ Svsm \/ KernelHashes \/ TempRam \/ LastCpuid
  \/ BootVcpu \/ OtherVcpus \/ OutOfMemory

Terminated == pc \in {"exited", "crashed"} /\ UNCHANGED vars

Next == Main \/ CalculateMr \/ Terminated

Spec == Init /\ [][Next]_vars
=============================================================================
