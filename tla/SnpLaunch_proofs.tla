-------------------------- MODULE SnpLaunch_proofs --------------------------
(***************************************************************************)
(* Proofs about calculate-snp-mr, for all files, options, page sizes and   *)
(* runs.  The invariant compares the pages hashed so far with those of the *)
(* guest one by one: which of them are done depends on the label and on    *)
(* the number n of the page that the loop of the label has come to.        *)
(***************************************************************************)
EXTENDS SnpReference, TLAPS

-----------------------------------------------------------------------------
(* The inductive invariant *)

\* Before the first page is hashed.
Starting == {"parse", "validate", "read ovmf", "read cmdline", "hash files"}

\* While pages are hashed: the memory and the save areas.
HashingMemory == {"image", "sec memory", "ghcb", "secrets", "cpuid", "svsm", "kernel hashes",
                  "temp ram", "last cpuid"}
Hashing == HashingMemory \cup {"boot vcpu", "other vcpus", "publish"}

TypeInv ==
  /\ argv \in Seq(Argument) /\ opts \in Options /\ opts.vcpus # 0
  /\ fs \in [File -> FileState] /\ short \in BOOLEAN
  /\ pc \in Label /\ gpa \in Nat
  /\ hashes \in Seq(Word) /\ Len(hashes) # 0
  /\ info \in Seq(Page) /\ ret \in {-1, 0, 1}

\* The contents of a page say where they come from, and the page is memory or
\* a save area.
Fits(page) ==
  /\ page.contents[1] \in Source
  /\ page.type = "vmsa" => page.contents[2] \in SaveArea
  /\ page.gpa < Top \/ page.gpa = VmsaGpa

PagesInv == \A k \in 1 .. Len(info) : Fits(info[k])

\* There is a firmware when it is read, the page of the hashes is filled when it
\* is used, and nothing is printed before the end.
ControlInv ==
  /\ pc \in {"read ovmf", "read cmdline", "hash files"} \cup Hashing => Given("ovmf")
  /\ pc = "read cmdline" => Given("cmdline")
  /\ pc \in Hashing /\ Given("kernel") => hashes = HashPage
  /\ pc \in {"svsm", "kernel hashes"} => Given("kernel")
  /\ pc # "exited" => out = Unprinted

\* The loops stay between the pages they start and stop at.
PlaceInv(n) ==
  /\ pc = "image" => gpa = n * PageSize
  /\ pc = "sec memory" => gpa = Low(n) /\ n \in 0 .. 9
  /\ pc = "ghcb" => gpa = Low(n) /\ n \in \hA .. \hD
  /\ pc = "temp ram" => gpa = Low(n) /\ n \in \hF .. \h20 /\ (Given("kernel") => n >= \h11)
  /\ pc = "other vcpus" => gpa \in 1 .. opts.vcpus

Images == OvmfSize \div PageSize

\* The first m pages of the guest are hashed.
Done(m) ==
  /\ Len(info) = m
  /\ \A k \in 1 .. m : info[k] = LaunchReference[k]

\* The place among the pages of low memory, when QEMU or when EC2 measures a
\* page after that of the CPUID values.
Late(m) == IF opts.vmm = "qemu" THEN m ELSE m - 1

\* The pages of the guest that come before the next one.
Count(n) ==
  CASE pc = "image" -> n
    [] pc = "sec memory" -> Images + n
    [] pc = "ghcb" -> Images + (n - 1)
    [] pc = "secrets" -> Images + 12
    [] pc = "cpuid" -> Images + 13
    [] pc = "svsm" -> Images + Late(14)
    [] pc = "kernel hashes" -> Images + Late(15)
    [] pc = "temp ram" -> Images + Late(n - 1)
    [] pc = "last cpuid" -> Images + Late(31)
    [] pc = "boot vcpu" -> Images + 31
    [] pc = "other vcpus" -> Images + 31 + gpa
    [] pc = "publish" -> Images + 31 + opts.vcpus

ProgressInv(n) ==
  /\ pc \in Starting => info = <<>>
  /\ pc \in Hashing /\ ~Unnoticed => Done(Count(n)) /\ (pc = "image" => n <= Images)

\* What is printed and why.
OutInv ==
  pc = "exited" =>
    \/ out = Unprinted
    \/ out = <<Garbage>> /\ ret = 0 /\ (short \/ Unread("ovmf") \/ Unread("cmdline"))
    \/ /\ out = <<info>> /\ \E k \in 1 .. Len(info) : info[k].type = "vmsa"
       /\ ~Unnoticed => info = LaunchReference

\* The pages below 4 GiB.
Frames == \h100000

LoopInv == \E n \in 0 .. Frames : PlaceInv(n) /\ ProgressInv(n)

SaveAreaInv ==
  pc \in {"other vcpus", "publish"} => \E k \in 1 .. Len(info) : info[k].type = "vmsa"

LaunchInv == TypeInv /\ PagesInv /\ ControlInv /\ LoopInv /\ SaveAreaInv /\ OutInv

\* No page of low memory has been measured from this address on.
Limit ==
  CASE pc = "image" -> 0
    [] pc \in {"sec memory", "ghcb", "temp ram"} -> gpa
    [] pc = "secrets" -> Low(\hD)
    [] pc = "cpuid" -> Low(\hE)
    [] pc = "svsm" -> Low(\hF)
    [] pc = "kernel hashes" -> Low(\h10)
    [] OTHER -> Low(\h20)

\* Apart from that, the pages of the image come before the next one and EC2 has
\* not measured the page of the CPUID values yet.
CoverInv ==
  pc \in HashingMemory => \A k \in 1 .. Len(info) :
    /\ info[k].type # "vmsa"
    /\ info[k].gpa < Limit \/ info[k].gpa >= Low(\h20)
    /\ pc = "image" => info[k].gpa < Top - OvmfSize + gpa
    /\ opts.vmm = "ec2" => info[k].gpa # Low(\hE)

-----------------------------------------------------------------------------
(* Addresses *)

LEMMA Constants ==
  /\ PageSize \in Nat \ {0} /\ VmsaGpa \in Nat
  /\ Frames \in Nat /\ Top = Frames * PageSize /\ Top \in Nat
  /\ Size \in [File -> 0 .. Top] /\ NoFile \notin File
  BY AddressAssumption, FilesAssumption, SMT DEF Frames

\* Multiplying by the size of a page keeps the order.
LEMMA TimesOrder ==
  ASSUME NEW C \in Nat \ {0}, NEW a \in Int, NEW b \in Int
  PROVE  a < b <=> a * C < b * C
  <1>1. ASSUME NEW x \in Int, NEW y \in Int, x < y PROVE x * C < y * C
    <2>1. y = x + (y - x) /\ y - x \in Nat \ {0} BY <1>1
    <2>2. \A d \in Nat \ {0} : (x + d) * C = x * C + d * C /\ d * C > 0 BY SMT
    <2> QED BY <2>1, <2>2
  <1>2. a = b \/ a < b \/ b < a OBVIOUS
  <1>3. a * C \in Int /\ b * C \in Int OBVIOUS
  <1>4. CASE a < b BY <1>1, <1>4
  <1>5. CASE b < a
    <2>1. b * C < a * C BY <1>1, <1>5
    <2> QED BY <1>3, <1>5, <2>1
  <1>6. CASE a = b
    <2>1. a * C = b * C BY <1>6
    <2> QED BY <1>3, <1>6, <2>1
  <1> QED BY <1>2, <1>4, <1>5, <1>6

LEMMA LowOrder ==
  ASSUME NEW a \in Nat, NEW b \in Nat
  PROVE  /\ Low(a) \in Nat /\ Low(b) \in Nat
         /\ Low(a + 1) = Low(a) + PageSize
         /\ a < b <=> Low(a) < Low(b)
         /\ a <= b <=> Low(a) <= Low(b)
  <1> DEFINE x == \h800 + a
             y == \h800 + b
  <1>1. x \in Nat /\ y \in Nat /\ (a < b <=> x < y) /\ (b < a <=> y < x) OBVIOUS
  <1>2. Low(a) = x * PageSize /\ Low(b) = y * PageSize /\ Low(a + 1) = (x + 1) * PageSize
    <2>1. \h800 + (a + 1) = x + 1 OBVIOUS
    <2> QED BY <2>1 DEF Low
  <1> HIDE DEF x, y
  <1>3. x * PageSize \in Nat /\ y * PageSize \in Nat /\ (x + 1) * PageSize = x * PageSize + PageSize
    BY <1>1, Constants
  <1>4. (x < y <=> x * PageSize < y * PageSize) /\ (y < x <=> y * PageSize < x * PageSize)
    BY <1>1, Constants, TimesOrder
  <1> QED BY <1>1, <1>2, <1>3, <1>4

LEMMA LowBelowTop ==
  ASSUME NEW n \in 0 .. \h20
  PROVE  Low(n) \in Low(0) .. Low(\h20) /\ Low(n) \in Nat /\ Low(n) < Top
  <1>1. \h800 + n < Frames /\ \h800 + n \in Nat BY DEF Frames
  <1>2. (\h800 + n) * PageSize < Frames * PageSize BY <1>1, Constants, TimesOrder
  <1>3. n \in Nat /\ 0 <= n /\ n <= \h20 /\ \h20 \in Nat OBVIOUS
  <1>4. Low(0) \in Nat /\ Low(n) \in Nat /\ Low(\h20) \in Nat /\ Low(0) <= Low(n) /\ Low(n) <= Low(\h20)
    BY <1>3, LowOrder
  <1>5. Low(n) < Top BY <1>2, Constants DEF Low
  <1> QED BY <1>4, <1>5

-----------------------------------------------------------------------------
(* The pages of the guest *)

\* s consists of a, b and c, of these lengths.
Joins(s, a, n, b, m, c, l) ==
  /\ Len(s) = n + m + l /\ s = [k \in 1 .. n + m + l |-> s[k]]
  /\ \A k \in 1 .. n : s[k] = a[k]
  /\ \A k \in 1 .. m : s[n + k] = b[k]
  /\ \A k \in 1 .. l : s[n + m + k] = c[k]

LEMMA JoinedParts ==
  ASSUME NEW n \in Nat, NEW m \in Nat, NEW l \in Nat, NEW T,
         NEW a \in [1 .. n -> T], NEW b \in [1 .. m -> T], NEW c \in [1 .. l -> T]
  PROVE  Joins(a \o b \o c, a, n, b, m, c, l)
  <1>1. a \in Seq(T) /\ Len(a) = n /\ b \in Seq(T) /\ Len(b) = m /\ c \in Seq(T) /\ Len(c) = l
    OBVIOUS
  <1>2. a \o b \in Seq(T) /\ Len(a \o b) = n + m BY <1>1
  <1>3. (\A k \in 1 .. n : (a \o b)[k] = a[k]) /\ (\A k \in 1 .. m : (a \o b)[n + k] = b[k])
    BY <1>1
  <1>4. \A k \in 1 .. n + m : (a \o b \o c)[k] = (a \o b)[k] BY <1>1, <1>2
  <1>5. \A k \in 1 .. l : (a \o b \o c)[n + m + k] = c[k] BY <1>1, <1>2
  <1>6. a \o b \o c \in Seq(T) /\ Len(a \o b \o c) = n + m + l BY <1>1, <1>2
  <1>7. \A k \in 1 .. n : k \in 1 .. n + m OBVIOUS
  <1>8. \A k \in 1 .. m : n + k \in 1 .. n + m OBVIOUS
  <1>9. a \o b \o c = [k \in 1 .. n + m + l |-> (a \o b \o c)[k]]
    <2> DEFINE s == a \o b \o c
    <2> HIDE DEF s
    <2>1. s \in Seq(T) /\ Len(s) = n + m + l BY <1>6 DEF s
    <2>2. s = [k \in 1 .. n + m + l |-> s[k]] BY <2>1
    <2> QED BY <2>2 DEF s
  <1> QED BY <1>3, <1>4, <1>5, <1>6, <1>7, <1>8, <1>9 DEF Joins

LEMMA ImageSize ==
  ASSUME TypeInv, Given("ovmf")
  PROVE  /\ FileOf("ovmf") \in File /\ OvmfSize \in 0 .. Top
         /\ Images \in Nat
         /\ OvmfSize % PageSize = 0 => OvmfSize = Images * PageSize
  <1>1. "ovmf" \in FileOption /\ opts.file \in [FileOption -> Name]
    BY DEF TypeInv, Options, FileOption
  <1>2. FileOf("ovmf") \in File BY <1>1 DEF Given, FileOf, Name
  <1>3. OvmfSize \in 0 .. Top BY <1>2, Constants DEF OvmfSize
  <1>4. \A s \in Nat : s \div PageSize \in Nat /\ (s % PageSize = 0 => s = (s \div PageSize) * PageSize)
    BY Constants
  <1> QED BY <1>2, <1>3, <1>4, Constants DEF Images

LEMMA ReferenceParts ==
  ASSUME TypeInv, Given("ovmf")
  PROVE  Joins(LaunchReference, ImagePages, Images, LowMemory, 31, SaveAreaPages, opts.vcpus)
  <1> DEFINE T == {ImagePages[k] : k \in 1 .. Images} \cup {LowMemory[k] : k \in 1 .. 31}
                    \cup {SaveAreaPages[k] : k \in 1 .. opts.vcpus}
  <1>1. Images \in Nat /\ opts.vcpus \in Nat BY ImageSize DEF TypeInv, Options
  <1>2. ImagePages \in [1 .. Images -> T] BY DEF ImagePages, Images
  <1>3. SaveAreaPages \in [1 .. opts.vcpus -> T] BY DEF SaveAreaPages
  <1>4. LowMemory \in [1 .. 31 -> T]
    <2>1. DOMAIN Numbers = 1 .. 31 /\ DOMAIN CpuidLast = 1 .. 31 BY DEF Numbers, CpuidLast
    <2>2. LowMemory = [k \in 1 .. 31 |-> LowMemory[k]] BY <2>1 DEF LowMemory, InOrder
    <2> HIDE DEF LowMemory
    <2> QED BY <2>2
  <1> HIDE DEF T
  <1>5. 31 \in Nat OBVIOUS
  <1> QED BY <1>1, <1>2, <1>3, <1>4, <1>5, JoinedParts, Zenon DEF LaunchReference

\* The place of a page of low memory among the others, by its number.
PlaceOf(n) ==
  IF n < 9 THEN n + 1
  ELSE IF n < \hE THEN n
  ELSE IF n = \hE THEN IF opts.vmm = "qemu" THEN 14 ELSE 31
  ELSE Late(n)

LEMMA ReservedPlace ==
  ASSUME TypeInv, NEW n \in 0 .. 31, n # 9
  PROVE  PlaceOf(n) \in 1 .. 31 /\ LowMemory[PlaceOf(n)] = Reserved(n)
  <1>1. opts.vmm = "qemu" \/ opts.vmm = "ec2" BY DEF TypeInv, Options
  <1>2. DOMAIN Numbers = 1 .. 31 /\ DOMAIN CpuidLast = 1 .. 31 BY DEF Numbers, CpuidLast
  <1>3. CASE opts.vmm = "qemu"
    <2>1. PlaceOf(n) = IF n < 9 THEN n + 1 ELSE n BY <1>3 DEF PlaceOf, Late
    <2>2. PlaceOf(n) \in 1 .. 31 /\ Numbers[PlaceOf(n)] = n BY <2>1 DEF Numbers
    <2> HIDE DEF Numbers, CpuidLast
    <2>3. LowMemory = InOrder(Numbers) BY <1>3 DEF LowMemory
    <2> QED BY <1>2, <2>2, <2>3 DEF InOrder
  <1>4. CASE opts.vmm = "ec2"
    <2>1. PlaceOf(n) = IF n < 9 THEN n + 1 ELSE IF n < \hE THEN n
                       ELSE IF n = \hE THEN 31 ELSE n - 1 BY <1>4 DEF PlaceOf, Late
    <2>2. PlaceOf(n) \in 1 .. 31 /\ CpuidLast[PlaceOf(n)] = n BY <2>1 DEF CpuidLast, Numbers
    <2>3. LowMemory = InOrder(CpuidLast) BY <1>4 DEF LowMemory
    <2> QED BY <1>2, <2>2, <2>3 DEF InOrder
  <1> QED BY <1>1, <1>3, <1>4

-----------------------------------------------------------------------------
(* The pages that are hashed *)

LEMMA BlankFits ==
  ASSUME NEW type \in PageType \ {"vmsa"}, NEW a \in Nat, a < Top
  PROVE  PageOf(Blank, type, a) \in Page /\ Fits(PageOf(Blank, type, a))
  <1>1. Blank \in Seq(Word) /\ Blank[1] = "zeros" BY DEF Blank, Word
  <1>2. "zeros" \in Source BY DEF Source
  <1> HIDE DEF Blank
  <1> QED BY <1>1, <1>2 DEF PageOf, Page, Fits, PageType

LEMMA ImageFits ==
  ASSUME NEW source \in {"image", "beyond"}, NEW f \in File, NEW off \in Nat, NEW a \in Nat, a < Top
  PROVE  /\ PageOf(<<source, f, off>>, "normal", a) \in Page
         /\ Fits(PageOf(<<source, f, off>>, "normal", a))
  <1> DEFINE c == <<source, f, off>>
  <1>1. c \in {"image", "beyond"} \X File \X Nat /\ c[1] = source OBVIOUS
  <1>2. source \in Source /\ "normal" \in PageType /\ "normal" # "vmsa"
    BY DEF Source, PageType
  <1> HIDE DEF c
  <1>3. PageOf(c, "normal", a) \in Page /\ Fits(PageOf(c, "normal", a))
    BY <1>1, <1>2 DEF PageOf, Page, Fits
  <1> QED BY <1>3 DEF c

LEMMA VmsaFits ==
  ASSUME NEW eip \in {ResetVector, ApVector}
  PROVE  VmsaPage(eip) \in Page /\ Fits(VmsaPage(eip)) /\ VmsaPage(eip).type = "vmsa"
  <1>1. eip[1] \in Nat /\ eip[2] \in Nat BY DEF ResetVector, ApVector
  <1>2. Vmsa(eip, opts.vmm) \in SaveArea BY <1>1 DEF Vmsa, SaveArea
  <1> DEFINE c == <<"vmsa", Vmsa(eip, opts.vmm)>>
  <1>3. c \in {"vmsa"} \X SaveArea /\ c[1] = "vmsa" /\ c[2] = Vmsa(eip, opts.vmm) BY <1>2
  <1>4. "vmsa" \in Source /\ "vmsa" \in PageType BY DEF Source, PageType
  <1> HIDE DEF c
  <1>5. PageOf(c, "vmsa", VmsaGpa) \in Page /\ Fits(PageOf(c, "vmsa", VmsaGpa))
        /\ PageOf(c, "vmsa", VmsaGpa).type = "vmsa"
    BY <1>2, <1>3, <1>4, Constants DEF PageOf, Page, Fits
  <1> QED BY <1>5 DEF VmsaPage, c

LEMMA Singles ==
  ASSUME NEW T, NEW x \in T, NEW y \in T
  PROVE  <<x>> \in Seq(T) /\ <<x, y>> \in Seq(T) OBVIOUS

LEMMA JoinedHead ==
  ASSUME NEW T, NEW a \in Seq(T), NEW b \in Seq(T), NEW x, Len(a) # 0, a[1] = x
  PROVE  a \o b \in Seq(T) /\ Len(a \o b) # 0 /\ (a \o b)[1] = x
  <1>1. a \o b \in Seq(T) /\ Len(a \o b) = Len(a) + Len(b) OBVIOUS
  <1>2. \A k \in 1 .. Len(a) : (a \o b)[k] = a[k] OBVIOUS
  <1>3. 1 \in 1 .. Len(a) /\ Len(a) + Len(b) # 0 OBVIOUS
  <1> QED BY <1>1, <1>2, <1>3, Zenon

LEMMA JoinedTable ==
  ASSUME NEW T, NEW x \in T, NEW a \in Seq(T), NEW b \in Seq(T), NEW c \in Seq(T)
  PROVE  <<x>> \o a \o b \o c \in Seq(T) /\ Len(<<x>> \o a \o b \o c) # 0
         /\ (<<x>> \o a \o b \o c)[1] = x
  <1>1. <<x>> \in Seq(T) /\ Len(<<x>>) # 0 /\ <<x>>[1] = x OBVIOUS
  <1>2. <<x>> \o a \in Seq(T) /\ Len(<<x>> \o a) # 0 /\ (<<x>> \o a)[1] = x
    BY <1>1, JoinedHead, Zenon
  <1>3. <<x>> \o a \o b \in Seq(T) /\ Len(<<x>> \o a \o b) # 0 /\ (<<x>> \o a \o b)[1] = x
    BY <1>2, JoinedHead, Zenon
  <1> QED BY <1>3, JoinedHead, Zenon

\* The table of the hashes is made of words.
LEMMA HashPageType ==
  ASSUME TypeInv, Given("kernel")
  PROVE  HashPage \in Seq(Word) /\ Len(HashPage) # 0 /\ HashPage[1] = "hashes"
  <1>1. \A o \in FileOption : Given(o) => FileOf(o) \in File
    BY DEF TypeInv, Options, Given, FileOf, Name
  <1>6. {"hashes", "zeros", "empty", "content", "part", "content with zero"} \in SUBSET Word
        /\ File \in SUBSET Word BY DEF Word
  <1>2. \A f \in File : FileHash(f) \in Seq(Word) BY <1>6, Singles, Zenon DEF FileHash
  <1>3. CmdlineHash \in Seq(Word)
    <2>1. "cmdline" \in FileOption BY DEF FileOption
    <2>2. CASE Given("cmdline") BY <1>1, <1>6, <2>1, <2>2, Singles, Zenon DEF CmdlineHash
    <2>3. CASE ~Given("cmdline") BY <1>6, <2>3, Singles, Zenon DEF CmdlineHash, Nothing
    <2> QED BY <2>2, <2>3
  <1>4. InitrdHash \in Seq(Word)
    <2>1. "initrd" \in FileOption BY DEF FileOption
    <2>2. Nothing \in Seq(Word) BY <1>6, Singles, Zenon DEF Nothing
    <2> QED BY <1>1, <1>2, <2>1, <2>2 DEF InitrdHash
  <1>5. FileHash(FileOf("kernel")) \in Seq(Word)
    <2>1. "kernel" \in FileOption BY DEF FileOption
    <2> QED BY <1>1, <1>2, <2>1
  <1>7. "hashes" \in Word BY <1>6
  <1>8. ASSUME NEW a \in Seq(Word), NEW b \in Seq(Word), NEW c \in Seq(Word)
        PROVE  HashTable(a, b, c) \in Seq(Word) /\ Len(HashTable(a, b, c)) # 0
               /\ HashTable(a, b, c)[1] = "hashes"
    <2> DEFINE T == Word
    <2>1. "hashes" \in T /\ a \in Seq(T) /\ b \in Seq(T) /\ c \in Seq(T) BY <1>7, <1>8
    <2> HIDE DEF T
    <2>2. \A x \in T : /\ <<x>> \o a \o b \o c \in Seq(T) /\ Len(<<x>> \o a \o b \o c) # 0
                       /\ (<<x>> \o a \o b \o c)[1] = x BY <2>1, JoinedTable
    <2>3. /\ <<"hashes">> \o a \o b \o c \in Seq(T) /\ Len(<<"hashes">> \o a \o b \o c) # 0
          /\ (<<"hashes">> \o a \o b \o c)[1] = "hashes" BY <2>1, <2>2, Zenon
    <2> QED BY <2>3, Zenon DEF HashTable, T
  <1> QED BY <1>3, <1>4, <1>5, <1>8, Zenon DEF HashPage

LEMMA HashesFit ==
  ASSUME TypeInv, ControlInv, Given("kernel"), pc \in Hashing
  PROVE  PageOf(hashes, "normal", Low(\h10)) \in Page /\ Fits(PageOf(hashes, "normal", Low(\h10)))
  <1>1. hashes \in Seq(Word) /\ hashes[1] = "hashes" BY HashPageType DEF ControlInv
  <1>2. Low(\h10) \in Nat /\ Low(\h10) < Top BY LowBelowTop
  <1>3. "hashes" \in Source /\ "normal" \in PageType /\ "normal" # "vmsa"
    BY DEF Source, PageType
  <1> QED BY <1>1, <1>2, <1>3 DEF PageOf, Page, Fits

\* A page that fits is hashed.
Hashes(page) == page \in Page /\ Fits(page) /\ info' = Append(info, page)

\* gpa is below the end of low memory in the loops, and before it comes to an
\* end that of the image is below 4 GiB.
LEMMA GpaBelow ==
  ASSUME TypeInv, LoopInv
  PROVE  /\ pc \in {"sec memory", "ghcb", "temp ram"} => gpa < Top /\ gpa \in Low(0) .. Low(\h20)
         /\ Given("ovmf") /\ gpa < OvmfSize => Top - OvmfSize + gpa \in Nat /\ Top - OvmfSize + gpa < Top
  <1>1. PICK n \in 0 .. Frames : PlaceInv(n) BY DEF LoopInv
  <1>2. ASSUME n \in 0 .. \h20 PROVE Low(n) \in Low(0) .. Low(\h20) /\ Low(n) < Top
    <2>1. n \in 0 .. \h20 BY <1>2
    <2> QED BY <2>1, LowBelowTop
  <1>3. pc \in {"sec memory", "ghcb", "temp ram"} => gpa = Low(n) /\ n \in 0 .. \h20
    <2>1. (n \in 0 .. 9 \/ n \in \hA .. \hD \/ n \in \hF .. \h20) => n \in 0 .. \h20 OBVIOUS
    <2>2. pc \in {"sec memory", "ghcb", "temp ram"} =>
            gpa = Low(n) /\ (n \in 0 .. 9 \/ n \in \hA .. \hD \/ n \in \hF .. \h20)
      BY <1>1, Zenon DEF PlaceInv
    <2> QED BY <2>1, <2>2, Zenon
  <1>4. Given("ovmf") => OvmfSize \in 0 .. Top BY ImageSize
  <1>5. gpa \in Nat BY DEF TypeInv
  <1>6. Given("ovmf") /\ gpa < OvmfSize => Top - OvmfSize + gpa \in Nat /\ Top - OvmfSize + gpa < Top
    BY <1>4, <1>5, Constants
  <1> QED BY <1>2, <1>3, <1>6, Zenon

LEMMA StepInfo ==
  ASSUME LaunchInv, [Next]_vars
  PROVE  info' = info \/ \E page : Hashes(page)
  <1>1. TypeInv /\ ControlInv /\ LoopInv BY DEF LaunchInv
  <1>2. ASSUME NEW a \in Nat, a < Low(\h20), NEW type \in {"zero", "secrets", "cpuid"},
               Update(PageOf(Blank, type, a))
        PROVE  \E page : Hashes(page)
    <2>1. a < Top
      <3>1. \h20 \in 0 .. \h20 OBVIOUS
      <3>2. Low(\h20) \in Nat /\ Low(\h20) < Top BY <3>1, LowBelowTop
      <3> QED BY <1>2, <3>2, Constants
    <2>2. type \in PageType \ {"vmsa"} BY <1>2 DEF PageType
    <2> QED BY <1>2, <2>1, <2>2, BlankFits, Zenon DEF Update, Hashes
  <1>3. ASSUME NEW n \in 0 .. \h1F, NEW type \in {"zero", "secrets", "cpuid"},
               Update(PageOf(Blank, type, Low(n)))
        PROVE  \E page : Hashes(page) BY <1>2, <1>3, LowOrder
  <1>4. ASSUME NEW label, NEW last \in 0 .. \h20, NEW next, NEW start, ZeroPages(label, last, next, start)
        PROVE  info' = info \/ \E page : Hashes(page)
    <2>1. CASE gpa < Low(last)
      <3>1. gpa \in Nat /\ gpa < Low(\h20)
        <4>1. gpa \in Nat BY <1>1 DEF TypeInv
        <4>2. last \in Nat /\ last <= \h20 OBVIOUS
        <4>3. Low(last) <= Low(\h20) /\ Low(last) \in Nat /\ Low(\h20) \in Nat
          BY <4>2, LowOrder
        <4> QED BY <2>1, <4>1, <4>3
      <3>2. Update(PageOf(Blank, "zero", gpa)) BY <1>4, <2>1 DEF ZeroPages
      <3> QED BY <1>2, <3>1, <3>2
    <2>2. CASE ~(gpa < Low(last)) BY <1>4, <2>2 DEF ZeroPages, Skip
    <2> QED BY <2>1, <2>2
  <1>5. CASE Main \/ UNCHANGED vars
    BY <1>5 DEF Main, ParseFile, ParseVcpus, ParseVmm, ParseVerbose, ParseRefused, ParseEnd, Validate,
                Publish, Parsed, Exit, Skip, vars
  <1>6. CASE ReadOvmf \/ ReadCmdline
    BY <1>6 DEF ReadOvmf, ReadCmdline, ReadFile, Abandon, Exit, Crash, Skip
  <1>7. CASE HashFiles \/ MeasureBeyond \/ ImageDone \/ OutOfMemory
    BY <1>7 DEF HashFiles, MeasureBeyond, ImageDone, OutOfMemory, Crash, Skip
  <1>8. CASE MeasureImage
    <2>1. Given("ovmf") /\ gpa < OvmfSize
      BY <1>1, <1>8 DEF MeasureImage, ControlInv, Hashing, HashingMemory
    <2>2. FileOf("ovmf") \in File /\ gpa \in Nat BY <1>1, <2>1, ImageSize DEF TypeInv
    <2>3. Top - OvmfSize + gpa \in Nat /\ Top - OvmfSize + gpa < Top BY <1>1, <2>1, GpaBelow
    <2>4. \E source \in {"image", "beyond"} :
            Update(PageOf(<<source, FileOf("ovmf"), gpa>>, "normal", Top - OvmfSize + gpa))
      BY <1>8, Zenon DEF MeasureImage
    <2> QED BY <2>2, <2>3, <2>4, ImageFits DEF Update, Hashes
  <1>9. CASE SecMemory \/ Ghcb \/ TempRam
    <2>1. 9 \in 0 .. \h20 /\ \hD \in 0 .. \h20 /\ \h20 \in 0 .. \h20 OBVIOUS
    <2> QED BY <1>4, <1>9, <2>1, Zenon DEF SecMemory, Ghcb, TempRam
  <1>10. CASE Secrets \/ Svsm
    <2>1. \hD \in 0 .. \h1F /\ \hF \in 0 .. \h1F OBVIOUS
    <2> QED BY <1>3, <1>10, <2>1, Zenon DEF Secrets, Svsm
  <1>11. CASE Cpuid \/ LastCpuid
    <2>1. Update(CpuidPage) \/ Skip BY <1>11, Zenon DEF Cpuid, LastCpuid
    <2> QED BY <1>3, <2>1 DEF CpuidPage, Skip
  <1>12. CASE KernelHashes
    <2>1. Given("kernel") /\ pc \in Hashing
      BY <1>1, <1>12 DEF KernelHashes, ControlInv, Hashing, HashingMemory
    <2> QED BY <1>1, <1>12, <2>1, HashesFit DEF KernelHashes, Update, Hashes
  <1>13. CASE BootVcpu \/ OtherVcpus
    <2>1. Skip \/ \E eip \in {ResetVector, ApVector} : Update(VmsaPage(eip))
      BY <1>13, Zenon DEF BootVcpu, OtherVcpus
    <2> QED BY <2>1, VmsaFits DEF Update, Hashes, Skip
  <1>14. CASE Terminated BY <1>14 DEF Terminated, vars
  <1> QED BY <1>5, <1>6, <1>7, <1>8, <1>9, <1>10, <1>11, <1>12, <1>13, <1>14, Zenon DEF Next, CalculateMr

-----------------------------------------------------------------------------
(* The other variables *)

LEMMA StepFrame ==
  ASSUME CalculateMr
  PROVE  UNCHANGED environment
  <1>1. CASE ReadOvmf \/ ReadCmdline
    BY <1>1, Zenon DEF ReadOvmf, ReadCmdline, ReadFile, Abandon, Exit, Crash, Skip
  <1>2. CASE HashFiles \/ MeasureImage \/ MeasureBeyond \/ ImageDone \/ OutOfMemory
    BY <1>2, Zenon DEF HashFiles, MeasureImage, MeasureBeyond, ImageDone, OutOfMemory, Crash, Skip, Update
  <1>3. CASE SecMemory \/ Ghcb \/ TempRam
    BY <1>3, Zenon DEF SecMemory, Ghcb, TempRam, ZeroPages, Skip, Update
  <1>4. CASE Secrets \/ Cpuid \/ Svsm \/ KernelHashes \/ LastCpuid \/ BootVcpu \/ OtherVcpus
    BY <1>4, Zenon DEF Secrets, Cpuid, Svsm, KernelHashes, LastCpuid, BootVcpu, OtherVcpus, Skip, Update
  <1> QED BY <1>1, <1>2, <1>3, <1>4, Zenon DEF CalculateMr

LEMMA StepInfoType ==
  ASSUME LaunchInv, [Next]_vars
  PROVE  /\ info' \in Seq(Page) /\ PagesInv'
         /\ \A k \in 1 .. Len(info) : k \in 1 .. Len(info') /\ info'[k] = info[k]
  <1>1. info \in Seq(Page) /\ PagesInv BY DEF LaunchInv, TypeInv
  <1>2. CASE info' = info BY <1>1, <1>2 DEF PagesInv
  <1>3. ASSUME NEW page, Hashes(page)
        PROVE  /\ info' \in Seq(Page) /\ PagesInv'
               /\ \A k \in 1 .. Len(info) : k \in 1 .. Len(info') /\ info'[k] = info[k]
    <2>1. page \in Page /\ Fits(page) /\ info' = Append(info, page) BY <1>3 DEF Hashes
    <2>2. info' \in Seq(Page) /\ Len(info') = Len(info) + 1 /\ Len(info) \in Nat
          /\ info'[Len(info) + 1] = page /\ \A k \in 1 .. Len(info) : info'[k] = info[k]
      BY <1>1, <2>1
    <2>3. \A k \in 1 .. Len(info') : k \in 1 .. Len(info) \/ k = Len(info) + 1 BY <2>2
    <2>4. \A k \in 1 .. Len(info') : Fits(info'[k])
      BY <1>1, <2>1, <2>2, <2>3, Zenon DEF PagesInv
    <2>5. PagesInv' BY <2>4 DEF PagesInv, Fits
    <2> QED BY <2>2, <2>5
  <1> QED BY <1>2, <1>3, StepInfo, Zenon

LEMMA ArgumentType ==
  ASSUME NEW a \in Argument
  PROVE  /\ a.opt \in FileOption => a.val \in File
         /\ a.opt = "vcpus" => a.val \in Int BY DEF Argument, FileOption

LEMMA StepOpts ==
  ASSUME LaunchInv, Main
  PROVE  argv' \in Seq(Argument) /\ opts' \in Options /\ opts'.vcpus # 0 /\ fs' = fs /\ short' = short
  <1>1. argv \in Seq(Argument) /\ opts \in Options /\ opts.vcpus # 0
    BY DEF LaunchInv, TypeInv
  <1>2. CASE UNCHANGED environment BY <1>1, <1>2 DEF environment
  <1>3. ASSUME Parsing PROVE Tail(argv) \in Seq(Argument) /\ NextArg \in Argument
    BY <1>1, <1>3 DEF Parsing, NextArg
  <1>4. CASE ParseFile
    <2>1. NextArg.opt \in FileOption /\ NextArg.val \in File
      BY <1>3, <1>4, ArgumentType DEF ParseFile
    <2>2. [opts EXCEPT !.file[NextArg.opt] = NextArg.val] \in Options
      BY <1>1, <2>1 DEF Options, Name
    <2>3. [opts EXCEPT !.file[NextArg.opt] = NextArg.val].vcpus = opts.vcpus
      BY <1>1 DEF Options
    <2> QED BY <1>1, <1>3, <1>4, <2>2, <2>3, Zenon DEF ParseFile, Parsed
  <1>5. CASE ParseVcpus
    <2>1. NextArg.val \in Nat \ {0} BY <1>3, <1>5, ArgumentType DEF ParseVcpus
    <2>2. [opts EXCEPT !.vcpus = NextArg.val] \in Options /\ [opts EXCEPT !.vcpus = NextArg.val].vcpus # 0
      BY <1>1, <2>1 DEF Options
    <2> QED BY <1>1, <1>3, <1>5, <2>2, Zenon DEF ParseVcpus, Parsed
  <1>6. CASE ParseVmm
    <2>1. NextArg.val \in {"qemu", "ec2"} BY <1>6 DEF ParseVmm
    <2>2. [opts EXCEPT !.vmm = NextArg.val] \in Options /\ [opts EXCEPT !.vmm = NextArg.val].vcpus = opts.vcpus
      BY <1>1, <2>1 DEF Options
    <2> QED BY <1>1, <1>3, <1>6, <2>2, Zenon DEF ParseVmm, Parsed
  <1>7. CASE ParseVerbose BY <1>1, <1>3, <1>7, Zenon DEF ParseVerbose, Parsed
  <1>8. CASE ParseRefused \/ ParseEnd \/ Validate \/ Publish
    BY <1>2, <1>8, Zenon DEF ParseRefused, ParseEnd, Validate, Publish, Exit, Skip
  <1> QED BY <1>4, <1>5, <1>6, <1>7, <1>8, Zenon DEF Main

LEMMA StepGpa ==
  ASSUME LaunchInv, [Next]_vars
  PROVE  gpa' \in Nat
  <1>1. gpa \in Nat /\ PageSize \in Nat BY Constants DEF LaunchInv, TypeInv
  <1>2. gpa + PageSize \in Nat /\ gpa + 1 \in Nat /\ 0 \in Nat /\ 1 \in Nat BY <1>1
  <1>3. Low(0) \in Nat /\ Low(\hA) \in Nat /\ Low(\hF) \in Nat /\ Low(\h11) \in Nat
    BY LowOrder
  <1>4. CASE Main \/ UNCHANGED vars
    BY <1>1, <1>2, <1>4, Zenon
       DEF Main, ParseFile, ParseVcpus, ParseVmm, ParseVerbose, ParseRefused, ParseEnd, Validate, Publish,
           Parsed, Exit, Skip, Goto, vars
  <1>5. CASE ReadOvmf \/ ReadCmdline
    BY <1>1, <1>2, <1>5, Zenon DEF ReadOvmf, ReadCmdline, ReadFile, Abandon, Exit, Crash, Skip, Goto
  <1>6. CASE HashFiles \/ MeasureImage \/ MeasureBeyond \/ ImageDone \/ OutOfMemory
    BY <1>1, <1>2, <1>3, <1>6, Zenon
       DEF HashFiles, MeasureImage, MeasureBeyond, ImageDone, OutOfMemory, Crash, Goto
  <1>7. CASE SecMemory \/ Ghcb \/ TempRam
    BY <1>2, <1>3, <1>7, Zenon DEF SecMemory, Ghcb, TempRam, ZeroPages, Goto
  <1>8. CASE Secrets \/ Cpuid \/ Svsm \/ KernelHashes \/ LastCpuid \/ BootVcpu \/ OtherVcpus
    BY <1>2, <1>3, <1>8, Zenon DEF Secrets, Cpuid, Svsm, KernelHashes, LastCpuid, BootVcpu, OtherVcpus, Goto
  <1>9. CASE Terminated BY <1>1, <1>9, Zenon DEF Terminated, vars
  <1> QED BY <1>4, <1>5, <1>6, <1>7, <1>8, <1>9, Zenon DEF Next, CalculateMr

\* The reference depends on the options and the files only.
LEMMA SameReference ==
  ASSUME UNCHANGED <<opts, fs>>
  PROVE  /\ LaunchReference' = LaunchReference /\ Unnoticed' = Unnoticed /\ Images' = Images
         /\ OvmfSize' = OvmfSize /\ HashPage' = HashPage
         /\ \A o \in FileOption : Given(o)' = Given(o) /\ Unread(o)' = Unread(o)
         /\ \A m \in Nat : Late(m)' = Late(m)
  <1>1. \A o \in FileOption : Given(o)' = Given(o) /\ FileOf(o)' = FileOf(o) /\ Unread(o)' = Unread(o)
    BY DEF Given, FileOf, Unread
  <1>2. "ovmf" \in FileOption /\ "kernel" \in FileOption /\ "initrd" \in FileOption /\ "cmdline" \in FileOption
    BY DEF FileOption
  <1>3. OvmfSize' = OvmfSize /\ Images' = Images BY <1>1, <1>2 DEF OvmfSize, Images
  <1>4. Unnoticed' = Unnoticed BY <1>1, <1>2, <1>3, Zenon DEF Unnoticed
  <1>5. HashPage' = HashPage
    <2>1. FileHash(FileOf("kernel"))' = FileHash(FileOf("kernel")) BY DEF FileHash, FileOf
    <2>2. CmdlineHash' = CmdlineHash BY DEF CmdlineHash, FileOf, Given
    <2>3. InitrdHash' = InitrdHash BY DEF InitrdHash, FileHash, FileOf, Given
    <2> QED BY <2>1, <2>2, <2>3, Zenon DEF HashPage
  <1>6. ImagePages' = ImagePages BY <1>1, <1>2, <1>3 DEF ImagePages
  <1>7. LowMemory' = LowMemory
    <2>1. HashesPage' = HashesPage BY DEF HashesPage, Given, FileOf
    <2>2. \A n : Reserved(n)' = Reserved(n) BY <1>1, <1>2, <2>1, Zenon DEF Reserved
    <2>3. InOrder(Numbers)' = InOrder(Numbers) /\ InOrder(CpuidLast)' = InOrder(CpuidLast)
      BY <2>2 DEF InOrder
    <2> QED BY <2>3 DEF LowMemory
  <1>8. SaveAreaPages' = SaveAreaPages BY DEF SaveAreaPages
  <1>9. LaunchReference' = LaunchReference BY <1>6, <1>7, <1>8, Zenon DEF LaunchReference
  <1>10. \A m \in Nat : Late(m)' = Late(m) BY DEF Late
  <1> QED BY <1>1, <1>3, <1>4, <1>5, <1>9, <1>10

LEMMA StepControl ==
  ASSUME LaunchInv, [Next]_vars
  PROVE  /\ pc' \in Label /\ ret' \in {-1, 0, 1}
         /\ hashes' \in Seq(Word) /\ Len(hashes') # 0
         /\ ControlInv'
  <1>1. pc \in Label /\ ret \in {-1, 0, 1} /\ hashes \in Seq(Word) /\ Len(hashes) # 0 /\ ControlInv
        /\ (pc # "exited" => out = Unprinted) BY DEF LaunchInv, TypeInv, ControlInv
  <1>2. CASE UNCHANGED vars
    <2>1. UNCHANGED <<opts, fs, pc, hashes, out, ret>> BY <1>2 DEF vars
    <2>2. HashPage' = HashPage BY <2>1, SameReference
    <2> QED BY <1>1, <2>1, <2>2, Zenon DEF ControlInv, Given
  <1>3. ASSUME pc' \in {"parse", "validate", "exited", "crashed"}, hashes' = hashes,
               ret' \in {-1, 0, 1}, pc' # "exited" => out' = Unprinted
        PROVE  pc' \in Label /\ hashes' \in Seq(Word) /\ Len(hashes') # 0 /\ ControlInv'
    BY <1>1, <1>3 DEF ControlInv, Label, Hashing, HashingMemory
  <1>4. ASSUME pc # "exited", UNCHANGED environment, UNCHANGED <<hashes, out>>, pc \in Hashing, pc' \in Hashing,
               pc' \in {"svsm", "kernel hashes"} => Given("kernel")
        PROVE  pc' \in Label /\ hashes' \in Seq(Word) /\ Len(hashes') # 0 /\ ControlInv'
    <2>1. HashPage' = HashPage /\ opts' = opts BY <1>4, SameReference DEF environment
    <2>2. pc' \in Label /\ pc' # "read cmdline" /\ pc' # "exited"
      BY <1>4 DEF Label, Hashing, HashingMemory
    <2> QED BY <1>1, <1>4, <2>1, <2>2, Zenon DEF ControlInv, Given
  <1>5. CASE Main
    <2>1. pc # "exited" /\ -1 \in {-1, 0, 1} /\ 0 \in {-1, 0, 1}
      BY <1>5 DEF Main, ParseFile, ParseVcpus, ParseVmm, ParseVerbose, ParseRefused, ParseEnd, Validate, Publish,
                  Parsing
    <2>2. CASE ParseFile \/ ParseVcpus \/ ParseVmm \/ ParseVerbose \/ ParseEnd
      <3>1. pc' \in {"parse", "validate"} /\ hashes' = hashes /\ out' = out /\ ret' = ret
        BY <2>2 DEF ParseFile, ParseVcpus, ParseVmm, ParseVerbose, ParseEnd, Parsing, Parsed, Skip, Goto
      <3> QED BY <1>1, <1>3, <2>1, <3>1
    <2>3. CASE ParseRefused \/ Publish
      <3>1. pc' = "exited" /\ hashes' = hashes /\ ret' \in {-1, 0, 1}
        BY <2>3 DEF ParseRefused, Publish, Exit
      <3> QED BY <1>3, <3>1
    <2>4. CASE Validate
      <3>1. CASE ~Given("ovmf")
        <4>1. pc' = "exited" /\ hashes' = hashes /\ ret' \in {-1, 0, 1}
          BY <2>4, <3>1 DEF Validate, Exit
        <4> QED BY <1>3, <4>1
      <3>2. CASE Given("ovmf")
        <4>1. pc' = "read ovmf" /\ UNCHANGED <<opts, hashes, out, ret>>
          BY <2>4, <3>2 DEF Validate, Goto, Skip, environment
        <4> QED BY <1>1, <2>1, <3>2, <4>1 DEF ControlInv, Label, Hashing, HashingMemory, Given
      <3> QED BY <3>1, <3>2
    <2> QED BY <1>5, <2>2, <2>3, <2>4, Zenon DEF Main
  <1>6. CASE ReadOvmf \/ ReadCmdline
    <2>1. Given("ovmf") /\ pc # "exited" BY <1>1, <1>6 DEF ReadOvmf, ReadCmdline, ControlInv
    <2>2. \/ UNCHANGED <<opts, hashes, out, ret>>
             /\ (pc' = "hash files" \/ (pc' = "read cmdline" /\ Given("cmdline")))
          \/ pc' = "exited" /\ hashes' = hashes /\ ret' = 0
          \/ pc' = "crashed" /\ UNCHANGED <<hashes, out, ret>>
      BY <1>6 DEF ReadOvmf, ReadCmdline, ReadFile, Abandon, Exit, Crash, Skip, Goto, environment
    <2>3. CASE UNCHANGED <<opts, hashes, out, ret>>
               /\ (pc' = "hash files" \/ (pc' = "read cmdline" /\ Given("cmdline")))
      <3>1. opts' = opts BY <2>3
      <3> QED BY <1>1, <2>1, <2>3, <3>1 DEF ControlInv, Label, Hashing, HashingMemory, Given
    <2> QED BY <1>1, <1>3, <2>1, <2>2, <2>3
  <1>7. CASE HashFiles
    <2>1. /\ UNCHANGED <<opts, fs, out, ret>> /\ pc = "hash files" /\ pc' = "image"
          /\ hashes' = IF Given("kernel") THEN HashPage ELSE hashes
      BY <1>7 DEF HashFiles, Goto, environment
    <2>2. HashPage' = HashPage /\ Given("ovmf") BY <1>1, <2>1, SameReference DEF ControlInv
    <2>3. hashes' \in Seq(Word) /\ Len(hashes') # 0
      BY <1>1, <2>1, HashPageType, Zenon DEF LaunchInv
    <2> QED BY <1>1, <2>1, <2>2, <2>3 DEF ControlInv, Label, Hashing, HashingMemory, Given
  <1>8. CASE MeasureBeyond \/ OutOfMemory
    <2>1. pc' = "crashed" /\ pc # "exited" /\ UNCHANGED <<hashes, out, ret>>
      BY <1>8 DEF MeasureBeyond, OutOfMemory, Crash
    <2> QED BY <1>1, <1>3, <2>1
  <1>9. ASSUME \/ MeasureImage \/ ImageDone \/ SecMemory \/ Ghcb \/ Secrets \/ Cpuid \/ Svsm \/ KernelHashes
               \/ TempRam \/ LastCpuid \/ BootVcpu \/ OtherVcpus
        PROVE  /\ pc # "exited" /\ UNCHANGED <<hashes, out, ret>> /\ pc \in Hashing /\ pc' \in Hashing
               /\ pc' \in {"svsm", "kernel hashes"} => Given("kernel")
    <2>1. CASE MeasureImage \/ ImageDone \/ SecMemory \/ Ghcb \/ TempRam
      BY <2>1 DEF MeasureImage, ImageDone, SecMemory, Ghcb, TempRam, ZeroPages, Update, Skip, Goto, Hashing,
                  HashingMemory
    <2>2. CASE Secrets \/ Cpuid \/ LastCpuid
      BY <2>2 DEF Secrets, Cpuid, LastCpuid, Update, Skip, Goto, Hashing, HashingMemory
    <2>3. CASE Svsm \/ KernelHashes
      <3>1. Given("kernel") BY <1>1, <2>3 DEF Svsm, KernelHashes, ControlInv
      <3> QED BY <2>3, <3>1 DEF Svsm, KernelHashes, Update, Skip, Goto, Hashing, HashingMemory
    <2>4. CASE BootVcpu \/ OtherVcpus
      BY <2>4 DEF BootVcpu, OtherVcpus, Update, Skip, Goto, Hashing, HashingMemory
    <2> QED BY <1>9, <2>1, <2>2, <2>3, <2>4
  <1>10. ASSUME CalculateMr, ~(ReadOvmf \/ ReadCmdline), ~HashFiles, ~(MeasureBeyond \/ OutOfMemory)
         PROVE  ret' \in {-1, 0, 1} /\ pc' \in Label /\ hashes' \in Seq(Word) /\ Len(hashes') # 0 /\ ControlInv'
    <2>1. UNCHANGED environment BY <1>10, StepFrame
    <2>2. /\ pc # "exited" /\ UNCHANGED <<hashes, out, ret>> /\ pc \in Hashing /\ pc' \in Hashing
          /\ pc' \in {"svsm", "kernel hashes"} => Given("kernel")
      BY <1>9, <1>10, Zenon DEF CalculateMr
    <2> QED BY <1>1, <1>4, <2>1, <2>2
  <1>11. Terminated => UNCHANGED vars BY DEF Terminated
  <1> QED BY <1>2, <1>5, <1>6, <1>7, <1>8, <1>10, <1>11, Zenon DEF Next

-----------------------------------------------------------------------------
(* The pages of the guest, one after the other *)

LEMMA DoneNext ==
  ASSUME info \in Seq(Page), NEW m \in Nat, Done(m), LaunchReference' = LaunchReference,
         NEW page, page = LaunchReference[m + 1], info' = Append(info, page)
  PROVE  Done(m + 1)'
  <1>1. page = info'[Len(info) + 1] /\ Len(info') = Len(info) + 1 /\ Len(info) \in Nat
        /\ \A k \in 1 .. Len(info) : info'[k] = info[k] BY SMT
  <1>2. Len(info) = m /\ \A k \in 1 .. m : info[k] = LaunchReference[k] BY DEF Done
  <1>3. \A k \in 1 .. m + 1 : k \in 1 .. m \/ k = m + 1 OBVIOUS
  <1>4. \A k \in 1 .. m + 1 : info'[k] = LaunchReference[k] BY <1>1, <1>2, <1>3, Zenon
  <1> QED BY <1>1, <1>2, <1>4 DEF Done

LEMMA DoneSame ==
  ASSUME NEW m \in Nat, Done(m), LaunchReference' = LaunchReference, info' = info
  PROVE  Done(m)' BY DEF Done

LEMMA DoneStart ==
  ASSUME info = <<>>
  PROVE  Done(0) BY DEF Done

\* The next page of the image, of low memory or of the save areas.
LEMMA ImageNext ==
  ASSUME TypeInv, Given("ovmf"), NEW n \in Nat, n < Images
  PROVE  LaunchReference[n + 1]
           = PageOf(<<"image", FileOf("ovmf"), n * PageSize>>, "normal", Top - OvmfSize + n * PageSize)
  <1>1. Images \in Nat BY ImageSize
  <1>2. n + 1 \in 1 .. Images /\ (n + 1) - 1 = n BY <1>1
  <1>3. LaunchReference[n + 1] = ImagePages[n + 1] BY <1>2, ReferenceParts DEF Joins
  <1>4. ImagePages[n + 1] = PageOf(<<"image", FileOf("ovmf"), ((n + 1) - 1) * PageSize>>, "normal",
                                   Top - OvmfSize + ((n + 1) - 1) * PageSize)
    BY <1>2, Zenon DEF ImagePages, Images
  <1> QED BY <1>2, <1>3, <1>4

LEMMA LowNext ==
  ASSUME TypeInv, Given("ovmf"), NEW n \in 0 .. 31, n # 9, NEW m \in 0 .. 30, PlaceOf(n) = m + 1
  PROVE  Images + m \in Nat /\ LaunchReference[Images + m + 1] = Reserved(n)
  <1>1. PlaceOf(n) \in 1 .. 31 /\ LowMemory[PlaceOf(n)] = Reserved(n) BY ReservedPlace
  <1>2. \A k \in 1 .. 31 : LaunchReference[Images + k] = LowMemory[k]
    BY ReferenceParts DEF Joins
  <1>3. Images \in Nat /\ Images + (m + 1) = Images + m + 1 BY ImageSize
  <1> QED BY <1>1, <1>2, <1>3

LEMMA SaveAreaNext ==
  ASSUME TypeInv, Given("ovmf"), NEW v \in 0 .. opts.vcpus - 1
  PROVE  LaunchReference[Images + 31 + v + 1] = VmsaPage(IF v = 0 THEN ResetVector ELSE ApVector)
  <1>1. opts.vcpus \in Nat /\ Images \in Nat BY ImageSize DEF TypeInv, Options
  <1>2. v + 1 \in 1 .. opts.vcpus /\ Images + 31 + (v + 1) = Images + 31 + v + 1 /\ (v + 1 = 1 <=> v = 0)
    BY <1>1
  <1>3. \A k \in 1 .. opts.vcpus : LaunchReference[Images + 31 + k] = SaveAreaPages[k]
    BY ReferenceParts DEF Joins
  <1>4. SaveAreaPages[v + 1]
          = PageOf(<<"vmsa", Vmsa(IF v + 1 = 1 THEN ResetVector ELSE ApVector, opts.vmm)>>, "vmsa", VmsaGpa)
    BY <1>2, Zenon DEF SaveAreaPages
  <1> QED BY <1>2, <1>3, <1>4, Zenon DEF VmsaPage

LEMMA ReservedPages ==
  /\ \A n \in 0 .. 31 : n \notin {\hD, \hE, \h10} => Reserved(n) = PageOf(Blank, "zero", Low(n))
  /\ ~Given("kernel") => Reserved(\h10) = PageOf(Blank, "zero", Low(\h10))
  /\ Reserved(\hD) = PageOf(Blank, "secrets", Low(\hD))
  /\ Reserved(\hE) = CpuidPage
  /\ Given("kernel") => Reserved(\h10) = HashesPage BY DEF Reserved, Blank, CpuidPage

\* The hashes are those of the files when none of them was lost.
LEMMA HashesAreReference ==
  ASSUME TypeInv, Given("kernel"), ~Unnoticed
  PROVE  PageOf(HashPage, "normal", Low(\h10)) = HashesPage
  <1>1. fs[FileOf("kernel")] = "ok" /\ (Given("initrd") => fs[FileOf("initrd")] = "ok")
    BY DEF Unnoticed, Unread
  <1>2. FileHash(FileOf("kernel")) = <<"content", FileOf("kernel")>> BY <1>1 DEF FileHash
  <1>3. InitrdHash = IF Given("initrd") THEN <<"content", FileOf("initrd")>> ELSE <<"empty">>
    BY <1>1 DEF InitrdHash, FileHash, Nothing
  <1>4. CmdlineHash = IF Given("cmdline") THEN <<"content with zero", FileOf("cmdline")>> ELSE <<"empty">>
    BY DEF CmdlineHash, Nothing
  <1> QED BY <1>2, <1>3, <1>4, Zenon DEF HashPage, HashTable, HashesPage

\* From the page n to the page m: nothing is hashed and the same pages of the
\* guest are done, or the next one is hashed.
LEMMA Advance ==
  ASSUME info \in Seq(Page), UNCHANGED <<opts, fs>>, pc \in Hashing, pc' \in Hashing,
         NEW n \in 0 .. Frames, ProgressInv(n), NEW m \in 0 .. Frames, PlaceInv(m)',
         ~Unnoticed => /\ Count(n) \in Nat /\ (pc' = "image" => m <= Images)
                       /\ \/ info' = info /\ Count(m)' = Count(n)
                          \/ info' = Append(info, LaunchReference[Count(n) + 1]) /\ Count(m)' = Count(n) + 1
  PROVE  LoopInv'
  <1>1. LaunchReference' = LaunchReference /\ Images' = Images /\ Unnoticed' = Unnoticed
    BY SameReference
  <1>2. pc' \notin Starting BY DEF Hashing, HashingMemory, Starting
  <1>3. ASSUME ~Unnoticed PROVE Done(Count(m))' /\ (pc' = "image" => m <= Images)
    <2>1. Done(Count(n)) /\ Count(n) \in Nat BY <1>3 DEF ProgressInv
    <2>2. CASE info' = info /\ Count(m)' = Count(n)
      <3>1. Done(Count(n)) => \A c : c = Count(n) => Done(c)' BY <1>1, <2>2 DEF Done
      <3> QED BY <1>3, <2>1, <2>2, <3>1 DEF Done
    <2>3. CASE info' = Append(info, LaunchReference[Count(n) + 1]) /\ Count(m)' = Count(n) + 1
      <3>1. \A c \in Nat : Done(c) /\ info' = Append(info, LaunchReference[c + 1]) => Done(c + 1)'
        BY <1>1, DoneNext
      <3>2. PICK c \in Nat : c = Count(n) BY <2>1
      <3>3. Done(c + 1)' /\ Count(m)' = c + 1 BY <2>1, <2>3, <3>1, <3>2
      <3> QED BY <1>3, <3>3 DEF Done
    <2> QED BY <1>3, <2>2, <2>3
  <1>4. ProgressInv(m)' BY <1>1, <1>2, <1>3, Zenon DEF ProgressInv
  <1> QED BY <1>4 DEF LoopInv

LEMMA LateType ==
  ASSUME NEW m \in Int
  PROVE  Late(m) \in {m, m - 1} /\ Late(m - 1) = Late(m) - 1 /\ Late(m + 1) = Late(m) + 1
  BY DEF Late

CountIs(n) ==
  /\ pc = "image" => Count(n) = n
  /\ pc = "sec memory" => Count(n) = Images + n
  /\ pc = "ghcb" => Count(n) = Images + (n - 1)
  /\ pc = "secrets" => Count(n) = Images + 12
  /\ pc = "cpuid" => Count(n) = Images + 13
  /\ pc = "svsm" => Count(n) = Images + Late(14)
  /\ pc = "kernel hashes" => Count(n) = Images + Late(15)
  /\ pc = "temp ram" => Count(n) = Images + Late(n - 1)
  /\ pc = "last cpuid" => Count(n) = Images + Late(31)
  /\ pc = "boot vcpu" => Count(n) = Images + 31
  /\ pc = "other vcpus" => Count(n) = Images + 31 + gpa
  /\ pc = "publish" => Count(n) = Images + 31 + opts.vcpus

LEMMA CountAt == \A n : CountIs(n)
  BY DEF CountIs, Count

LEMMA CountAfter == (\A n : CountIs(n))'
  BY CountAt, PTL

LEMMA SmallFrames ==
  ASSUME NEW m \in 0 .. 32
  PROVE  m \in 0 .. Frames
  <1>1. 32 < Frames /\ Frames \in Nat BY SMT DEF Frames
  <1> QED BY <1>1

\* A loop is below its last page if its number is.
LEMMA LoopBelow ==
  ASSUME NEW n \in Nat, NEW last \in Nat, gpa = Low(n)
  PROVE  gpa < Low(last) <=> n < last BY LowOrder

LEMMA StepLoop ==
  ASSUME LaunchInv, [Next]_vars
  PROVE  LoopInv'
  <1>1. TypeInv /\ ControlInv /\ LoopInv /\ info \in Seq(Page) BY DEF LaunchInv, TypeInv
  <1>2. PICK n \in 0 .. Frames : PlaceInv(n) /\ ProgressInv(n) BY <1>1 DEF LoopInv
  <1>3. ASSUME pc' \notin Hashing, pc' \in Starting => info' = <<>>
        PROVE  LoopInv'
    <2>1. ProgressInv(0)' /\ 0 \in 0 .. Frames BY <1>3, Constants DEF ProgressInv
    <2>2. PlaceInv(0)' BY <1>3 DEF PlaceInv, Hashing, HashingMemory
    <2> QED BY <2>1, <2>2 DEF LoopInv
  <1>4. CASE UNCHANGED vars
    <2>1. UNCHANGED <<opts, fs, pc, gpa, info>> BY <1>4 DEF vars
    <2>2. LaunchReference' = LaunchReference /\ Images' = Images /\ Unnoticed' = Unnoticed
      BY <2>1, SameReference
    <2>3. PlaceInv(n)'
      <3>1. (Given("kernel"))' = Given("kernel") /\ \A m : Low(m)' = Low(m)
        BY <2>1 DEF Given, Low
      <3> QED BY <1>2, <2>1, <3>1, Zenon DEF PlaceInv
    <2>4. Count(n)' = Count(n) BY <2>1, <2>2 DEF Count, Late
    <2>5. ProgressInv(n)' BY <1>2, <2>1, <2>2, <2>4 DEF ProgressInv, Done
    <2> QED BY <2>3, <2>5 DEF LoopInv
  <1>5. CASE Main
    <2>1. pc' \notin Hashing /\ (pc' \in Starting => pc \in Starting /\ info' = info)
      BY <1>5 DEF Main, ParseFile, ParseVcpus, ParseVmm, ParseVerbose, ParseRefused, ParseEnd, Validate, Publish,
                  Parsing, Parsed, Exit, Goto, Skip, Hashing, HashingMemory, Starting
    <2> QED BY <1>2, <1>3, <2>1 DEF ProgressInv
  <1>6. CASE ReadOvmf \/ ReadCmdline
    <2>1. pc' \notin Hashing /\ (pc' \in Starting => pc \in Starting /\ info' = info)
      BY <1>6 DEF ReadOvmf, ReadCmdline, ReadFile, Abandon, Exit, Crash, Goto, Skip, Hashing, HashingMemory, Starting
    <2> QED BY <1>2, <1>3, <2>1 DEF ProgressInv
  <1>7. CASE MeasureBeyond \/ OutOfMemory
    <2>1. pc' \notin Hashing /\ pc' \notin Starting
      BY <1>7 DEF MeasureBeyond, OutOfMemory, Crash, Hashing, HashingMemory, Starting
    <2> QED BY <1>3, <2>1
  <1>8. CASE HashFiles
    <2>1. /\ pc = "hash files" /\ pc' = "image" /\ gpa' = 0 /\ info' = info /\ UNCHANGED <<opts, fs>>
      BY <1>8 DEF HashFiles, Goto, environment
    <2>2. info' = <<>> /\ Given("ovmf") /\ 0 * PageSize = 0
      <3>1. info = <<>> BY <1>2, <2>1 DEF ProgressInv, Starting
      <3>2. Given("ovmf") BY <1>1, <2>1 DEF ControlInv
      <3>3. 0 * PageSize = 0 BY Constants
      <3> QED BY <2>1, <3>1, <3>2, <3>3
    <2>3. PlaceInv(0)' BY <2>1, <2>2 DEF PlaceInv
    <2>4. Images \in Nat /\ Images' = Images BY <1>1, <2>1, <2>2, ImageSize, SameReference
    <2>5. Count(0)' = 0 BY <2>1, CountAfter DEF CountIs
    <2>6. ProgressInv(0)'
      <3>1. Done(Count(0))' BY <2>2, <2>5 DEF Done
      <3>2. pc' \notin Starting BY <2>1 DEF Starting
      <3>3. 0 <= Images' BY <2>4
      <3> QED BY <3>1, <3>2, <3>3, Zenon DEF ProgressInv
    <2>7. 0 \in 0 .. Frames BY Constants
    <2> QED BY <2>3, <2>6, <2>7 DEF LoopInv
  <1>9. ASSUME CalculateMr PROVE UNCHANGED <<opts, fs>> BY <1>9, StepFrame DEF environment
  <1>10. pc \in Hashing => Given("ovmf") /\ Images \in Nat /\ OvmfSize \in 0 .. Top
    BY <1>1, ImageSize DEF ControlInv
  <1>11. \A m \in 0 .. 32 : m \in 0 .. Frames BY SmallFrames
  <1>12. opts.vmm \in {"qemu", "ec2"} /\ opts.vcpus \in Nat \ {0}
    BY <1>1 DEF TypeInv, Options
  <1>30. n \in Nat BY Constants
  <1>31. 0 \in 0 .. 32 /\ \hA \in 0 .. 32 /\ \hF \in 0 .. 32 /\ \h11 \in 0 .. 32 OBVIOUS
  <1> DEFINE Moves(m) == info' = info /\ Count(m)' = Count(n)
             Adds(m) == info' = Append(info, LaunchReference[Count(n) + 1]) /\ Count(m)' = Count(n) + 1
  <1>13. CASE MeasureImage
    <2>1. pc = "image" /\ pc' = "image" /\ gpa' = gpa + PageSize /\ UNCHANGED <<opts, fs>> /\ gpa < OvmfSize
      BY <1>9, <1>13 DEF MeasureImage, Goto, CalculateMr
    <2>2. Given("ovmf") /\ Images \in Nat /\ OvmfSize \in 0 .. Top /\ gpa = n * PageSize /\ n \in Nat
      <3>1. gpa = n * PageSize BY <1>2, <2>1 DEF PlaceInv
      <3>2. pc \in Hashing BY <2>1 DEF Hashing, HashingMemory
      <3> QED BY <1>10, <3>1, <3>2
    <2>3. n < Frames /\ n + 1 \in 0 .. Frames
      <3>1. n * PageSize < Frames * PageSize BY <2>1, <2>2, Constants
      <3> QED BY <2>2, <3>1, Constants, TimesOrder
    <2>4. gpa' = (n + 1) * PageSize BY <2>1, <2>2, Constants
    <2>5. PlaceInv(n + 1)' BY <2>1, <2>4 DEF PlaceInv
    <2>6. ASSUME ~Unnoticed PROVE Count(n) \in Nat /\ n + 1 <= Images /\ Adds(n + 1)
      <3>1. OvmfSize = Images * PageSize BY <1>1, <2>2, <2>6, ImageSize DEF Unnoticed
      <3>2. n < Images
        <4>1. n * PageSize < Images * PageSize BY <2>1, <2>2, <3>1
        <4> QED BY <2>2, <4>1, Constants, TimesOrder
      <3>3. Count(n) = n /\ Count(n + 1)' = n + 1 BY <2>1, CountAt, CountAfter DEF CountIs
      <3>4. gpa + PageSize <= OvmfSize
        <4>1. n + 1 <= Images /\ ~(Images < n + 1) BY <2>2, <3>2
        <4>2. ~(Images * PageSize < (n + 1) * PageSize) BY <2>2, <4>1, Constants, TimesOrder
        <4>3. gpa + PageSize = (n + 1) * PageSize /\ gpa + PageSize \in Nat
          BY <2>2, Constants
        <4> QED BY <2>2, <3>1, <4>2, <4>3
      <3>5. info' = Append(info, PageOf(<<"image", FileOf("ovmf"), gpa>>, "normal", Top - OvmfSize + gpa))
        <4>1. ~(gpa + PageSize > OvmfSize) BY <2>2, <3>4, Constants
        <4> QED BY <1>13, <4>1, Zenon DEF MeasureImage, Update
      <3>6. LaunchReference[n + 1]
              = PageOf(<<"image", FileOf("ovmf"), n * PageSize>>, "normal", Top - OvmfSize + n * PageSize)
        BY <1>1, <2>2, <3>2, ImageNext
      <3> QED BY <2>2, <3>2, <3>3, <3>5, <3>6
    <2>7. pc \in Hashing /\ pc' \in Hashing BY <2>1 DEF Hashing, HashingMemory
    <2> QED BY <1>1, <1>2, <2>1, <2>3, <2>5, <2>6, <2>7, Advance
  <1>14. CASE ImageDone
    <2>1. /\ pc = "image" /\ pc' = "sec memory" /\ gpa' = Low(0) /\ info' = info /\ UNCHANGED <<opts, fs>>
          /\ gpa >= OvmfSize BY <1>14 DEF ImageDone, Goto, Skip, environment
    <2>2. Given("ovmf") /\ Images \in Nat /\ OvmfSize \in 0 .. Top /\ gpa = n * PageSize /\ n \in Nat
      <3>1. gpa = n * PageSize BY <1>2, <2>1 DEF PlaceInv
      <3>2. pc \in Hashing BY <2>1 DEF Hashing, HashingMemory
      <3> QED BY <1>10, <3>1, <3>2
    <2>3. 0 \in 0 .. 9 /\ 0 \in 0 .. 32 OBVIOUS
    <2>4. PlaceInv(0)' BY <2>1, <2>3 DEF PlaceInv, Low
    <2>5. ASSUME ~Unnoticed PROVE Count(n) \in Nat /\ Moves(0)
      <3>1. OvmfSize = Images * PageSize BY <1>1, <2>2, <2>5, ImageSize DEF Unnoticed
      <3>2. n <= Images BY <1>2, <2>1, <2>5 DEF ProgressInv, Hashing, HashingMemory
      <3>3. ~(n < Images)
        <4>1. ~(n * PageSize < Images * PageSize)
          <5>1. ~(gpa < OvmfSize)
            <6>1. gpa \in Nat /\ gpa >= OvmfSize BY <1>1, <2>1 DEF TypeInv
            <6> QED BY <2>2, <6>1, Constants
          <5> QED BY <2>2, <3>1, <5>1, Zenon
        <4> QED BY <2>2, <4>1, Constants, TimesOrder
      <3>4. n = Images BY <2>2, <3>2, <3>3
      <3>5. Images' = Images BY <2>1, SameReference
      <3>6. Count(n) = n /\ Count(0)' = Images + 0
        BY <2>1, <3>5, CountAt, CountAfter DEF CountIs
      <3>7. Images + 0 = n BY <2>2, <3>4
      <3> QED BY <2>1, <2>2, <3>6, <3>7, Zenon
    <2>6. pc \in Hashing /\ pc' \in Hashing /\ pc' # "image"
      BY <2>1 DEF Hashing, HashingMemory
    <2> QED BY <1>1, <1>2, <1>11, <2>1, <2>3, <2>4, <2>5, <2>6, Advance
  <1>15. CASE SecMemory
    <2>1. pc = "sec memory" /\ gpa = Low(n) /\ n \in 0 .. 9 /\ UNCHANGED <<opts, fs>>
      <3>1. pc = "sec memory" BY <1>15 DEF SecMemory, ZeroPages
      <3> QED BY <1>2, <1>9, <1>15, <3>1, Zenon DEF PlaceInv, CalculateMr
    <2>6. 9 \in Nat OBVIOUS
    <2>7. gpa < Low(9) <=> n < 9 BY <1>30, <2>1, <2>6, LoopBelow, Zenon
    <2>2. pc \in Hashing /\ Images \in Nat /\ Images' = Images /\ Given("ovmf")
      BY <1>10, <2>1, SameReference DEF Hashing, HashingMemory
    <2>3. Count(n) = Images + n /\ Count(n) \in Nat
      <3>1. Count(n) = Images + n BY <2>1, CountAt DEF CountIs
      <3> QED BY <1>30, <2>2, <3>1
    <2>4. CASE gpa < Low(9)
      <3>1. n \in 0 .. 8 /\ n + 1 \in 0 .. 9 /\ n + 1 \in 0 .. 32 BY <1>30, <2>4, <2>7
      <3>2. info' = Append(info, PageOf(Blank, "zero", Low(n))) /\ pc' = "sec memory" /\ gpa' = Low(n) + PageSize
        BY <1>15, <2>1, <2>4 DEF SecMemory, ZeroPages, Update, Goto
      <3>3. gpa' = Low(n + 1)
        <4>1. n \in Nat BY <3>1
        <4> QED BY <3>2, <4>1, LowOrder
      <3>4. PlaceInv(n + 1)'
        <4>1. gpa' = Low(n + 1)' BY <3>3 DEF Low
        <4> QED BY <3>1, <3>2, <4>1, Zenon DEF PlaceInv
      <3>5. Count(n + 1)' = Count(n) + 1
        <4>1. Count(n + 1)' = Images' + (n + 1) BY <3>2, CountAfter DEF CountIs
        <4> QED BY <2>2, <2>3, <3>1, <4>1
      <3>6. LaunchReference[Images + n + 1] = PageOf(Blank, "zero", Low(n))
        <4>1. n \in 0 .. 31 /\ n # 9 /\ n \in 0 .. 30 /\ n \notin {\hD, \hE, \h10} BY <3>1
        <4>2. PlaceOf(n) = n + 1 BY <3>1 DEF PlaceOf
        <4> QED BY <1>1, <2>2, <4>1, <4>2, LowNext, ReservedPages
      <3>7. pc' \in Hashing /\ pc' # "image" BY <3>2 DEF Hashing, HashingMemory
      <3> QED BY <1>1, <1>2, <1>11, <2>1, <2>2, <2>3, <3>1, <3>2, <3>4, <3>5, <3>6, <3>7, Advance
    <2>5. CASE ~(gpa < Low(9))
      <3>1. n = 9
        <4>1. n \in 0 .. 9 BY <2>1
        <4> QED BY <2>5, <2>7, <4>1
      <3>2. info' = info /\ pc' = "ghcb" /\ gpa' = Low(\hA)
        BY <1>15, <2>5 DEF SecMemory, ZeroPages, Skip, Goto
      <3>3. PlaceInv(\hA)' BY <3>2 DEF PlaceInv, Low
      <3>4. Count(\hA)' = Count(n)
        <4>1. Count(\hA)' = Images' + (\hA - 1) BY <3>2, CountAfter DEF CountIs
        <4> QED BY <2>2, <2>3, <3>1, <4>1
      <3>5. pc' \in Hashing /\ pc' # "image" /\ \hA \in 0 .. 32
        BY <3>2 DEF Hashing, HashingMemory
      <3> QED BY <1>1, <1>2, <1>11, <2>1, <2>2, <2>3, <3>2, <3>3, <3>4, <3>5, Advance
    <2> QED BY <2>4, <2>5
  <1>16. CASE Ghcb
    <2>1. pc = "ghcb" /\ gpa = Low(n) /\ n \in \hA .. \hD /\ UNCHANGED <<opts, fs>>
      <3>1. pc = "ghcb" BY <1>16 DEF Ghcb, ZeroPages
      <3> QED BY <1>2, <1>9, <1>16, <3>1, Zenon DEF PlaceInv, CalculateMr
    <2>2. pc \in Hashing /\ Images \in Nat /\ Images' = Images /\ Given("ovmf")
      BY <1>10, <2>1, SameReference DEF Hashing, HashingMemory
    <2>3. n \in \hA .. \hD /\ n - 1 \in Nat
      <3>1. n \in \hA .. \hD BY <2>1
      <3> QED BY <3>1
    <2>4. Count(n) = Images + (n - 1) /\ Count(n) \in Nat
      <3>1. Count(n) = Images + (n - 1) BY <2>1, CountAt DEF CountIs
      <3> QED BY <2>2, <2>3, <3>1
    <2>5. \hD \in Nat OBVIOUS
    <2>6. gpa < Low(\hD) <=> n < \hD BY <1>30, <2>1, <2>5, LoopBelow, Zenon
    <2>7. CASE gpa < Low(\hD)
      <3>1. n \in \hA .. \hC /\ n + 1 \in \hA .. \hD /\ n + 1 \in 0 .. 32
        BY <2>3, <2>6, <2>7
      <3>2. info' = Append(info, PageOf(Blank, "zero", Low(n))) /\ pc' = "ghcb" /\ gpa' = Low(n) + PageSize
        BY <1>16, <2>1, <2>7 DEF Ghcb, ZeroPages, Update, Goto
      <3>3. gpa' = Low(n + 1) BY <1>30, <3>2, LowOrder
      <3>4. PlaceInv(n + 1)'
        <4>1. gpa' = Low(n + 1)' BY <3>3 DEF Low
        <4> QED BY <3>1, <3>2, <4>1, Zenon DEF PlaceInv
      <3>5. Count(n + 1)' = Count(n) + 1
        <4>1. Count(n + 1)' = Images' + ((n + 1) - 1) BY <3>2, CountAfter DEF CountIs
        <4> QED BY <2>2, <2>4, <3>1, <4>1
      <3>6. LaunchReference[Images + (n - 1) + 1] = PageOf(Blank, "zero", Low(n))
        <4>1. n \in 0 .. 31 /\ n # 9 /\ n - 1 \in 0 .. 30 /\ n \notin {\hD, \hE, \h10}
          BY <3>1
        <4>2. PlaceOf(n) = (n - 1) + 1 BY <3>1 DEF PlaceOf
        <4> QED BY <1>1, <2>2, <4>1, <4>2, LowNext, ReservedPages
      <3>7. pc' \in Hashing /\ pc' # "image" BY <3>2 DEF Hashing, HashingMemory
      <3> QED BY <1>1, <1>2, <1>11, <2>1, <2>2, <2>4, <3>1, <3>2, <3>4, <3>5, <3>6, <3>7, Advance
    <2>8. CASE ~(gpa < Low(\hD))
      <3>1. n = \hD BY <2>3, <2>6, <2>8
      <3>2. info' = info /\ pc' = "secrets" BY <1>16, <2>8 DEF Ghcb, ZeroPages, Skip, Goto
      <3>3. PlaceInv(0)' BY <3>2 DEF PlaceInv
      <3>4. Count(0)' = Count(n)
        <4>1. Count(0)' = Images' + 12 BY <3>2, CountAfter DEF CountIs
        <4> QED BY <2>2, <2>4, <3>1, <4>1
      <3>5. pc' \in Hashing /\ pc' # "image" /\ 0 \in 0 .. 32
        BY <3>2 DEF Hashing, HashingMemory
      <3> QED BY <1>1, <1>2, <1>11, <2>1, <2>2, <2>4, <3>2, <3>3, <3>4, <3>5, Advance
    <2> QED BY <2>7, <2>8
  <1>17. CASE Secrets
    <2>1. /\ pc = "secrets" /\ pc' = "cpuid" /\ info' = Append(info, PageOf(Blank, "secrets", Low(\hD)))
          /\ UNCHANGED <<opts, fs>> BY <1>17 DEF Secrets, Update, Goto, environment
    <2>2. pc \in Hashing /\ pc' \in Hashing /\ pc' # "image" /\ Images \in Nat /\ Images' = Images /\ Given("ovmf")
      BY <1>10, <2>1, SameReference DEF Hashing, HashingMemory
    <2>3. PlaceInv(0)' /\ 0 \in 0 .. 32 BY <2>1 DEF PlaceInv
    <2>4. Count(n) = Images + 12 /\ Count(0)' = Images' + 13
      BY <2>1, CountAt, CountAfter DEF CountIs
    <2>5. Count(n) \in Nat /\ Count(0)' = Count(n) + 1 BY <2>2, <2>4
    <2>6. LaunchReference[Images + 12 + 1] = PageOf(Blank, "secrets", Low(\hD))
      <3>1. \hD \in 0 .. 31 /\ \hD # 9 /\ 12 \in 0 .. 30 /\ PlaceOf(\hD) = 12 + 1
        BY DEF PlaceOf
      <3> QED BY <1>1, <2>2, <3>1, LowNext, ReservedPages
    <2> QED BY <1>1, <1>2, <1>11, <2>1, <2>2, <2>3, <2>4, <2>5, <2>6, Advance
  <1>18. CASE Cpuid
    <2>1. /\ pc = "cpuid" /\ UNCHANGED <<opts, fs>>
          /\ IF Given("kernel") THEN pc' = "svsm" /\ gpa' = 0 ELSE pc' = "temp ram" /\ gpa' = Low(\hF)
          /\ IF opts.vmm = "qemu" THEN info' = Append(info, CpuidPage) ELSE info' = info
      BY <1>9, <1>18 DEF Cpuid, Update, Skip, Goto, CalculateMr
    <2>2. pc \in Hashing /\ pc' \in Hashing /\ pc' # "image" /\ Images \in Nat /\ Images' = Images /\ Given("ovmf")
      BY <1>10, <2>1, SameReference DEF Hashing, HashingMemory
    <2>3. PlaceInv(\hF)'
      <3>1. CASE Given("kernel") BY <2>1, <3>1 DEF PlaceInv
      <3>2. CASE ~Given("kernel")
        <4>1. gpa' = Low(\hF)' /\ pc' = "temp ram"
          <5>1. Low(\hF)' = Low(\hF) BY DEF Low
          <5> QED BY <2>1, <3>2, <5>1, Zenon
        <4>2. ~(Given("kernel"))' BY <2>1, <3>2, Zenon DEF Given
        <4>3. \hF \in \hF .. \h20 OBVIOUS
        <4> QED BY <4>1, <4>2, <4>3 DEF PlaceInv
      <3> QED BY <3>1, <3>2
    <2>4. Count(n) = Images + 13 /\ Count(\hF)' = Images' + Late(14)
      <3>1. Count(n) = Images + 13 BY <2>1, CountAt DEF CountIs
      <3>2. Late(14)' = Late(14) /\ Late(\hF - 1)' = Late(14)
        <4>1. 14 \in Nat /\ \hF - 1 = 14 OBVIOUS
        <4> QED BY <2>1, <4>1, SameReference
      <3>3. pc' = "svsm" \/ pc' = "temp ram" BY <2>1
      <3> QED BY <3>1, <3>2, <3>3, CountAfter DEF CountIs
    <2>5. LaunchReference[Images + 13 + 1] = CpuidPage \/ opts.vmm # "qemu"
      <3>1. ASSUME opts.vmm = "qemu" PROVE \hE \in 0 .. 31 /\ \hE # 9 /\ 13 \in 0 .. 30 /\ PlaceOf(\hE) = 13 + 1
        BY <3>1 DEF PlaceOf
      <3> QED BY <1>1, <2>2, <3>1, LowNext, ReservedPages
    <2>6. CASE opts.vmm = "qemu"
      <3>1. Late(14) = 14 BY <2>6 DEF Late
      <3>2. Count(n) \in Nat /\ Count(\hF)' = Count(n) + 1 BY <2>2, <2>4, <3>1
      <3> QED BY <1>1, <1>2, <1>11, <1>31, <2>1, <2>2, <2>3, <2>4, <2>5, <2>6, <3>2, Advance
    <2>7. CASE opts.vmm # "qemu"
      <3>1. Late(14) = 13 BY <2>7 DEF Late
      <3>2. Count(n) \in Nat /\ Count(\hF)' = Count(n) BY <2>2, <2>4, <3>1
      <3> QED BY <1>1, <1>2, <1>11, <1>31, <2>1, <2>2, <2>3, <2>4, <2>7, <3>2, Advance
    <2> QED BY <2>6, <2>7
  <1>19. CASE Svsm
    <2>1. /\ pc = "svsm" /\ pc' = "kernel hashes" /\ info' = Append(info, PageOf(Blank, "zero", Low(\hF)))
          /\ UNCHANGED <<opts, fs>> BY <1>19 DEF Svsm, Update, Goto, environment
    <2>2. pc \in Hashing /\ pc' \in Hashing /\ pc' # "image" /\ Images \in Nat /\ Images' = Images /\ Given("ovmf")
      BY <1>10, <2>1, SameReference DEF Hashing, HashingMemory
    <2>3. PlaceInv(0)' BY <2>1 DEF PlaceInv
    <2>4. Late(14) \in 0 .. 30 /\ Late(15) = Late(14) + 1 /\ Late(15)' = Late(15)
      <3>1. Late(14) \in {14, 14 - 1} /\ Late(14 + 1) = Late(14) + 1 /\ 14 + 1 = 15 /\ 15 \in Nat
        BY LateType
      <3>2. Late(15)' = Late(15) BY <2>1, <3>1, SameReference
      <3> QED BY <3>1, <3>2
    <2>5. Count(n) = Images + Late(14) /\ Count(0)' = Images' + Late(15)'
      BY <2>1, CountAt, CountAfter DEF CountIs
    <2>6. Count(n) \in Nat /\ Count(0)' = Count(n) + 1 BY <2>2, <2>4, <2>5
    <2>7. LaunchReference[Images + Late(14) + 1] = PageOf(Blank, "zero", Low(\hF))
      <3>1. \hF \in 0 .. 31 /\ \hF # 9 /\ PlaceOf(\hF) = Late(14) + 1 /\ \hF \notin {\hD, \hE, \h10}
        BY DEF PlaceOf, Late
      <3> QED BY <1>1, <2>2, <2>4, <3>1, LowNext, ReservedPages
    <2> QED BY <1>1, <1>2, <1>11, <1>31, <2>1, <2>2, <2>3, <2>5, <2>6, <2>7, Advance
  <1>20. CASE KernelHashes
    <2>1. /\ pc = "kernel hashes" /\ pc' = "temp ram" /\ gpa' = Low(\h11) /\ UNCHANGED <<opts, fs>>
          /\ info' = Append(info, PageOf(hashes, "normal", Low(\h10)))
      BY <1>20 DEF KernelHashes, Update, Goto, environment
    <2>2. pc \in Hashing /\ pc' \in Hashing /\ pc' # "image" /\ Images \in Nat /\ Images' = Images /\ Given("ovmf")
      BY <1>10, <2>1, SameReference DEF Hashing, HashingMemory
    <2>3. PlaceInv(\h11)'
      <3>1. gpa' = Low(\h11)' BY <2>1 DEF Low
      <3>2. \h11 \in \hF .. \h20 /\ \h11 >= \h11 OBVIOUS
      <3> QED BY <2>1, <3>1, <3>2 DEF PlaceInv
    <2>4. Late(15) \in 0 .. 30 /\ Late(16) = Late(15) + 1 /\ Late(\h11 - 1)' = Late(16)
      <3>1. Late(15) \in {15, 15 - 1} /\ Late(15 + 1) = Late(15) + 1 /\ 15 + 1 = 16 /\ \h11 - 1 = 16 /\ 16 \in Nat
        BY LateType
      <3>2. Late(16)' = Late(16) BY <2>1, <3>1, SameReference
      <3> QED BY <3>1, <3>2
    <2>5. Count(n) = Images + Late(15) /\ Count(\h11)' = Images' + Late(\h11 - 1)'
      BY <2>1, CountAt, CountAfter DEF CountIs
    <2>6. Count(n) \in Nat /\ Count(\h11)' = Count(n) + 1 BY <2>2, <2>4, <2>5
    <2>7. ASSUME ~Unnoticed
          PROVE  LaunchReference[Images + Late(15) + 1] = PageOf(hashes, "normal", Low(\h10))
      <3>1. \h10 \in 0 .. 31 /\ \h10 # 9 /\ PlaceOf(\h10) = Late(15) + 1
        BY DEF PlaceOf, Late
      <3>2. Given("kernel") /\ hashes = HashPage BY <1>1, <2>1, <2>2 DEF ControlInv
      <3>3. PageOf(hashes, "normal", Low(\h10)) = HashesPage
        BY <1>1, <2>7, <3>2, HashesAreReference
      <3> QED BY <1>1, <2>2, <2>4, <3>1, <3>2, <3>3, LowNext, ReservedPages
    <2> QED BY <1>1, <1>2, <1>11, <1>31, <2>1, <2>2, <2>3, <2>5, <2>6, <2>7, Advance
  <1>21. CASE TempRam
    <2>1. /\ pc = "temp ram" /\ gpa = Low(n) /\ n \in \hF .. \h20 /\ (Given("kernel") => n >= \h11)
          /\ UNCHANGED <<opts, fs>>
      <3>1. pc = "temp ram" BY <1>21 DEF TempRam, ZeroPages
      <3> QED BY <1>2, <1>9, <1>21, <3>1, Zenon DEF PlaceInv, CalculateMr
    <2>2. pc \in Hashing /\ Images \in Nat /\ Images' = Images /\ Given("ovmf")
      BY <1>10, <2>1, SameReference DEF Hashing, HashingMemory
    <2>3. n \in \hF .. \h20 /\ n - 1 \in Int /\ Late(n - 1) \in 0 .. 31 /\ Late(n - 1) = Late(n) - 1
      <3>1. n \in \hF .. \h20 BY <2>1
      <3> QED BY <3>1 DEF Late
    <2>4. Count(n) = Images + Late(n - 1) /\ Count(n) \in Nat
      <3>1. Count(n) = Images + Late(n - 1) BY <2>1, CountAt DEF CountIs
      <3> QED BY <2>2, <2>3, <3>1
    <2>5. \h20 \in Nat OBVIOUS
    <2>6. gpa < Low(\h20) <=> n < \h20 BY <1>30, <2>1, <2>5, LoopBelow, Zenon
    <2>7. CASE gpa < Low(\h20)
      <3>1. n \in \hF .. \h1F /\ n + 1 \in \hF .. \h20 /\ n + 1 \in 0 .. 32
        BY <2>3, <2>6, <2>7
      <3>2. /\ info' = Append(info, PageOf(Blank, "zero", Low(n))) /\ pc' = "temp ram"
            /\ gpa' = Low(n) + PageSize
        BY <1>21, <2>1, <2>7 DEF TempRam, ZeroPages, Update, Goto
      <3>3. gpa' = Low(n + 1) BY <1>30, <3>2, LowOrder
      <3>4. PlaceInv(n + 1)'
        <4>1. gpa' = Low(n + 1)' /\ (Given("kernel"))' = Given("kernel")
          BY <2>1, <3>3 DEF Low, Given
        <4>2. Given("kernel") => n >= \h11 BY <2>1
        <4>3. Given("kernel") => n + 1 >= \h11 BY <1>30, <4>2
        <4> QED BY <3>1, <3>2, <4>1, <4>3, Zenon DEF PlaceInv
      <3>5. Count(n + 1)' = Count(n) + 1
        <4>1. Count(n + 1)' = Images' + Late((n + 1) - 1)' BY <3>2, CountAfter DEF CountIs
        <4>2. (n + 1) - 1 = n BY <1>30
        <4>3. Late((n + 1) - 1)' = Late(n) BY <2>1, <4>2 DEF Late
        <4>4. Late(n) \in Int BY <1>30 DEF Late
        <4> QED BY <2>2, <2>3, <2>4, <4>1, <4>3, <4>4
      <3>6. LaunchReference[Images + Late(n - 1) + 1] = PageOf(Blank, "zero", Low(n))
        <4>1. n \in 0 .. 31 /\ n # 9 /\ Late(n - 1) \in 0 .. 30 /\ n \notin {\hD, \hE}
          BY <3>1 DEF Late
        <4>2. PlaceOf(n) = Late(n - 1) + 1
          <5>1. PlaceOf(n) = Late(n) /\ Late(n) \in Int BY <3>1 DEF PlaceOf, Late
          <5> QED BY <2>3, <5>1
        <4>3. Reserved(n) = PageOf(Blank, "zero", Low(n))
          <5>1. Given("kernel") => n # \h10
            <6>1. Given("kernel") => n >= \h11 BY <2>1
            <6> QED BY <1>30, <6>1
          <5> QED BY <4>1, <5>1, ReservedPages
        <4> QED BY <1>1, <2>2, <4>1, <4>2, <4>3, LowNext
      <3>7. pc' \in Hashing /\ pc' # "image" BY <3>2 DEF Hashing, HashingMemory
      <3> QED BY <1>1, <1>2, <1>11, <1>31, <2>1, <2>2, <2>4, <3>1, <3>2, <3>4, <3>5, <3>6, <3>7, Advance
    <2>8. CASE ~(gpa < Low(\h20))
      <3>1. n = \h20 BY <2>3, <2>6, <2>8
      <3>2. info' = info /\ pc' = "last cpuid"
        BY <1>21, <2>8 DEF TempRam, ZeroPages, Skip, Goto
      <3>3. PlaceInv(0)' BY <3>2 DEF PlaceInv
      <3>4. Count(0)' = Count(n)
        <4>1. Count(0)' = Images' + Late(31)' BY <3>2, CountAfter DEF CountIs
        <4>2. n - 1 = 31 BY <3>1
        <4>3. Late(31)' = Late(n - 1) BY <2>1, <4>2 DEF Late
        <4> QED BY <2>2, <2>4, <4>1, <4>3
      <3>5. pc' \in Hashing /\ pc' # "image" BY <3>2 DEF Hashing, HashingMemory
      <3> QED BY <1>1, <1>2, <1>11, <1>31, <2>1, <2>2, <2>4, <3>2, <3>3, <3>4, <3>5, Advance
    <2> QED BY <2>7, <2>8
  <1>22. CASE LastCpuid
    <2>1. /\ pc = "last cpuid" /\ pc' = "boot vcpu" /\ UNCHANGED <<opts, fs>>
          /\ IF opts.vmm = "ec2" THEN info' = Append(info, CpuidPage) ELSE info' = info
      BY <1>9, <1>22 DEF LastCpuid, Update, Skip, Goto, CalculateMr
    <2>2. pc \in Hashing /\ pc' \in Hashing /\ pc' # "image" /\ Images \in Nat /\ Images' = Images /\ Given("ovmf")
      BY <1>10, <2>1, SameReference DEF Hashing, HashingMemory
    <2>3. PlaceInv(0)' BY <2>1 DEF PlaceInv
    <2>4. Count(n) = Images + Late(31) /\ Count(0)' = Images' + 31
      BY <2>1, CountAt, CountAfter DEF CountIs
    <2>5. CASE opts.vmm = "ec2"
      <3>1. Late(31) = 30 BY <2>5 DEF Late
      <3>2. \hE \in 0 .. 31 /\ \hE # 9 /\ 30 \in 0 .. 30 /\ PlaceOf(\hE) = 30 + 1
        BY <2>5 DEF PlaceOf
      <3>3. LaunchReference[Images + 30 + 1] = CpuidPage
        BY <1>1, <2>2, <3>2, LowNext, ReservedPages
      <3>4. Count(n) = Images + 30 /\ Count(n) \in Nat /\ Count(0)' = Count(n) + 1
        BY <2>2, <2>4, <3>1
      <3> QED BY <1>1, <1>2, <1>11, <1>31, <2>1, <2>2, <2>3, <2>5, <3>3, <3>4, Advance
    <2>6. CASE opts.vmm # "ec2"
      <3>1. Late(31) = 31 BY <1>12, <2>6 DEF Late
      <3>2. Count(n) \in Nat /\ Count(0)' = Count(n) BY <2>2, <2>4, <3>1
      <3> QED BY <1>1, <1>2, <1>11, <1>31, <2>1, <2>2, <2>3, <2>6, <3>2, Advance
    <2> QED BY <2>5, <2>6
  <1>23. CASE BootVcpu
    <2>1. /\ pc = "boot vcpu" /\ pc' = "other vcpus" /\ gpa' = 1 /\ UNCHANGED <<opts, fs>>
          /\ info' = Append(info, VmsaPage(ResetVector))
      BY <1>23 DEF BootVcpu, Update, Goto, environment
    <2>2. pc \in Hashing /\ pc' \in Hashing /\ pc' # "image" /\ Images \in Nat /\ Images' = Images /\ Given("ovmf")
      BY <1>10, <2>1, SameReference DEF Hashing, HashingMemory
    <2>3. PlaceInv(0)'
      <3>1. opts'.vcpus = opts.vcpus BY <2>1
      <3>2. 1 \in 1 .. opts.vcpus BY <1>12
      <3> QED BY <2>1, <3>1, <3>2, Zenon DEF PlaceInv
    <2>4. Count(n) = Images + 31 /\ Count(0)' = Images' + 31 + gpa'
      BY <2>1, CountAt, CountAfter DEF CountIs
    <2>5. Count(n) \in Nat /\ Count(0)' = Count(n) + 1
      <3>1. gpa' = 1 BY <2>1
      <3> QED BY <2>2, <2>4, <3>1
    <2>6. LaunchReference[Images + 31 + 1] = VmsaPage(ResetVector)
      <3>1. 0 \in 0 .. opts.vcpus - 1 /\ Images + 31 + 0 + 1 = Images + 31 + 1
        BY <1>12, <2>2
      <3> QED BY <1>1, <2>2, <3>1, SaveAreaNext
    <2> QED BY <1>1, <1>2, <1>11, <1>31, <2>1, <2>2, <2>3, <2>4, <2>5, <2>6, Advance
  <1>24. CASE OtherVcpus
    <2>1. pc = "other vcpus" /\ UNCHANGED <<opts, fs>>
      BY <1>9, <1>24 DEF OtherVcpus, CalculateMr
    <2>2. pc \in Hashing /\ Images \in Nat /\ Images' = Images /\ Given("ovmf")
      BY <1>10, <2>1, SameReference DEF Hashing, HashingMemory
    <2>3. gpa \in 1 .. opts.vcpus BY <1>2, <2>1 DEF PlaceInv
    <2>4. Count(n) = Images + 31 + gpa /\ Count(n) \in Nat
      <3>1. Count(n) = Images + 31 + gpa BY <2>1, CountAt DEF CountIs
      <3> QED BY <1>12, <2>2, <2>3, <3>1
    <2>5. CASE gpa < opts.vcpus
      <3>1. info' = Append(info, VmsaPage(ApVector)) /\ pc' = "other vcpus" /\ gpa' = gpa + 1
        BY <1>24, <2>5 DEF OtherVcpus, Update, Goto
      <3>2. PlaceInv(0)'
        <4>1. gpa' \in 1 .. opts'.vcpus
          <5>1. gpa + 1 \in 1 .. opts.vcpus BY <1>12, <2>3, <2>5
          <5>2. opts' = opts /\ gpa' = gpa + 1 BY <2>1, <3>1
          <5> QED BY <5>1, <5>2
        <4> QED BY <3>1, <4>1 DEF PlaceInv
      <3>3. Count(0)' = Count(n) + 1
        <4>1. Count(0)' = Images' + 31 + gpa' BY <3>1, CountAfter DEF CountIs
        <4>2. gpa' = gpa + 1 BY <3>1
        <4>3. gpa \in Nat BY <1>1 DEF TypeInv
        <4> QED BY <2>2, <2>4, <4>1, <4>2, <4>3
      <3>4. LaunchReference[Images + 31 + gpa + 1] = VmsaPage(ApVector)
        <4>1. gpa \in 0 .. opts.vcpus - 1 /\ gpa # 0 BY <1>12, <2>3, <2>5
        <4> QED BY <1>1, <2>2, <4>1, SaveAreaNext
      <3>5. pc' \in Hashing /\ pc' # "image" BY <3>1 DEF Hashing, HashingMemory
      <3> QED BY <1>1, <1>2, <1>11, <1>31, <2>1, <2>2, <2>4, <3>1, <3>2, <3>3, <3>4, <3>5, Advance
    <2>6. CASE ~(gpa < opts.vcpus)
      <3>1. info' = info /\ pc' = "publish" BY <1>24, <2>6 DEF OtherVcpus, Skip, Goto
      <3>2. PlaceInv(0)' BY <3>1 DEF PlaceInv
      <3>3. Count(0)' = Count(n)
        <4>1. Count(0)' = Images' + 31 + opts'.vcpus BY <3>1, CountAfter DEF CountIs
        <4>2. gpa = opts.vcpus BY <1>12, <2>3, <2>6
        <4> QED BY <2>1, <2>2, <2>4, <4>1, <4>2
      <3>4. pc' \in Hashing /\ pc' # "image" BY <3>1 DEF Hashing, HashingMemory
      <3> QED BY <1>1, <1>2, <1>11, <1>31, <2>1, <2>2, <2>4, <3>1, <3>2, <3>3, <3>4, Advance
    <2> QED BY <2>5, <2>6
  <1>25. Terminated => UNCHANGED vars BY DEF Terminated
  <1> QED BY <1>4, <1>5, <1>6, <1>7, <1>8, <1>13, <1>14, <1>15, <1>16, <1>17, <1>18, <1>19, <1>20, <1>21,
             <1>22, <1>23, <1>24, <1>25, Zenon DEF Next, CalculateMr

-----------------------------------------------------------------------------
(* The digest that is printed *)

LEMMA DoneAll ==
  ASSUME TypeInv, Given("ovmf"), Done(Images + 31 + opts.vcpus)
  PROVE  info = LaunchReference
  <1> DEFINE t == Images + 31 + opts.vcpus
  <1>1. t \in Nat BY ImageSize DEF TypeInv, Options
  <1>2. LaunchReference = [k \in 1 .. t |-> LaunchReference[k]] BY ReferenceParts DEF Joins
  <1>3. Len(info) = t /\ \A k \in 1 .. t : info[k] = LaunchReference[k] BY DEF Done
  <1>4. info \in Seq(Page) BY DEF TypeInv
  <1> HIDE DEF t
  <1>5. info = [k \in 1 .. t |-> info[k]] BY <1>3, <1>4
  <1> QED BY <1>2, <1>3, <1>5

LEMMA StepSaveArea ==
  ASSUME LaunchInv, [Next]_vars
  PROVE  SaveAreaInv'
  <1> DEFINE Some == \E k \in 1 .. Len(info) : info[k].type = "vmsa"
  <1>1. SaveAreaInv /\ info \in Seq(Page) BY DEF LaunchInv, TypeInv
  <1>2. Some => Some' BY StepInfoType, Zenon
  <1>3. CASE BootVcpu
    <2>1. info' = Append(info, VmsaPage(ResetVector)) BY <1>3 DEF BootVcpu, Update
    <2>2. info'[Len(info) + 1] = VmsaPage(ResetVector) /\ Len(info) + 1 \in 1 .. Len(info')
      BY <1>1, <2>1
    <2>3. info'[Len(info) + 1].type = "vmsa" BY <2>2, VmsaFits
    <2> QED BY <2>2, <2>3 DEF SaveAreaInv
  <1>4. ASSUME [Next]_vars, ~BootVcpu, pc' \in {"other vcpus", "publish"}
        PROVE  pc \in {"other vcpus", "publish"}
    <2>1. CASE Main \/ UNCHANGED vars \/ Terminated
      BY <1>4, <2>1 DEF Main, ParseFile, ParseVcpus, ParseVmm, ParseVerbose, ParseRefused, ParseEnd, Validate,
                        Publish, Parsed, Exit, Goto, Terminated, vars
    <2>2. CASE CalculateMr
      BY <1>4, <2>2 DEF CalculateMr, ReadOvmf, ReadCmdline, ReadFile, Abandon, Exit, Crash, HashFiles,
                        MeasureImage, MeasureBeyond, ImageDone, SecMemory, Ghcb, TempRam, ZeroPages, Secrets,
                        Cpuid, Svsm, KernelHashes, LastCpuid, OtherVcpus, OutOfMemory, Goto
    <2> QED BY <1>4, <2>1, <2>2 DEF Next
  <1> QED BY <1>1, <1>2, <1>3, <1>4 DEF SaveAreaInv

LEMMA StepOut ==
  ASSUME LaunchInv, [Next]_vars
  PROVE  OutInv'
  <1>1. TypeInv /\ ControlInv /\ LoopInv /\ SaveAreaInv /\ OutInv BY DEF LaunchInv
  <1>2. CASE UNCHANGED vars \/ Terminated
    <2>1. UNCHANGED <<opts, fs, short, pc, info, out, ret>> BY <1>2 DEF Terminated, vars
    <2>2. Unnoticed' = Unnoticed /\ LaunchReference' = LaunchReference
          /\ Unread("ovmf")' = Unread("ovmf") /\ Unread("cmdline")' = Unread("cmdline")
      BY <2>1, SameReference DEF FileOption
    <2> QED BY <1>1, <2>1, <2>2, Zenon DEF OutInv
  <1>3. CASE pc' # "exited" BY <1>3 DEF OutInv
  <1>4. CASE ParseRefused \/ Validate
    <2>1. out' = out /\ pc # "exited"
      BY <1>4 DEF ParseRefused, Validate, Parsing, Exit, Skip
    <2> QED BY <1>1, <2>1 DEF OutInv, ControlInv
  <1>5. CASE ReadOvmf \/ ReadCmdline
    <2>1. ASSUME NEW o \in {"ovmf", "cmdline"}, Given(o), NEW success, ReadFile(FileOf(o), success), pc' = "exited"
          PROVE  OutInv'
      <3>1. CASE Skip
        <4>1. out' = out BY <3>1 DEF Skip
        <4>2. pc # "exited" BY <1>5 DEF ReadOvmf, ReadCmdline
        <4> QED BY <1>1, <4>1, <4>2 DEF OutInv, ControlInv
      <3>2. CASE ~Skip
        <4>1. (fs[FileOf(o)] # "ok" \/ short) /\ Abandon BY <2>1, <3>2, Zenon DEF ReadFile
        <4>2. out' = <<Garbage>> /\ ret' = 0 /\ UNCHANGED <<opts, fs, short>>
          BY <4>1 DEF Abandon, Exit, environment
        <4>3. short \/ Unread(o) BY <2>1, <4>1 DEF Unread
        <4>4. Unread("ovmf")' = Unread("ovmf") /\ Unread("cmdline")' = Unread("cmdline")
          BY <4>2, SameReference DEF FileOption
        <4>5. short' \/ Unread("ovmf")' \/ Unread("cmdline")' BY <4>2, <4>3, <4>4
        <4> QED BY <4>2, <4>5, Zenon DEF OutInv
      <3> QED BY <3>1, <3>2
    <2>2. CASE ReadOvmf
      <3>1. Given("ovmf") BY <1>1, <2>2 DEF ReadOvmf, ControlInv
      <3> QED BY <1>3, <2>1, <2>2, <3>1 DEF ReadOvmf
    <2>3. CASE ReadCmdline
      <3>1. Given("cmdline") /\ pc # "exited" BY <1>1, <2>3 DEF ReadCmdline, ControlInv
      <3>2. CASE Crash
        <4>1. pc' # "exited" BY <3>2 DEF Crash
        <4> QED BY <1>3, <4>1
      <3> QED BY <1>3, <2>1, <2>3, <3>1, <3>2 DEF ReadCmdline
    <2> QED BY <1>5, <2>2, <2>3
  <1>6. CASE Publish
    <2>1. pc = "publish" /\ out' = <<info>> /\ info' = info /\ UNCHANGED <<opts, fs>>
      BY <1>6 DEF Publish, Exit, environment
    <2>2. \E k \in 1 .. Len(info) : info[k].type = "vmsa" BY <1>1, <2>1 DEF SaveAreaInv
    <2>3. ASSUME ~Unnoticed PROVE info = LaunchReference
      <3>1. PICK n \in 0 .. Frames : ProgressInv(n) BY <1>1 DEF LoopInv
      <3>2. Count(n) = Images + 31 + opts.vcpus BY <2>1, CountAt DEF CountIs
      <3>3. Done(Count(n)) BY <2>1, <2>3, <3>1 DEF ProgressInv, Hashing, HashingMemory
      <3>4. Given("ovmf") BY <1>1, <2>1 DEF ControlInv, Hashing
      <3> QED BY <1>1, <3>2, <3>3, <3>4, DoneAll
    <2>4. LaunchReference' = LaunchReference /\ Unnoticed' = Unnoticed
      BY <2>1, SameReference
    <2> QED BY <2>1, <2>2, <2>3, <2>4, Zenon DEF OutInv
  <1>7. CASE ParseFile \/ ParseVcpus \/ ParseVmm \/ ParseVerbose \/ ParseEnd
    <2>1. pc' # "exited"
      BY <1>7 DEF ParseFile, ParseVcpus, ParseVmm, ParseVerbose, ParseEnd, Parsing, Parsed, Goto
    <2> QED BY <1>3, <2>1
  <1>8. CASE CalculateMr /\ ~(ReadOvmf \/ ReadCmdline)
    <2>1. pc' # "exited"
      BY <1>8 DEF CalculateMr, Crash, HashFiles, MeasureImage, MeasureBeyond, ImageDone, SecMemory, Ghcb, TempRam,
                  ZeroPages, Secrets, Cpuid, Svsm, KernelHashes, LastCpuid, BootVcpu, OtherVcpus, OutOfMemory, Goto
    <2> QED BY <1>3, <2>1
  <1> QED BY <1>2, <1>4, <1>5, <1>6, <1>7, <1>8, Zenon DEF Next, Main

LEMMA InitLaunch ==
  ASSUME Init
  PROVE  LaunchInv
  <1>1. argv \in Seq(Argument) /\ fs \in [File -> FileState] /\ short \in BOOLEAN
    BY FilesAssumption DEF Init
  <1>2. opts \in Options /\ opts.vcpus = 1 BY DEF Init, Options, Name
  <1>3. hashes \in Seq(Word) /\ Len(hashes) # 0
    <2>1. "garbage" \in Word BY DEF Word
    <2>2. <<"garbage">> \in Seq(Word) /\ Len(<<"garbage">>) # 0 BY <2>1
    <2> QED BY <2>2 DEF Init
  <1>4. pc = "parse" /\ gpa = 0 /\ info = <<>> /\ out = Unprinted /\ ret = 1 BY DEF Init
  <1>5. TypeInv
    <2>1. <<>> \in Seq(Page) OBVIOUS
    <2>2. pc \in Label /\ ret \in {-1, 0, 1} BY <1>4 DEF Label
    <2> QED BY <1>1, <1>2, <1>3, <1>4, <2>1, <2>2 DEF TypeInv
  <1>6. PagesInv BY <1>4 DEF PagesInv
  <1>7. ControlInv /\ SaveAreaInv /\ OutInv
    BY <1>4 DEF ControlInv, SaveAreaInv, OutInv, Hashing, HashingMemory
  <1>8. LoopInv
    <2>1. PlaceInv(0) /\ 0 \in 0 .. Frames BY <1>4, Constants DEF PlaceInv
    <2>2. ProgressInv(0) BY <1>4 DEF ProgressInv, Hashing, HashingMemory
    <2> QED BY <2>1, <2>2 DEF LoopInv
  <1> QED BY <1>5, <1>6, <1>7, <1>8 DEF LaunchInv

LEMMA NextLaunch ==
  ASSUME LaunchInv, [Next]_vars
  PROVE  LaunchInv'
  <1>1. fs \in [File -> FileState] /\ short \in BOOLEAN /\ argv \in Seq(Argument) /\ opts \in Options
        /\ opts.vcpus # 0 BY DEF LaunchInv, TypeInv
  <1>2. UNCHANGED environment \/ Main BY StepFrame DEF Next, Terminated, vars, environment
  <1>3. /\ argv' \in Seq(Argument) /\ opts' \in Options /\ opts'.vcpus # 0
        /\ fs' \in [File -> FileState] /\ short' \in BOOLEAN
    <2>1. CASE UNCHANGED environment BY <1>1, <2>1 DEF environment
    <2>2. CASE Main BY <1>1, <2>2, StepOpts
    <2> QED BY <1>2, <2>1, <2>2
  <1>4. TypeInv' BY <1>3, StepGpa, StepControl, StepInfoType, Zenon DEF TypeInv
  <1> QED BY <1>4, StepControl, StepInfoType, StepLoop, StepSaveArea, StepOut, Zenon DEF LaunchInv

LEMMA Invariance == Spec => []LaunchInv
  BY InitLaunch, NextLaunch, PTL DEF Spec

LEMMA LaunchTypeOK ==
  ASSUME LaunchInv
  PROVE  TypeOK
  <1>1. TypeInv /\ PagesInv /\ LoopInv BY DEF LaunchInv
  <1>2. DOMAIN info = 1 .. Len(info) /\ \A k \in 1 .. Len(info) : info[k] \in Page
    BY <1>1 DEF TypeInv
  <1>3. \A k \in DOMAIN info :
          /\ info[k].contents[1] \in Source /\ info[k].type \in PageType
          /\ info[k].type = "vmsa" => info[k].contents[2] \in SaveArea
          /\ info[k].gpa \in Nat /\ (info[k].gpa < Top \/ info[k].gpa = VmsaGpa)
    <2>1. \A page \in Page : page.type \in PageType /\ page.gpa \in Nat BY DEF Page
    <2> QED BY <1>1, <1>2, <2>1, Zenon DEF PagesInv, Fits
  <1> QED BY <1>1, <1>3, GpaBelow, Zenon DEF TypeOK, TypeInv

\* What calculate-snp-mr prints is the digest of the guest that the files and
\* options describe, unless a file was lost in a way the program ignores, and
\* it is uninitialised memory only after a file was read in vain
\* (snp.c:354-444, main.c:125-154).
THEOREM LaunchIsReference == Spec => []PrintedIsReference
  <1>1. LaunchInv => PrintedIsReference
    <2> SUFFICES ASSUME LaunchInv PROVE PrintedIsReference OBVIOUS
    <2>1. OutInv /\ (pc # "exited" => out = Unprinted) BY DEF LaunchInv, ControlInv
    <2>2. <<Garbage>> # Unprinted BY DEF Unprinted
    <2>3. info # Garbage BY GarbageAssumption DEF LaunchInv, TypeInv
    <2>4. <<info>> # <<Garbage>> BY <2>3
    <2>5. PublishedIsReference
      <3>1. Unread("ovmf") \/ Unread("cmdline") => Unnoticed BY DEF Unnoticed
      <3> QED BY <2>1, <3>1, Zenon DEF PublishedIsReference, OutInv
    <2>6. GarbageNeedsReason BY <2>1, <2>2, <2>4, Zenon DEF GarbageNeedsReason, OutInv
    <2> QED BY <2>5, <2>6, LaunchTypeOK DEF PrintedIsReference
  <1> QED BY <1>1, Invariance, PTL

-----------------------------------------------------------------------------
(* The secure processor *)

\* The image of the firmware does not reach down to the pages below 8 MiB + 128
\* KiB that the program measures, as no image of nearly 4 GiB would.
ImagesFit == \A f \in File : Size[f] <= Top - Low(\h20)

\* A page that the secure processor accepts after those measured so far.
Fresh(page) ==
  page.type = "vmsa" \/ \A k \in 1 .. Len(info) : info[k].type # "vmsa" /\ info[k].gpa # page.gpa

LEMMA LowValues ==
  /\ Low(0) \in Nat /\ Low(9) \in Nat /\ Low(\hA) \in Nat /\ Low(\hD) \in Nat /\ Low(\hE) \in Nat
  /\ Low(\hF) \in Nat /\ Low(\h10) \in Nat /\ Low(\h11) \in Nat /\ Low(\h20) \in Nat
  /\ Low(0) < Low(9) /\ Low(9) < Low(\hA) /\ Low(\hA) < Low(\hD) /\ Low(\hD) < Low(\hE) /\ Low(\hE) < Low(\hF)
  /\ Low(\hF) < Low(\h10) /\ Low(\h10) < Low(\h11) /\ Low(\h11) < Low(\h20) /\ Low(\h20) < Top
  /\ \A n \in Nat : Low(n) \in Nat
  <1>1. \A a \in Nat : Low(a) \in Nat BY LowOrder
  <1>2. \A a, b \in Nat : a < b => Low(a) < Low(b) BY LowOrder
  <1>3. \h20 \in 0 .. \h20 OBVIOUS
  <1>4. Low(\h20) < Top BY <1>3, LowBelowTop
  <1> QED BY <1>1, <1>2, <1>4

LEMMA GpaRange ==
  ASSUME LoopInv
  PROVE  /\ pc = "sec memory" => gpa \in Low(0) .. Low(9)
         /\ pc = "ghcb" => gpa \in Low(\hA) .. Low(\hD)
         /\ pc = "temp ram" => gpa \in Low(\hF) .. Low(\h20)
  <1>1. PICK n \in 0 .. Frames : PlaceInv(n) BY DEF LoopInv
  <1>2. ASSUME NEW a \in 0 .. 32, NEW b \in 0 .. 32, n \in a .. b
        PROVE  Low(n) \in Low(a) .. Low(b)
    <2>1. n \in Nat /\ a \in Nat /\ b \in Nat /\ a <= n /\ n <= b BY <1>2
    <2>2. Low(n) \in Nat /\ Low(a) \in Nat /\ Low(b) \in Nat /\ Low(a) <= Low(n) /\ Low(n) <= Low(b)
      BY <2>1, LowOrder
    <2> QED BY <2>2
  <1>3. 0 \in 0 .. 32 /\ 9 \in 0 .. 32 /\ \hA \in 0 .. 32 /\ \hD \in 0 .. 32 /\ \hF \in 0 .. 32 /\ \h20 \in 0 .. 32
    OBVIOUS
  <1> QED BY <1>1, <1>2, <1>3, Zenon DEF PlaceInv

\* A page at a is measured between the limits of two steps, or none is.
LEMMA CoverNext ==
  ASSUME info \in Seq(Page), CoverInv, pc \in HashingMemory, pc' # "image", opts' = opts,
         NEW page, info' = Append(info, page), page.type # "vmsa", page.gpa \in Nat, Limit \in Nat,
         Limit <= page.gpa, page.gpa < Low(\h20),
         pc' \in HashingMemory =>
           Limit' \in Nat /\ page.gpa < Limit' /\ (opts.vmm = "ec2" => page.gpa # Low(\hE))
  PROVE  Fresh(page) /\ CoverInv'
  <1>1. Len(info') = Len(info) + 1 /\ Len(info) \in Nat /\ info'[Len(info) + 1] = page
        /\ \A k \in 1 .. Len(info) : info'[k] = info[k] /\ info[k] \in Page OBVIOUS
  <1>2. \A p \in Page : p.gpa \in Nat BY DEF Page
  <1>3. \A k \in 1 .. Len(info) :
          /\ info[k].type # "vmsa" /\ info[k].gpa \in Nat
          /\ info[k].gpa < Limit \/ info[k].gpa >= Low(\h20)
          /\ opts.vmm = "ec2" => info[k].gpa # Low(\hE) BY <1>1, <1>2 DEF CoverInv
  <1>4. \A k \in 1 .. Len(info) : info[k].gpa # page.gpa
    <2>1. Low(\h20) \in Nat BY LowValues
    <2> QED BY <1>3, <2>1
  <1>5. ASSUME pc' \in HashingMemory, NEW k \in 1 .. Len(info')
        PROVE  /\ info'[k].type # "vmsa"
               /\ info'[k].gpa < Limit' \/ info'[k].gpa >= Low(\h20)
               /\ opts.vmm = "ec2" => info'[k].gpa # Low(\hE)
    <2>1. CASE k = Len(info) + 1 BY <1>1, <1>5, <2>1
    <2>2. CASE k \in 1 .. Len(info)
      <3>1. info[k].gpa < Limit => info[k].gpa < Limit' BY <1>3, <1>5, <2>2
      <3> QED BY <1>1, <1>3, <2>2, <3>1
    <2> QED BY <1>1, <2>1, <2>2
  <1>6. \A n : Low(n)' = Low(n) BY DEF Low
  <1>7. CoverInv' BY <1>5, <1>6, Zenon DEF CoverInv
  <1> QED BY <1>3, <1>4, <1>7 DEF Fresh

LEMMA CoverSame ==
  ASSUME info \in Seq(Page), CoverInv, pc \in HashingMemory, pc' # "image", opts' = opts, info' = info,
         Limit \in Nat, pc' \in HashingMemory => Limit' \in Nat /\ Limit <= Limit'
  PROVE  CoverInv'
  <1>1. \A p \in Page : p.gpa \in Nat BY DEF Page
  <1>2. ASSUME pc' \in HashingMemory, NEW k \in 1 .. Len(info)
        PROVE  /\ info[k].type # "vmsa"
               /\ info[k].gpa < Limit' \/ info[k].gpa >= Low(\h20)
               /\ opts.vmm = "ec2" => info[k].gpa # Low(\hE)
    <2>1. info[k].gpa \in Nat BY <1>1
    <2>2. info[k].gpa < Limit => info[k].gpa < Limit' BY <1>2, <2>1
    <2> QED BY <2>2 DEF CoverInv
  <1>3. \A n : Low(n)' = Low(n) BY DEF Low
  <1> QED BY <1>2, <1>3, Zenon DEF CoverInv

LEMMA BlankType ==
  ASSUME NEW t \in {"zero", "secrets", "cpuid"}, NEW a
  PROVE  PageOf(Blank, t, a).type # "vmsa" /\ PageOf(Blank, t, a).gpa = a BY DEF PageOf

LEMMA NextGpa ==
  ASSUME NEW a \in Nat
  PROVE  a + PageSize \in Nat /\ a < a + PageSize /\ a <= a BY Constants

LEMMA Between ==
  ASSUME NEW a \in Nat, NEW b \in Nat, NEW c \in Nat, a <= b, b <= c
  PROVE  a <= c OBVIOUS

\* Each page that is hashed is one the secure processor accepts.
LEMMA StepCover ==
  ASSUME ImagesFit, LaunchInv, CoverInv, [Next]_vars
  PROVE  /\ CoverInv'
         /\ info' = info \/ \E page : info' = Append(info, page) /\ Fresh(page) /\ out' = out /\ pc # "exited"
  <1>1. TypeInv /\ ControlInv /\ LoopInv /\ info \in Seq(Page) /\ gpa \in Nat
    BY DEF LaunchInv, TypeInv
  <1>2. ASSUME pc' \notin HashingMemory PROVE CoverInv' BY <1>2 DEF CoverInv
  <1>3. CASE UNCHANGED vars \/ Terminated
    <2>1. UNCHANGED <<opts, pc, gpa, info>> BY <1>3 DEF Terminated, vars
    <2>2. Limit' = Limit /\ OvmfSize' = OvmfSize /\ \A n : Low(n)' = Low(n)
      BY <2>1 DEF Limit, OvmfSize, FileOf, Low
    <2> QED BY <2>1, <2>2, Zenon DEF CoverInv
  <1>4. CASE Main \/ ReadOvmf \/ ReadCmdline \/ MeasureBeyond \/ OutOfMemory
    <2>1. pc' \notin HashingMemory /\ info' = info
      <3>1. CASE Main
        BY <3>1 DEF Main, ParseFile, ParseVcpus, ParseVmm, ParseVerbose, ParseRefused, ParseEnd, Validate, Publish,
                    Parsing, Parsed, Exit, Goto, Skip, HashingMemory
      <3>2. CASE ReadOvmf \/ ReadCmdline \/ MeasureBeyond \/ OutOfMemory
        BY <3>2 DEF ReadOvmf, ReadCmdline, ReadFile, Abandon, MeasureBeyond, OutOfMemory, Crash, Exit, Goto, Skip,
                    HashingMemory
      <3> QED BY <1>4, <3>1, <3>2
    <2> QED BY <1>2, <2>1
  <1>5. CASE HashFiles
    <2>1. info' = info /\ info = <<>>
      <3>1. PICK n \in 0 .. Frames : ProgressInv(n) BY <1>1 DEF LoopInv
      <3> QED BY <1>5, <3>1 DEF ProgressInv, HashFiles, Starting
    <2> QED BY <2>1 DEF CoverInv
  <1>6. CASE MeasureImage
    <2> DEFINE a == Top - OvmfSize + gpa
    <2>1. /\ pc = "image" /\ pc' = "image" /\ gpa' = gpa + PageSize /\ opts' = opts /\ out' = out /\ gpa < OvmfSize
          /\ \E source \in {"image", "beyond"} :
               info' = Append(info, PageOf(<<source, FileOf("ovmf"), gpa>>, "normal", a))
      BY <1>6 DEF MeasureImage, Goto, Update, environment
    <2>2. Given("ovmf") BY <1>1, <2>1 DEF ControlInv, Hashing, HashingMemory
    <2>3. OvmfSize \in 0 .. Top /\ OvmfSize <= Top - Low(\h20)
      BY <1>1, <2>2, ImageSize DEF ImagesFit, OvmfSize
    <2>4. a \in Nat /\ a >= Low(\h20)
      <3>1. Low(\h20) \in Nat /\ Top \in Nat BY LowValues, Constants
      <3> QED BY <1>1, <2>3, <3>1
    <2>5. PICK page : info' = Append(info, page) /\ page.type # "vmsa" /\ page.gpa = a
      BY <2>1 DEF PageOf
    <2>6. \A k \in 1 .. Len(info) :
            /\ info[k].type # "vmsa" /\ info[k].gpa \in Nat /\ info[k].gpa >= Low(\h20) /\ info[k].gpa < a
            /\ opts.vmm = "ec2" => info[k].gpa # Low(\hE)
      <3>1. \A p \in Page : p.gpa \in Nat BY DEF Page
      <3>2. Limit = 0 /\ pc \in HashingMemory BY <2>1 DEF Limit, HashingMemory
      <3>3. ASSUME NEW k \in 1 .. Len(info)
            PROVE  /\ info[k].type # "vmsa" /\ info[k].gpa \in Nat /\ info[k].gpa < a
                   /\ info[k].gpa < 0 \/ info[k].gpa >= Low(\h20)
                   /\ opts.vmm = "ec2" => info[k].gpa # Low(\hE)
        BY <1>1, <2>1, <3>1, <3>2 DEF CoverInv
      <3> QED BY <3>3
    <2>7. Fresh(page) BY <2>4, <2>6, <2>5 DEF Fresh
    <2>8. CoverInv'
      <3>1. OvmfSize' = OvmfSize /\ Low(\h20)' = Low(\h20) /\ Low(\hE)' = Low(\hE)
        BY <2>1 DEF OvmfSize, FileOf, Low
      <3>2. a < Top - OvmfSize + gpa' /\ Top - OvmfSize + gpa' \in Int /\ a # Low(\hE)
        <4>1. gpa' = gpa + PageSize BY <2>1
        <4>2. Low(\hE) \in Nat /\ Low(\hE) < Low(\h20) /\ Low(\h20) \in Nat BY LowValues
        <4> QED BY <1>1, <2>3, <2>4, <4>1, <4>2, Constants
      <3>3. Len(info') = Len(info) + 1 /\ Len(info) \in Nat /\ info'[Len(info) + 1] = page
            /\ \A k \in 1 .. Len(info) : info'[k] = info[k] BY <1>1, <2>5
      <3>4. ASSUME NEW k \in 1 .. Len(info')
            PROVE  /\ info'[k].type # "vmsa" /\ info'[k].gpa >= Low(\h20) /\ info'[k].gpa < Top - OvmfSize + gpa'
                   /\ opts.vmm = "ec2" => info'[k].gpa # Low(\hE)
        <4>1. CASE k = Len(info) + 1 BY <2>4, <2>5, <3>2, <3>3, <4>1
        <4>2. CASE k \in 1 .. Len(info) BY <2>4, <2>6, <3>2, <3>3, <4>2
        <4> QED BY <3>3, <4>1, <4>2
      <3> QED BY <2>1, <3>1, <3>4, Zenon DEF CoverInv
    <2> QED BY <2>1, <2>5, <2>7, <2>8
  <1>7. CASE ImageDone
    <2>1. pc \in HashingMemory /\ pc' # "image" /\ opts' = opts /\ info' = info /\ Limit = 0 /\ Limit' = Low(0)'
      BY <1>7 DEF ImageDone, Goto, Skip, environment, HashingMemory, Limit
    <2>2. Low(0)' \in Nat /\ 0 <= Low(0)' BY LowValues DEF Low
    <2> QED BY <1>1, <2>1, <2>2, CoverSame
  <1>8. ASSUME NEW label \in {"sec memory", "ghcb", "temp ram"}, NEW last \in {9, \hD, \h20}, NEW next, NEW start,
               ZeroPages(label, last, next, start), opts' = opts, gpa <= Low(last),
               gpa < Low(last) => gpa < Low(\h20) /\ gpa # Low(\hE), next # "image",
               pc' = next => Limit' \in Nat /\ Low(last) <= Limit'
        PROVE  /\ CoverInv'
               /\ info' = info \/ \E page : info' = Append(info, page) /\ Fresh(page) /\ out' = out /\ pc # "exited"
    <2>1. pc = label /\ pc \in HashingMemory /\ Limit = gpa /\ pc # "exited" /\ label # "image"
      BY <1>8 DEF ZeroPages, HashingMemory, Limit
    <2>2. Low(last) \in Nat BY LowValues
    <2>3. CASE gpa < Low(last)
      <3> DEFINE page == PageOf(Blank, "zero", gpa)
      <3>1. info' = Append(info, page) /\ pc' = label /\ gpa' = gpa + PageSize /\ out' = out
        BY <1>8, <2>3 DEF ZeroPages, Update, Goto
      <3>2. page.type # "vmsa" /\ page.gpa = gpa BY BlankType
      <3>3. Limit' = gpa + PageSize BY <3>1 DEF Limit
      <3> HIDE DEF page
      <3>4. Limit' \in Nat /\ page.gpa < Limit' /\ Limit <= page.gpa /\ page.gpa \in Nat
        <4>1. gpa \in Nat BY <1>1
        <4>2. gpa + PageSize \in Nat /\ gpa < gpa + PageSize /\ gpa <= gpa BY <4>1, NextGpa
        <4> QED BY <2>1, <3>2, <3>3, <4>1, <4>2, Zenon
      <3>5. Fresh(page) /\ CoverInv'
        <4>1. page.gpa < Low(\h20) /\ page.gpa # Low(\hE) BY <1>8, <2>3, <3>2
        <4>2. pc' # "image" /\ Limit \in Nat BY <1>1, <2>1, <3>1
        <4> QED BY <1>1, <1>8, <2>1, <3>1, <3>2, <3>4, <4>1, <4>2, CoverNext
      <3> QED BY <2>1, <3>1, <3>5
    <2>4. CASE ~(gpa < Low(last))
      <3>1. info' = info /\ pc' = next BY <1>8, <2>4 DEF ZeroPages, Skip, Goto
      <3>2. Limit' \in Nat /\ Limit <= Limit' /\ Limit \in Nat
        <4>1. gpa <= Low(last) /\ gpa \in Nat /\ Limit = gpa BY <1>1, <1>8, <2>1
        <4>2. Limit' \in Nat /\ Low(last) <= Limit' BY <1>8, <3>1
        <4> QED BY <2>2, <4>1, <4>2, Between, Zenon
      <3> QED BY <1>1, <1>8, <2>1, <3>1, <3>2, CoverSame
    <2> QED BY <2>3, <2>4
  <1>9. \A n : Low(n)' = Low(n) BY DEF Low
  <1>10. ASSUME CalculateMr PROVE opts' = opts BY <1>10, StepFrame DEF environment
  <1>11. CASE SecMemory
    <2>1. ZeroPages("sec memory", 9, "ghcb", Low(\hA)) /\ pc = "sec memory"
      BY <1>11 DEF SecMemory, ZeroPages
    <2>2. gpa \in Low(0) .. Low(9) BY <1>1, <2>1, GpaRange
    <2>3. gpa <= Low(9) /\ (gpa < Low(9) => gpa < Low(\h20) /\ gpa # Low(\hE))
      <3>1. /\ Low(9) \in Nat /\ Low(9) < Low(\h20) /\ Low(9) < Low(\hE) /\ Low(\hE) \in Nat
            /\ Low(\h20) \in Nat /\ Low(0) \in Nat /\ Low(\hA) \in Nat BY LowValues
      <3> QED BY <2>2, <3>1
    <2>4. pc' = "ghcb" => Limit' = gpa' /\ gpa' = Low(\hA)
      BY <2>1 DEF ZeroPages, Goto, Limit
    <2>5. pc' = "ghcb" => Limit' \in Nat /\ Low(9) <= Limit' BY <2>4, LowValues
    <2>6. opts' = opts BY <1>10, <1>11 DEF CalculateMr
    <2> QED BY <1>8, <2>1, <2>3, <2>5, <2>6
  <1>12. CASE Ghcb
    <2>1. ZeroPages("ghcb", \hD, "secrets", 0) /\ pc = "ghcb" BY <1>12 DEF Ghcb, ZeroPages
    <2>2. gpa \in Low(\hA) .. Low(\hD) BY <1>1, <2>1, GpaRange
    <2>3. gpa <= Low(\hD) /\ (gpa < Low(\hD) => gpa < Low(\h20) /\ gpa # Low(\hE))
      <3>1. /\ Low(\hD) \in Nat /\ Low(\hD) < Low(\h20) /\ Low(\hD) < Low(\hE) /\ Low(\hE) \in Nat
            /\ Low(\h20) \in Nat /\ Low(0) \in Nat /\ Low(\hA) \in Nat BY LowValues
      <3> QED BY <2>2, <3>1
    <2>4. pc' = "secrets" => Limit' = Low(\hD) BY <1>9 DEF Limit
    <2>5. pc' = "secrets" => Limit' \in Nat /\ Low(\hD) <= Limit' BY <2>4, LowValues
    <2>6. opts' = opts BY <1>10, <1>12 DEF CalculateMr
    <2> QED BY <1>8, <2>1, <2>3, <2>5, <2>6
  <1>13. CASE TempRam
    <2>1. ZeroPages("temp ram", \h20, "last cpuid", 0) /\ pc = "temp ram"
      BY <1>13 DEF TempRam, ZeroPages
    <2>2. gpa \in Low(\hF) .. Low(\h20) BY <1>1, <2>1, GpaRange
    <2>3. gpa <= Low(\h20) /\ (gpa < Low(\h20) => gpa < Low(\h20) /\ gpa # Low(\hE))
      BY <1>1, <2>2, LowValues
    <2>4. pc' = "last cpuid" => Limit' = Low(\h20) BY <1>9 DEF Limit
    <2>5. pc' = "last cpuid" => Limit' \in Nat /\ Low(\h20) <= Limit'
      <3>1. Low(\h20) \in Nat /\ Low(\h20) <= Low(\h20) BY LowValues
      <3> QED BY <2>4, <3>1, Zenon
    <2>6. opts' = opts BY <1>10, <1>13 DEF CalculateMr
    <2> QED BY <1>8, <2>1, <2>3, <2>5, <2>6
  <1>14. CASE Secrets
    <2> DEFINE page == PageOf(Blank, "secrets", Low(\hD))
    <2>1. /\ pc = "secrets" /\ pc' = "cpuid" /\ info' = Append(info, page) /\ opts' = opts /\ out' = out
      BY <1>14 DEF Secrets, Update, Goto, environment
    <2>2. page.type # "vmsa" /\ page.gpa = Low(\hD) BY BlankType
    <2> HIDE DEF page
    <2>3. Limit = Low(\hD) /\ Limit' = Low(\hE) BY <1>9, <2>1 DEF Limit
    <2>4. /\ page.gpa \in Nat /\ Limit \in Nat /\ Limit <= page.gpa /\ page.gpa < Low(\h20)
          /\ Limit' \in Nat /\ page.gpa < Limit' /\ page.gpa # Low(\hE)
      BY <2>2, <2>3, LowValues
    <2>5. pc \in HashingMemory /\ pc' # "image" /\ pc # "exited" BY <2>1 DEF HashingMemory
    <2>6. Fresh(page) /\ CoverInv' BY <1>1, <2>1, <2>2, <2>4, <2>5, CoverNext
    <2> QED BY <2>1, <2>5, <2>6
  <1>15. CASE Cpuid
    <2>1. /\ pc = "cpuid" /\ opts' = opts /\ out' = out
          /\ IF Given("kernel") THEN pc' = "svsm" /\ gpa' = 0 ELSE pc' = "temp ram" /\ gpa' = Low(\hF)
          /\ IF opts.vmm = "qemu" THEN info' = Append(info, CpuidPage) ELSE info' = info
      BY <1>15 DEF Cpuid, Update, Skip, Goto, environment
    <2>2. pc \in HashingMemory /\ pc' \in HashingMemory /\ pc' # "image" /\ pc # "exited"
      BY <2>1 DEF HashingMemory
    <2>3. Limit = Low(\hE) /\ Limit' = Low(\hF)
      <3>1. Limit = Low(\hE) BY <2>1 DEF Limit
      <3>2. (pc' = "svsm" \/ (pc' = "temp ram" /\ gpa' = Low(\hF))) BY <2>1
      <3> QED BY <1>9, <3>1, <3>2 DEF Limit
    <2>4. Limit \in Nat /\ Limit' \in Nat /\ Limit < Limit' BY <2>3, LowValues
    <2>5. CASE opts.vmm = "qemu"
      <3> DEFINE page == CpuidPage
      <3>1. page.type # "vmsa" /\ page.gpa = Low(\hE) BY BlankType DEF CpuidPage
      <3>2. info' = Append(info, page) BY <2>1, <2>5
      <3> HIDE DEF page
      <3>3. page.gpa \in Nat /\ Limit <= page.gpa /\ page.gpa < Low(\h20) /\ page.gpa < Limit'
        BY <2>3, <2>4, <3>1, LowValues
      <3>4. Fresh(page) /\ CoverInv'
        <4>1. opts.vmm # "ec2" BY <2>5
        <4> QED BY <1>1, <2>1, <2>2, <2>4, <3>1, <3>2, <3>3, <4>1, CoverNext
      <3> QED BY <2>1, <2>2, <3>2, <3>4
    <2>6. CASE opts.vmm # "qemu"
      <3>1. info' = info BY <2>1, <2>6
      <3>2. Limit <= Limit' BY <2>4
      <3> QED BY <1>1, <2>1, <2>2, <2>4, <3>1, <3>2, CoverSame
    <2> QED BY <2>5, <2>6
  <1>16. CASE Svsm
    <2> DEFINE page == PageOf(Blank, "zero", Low(\hF))
    <2>1. /\ pc = "svsm" /\ pc' = "kernel hashes" /\ info' = Append(info, page) /\ opts' = opts /\ out' = out
      BY <1>16 DEF Svsm, Update, Goto, environment
    <2>2. page.type # "vmsa" /\ page.gpa = Low(\hF) BY BlankType
    <2> HIDE DEF page
    <2>3. Limit = Low(\hF) /\ Limit' = Low(\h10) BY <1>9, <2>1 DEF Limit
    <2>4. /\ page.gpa \in Nat /\ Limit \in Nat /\ Limit <= page.gpa /\ page.gpa < Low(\h20)
          /\ Limit' \in Nat /\ page.gpa < Limit' /\ page.gpa # Low(\hE)
      BY <2>2, <2>3, LowValues
    <2>5. pc \in HashingMemory /\ pc' # "image" /\ pc # "exited" BY <2>1 DEF HashingMemory
    <2>6. Fresh(page) /\ CoverInv' BY <1>1, <2>1, <2>2, <2>4, <2>5, CoverNext
    <2> QED BY <2>1, <2>5, <2>6
  <1>17. CASE KernelHashes
    <2> DEFINE page == PageOf(hashes, "normal", Low(\h10))
    <2>1. /\ pc = "kernel hashes" /\ pc' = "temp ram" /\ gpa' = Low(\h11) /\ info' = Append(info, page)
          /\ opts' = opts /\ out' = out BY <1>17 DEF KernelHashes, Update, Goto, environment
    <2>2. page.type # "vmsa" /\ page.gpa = Low(\h10) BY DEF PageOf
    <2> HIDE DEF page
    <2>3. Limit = Low(\h10) /\ Limit' = Low(\h11) BY <1>9, <2>1 DEF Limit
    <2>4. /\ page.gpa \in Nat /\ Limit \in Nat /\ Limit <= page.gpa /\ page.gpa < Low(\h20)
          /\ Limit' \in Nat /\ page.gpa < Limit' /\ page.gpa # Low(\hE)
      BY <2>2, <2>3, LowValues
    <2>5. pc \in HashingMemory /\ pc' # "image" /\ pc # "exited" BY <2>1 DEF HashingMemory
    <2>6. Fresh(page) /\ CoverInv' BY <1>1, <2>1, <2>2, <2>4, <2>5, CoverNext
    <2> QED BY <2>1, <2>5, <2>6
  <1>18. CASE LastCpuid
    <2>1. /\ pc = "last cpuid" /\ pc' = "boot vcpu" /\ out' = out
          /\ IF opts.vmm = "ec2" THEN info' = Append(info, CpuidPage) ELSE info' = info
      BY <1>18 DEF LastCpuid, Update, Skip, Goto
    <2>2. pc \in HashingMemory /\ pc' \notin HashingMemory /\ pc # "exited"
      BY <2>1 DEF HashingMemory
    <2>3. CoverInv' BY <1>2, <2>2
    <2>4. CpuidPage.gpa = Low(\hE) BY DEF CpuidPage, PageOf
    <2>5. opts.vmm = "ec2" => Fresh(CpuidPage) BY <2>2, <2>4, Zenon DEF CoverInv, Fresh
    <2> QED BY <2>1, <2>2, <2>3, <2>5
  <1>19. CASE BootVcpu \/ OtherVcpus
    <2>1. /\ pc # "exited" /\ pc' \notin HashingMemory /\ out' = out
          /\ info' = info \/ \E eip \in {ResetVector, ApVector} : info' = Append(info, VmsaPage(eip))
      BY <1>19 DEF BootVcpu, OtherVcpus, Update, Skip, Goto, HashingMemory
    <2>2. \A eip \in {ResetVector, ApVector} : Fresh(VmsaPage(eip)) BY VmsaFits DEF Fresh
    <2> QED BY <1>2, <2>1, <2>2
  <1> QED BY <1>3, <1>4, <1>5, <1>6, <1>7, <1>11, <1>12, <1>13, <1>14, <1>15, <1>16, <1>17, <1>18, <1>19, Zenon
          DEF Next, CalculateMr

LEMMA Grown ==
  ASSUME info \in Seq(Page), NEW page, info' = Append(info, page)
  PROVE  info' # <<>> /\ Processor!Front(info') = info /\ Processor!Last(info') = page
  <1>1. Len(info') = Len(info) + 1 /\ Len(info) \in Nat /\ info'[Len(info) + 1] = page
    OBVIOUS
  <1>2. SubSeq(info', 1, Len(info)) = info OBVIOUS
  <1>3. Len(info') - 1 = Len(info) BY <1>1
  <1>4. info' # <<>> BY <1>1
  <1> QED BY <1>1, <1>2, <1>3, <1>4 DEF Processor!Front, Processor!Last

\* The calls of calculate-snp-mr are ones the secure processor accepts: a page
\* of memory is measured once, before the save areas, and what is printed as
\* the digest is that of all calls (snp.c:387-433).
THEOREM AcceptedByProcessor ==
  ASSUME ImagesFit
  PROVE  Spec => ImplementsProcessor
  <1> DEFINE digest == IF out \in {Unprinted, <<Garbage>>} THEN <<>> ELSE out[1]
  <1>1. Init => CoverInv /\ Processor!SnpInit
    <2> SUFFICES ASSUME Init PROVE CoverInv /\ Processor!SnpInit OBVIOUS
    <2>1. info = <<>> /\ out = Unprinted BY DEF Init
    <2> QED BY <2>1 DEF CoverInv, Processor!SnpInit
  <1>2. LaunchInv /\ CoverInv /\ [Next]_vars => CoverInv' /\ [Processor!SnpNext]_(Processor!snpVars)
    <2> SUFFICES ASSUME LaunchInv, CoverInv, [Next]_vars
                 PROVE  CoverInv' /\ [Processor!SnpNext]_(Processor!snpVars) OBVIOUS
    <2>1. info \in Seq(Page) /\ OutInv /\ SaveAreaInv /\ (pc # "exited" => out = Unprinted)
      BY DEF LaunchInv, TypeInv, ControlInv
    <2>2. CoverInv' BY StepCover
    <2>3. ASSUME NEW page, info' = Append(info, page), Fresh(page), out' = out, pc # "exited"
          PROVE  Processor!LaunchUpdate
      <3>1. digest = <<>> /\ digest' = digest BY <2>1, <2>3
      <3>2. info' # <<>> /\ Processor!Front(info') = info /\ Processor!Last(info') = page
        BY <2>1, <2>3, Grown
      <3>3. Processor!Accepts(page)
        <4>1. DOMAIN info = 1 .. Len(info) BY <2>1
        <4> QED BY <2>3, <4>1, Zenon DEF Fresh, Processor!Accepts, Processor!SaveAreas, Processor!Measured
      <3> QED BY <3>1, <3>2, <3>3, Zenon DEF Processor!LaunchUpdate
    <2>4. ASSUME info' = info
          PROVE  UNCHANGED <<info, digest>> \/ Processor!LaunchFinish
      <3>1. CASE out' = out BY <2>4, <3>1
      <3>2. CASE out' # out
        <4>1. CASE Publish
          <5>1. pc = "publish" /\ out' = <<info>> /\ out = Unprinted
            BY <2>1, <4>1 DEF Publish, Exit
          <5>2. \E k \in 1 .. Len(info) : info[k].type = "vmsa"
            BY <2>1, <5>1 DEF SaveAreaInv
          <5>3. Processor!SaveAreas # {}
            <6>1. DOMAIN info = 1 .. Len(info) BY <2>1
            <6> QED BY <5>2, <6>1 DEF Processor!SaveAreas, Processor!Measured
          <5>4. info # Garbage BY <2>1, GarbageAssumption
          <5>5. <<info>> # <<Garbage>> /\ <<info>> # Unprinted /\ <<info>>[1] = info
            BY <5>4 DEF Unprinted
          <5>6. digest = <<>> /\ digest' = info BY <5>1, <5>5
          <5> QED BY <2>4, <5>3, <5>6, Zenon DEF Processor!LaunchFinish
        <4>2. CASE ~Publish
          <5>1. out' = <<Garbage>> /\ pc # "exited"
            <6>1. CASE Main \/ UNCHANGED vars \/ Terminated
              BY <3>2, <4>2, <6>1 DEF Main, ParseFile, ParseVcpus, ParseVmm, ParseVerbose, ParseRefused, ParseEnd,
                                      Validate, Parsed, Exit, Skip, Terminated, vars
            <6>2. CASE CalculateMr
              BY <3>2, <6>2 DEF CalculateMr, ReadOvmf, ReadCmdline, ReadFile, Abandon, Exit, Crash, HashFiles,
                                MeasureImage, MeasureBeyond, ImageDone, SecMemory, Ghcb, TempRam, ZeroPages, Secrets,
                                Cpuid, Svsm, KernelHashes, LastCpuid, BootVcpu, OtherVcpus, OutOfMemory, Update, Skip
            <6> QED BY <6>1, <6>2 DEF Next
          <5>2. digest = <<>> /\ digest' = <<>> BY <2>1, <5>1
          <5> QED BY <2>4, <5>2
        <4> QED BY <4>1, <4>2
      <3> QED BY <3>1, <3>2
    <2>5. info' = info \/ \E page : info' = Append(info, page) /\ Fresh(page) /\ out' = out /\ pc # "exited"
      BY StepCover
    <2> QED BY <2>2, <2>3, <2>4, <2>5, Zenon DEF Processor!SnpNext, Processor!snpVars
  <1> QED BY <1>1, <1>2, Invariance, PTL DEF Spec, ImplementsProcessor, Processor!SnpSpec

=============================================================================
