---------------------------- MODULE PeCoff_proofs ----------------------------
(***************************************************************************)
(* Proofs about the measurement of PE/COFF images, for every set of images *)
(* and every width of the fields: nothing outside the file is hashed, and  *)
(* neither are the fields that the digest leaves out; an image as a linker *)
(* makes it is measured, with its Authenticode digest.  Of an image that   *)
(* is configured as a kernel before, the fields are written inside the     *)
(* image, hold the values of the configuration file and are measured.      *)
(***************************************************************************)
EXTENDS KernelImage, SequenceLemmas, FiniteSetTheorems

-----------------------------------------------------------------------------
(* Headers *)

LEMMA WrapSmall ==
  ASSUME NEW x \in Nat, x <= Max32
  PROVE  Wrap(x) = x BY Max32Assumption, SMT DEF Wrap

LEMMA WrapNegative ==
  ASSUME NEW x \in Int, x < 0, -Max32 <= x
  PROVE  Wrap(x) = x + Max32 + 1 BY Max32Assumption, SMT DEF Wrap

LEMMA ImageFields ==
  ASSUME image \in Image
  PROVE  /\ image.size \in Nat /\ image.pe \in UInt32 /\ image.dirs \in UInt32
         /\ image.optSize \in UInt32 /\ image.headers \in UInt32 /\ image.security.size \in UInt32
         /\ image.sections \in Seq(Section) /\ image.low \in Seq(Section)
         /\ Len(image.low) = Len(image.sections) BY DEF Image, Directory

\* The section table is where a UINT32 can tell, and so where it was checked.
Told == TableAt <= Max32

LEMMA TableNumbers ==
  ASSUME image \in Image
  PROVE  TableAt \in Nat /\ (Told => SectionTable = TableAt)
  <1>1. image.pe \in Nat /\ image.optSize \in Nat
    BY ImageFields, Max32Assumption, SMT DEF UInt32
  <1>2. TableAt \in Nat
    <2>1. CASE IsTe BY <2>1, SMT DEF TableAt, TeSize
    <2>2. CASE ~IsTe BY <1>1, <2>2, SMT DEF TableAt, FileHeaderEnd
    <2> QED BY <2>1, <2>2
  <1> QED BY <1>2, WrapSmall DEF SectionTable, Told

\* The fields that are not hashed have a place, and so have the headers an end.
LEMMA PlaceNumbers ==
  ASSUME image \in Image
  PROVE  CheckSum \in Nat /\ SecurityEntry \in Nat /\ image.headers \in Nat /\ image.size \in Nat
  <1>1. image.pe \in Nat /\ image.headers \in Nat /\ image.size \in Nat /\ WithoutDirectories \in {96, 112}
    BY ImageFields, Max32Assumption, SMT DEF UInt32, WithoutDirectories
  <1> QED BY <1>1, SMT DEF CheckSum, SecurityEntry, FileHeaderEnd, Security, DirectorySize

\* What the checks of the headers say about the fields that are not hashed: they
\* lie in this order, in front of the section table, and that in the headers.
Layout ==
  /\ CheckSum \in Nat /\ SecurityEntry \in Nat
  /\ CheckSum + 4 <= SecurityEntry
  /\ image.headers \in Nat /\ image.size \in Nat
  /\ CheckSum + 4 <= image.headers
  /\ HasSecurity => SecurityEntry + DirectorySize <= image.headers
  /\ image.headers <= image.size

\* The optional header has room for its directories: an optSize below the fixed
\* part would wrap around to more directories than there may be.
LEMMA OptionalHeaderSize ==
  ASSUME image \in Image, ~IsTe, DirectoriesValid
  PROVE  image.optSize = WithoutDirectories + image.dirs * DirectorySize /\ image.dirs \in 0 .. 16
  <1> DEFINE x == image.optSize - WithoutDirectories
  <1> DEFINE dirs == image.dirs
  <1>0. image.optSize \in 0 .. Max32 /\ dirs \in 0 .. Max32 BY ImageFields DEF UInt32
  <1>1. dirs \in 0 .. 16 /\ Wrap(x) = dirs * 8
    <2>1. dirs <= 16 /\ Wrap(x) = dirs * 8
      BY DEF DirectoriesValid, MaxDirectories, DirectorySize
    <2> HIDE DEF dirs
    <2> QED BY <1>0, <2>1, Max32Assumption, SMT
  <1>2. WithoutDirectories \in {96, 112} BY DEF WithoutDirectories
  <1>3. x \in Int /\ x <= Max32 /\ -112 <= x BY <1>0, <1>2, Max32Assumption, SMT
  <1>4. CASE x < 0
    <2>1. -Max32 <= x BY <1>3, Max32Assumption, SMT DEF UnionSize
    <2>2. Wrap(x) = x + Max32 + 1 BY <1>3, <1>4, <2>1, WrapNegative
    <2> QED BY <1>1, <1>3, <2>2, Max32Assumption, SMT DEF UnionSize
  <1>5. CASE x >= 0
    <2>1. Wrap(x) = x BY <1>3, <1>5, WrapSmall
    <2> DEFINE o == image.optSize
               w == WithoutDirectories
    <2>2. o - w = dirs * 8 /\ o \in 0 .. Max32 /\ w \in {96, 112} BY <1>0, <1>1, <1>2, <2>1
    <2>3. o = w + dirs * 8
      <3> HIDE DEF o, w, dirs
      <3> QED BY <1>1, <2>2, Max32Assumption, SMT
    <2> QED BY <1>1, <2>3 DEF DirectorySize
  <1> QED BY <1>1, <1>3, <1>4, <1>5, SMT

\* A file that a UINT32 can measure has its table there, once the headers are
\* accepted.
Known == Told \/ image.size <= Max32

LEMMA KnownIsTold ==
  ASSUME image \in Image, HeadersValid, ~IsTe, Known
  PROVE  Told
  <1>1. image.optSize = WithoutDirectories + image.dirs * DirectorySize /\ image.dirs \in 0 .. 16
    BY OptionalHeaderSize DEF HeadersValid, OptionalHeaderValid
  <1>2. image.pe + UnionSize <= image.size BY DEF HeadersValid, Reads
  <1>3. image.pe \in Nat /\ image.size \in Nat /\ WithoutDirectories \in {96, 112}
    BY ImageFields, Max32Assumption, SMT DEF UInt32, WithoutDirectories
  <1>4. ASSUME image.size <= Max32 PROVE Told
    BY <1>1, <1>2, <1>3, <1>4, Max32Assumption, SMT DEF Told, TableAt, FileHeaderEnd, UnionSize, DirectorySize
  <1> QED BY <1>4 DEF Known

LEMMA HeadersGiveLayout ==
  ASSUME image \in Image, ~IsTe, HeadersValid, Told
  PROVE  Layout
  <1>1. OptionalHeaderValid /\ image.pe + UnionSize <= image.size BY DEF HeadersValid, Reads
  <1>2. image.optSize = WithoutDirectories + image.dirs * 8 /\ image.dirs \in 0 .. 16
    BY <1>1, OptionalHeaderSize DEF OptionalHeaderValid, DirectorySize
  <1>3. WithoutDirectories \in {96, 112} BY DEF WithoutDirectories
  <1>4. image.pe \in Nat /\ image.size \in Nat /\ image.headers \in Nat
    BY ImageFields, Max32Assumption, SMT DEF UInt32
  <1>5. SectionTable = image.pe + 24 + image.optSize
    BY TableNumbers DEF TableAt, FileHeaderEnd
  <1>6. image.headers > SectionTable /\ image.headers - 1 + 1 <= image.size
    BY <1>1 DEF OptionalHeaderValid, HeaderSizeValid, Reads
  <1>7. CheckSum = image.pe + 88 /\ SecurityEntry = image.pe + 24 + WithoutDirectories + 32
    BY <1>3, <1>4, SMT DEF CheckSum, SecurityEntry, FileHeaderEnd, Security, DirectorySize
  <1>8. HasSecurity => image.dirs >= 5 BY <1>2, SMT DEF HasSecurity, Security
  <1> QED BY <1>2, <1>3, <1>4, <1>5, <1>6, <1>7, <1>8, SMT DEF Layout, DirectorySize

-----------------------------------------------------------------------------
(* The invariant *)

Hashing == {"context", "sort", "hash", "final"}
Validated == {"sections", "search", "debug", "measure"} \cup Hashing

Typed == /\ image \in Image /\ i \in Nat \ {0} /\ sum \in Nat
         /\ table \in Seq(Section) /\ hashed \in Seq(Nat \X Nat)

\* The headers were checked, and so were the sections, at the place a UINT32
\* tells: those before i while the loop is at them.  A TE image is not hashed.
Headed == pc \in Validated => HeadersValid
SectionValid(k) == SectionInside(Adjusted(Checked(k)))
Sectioned ==
  \A k \in 1 .. N :
    (pc = "sections" /\ k < i) \/ pc \in Validated \ {"sections"} => SectionValid(k)
Portable == pc \in Hashing => ~IsTe

\* The table is made of sections of the image, as many as were inserted, and
\* the sum has passed the headers.
Sorting ==
  /\ \A j \in DOMAIN table : \E k \in 1 .. N : table[j] = image.sections[k]
  /\ pc = "sort" => Len(table) = i - 1 /\ i <= N + 1
  /\ pc = "hash" => Len(table) = N
  /\ pc \notin {"sort", "hash", "final", "returned", "crashed"} => table = <<>>
  /\ pc \in {"sort", "hash", "final"} => sum >= image.headers

\* A range that may be hashed.
Good(r) ==
  /\ r[1] <= r[2] /\ r[2] <= image.size
  /\ Apart(r, CheckSum, CheckSum + 4)
  /\ HasSecurity => Apart(r, SecurityEntry, SecurityEntry + DirectorySize)

Ranged == Known => \A k \in DOMAIN hashed : Good(hashed[k])

RangeInv == Typed /\ Headed /\ Sectioned /\ Portable /\ Sorting /\ Ranged

LEMMA RangeInvImplies == RangeInv => HashedAllowed
  <1> SUFFICES ASSUME RangeInv, Known, NEW k \in DOMAIN hashed
               PROVE  /\ 0 <= hashed[k][1] /\ hashed[k][1] <= hashed[k][2]
                      /\ hashed[k][2] <= image.size
                      /\ Apart(hashed[k], CheckSum, CheckSum + 4)
                      /\ HasSecurity => Apart(hashed[k], SecurityEntry, SecurityEntry + DirectorySize)
    BY DEF HashedAllowed, HashedInside, ExcludedNotHashed, Known, Told
  <1>1. hashed[k] \in Nat \X Nat BY DEF RangeInv, Typed
  <1>2. 0 <= hashed[k][1] BY <1>1, SMT
  <1> QED BY <1>2 DEF RangeInv, Ranged, Good

\* Nothing is known of the image yet.
Begun ==
  /\ pc \in {"load", "headers"} /\ i = 1 /\ found = 0 /\ table = <<>> /\ hashed = <<>> /\ sum = 0
  /\ digest = FALSE /\ status = ""

LEMMA StartIsBegun == Start => Begun
  BY Zenon DEF Start, Begun

LEMMA RangeStarts == image \in Image /\ Begun => RangeInv
  <1> SUFFICES ASSUME image \in Image, Begun PROVE RangeInv OBVIOUS
  <1>1. /\ pc \in {"load", "headers"} /\ i = 1 /\ sum = 0 /\ table = <<>> /\ hashed = <<>>
    BY DEF Begun
  <1>0. DOMAIN table = {} /\ DOMAIN hashed = {} BY <1>1, SMT
  <1>2. Typed BY <1>1, SMT DEF Typed
  <1>3. pc \notin Validated /\ pc \notin Hashing BY <1>1 DEF Validated, Hashing
  <1>4. Headed /\ Sectioned /\ Portable BY <1>1, <1>3 DEF Headed, Sectioned, Portable
  <1>5. Sorting /\ Ranged BY <1>0, <1>1 DEF Sorting, Ranged
  <1> QED BY <1>2, <1>4, <1>5 DEF RangeInv

LEMMA RangeInit == Init => RangeInv
  BY ImagesAssumption, RangeStarts, StartIsBegun DEF Init

-----------------------------------------------------------------------------
(* Hashing *)

LEMMA NothingIsGood == ASSUME image.size \in Nat PROVE Nothing \in Nat \X Nat /\ Good(Nothing)
  BY SMT DEF Nothing, Good, Apart

LEMMA BehindHeadersIsGood ==
  ASSUME Layout, NEW a \in Nat, NEW b \in Int, a >= image.headers, a <= b, b <= image.size
  PROVE  Good(<<a, b>>)
  <1>1. CheckSum + 4 <= a BY SMT DEF Layout
  <1>2. HasSecurity => SecurityEntry + DirectorySize <= a
    <2> SUFFICES ASSUME HasSecurity PROVE SecurityEntry + DirectorySize <= a OBVIOUS
    <2>1. SecurityEntry \in Nat /\ SecurityEntry + 8 <= image.headers /\ image.headers \in Nat
      BY DEF Layout, DirectorySize
    <2> QED BY <2>1, SMT DEF DirectorySize
  <1>3. <<a, b>>[1] = a /\ <<a, b>>[2] = b OBVIOUS
  <1> QED BY <1>1, <1>2, <1>3 DEF Good, Apart

\* Good ranges, some of them lost, keep what is hashed good.
LEMMA HashGood ==
  ASSUME Typed, Ranged, image' = image, NEW ranges \in Seq(Nat \X Nat),
         Known => \A k \in DOMAIN ranges : Good(ranges[k]),
         Hash(ranges)
  PROVE  hashed' \in Seq(Nat \X Nat) /\ Ranged'
  <1>1. PICK lost \in SUBSET DOMAIN ranges :
          hashed' = hashed \o [k \in DOMAIN ranges |-> IF k \in lost THEN Nothing ELSE ranges[k]]
    BY DEF Hash
  <1>0. image.size \in Nat BY ImageFields DEF Typed
  <1> DEFINE new == [k \in DOMAIN ranges |-> IF k \in lost THEN Nothing ELSE ranges[k]]
  <1>2. new \in Seq(Nat \X Nat)
    <2> DEFINE n == Len(ranges)
    <2>1. n \in Nat /\ DOMAIN ranges = 1 .. n BY SMT
    <2>2. \A k \in 1 .. n : new[k] \in Nat \X Nat BY <1>0, <2>1, NothingIsGood
    <2>3. new = [k \in 1 .. n |-> new[k]] BY <2>1
    <2> HIDE DEF n, new
    <2>4. new \in [1 .. n -> Nat \X Nat] BY <2>2, <2>3
    <2> QED BY <2>1, <2>4, SeqDef
  <1>3. Known => \A k \in DOMAIN new : Good(new[k]) BY <1>0, NothingIsGood
  <1> HIDE DEF new
  <1>4. hashed' = hashed \o new /\ hashed \in Seq(Nat \X Nat) BY <1>1 DEF new, Typed
  <1>5. Known => \A k \in DOMAIN hashed' : Good(hashed'[k])
    <2> SUFFICES ASSUME Known, NEW k \in DOMAIN hashed' PROVE Good(hashed'[k]) OBVIOUS
    <2>1. \/ k \in DOMAIN hashed /\ hashed'[k] = hashed[k]
          \/ k - Len(hashed) \in DOMAIN new /\ hashed'[k] = new[k - Len(hashed)]
      BY <1>2, <1>4, SMT
    <2> QED BY <1>3, <2>1 DEF Ranged
  <1>6. hashed' \in Seq(Nat \X Nat) BY <1>2, <1>4, SMT
  <1>7. \A r : Good(r)' <=> Good(r)
    BY DEF Good, CheckSum, SecurityEntry, HasSecurity, Apart, WithoutDirectories
  <1> QED BY <1>5, <1>6 DEF Ranged, Good, CheckSum, SecurityEntry, HasSecurity, WithoutDirectories, Known,
          Told, TableAt, IsTe

-----------------------------------------------------------------------------
(* Steps *)

\* What is said about the image alone does not change.
LEMMA SameImage ==
  ASSUME image' = image
  PROVE  /\ HeadersValid' <=> HeadersValid
         /\ IsTe' <=> IsTe
         /\ N' = N
         /\ TableAt' = TableAt
         /\ (Told' <=> Told) /\ (Known' <=> Known)
         /\ \A k : SectionValid(k)' <=> SectionValid(k)
  <1>1. (IsTe' <=> IsTe) /\ N' = N /\ TableAt' = TableAt /\ SectionTable' = SectionTable /\ Headers' = Headers
    BY DEF IsTe, N, TableAt, SectionTable, Headers
  <1>2. WithoutDirectories' = WithoutDirectories BY DEF WithoutDirectories
  <1>3. HeadersValid' <=> HeadersValid
    BY <1>1, <1>2 DEF HeadersValid, Reads, TeHeaderValid, OptionalHeaderValid, DirectoriesValid,
       TableValid, HeaderSizeValid, SecurityInside
  <1>4. \A k : SectionValid(k)' <=> SectionValid(k)
    BY <1>1 DEF SectionValid, SectionInside, Adjusted, Checked, Reads, TeShift
  <1> QED BY <1>1, <1>3, <1>4 DEF Told, Known

\* A step that hashes and sorts nothing.
LEMMA Stays ==
  ASSUME RangeInv, UNCHANGED <<image, table, sum, hashed>>, i' \in Nat \ {0},
         pc' \in Validated => HeadersValid,
         \A k \in 1 .. N :
           (pc' = "sections" /\ k < i') \/ pc' \in Validated \ {"sections"} => SectionValid(k),
         pc' \in Hashing => ~IsTe,
         Sorting'
  PROVE  RangeInv'
  <1>1. Typed' BY DEF RangeInv, Typed
  <1>2. Headed' /\ Sectioned' /\ Portable' BY SameImage DEF Headed, Sectioned, Portable
  <1>3. Ranged'
    BY SameImage DEF RangeInv, Ranged, Good, CheckSum, SecurityEntry, HasSecurity, WithoutDirectories
  <1> QED BY <1>1, <1>2, <1>3 DEF RangeInv

\* A step that ends the call.
LEMMA Stops ==
  ASSUME RangeInv, UNCHANGED <<image, i, table, sum, hashed>>, pc' \in {"returned", "crashed"}
  PROVE  RangeInv'
  <1>1. pc' \notin Validated /\ pc' \notin Hashing BY DEF Validated, Hashing
  <1>2. Sorting' BY SameImage DEF RangeInv, Sorting
  <1>3. i' \in Nat \ {0} BY DEF RangeInv, Typed
  <1> QED BY <1>1, <1>2, <1>3, Stays

LEMMA RefuseStops ==
  ASSUME RangeInv, Refuse
  PROVE  RangeInv' BY Stops DEF Refuse, Return, Crash

LEMMA ReturnStops ==
  ASSUME RangeInv, NEW s, Return(s)
  PROVE  RangeInv' BY Stops DEF Return

\* In front of the sort the table is empty.
LEMMA StaysUnsorted ==
  ASSUME RangeInv, UNCHANGED <<image, table, sum, hashed>>, table = <<>>,
         pc' \notin {"sort", "hash", "final"}
  PROVE  Sorting' BY SameImage DEF RangeInv, Sorting

LEMMA LoadStep ==
  ASSUME RangeInv, LoadPeImage
  PROVE  RangeInv'
  <1>1. CASE LoadFails BY <1>1, ReturnStops DEF LoadFails
  <1>2. CASE Load
    <2>1. pc' = "headers" /\ i' = 1 /\ UNCHANGED <<image, table, sum, hashed>> /\ table = <<>>
      BY <1>2 DEF Load, Goto, RangeInv, Sorting
    <2>2. pc' \notin Validated /\ pc' \notin Hashing BY <2>1 DEF Validated, Hashing
    <2>3. Sorting' BY <2>1, StaysUnsorted
    <2> QED BY <2>1, <2>2, <2>3, Stays
  <1> QED BY <1>1, <1>2 DEF LoadPeImage
LEMMA InfoStep ==
  ASSUME RangeInv, GetImageInfo
  PROVE  RangeInv'
  <1> DEFINE Same == UNCHANGED <<image, table, sum, hashed>>
  <1>1. CASE GetPeHeader
    <2>1. CASE HeadersValid /\ Goto("sections")
      <3>1. pc' = "sections" /\ i' = 1 /\ Same /\ table = <<>>
        BY <1>1, <2>1 DEF GetPeHeader, Goto, RangeInv, Sorting
      <3>2. Sorting' /\ pc' \notin Hashing BY <3>1, StaysUnsorted DEF Hashing
      <3>3. \A k \in 1 .. N : ~(k < i') BY <3>1, SMT
      <3> QED BY <2>1, <3>1, <3>2, <3>3, Stays
    <2> QED BY <1>1, <2>1, RefuseStops DEF GetPeHeader
  <1>2. CASE CheckSection
    <2>1. ASSUME SectionInside(Adjusted(Checked(i))), i \in 1 .. N, i' = i + 1, pc' = pc, Same
          PROVE  RangeInv'
      <3>1. pc = "sections" /\ HeadersValid /\ table = <<>> /\ i' \in Nat \ {0}
        BY <1>2, <2>1, SMT DEF CheckSection, RangeInv, Headed, Validated, Sorting
      <3>2. Sorting' /\ pc' \notin Hashing BY <2>1, <3>1, StaysUnsorted DEF Hashing
      <3>3. \A k \in 1 .. N : k < i' => SectionValid(k)
        <4> SUFFICES ASSUME NEW k \in 1 .. N, k < i' PROVE SectionValid(k) OBVIOUS
        <4>1. k < i \/ k = i BY <2>1, SMT
        <4> QED BY <2>1, <3>1, <4>1 DEF RangeInv, Sectioned, SectionValid
      <3> QED BY <2>1, <3>1, <3>2, <3>3, Stays
    <2>2. i \in 1 .. N BY <1>2, SMT DEF CheckSection, RangeInv, Typed
    <2> QED BY <1>2, <2>1, <2>2, RefuseStops DEF CheckSection
  <1>3. CASE SectionsChecked
    <2>1. /\ pc = "sections" /\ i > N /\ pc' \in {"search", "measure"} /\ i' = 1 /\ Same
          /\ HeadersValid /\ table = <<>>
      BY <1>3 DEF SectionsChecked, Goto, RangeInv, Headed, Validated, Sorting
    <2>2. \A k \in 1 .. N : SectionValid(k)
      <3> SUFFICES ASSUME NEW k \in 1 .. N PROVE SectionValid(k) OBVIOUS
      <3>1. N \in Nat /\ i \in Nat BY ImageFields, SMT DEF RangeInv, Typed, N
      <3>2. k < i BY <2>1, <3>1, SMT
      <3> QED BY <2>1, <3>2 DEF RangeInv, Sectioned
    <2>3. Sorting' /\ pc' \notin Hashing BY <2>1, StaysUnsorted DEF Hashing
    <2> QED BY <2>1, <2>2, <2>3, Stays
  <1>4. ASSUME pc \in {"search", "debug"}, pc' \in {"search", "debug", "measure"}, Same, i' \in Nat \ {0}
        PROVE  RangeInv'
    <2>1. HeadersValid /\ (\A k \in 1 .. N : SectionValid(k)) /\ table = <<>>
      BY <1>4 DEF RangeInv, Headed, Sectioned, Sorting, Validated
    <2>2. Sorting' /\ pc' \notin Hashing BY <1>4, <2>1, StaysUnsorted DEF Hashing
    <2> QED BY <1>4, <2>1, <2>2, Stays
  <1>5. CASE SearchDebug
    <2>1. i \in Nat \ {0} /\ N \in Nat BY ImageFields, SMT DEF RangeInv, Typed, N
    <2>2. pc = "search" /\ pc' = pc /\ Same /\ i' \in {N, N + 1, i + 1} /\ i <= N
      BY <1>5 DEF SearchDebug
    <2>3. i' \in Nat \ {0} BY <2>1, <2>2, SMT
    <2> QED BY <1>4, <2>2, <2>3
  <1>6. CASE Searched BY <1>4, <1>6 DEF Searched, Goto
  <1>7. CASE ReadDebugEntry
    <2>1. pc = "debug" /\ i \in Nat \ {0} /\ i + DebugSize \in Nat \ {0} /\ 1 \in Nat \ {0}
      BY <1>7, SMT DEF ReadDebugEntry, RangeInv, Typed, DebugSize
    <2>2. CASE Refuse BY <2>2, RefuseStops
    <2>3. CASE Goto("measure") BY <1>4, <2>1, <2>3 DEF Goto
    <2>4. CASE i' = i + DebugSize /\ Same /\ pc' = pc BY <1>4, <2>1, <2>4
    <2> QED BY <1>7, <2>2, <2>3, <2>4 DEF ReadDebugEntry
  <1>8. CASE SearchFails BY <1>8, RefuseStops DEF SearchFails
  <1> QED BY <1>1, <1>2, <1>3, <1>5, <1>6, <1>7, <1>8 DEF GetImageInfo

\* While the image is hashed its headers and sections are known to be valid.
LEMMA HashingImage ==
  ASSUME RangeInv, pc \in Hashing
  PROVE  /\ (Known => Layout /\ Told) /\ HeadersValid /\ ~IsTe /\ N \in Nat
         /\ \A k \in 1 .. N : SectionValid(k)
  <1>1. HeadersValid /\ ~IsTe /\ image \in Image
    BY DEF RangeInv, Typed, Headed, Portable, Validated
  <1>2. \A k \in 1 .. N : SectionValid(k) BY DEF RangeInv, Sectioned, Validated, Hashing
  <1>3. N \in Nat BY <1>1, ImageFields, SMT DEF N
  <1> QED BY <1>1, <1>2, <1>3, HeadersGiveLayout, KnownIsTold

\* A step inside the hashing, given what it does to the table and the hash.
LEMMA Hashes ==
  ASSUME RangeInv, pc \in Hashing, pc' \in Hashing, image' = image,
         i' \in Nat \ {0}, sum' \in Nat, table' \in Seq(Section), Sorting',
         hashed' \in Seq(Nat \X Nat), Ranged'
  PROVE  RangeInv'
  <1>1. Typed' BY DEF RangeInv, Typed
  <1>2. Headed' /\ Portable' BY HashingImage, SameImage DEF Headed, Portable
  <1>3. Sectioned' BY HashingImage, SameImage DEF Sectioned
  <1> QED BY <1>1, <1>2, <1>3 DEF RangeInv

\* Nothing is hashed in this step.
LEMMA SameHashed ==
  ASSUME RangeInv, UNCHANGED <<image, hashed>>
  PROVE  hashed' \in Seq(Nat \X Nat) /\ Ranged'
  BY SameImage DEF RangeInv, Typed, Ranged, Good, CheckSum, SecurityEntry, HasSecurity, WithoutDirectories

\* What the table holds after an insertion: the section goes to the place
\* behind those counted.
LEMMA InsertedElements ==
  ASSUME NEW t \in Seq(Section), NEW s \in Section
  PROVE  /\ Inserted(t, s) \in Seq(Section) /\ Len(Inserted(t, s)) = Len(t) + 1
         /\ Cardinality({j \in DOMAIN t : t[j].ptr <= s.ptr}) \in 0 .. Len(t)
         /\ \A j \in 1 .. Len(t) + 1 :
              Inserted(t, s)[j] =
                IF j <= Cardinality({l \in DOMAIN t : t[l].ptr <= s.ptr}) THEN t[j]
                ELSE IF j = Cardinality({l \in DOMAIN t : t[l].ptr <= s.ptr}) + 1 THEN s
                ELSE t[j - 1]
  <1> DEFINE before == {j \in DOMAIN t : t[j].ptr <= s.ptr}
             n == Len(t)
             k == Cardinality(before)
  <1>1. n \in Nat /\ DOMAIN t = 1 .. n /\ IsFiniteSet(1 .. n) /\ Cardinality(1 .. n) = n
    <2>1. n \in Nat /\ DOMAIN t = 1 .. n BY SMT
    <2> HIDE DEF n
    <2>2. IsFiniteSet(1 .. n) /\ Cardinality(1 .. n) = IF 1 > n THEN 0 ELSE n - 1 + 1
      BY <2>1, FS_Interval, SMT
    <2> QED BY <2>1, <2>2, SMT
  <1>2. k \in 0 .. n
    <2>1. before \in SUBSET (1 .. n) BY <1>1
    <2>2. IsFiniteSet(before) /\ k <= n BY <1>1, <2>1, FS_Subset
    <2>3. k \in Nat BY <2>2, FS_CardinalityType
    <2> HIDE DEF k, n
    <2> QED BY <1>1, <2>2, <2>3, SMT
  <1>3. Inserted(t, s) = SubSeq(t, 1, k) \o <<s>> \o SubSeq(t, k + 1, n) BY DEF Inserted
  <1> HIDE DEF k, n
  <1> DEFINE low == SubSeq(t, 1, k)
             high == SubSeq(t, k + 1, n)
  <1>4. /\ low \in Seq(Section) /\ Len(low) = k /\ \A j \in 1 .. k : low[j] = t[j]
        /\ high \in Seq(Section) /\ Len(high) = n - k /\ \A j \in 1 .. n - k : high[j] = t[k + j]
    <2>1. (\A j \in 1 .. k : t[j] \in Section) /\ \A j \in k + 1 .. n : t[j] \in Section
      <3>1. 1 .. k \subseteq 1 .. n /\ k + 1 .. n \subseteq 1 .. n BY <1>1, <1>2, SMT
      <3> QED BY <1>1, <3>1
    <2>2. k \in Int /\ n \in Int /\ k + 1 \in Int /\ 1 \in Int BY <1>1, <1>2, SMT
    <2>3. low \in Seq(Section) /\ Len(low) = (IF 1 <= k THEN k - 1 + 1 ELSE 0)
          /\ \A j \in 1 .. k - 1 + 1 : low[j] = t[1 + j - 1] BY <2>1, <2>2, SubSeqProperties
    <2>4. high \in Seq(Section) /\ Len(high) = (IF k + 1 <= n THEN n - (k + 1) + 1 ELSE 0)
          /\ \A j \in 1 .. n - (k + 1) + 1 : high[j] = t[k + 1 + j - 1]
      BY <2>1, <2>2, SubSeqProperties
    <2> HIDE DEF low, high
    <2>5. Len(low) = k /\ Len(high) = n - k BY <1>1, <1>2, <2>3, <2>4, SMT
    <2>6. ASSUME NEW j \in 1 .. k PROVE low[j] = t[j]
      <3>1. j \in 1 .. k - 1 + 1 /\ 1 + j - 1 = j BY <1>2, <2>6, SMT
      <3> QED BY <2>3, <3>1
    <2>7. ASSUME NEW j \in 1 .. n - k PROVE high[j] = t[k + j]
      <3>1. j \in 1 .. n - (k + 1) + 1 /\ k + 1 + j - 1 = k + j BY <1>1, <1>2, <2>7, SMT
      <3> QED BY <2>4, <3>1
    <2> QED BY <2>3, <2>4, <2>5, <2>6, <2>7
  <1> HIDE DEF low, high
  <1>5. /\ Inserted(t, s) \in Seq(Section) /\ Len(Inserted(t, s)) = n + 1
        /\ \A j \in 1 .. n + 1 :
             Inserted(t, s)[j] = IF j <= k THEN low[j] ELSE IF j = k + 1 THEN s ELSE high[j - (k + 1)]
    BY <1>1, <1>2, <1>3, <1>4, SMT DEF low, high
  <1>6. ASSUME NEW j \in 1 .. n + 1
        PROVE  Inserted(t, s)[j] = IF j <= k THEN t[j] ELSE IF j = k + 1 THEN s ELSE t[j - 1]
    <2>1. CASE j <= k
      <3>1. j \in 1 .. k BY <1>1, <1>2, <1>6, <2>1, SMT
      <3> QED BY <1>4, <1>5, <2>1, <3>1
    <2>2. CASE j = k + 1
      <3>1. ~(j <= k) BY <1>2, <2>2, SMT
      <3> QED BY <1>5, <2>2, <3>1
    <2>3. CASE j > k + 1
      <3>1. j - (k + 1) \in 1 .. n - k /\ k + (j - (k + 1)) = j - 1 /\ ~(j <= k) /\ j # k + 1
        BY <1>1, <1>2, <1>6, <2>3, SMT
      <3> QED BY <1>4, <1>5, <3>1
    <2> QED BY <1>1, <1>2, <2>1, <2>2, <2>3, SMT
  <1> QED BY <1>2, <1>5, <1>6 DEF n, k

LEMMA InsertedIsLonger ==
  ASSUME NEW t \in Seq(Section), NEW s \in Section
  PROVE  /\ Inserted(t, s) \in Seq(Section) /\ Len(Inserted(t, s)) = Len(t) + 1
         /\ \A j \in DOMAIN Inserted(t, s) :
              Inserted(t, s)[j] = s \/ \E l \in DOMAIN t : Inserted(t, s)[j] = t[l]
  <1> DEFINE u == Inserted(t, s)
             n == Len(t)
             k == Cardinality({l \in DOMAIN t : t[l].ptr <= s.ptr})
  <1>1. /\ u \in Seq(Section) /\ Len(u) = n + 1 /\ k \in 0 .. n /\ n \in Nat
        /\ \A j \in 1 .. n + 1 : u[j] = IF j <= k THEN t[j] ELSE IF j = k + 1 THEN s ELSE t[j - 1]
    BY InsertedElements
  <1>2. DOMAIN t = 1 .. n /\ DOMAIN u = 1 .. n + 1 BY <1>1
  <1> HIDE DEF u, n, k
  <1>3. ASSUME NEW j \in 1 .. n + 1 PROVE u[j] = s \/ \E l \in 1 .. n : u[j] = t[l]
    <2>1. CASE j <= k
      <3>1. u[j] = t[j] /\ j \in 1 .. n BY <1>1, <2>1
      <3> QED BY <3>1
    <2>2. CASE j = k + 1 BY <1>1, <2>2
    <2>3. CASE j > k + 1
      <3>1. u[j] = t[j - 1] /\ j - 1 \in 1 .. n BY <1>1, <2>3
      <3> QED BY <3>1
    <2> QED BY <1>1, <2>1, <2>2, <2>3
  <1> QED BY <1>1, <1>2, <1>3 DEF u, n

LEMMA MeasureStep == ASSUME RangeInv, Measure PROVE RangeInv'
  <1>1. CASE ~IsTe /\ Goto("context")
    <2>1. /\ pc = "measure" /\ pc' = "context" /\ i' = 1 /\ UNCHANGED <<image, table, sum, hashed>>
          /\ HeadersValid /\ table = <<>> /\ \A k \in 1 .. N : SectionValid(k)
      BY <1>1 DEF Measure, Goto, RangeInv, Headed, Sectioned, Sorting, Validated
    <2>2. Sorting' BY <2>1, StaysUnsorted
    <2> QED BY <1>1, <2>1, <2>2, Stays
  <1> QED BY <1>1, RefuseStops DEF Measure

LEMMA HashHeadersStep == ASSUME RangeInv, HashHeaders PROVE RangeInv'
  <1>1. /\ pc = "context" /\ pc' = "sort" /\ i' = 1 /\ image' = image /\ table' = table /\ table = <<>>
        /\ sum' = image.headers BY DEF HashHeaders, RangeInv, Sorting
  <1>2. (Known => Layout) /\ Typed /\ Ranged /\ pc \in Hashing /\ pc' \in Hashing
    BY <1>1, HashingImage DEF RangeInv, Hashing
  <1> DEFINE h == image.headers
             whole == <<<<0, CheckSum>>, <<CheckSum + 4, h>>>>
             parts == <<<<0, CheckSum>>, <<CheckSum + 4, SecurityEntry>>, <<SecurityEntry + DirectorySize, h>>>>
  <1>3. /\ CheckSum \in Nat /\ SecurityEntry \in Nat /\ h \in Nat /\ SecurityEntry + DirectorySize \in Nat
        /\ image.size \in Nat BY <1>2, PlaceNumbers, SMT DEF Typed, DirectorySize
  <1>4. Known => /\ CheckSum + 4 <= SecurityEntry /\ CheckSum + 4 <= h /\ h <= image.size
                 /\ (HasSecurity => SecurityEntry + DirectorySize <= h)
    BY <1>2, SMT DEF Layout, DirectorySize
  <1>5. HeaderRanges \in Seq(Nat \X Nat) /\ (Known => \A k \in DOMAIN HeaderRanges : Good(HeaderRanges[k]))
    <2>1. CASE HasSecurity
      <3>1. parts \in Seq(Nat \X Nat) /\ DOMAIN parts = 1 .. 3 BY <1>3, SMT
      <3>2. ASSUME Known
            PROVE  Good(<<0, CheckSum>>) /\ Good(<<CheckSum + 4, SecurityEntry>>)
                   /\ Good(<<SecurityEntry + DirectorySize, h>>)
        <4>1. /\ CheckSum + 4 <= SecurityEntry /\ CheckSum + 4 <= h /\ h <= image.size
              /\ SecurityEntry + DirectorySize <= h BY <1>4, <2>1, <3>2
        <4> QED BY <1>3, <4>1, SMT DEF Good, Apart, DirectorySize
      <3>3. Known => \A k \in DOMAIN parts : Good(parts[k])
        <4> HIDE DEF h
        <4>1. \A k \in 1 .. 3 : k = 1 \/ k = 2 \/ k = 3 BY SMT
        <4> QED BY <3>1, <3>2, <4>1
      <3>4. HeaderRanges = parts BY <2>1 DEF HeaderRanges
      <3> HIDE DEF parts
      <3> QED BY <3>1, <3>3, <3>4
    <2>2. CASE ~HasSecurity
      <3>1. whole \in Seq(Nat \X Nat) /\ DOMAIN whole = 1 .. 2 BY <1>3, SMT
      <3>2. ASSUME Known PROVE Good(<<0, CheckSum>>) /\ Good(<<CheckSum + 4, h>>)
        <4>1. CheckSum + 4 <= h /\ h <= image.size BY <1>4, <3>2
        <4> QED BY <1>3, <2>2, <4>1, SMT DEF Good, Apart
      <3>3. Known => \A k \in DOMAIN whole : Good(whole[k])
        <4> HIDE DEF h
        <4>1. \A k \in 1 .. 2 : k = 1 \/ k = 2 BY SMT
        <4> QED BY <3>1, <3>2, <4>1
      <3>4. HeaderRanges = whole BY <2>2 DEF HeaderRanges
      <3> HIDE DEF whole
      <3> QED BY <3>1, <3>3, <3>4
    <2> QED BY <2>1, <2>2
  <1>6. hashed' \in Seq(Nat \X Nat) /\ Ranged'
    <2>1. Hash(HeaderRanges) BY DEF HashHeaders
    <2> QED BY <1>1, <1>2, <1>5, <2>1, HashGood
  <1>7. Sorting'
    <2>1. table' = <<>> /\ Len(<<>>) = 0 /\ DOMAIN <<>> = {} /\ N \in Nat
      BY <1>1, <1>2, HashingImage, SMT
    <2>2. Len(table') = i' - 1 /\ i' <= N + 1 /\ sum' >= image.headers
      BY <1>1, <1>3, <2>1, SMT
    <2> QED BY <1>1, <2>1, <2>2, SameImage DEF Sorting
  <1>8. i' \in Nat \ {0} /\ sum' \in Nat /\ table' \in Seq(Section)
    BY <1>1, <1>2, <1>3, SMT DEF Typed
  <1> QED BY <1>1, <1>2, <1>6, <1>7, <1>8, Hashes
LEMMA SortSectionStep == ASSUME RangeInv, SortSection PROVE RangeInv'
  <1> DEFINE s == image.sections[i]
  <1>1. /\ pc = "sort" /\ pc' = "sort" /\ i <= N /\ i' = i + 1 /\ table' = Inserted(table, s)
        /\ UNCHANGED <<image, hashed, sum>> BY DEF SortSection
  <1>2. /\ Typed /\ N \in Nat /\ i \in Nat \ {0} /\ i \in 1 .. N /\ s \in Section /\ table \in Seq(Section)
        /\ Len(table) = i - 1 /\ sum >= image.headers
        /\ \A j \in DOMAIN table : \E k \in 1 .. N : table[j] = image.sections[k]
    <2>1. N \in Nat /\ Typed BY <1>1, HashingImage DEF Hashing, RangeInv
    <2>2. i \in 1 .. N /\ image.sections \in Seq(Section)
      BY <1>1, <2>1, ImageFields, SMT DEF Typed
    <2>3. s \in Section BY <2>2, SMT DEF N
    <2> QED BY <1>1, <2>1, <2>2, <2>3 DEF RangeInv, Typed, Sorting
  <1> HIDE DEF s
  <1>3. /\ table' \in Seq(Section) /\ Len(table') = Len(table) + 1
        /\ \A j \in DOMAIN table' : table'[j] = s \/ \E l \in DOMAIN table : table'[j] = table[l]
    BY <1>1, <1>2, InsertedIsLonger
  <1>4. \A j \in DOMAIN table' : \E k \in 1 .. N : table'[j] = image.sections[k]
    BY <1>2, <1>3 DEF s
  <1>5. Len(table') = i' - 1 /\ i' <= N + 1 /\ i' \in Nat \ {0} BY <1>1, <1>2, <1>3, SMT
  <1>6. Sorting' BY <1>1, <1>2, <1>4, <1>5, SameImage DEF Sorting
  <1>7. hashed' \in Seq(Nat \X Nat) /\ Ranged' /\ sum' \in Nat
    BY <1>1, <1>2, SameHashed DEF Typed
  <1> QED BY <1>1, <1>3, <1>5, <1>6, <1>7, Hashes DEF Hashing

LEMMA SortedStep == ASSUME RangeInv, Sorted PROVE RangeInv'
  <1>1. pc = "sort" /\ pc' = "hash" /\ i > N /\ i' = 1 /\ UNCHANGED <<image, table, hashed, sum>>
    BY DEF Sorted, Goto
  <1>2. N \in Nat /\ Typed /\ Sorting /\ pc \in Hashing /\ pc' \in Hashing
    BY <1>1, HashingImage DEF RangeInv, Hashing
  <1>3. Len(table') = N BY <1>1, <1>2, SMT DEF Typed, Sorting
  <1>4. Sorting' BY <1>1, <1>2, <1>3, SameImage DEF Sorting
  <1>5. hashed' \in Seq(Nat \X Nat) /\ Ranged' BY <1>1, SameHashed
  <1>6. i' \in Nat \ {0} /\ sum' \in Nat /\ table' \in Seq(Section)
    BY <1>1, <1>2, SMT DEF Typed
  <1> QED BY <1>1, <1>2, <1>4, <1>5, <1>6, Hashes

LEMMA HashSectionStep == ASSUME RangeInv, HashSection PROVE RangeInv'
  <1> DEFINE s == table[i]
             range == <<s.ptr, s.ptr + s.raw>>
  <1>1. /\ pc = "hash" /\ pc' = "hash" /\ i <= N /\ i' = i + 1 /\ sum' = sum + s.raw
        /\ UNCHANGED <<image, table>>
        /\ \/ s.raw = 0 /\ hashed' = hashed
           \/ s.raw # 0 /\ Hash(<<range>>) BY DEF HashSection, DataOf
  <1>2. /\ Typed /\ (Known => Layout /\ Told) /\ Ranged /\ Sorting /\ ~IsTe /\ N \in Nat /\ \A k \in 1 .. N : SectionValid(k)
        /\ pc \in Hashing /\ pc' \in Hashing BY <1>1, HashingImage DEF RangeInv, Hashing
  <1>3. PICK k \in 1 .. N : s = image.sections[k]
    <2>1. Len(table) = N /\ table \in Seq(Section) /\ i \in Nat \ {0}
      BY <1>1, <1>2 DEF Sorting, Typed
    <2>2. i \in DOMAIN table BY <1>1, <1>2, <2>1, SMT
    <2> QED BY <1>2, <2>2 DEF Sorting
  <1>4. s \in Section BY <1>2, <1>3, ImageFields, SMT DEF Typed, N
  <1>5. s.ptr \in Nat /\ s.raw \in Nat /\ s.ptr \in UInt32 /\ s.raw \in UInt32
    BY <1>4, Max32Assumption, SMT DEF Section, UInt32
  <1>6. Known /\ s.raw > 0 => s.ptr >= image.headers /\ s.ptr + s.raw - 1 + 1 <= image.size
    <2>1. Known => Checked(k) = image.sections[k]
      BY <1>2, TableNumbers, Max32Assumption, SMT DEF Typed, Told, Checked
    <2> QED BY <1>2, <1>3, <2>1 DEF SectionValid, Adjusted, SectionInside, Headers, Reads
  <1> HIDE DEF s
  <1>7. hashed' \in Seq(Nat \X Nat) /\ Ranged'
    <2>1. CASE hashed' = hashed BY <1>1, <2>1, SameHashed
    <2>2. CASE s.raw # 0 /\ Hash(<<range>>)
      <3>1. <<range>> \in Seq(Nat \X Nat) /\ DOMAIN <<range>> = {1} BY <1>5, SMT
      <3>2. Known => Good(range)
        <4> SUFFICES ASSUME Known PROVE Good(range) OBVIOUS
        <4>1. s.ptr >= image.headers /\ s.ptr <= s.ptr + s.raw /\ s.ptr + s.raw \in Int
              /\ s.ptr + s.raw <= image.size BY <1>2, <1>5, <1>6, <2>2, SMT DEF Layout
        <4> QED BY <1>2, <1>5, <4>1, BehindHeadersIsGood
      <3>3. Known => \A j \in DOMAIN <<range>> : Good(<<range>>[j]) BY <3>1, <3>2
      <3> HIDE DEF range
      <3> QED BY <1>1, <1>2, <2>2, <3>1, <3>3, HashGood
    <2> QED BY <1>1, <2>1, <2>2
  <1>8. i' \in Nat \ {0} /\ sum' \in Nat /\ table' \in Seq(Section) /\ sum' >= image.headers
    <2>1. image.headers \in Nat BY <1>2, PlaceNumbers DEF Typed
    <2> QED BY <1>1, <1>2, <1>5, <2>1, SMT DEF Typed, Sorting
  <1>9. Sorting' BY <1>1, <1>2, <1>8, SameImage DEF Sorting
  <1> QED BY <1>1, <1>2, <1>7, <1>8, <1>9, Hashes

LEMMA HashTailStep == ASSUME RangeInv, HashTail PROVE RangeInv'
  <1> DEFINE range == <<sum, sum + Rest>>
  <1>1. CASE Return("unsupported") BY <1>1, ReturnStops
  <1>2. CASE ~Return("unsupported")
    <2>1. /\ pc = "hash" /\ pc' = "final" /\ UNCHANGED <<image, i, table, sum>>
          /\ \/ image.size <= sum /\ hashed' = hashed
             \/ image.size > sum /\ Rest >= 0 /\ Hash(<<range>>)
      <3>1. /\ pc = "hash" /\ pc' = "final" /\ UNCHANGED <<image, i, table, sum>>
            /\ image.size <= sum \/ Rest >= 0
            /\ IF image.size > sum THEN Hash(<<range>>) ELSE UNCHANGED hashed
        BY <1>2 DEF HashTail
      <3>2. image.size \in Nat /\ sum \in Nat
        BY ImageFields, Max32Assumption, SMT DEF RangeInv, Typed, UInt32
      <3>3. image.size <= sum <=> ~(image.size > sum) BY <3>2, SMT
      <3> QED BY <3>1, <3>3
    <2>2. Typed /\ (Known => Layout /\ Told) /\ Ranged /\ Sorting /\ pc \in Hashing /\ pc' \in Hashing
      BY <2>1, HashingImage DEF RangeInv, Hashing
    <2>3. sum \in Nat /\ sum >= image.headers /\ CertSize \in Nat /\ image.size \in Nat
      BY <2>1, <2>2, ImageFields, Max32Assumption, SMT DEF Typed, Sorting, CertSize, UInt32
    <2>4. hashed' \in Seq(Nat \X Nat) /\ Ranged'
      <3>1. CASE hashed' = hashed BY <2>1, <3>1, SameHashed
      <3>2. CASE Rest >= 0 /\ Hash(<<range>>)
        <4>1. range \in Nat \X Nat /\ sum + Rest <= image.size /\ sum <= sum + Rest
          BY <2>3, <3>2, SMT DEF Rest
        <4>2. <<range>> \in Seq(Nat \X Nat) /\ DOMAIN <<range>> = {1}
          <5> HIDE DEF range
          <5> QED BY <4>1, SMT
        <4>3. Known => Good(range)
          <5>1. sum + Rest \in Int BY <2>3, SMT DEF Rest
          <5> QED BY <2>2, <2>3, <4>1, <5>1, BehindHeadersIsGood
        <4>4. Known => \A j \in DOMAIN <<range>> : Good(<<range>>[j]) BY <4>2, <4>3
        <4> HIDE DEF range
        <4> QED BY <2>1, <2>2, <3>2, <4>2, <4>4, HashGood
      <3> QED BY <2>1, <3>1, <3>2
    <2>5. Sorting' BY <2>1, <2>2, SameImage DEF Sorting
    <2>6. i' \in Nat \ {0} /\ sum' \in Nat /\ table' \in Seq(Section)
      BY <2>1, <2>2 DEF Typed
    <2> QED BY <2>1, <2>2, <2>4, <2>5, <2>6, Hashes
  <1> QED BY <1>1, <1>2

LEMMA HashStep == ASSUME RangeInv, HashImage PROVE RangeInv'
  <1>1. CASE NoContext BY <1>1, ReturnStops DEF NoContext
  <1>2. CASE NoTable BY <1>2, ReturnStops DEF NoTable
  <1>3. CASE Finalize BY <1>3, Stops DEF Finalize
  <1>4. CASE HeadersOverrun \/ TableOverruns \/ SectionOverruns
    BY <1>4, Stops DEF HeadersOverrun, TableOverruns, SectionOverruns, Overruns, Crash
  <1> QED BY <1>1, <1>2, <1>3, <1>4, MeasureStep, HashHeadersStep, SortSectionStep, SortedStep,
          HashSectionStep, HashTailStep DEF HashImage

LEMMA StutterStep == ASSUME RangeInv, UNCHANGED vars PROVE RangeInv'
  <1>1. UNCHANGED <<image, pc, i, table, hashed, sum>> BY DEF vars
  <1>2. Typed' /\ Headed' /\ Sectioned' /\ Portable' /\ Sorting'
    BY <1>1, SameImage DEF RangeInv, Typed, Headed, Sectioned, Portable, Sorting
  <1>3. Ranged' BY <1>1, SameHashed
  <1> QED BY <1>2, <1>3 DEF RangeInv

LEMMA RangeStep == RangeInv /\ [Next]_vars => RangeInv'
  BY LoadStep, InfoStep, HashStep, StutterStep DEF Next, Program, Terminated

\* Whatever the headers and the section table say, of a file below 4 GiB, and of
\* any other whose table a UINT32 can tell, the measurement hashes ranges of the
\* file alone, and none that covers the checksum or the entry of the certificate
\* table: no sum of two fields leads there (MeasureBootPeCoff.c:1034-1263).
THEOREM AllowedOnly == Spec => []HashedAllowed
  BY RangeInit, RangeStep, RangeInvImplies, PTL DEF Spec

-----------------------------------------------------------------------------
(* The configuration of a kernel *)

LEMMA FieldsInHeader == Written \subseteq 0 .. HeaderSize - 1
  <1> SUFFICES ASSUME NEW f \in Field, NEW p \in Place(f) PROVE p \in 0 .. 559
    BY SMT DEF Written, HeaderSize
  <1>1. At[f] \in 528 .. 552 /\ Width[f] \in 1 .. 4 BY SMT DEF At, Width, Field
  <1> HIDE DEF Field
  <1>2. p \in At[f] .. At[f] + Width[f] - 1 BY DEF Place
  <1> QED BY <1>1, <1>2, SMT

\* The buffer has the size of the image, and when it is written its size has
\* been compared with that of the setup header.
PatchInv ==
  /\ size = image.size /\ size \in Nat
  /\ \/ patch = <<>>
     \/ DOMAIN patch = Written /\ HeaderFits

LEMMA PatchInit == KernelInit => PatchInv
  <1> SUFFICES ASSUME KernelInit PROVE PatchInv OBVIOUS
  <1>1. PICK k \in Kernels : image = k.image /\ file = k.file /\ size = k.image.size
    BY DEF KernelInit
  <1>2. k.image \in Image /\ patch = <<>> BY KernelsAssumption DEF KernelInit, ConfigStart
  <1>3. k.image.size \in Nat BY <1>2, Max32Assumption DEF Image, UInt32
  <1> QED BY <1>1, <1>2, <1>3 DEF PatchInv

LEMMA PatchUnchanged ==
  ASSUME PatchInv, image'.size = image.size, UNCHANGED <<size, patch>>
  PROVE  PatchInv' BY DEF PatchInv, HeaderFits

\* Only PrepareImage writes to the image, and it leaves its size.
LEMMA ImageUnchanged ==
  ASSUME KernelNext, ~PrepareImage
  PROVE  image' = image
  <1>1. LoadPeImage \/ GetImageInfo => image' = image
    BY DEF LoadPeImage, LoadFails, Load, GetImageInfo, GetPeHeader, CheckSection, SectionsChecked,
       SearchDebug, SearchFails, Searched, ReadDebugEntry, Goto, Return, Refuse, Crash
  <1>2. HashImage => image' = image
    BY DEF HashImage, Measure, NoContext, HashHeaders, NoTable, SortSection, Sorted, HashSection, HashTail,
       Finalize, HeadersOverrun, TableOverruns, SectionOverruns, Overruns, Goto, Return, Refuse, Crash
  <1> QED BY <1>1, <1>2 DEF KernelNext, KernelProgram, Configure, ConfigureFails, MeasureKernel, Terminated, vars

LEMMA RewrittenSize ==
  ASSUME image \in Image, NEW bytes, NEW m \in Rewritten(bytes)
  PROVE  m.size = image.size
  <1>1. WithTables(bytes).size = image.size /\ Overwritten(bytes).size = image.size
    BY SMT DEF Image, WithTables, Overwritten
  <1> QED BY <1>1 DEF Rewritten

\* Both steps of the configuration are steps of ConfigNext.
LEMMA ConfigSteps ==
  ASSUME image \in Image, Configure \/ PrepareImage
  PROVE  /\ Configuring /\ ConfigNext /\ image'.size = image.size
         /\ UNCHANGED <<pc, i, found, table, hashed, sum, digest, status>>
  <1>1. CASE Configure BY <1>1 DEF Configure, ConfigNext, vars
  <1>2. CASE PrepareImage BY <1>2, RewrittenSize DEF PrepareImage, ConfigNext
  <1> QED BY <1>1, <1>2

LEMMA PatchStep == image \in Image /\ PatchInv /\ [KernelNext]_allVars => PatchInv'
  <1> SUFFICES ASSUME image \in Image, PatchInv, [KernelNext]_allVars PROVE PatchInv'
    OBVIOUS
  <1>1. CASE PrepareImage
    <2>1. patch' = Patch /\ size' = size /\ HeaderFits BY <1>1 DEF PrepareImage, Prepare
    <2>2. DOMAIN patch' = Written BY <2>1, Zenon DEF Patch
    <2>3. image'.size = image.size BY <1>1, ConfigSteps
    <2> QED BY <2>1, <2>2, <2>3 DEF PatchInv, HeaderFits
  <1>2. CASE KernelNext /\ ~PrepareImage
    <2>1. UNCHANGED <<size, patch>>
      BY <1>2 DEF KernelNext, KernelProgram, Configure, NoFile, ConfigLoad, ConfigFails, Open, SkipLine, SetField,
         EndOfFile, OpenFails, UnknownField, ImageTooSmall, Go, ConfigureFails, MeasureKernel, kvars
    <2> QED BY <1>2, <2>1, ImageUnchanged, PatchUnchanged
  <1>3. CASE UNCHANGED allVars BY <1>3, PatchUnchanged DEF allVars, vars, kvars
  <1> QED BY <1>1, <1>2, <1>3

LEMMA PatchInvImplies == PatchInv => PatchInside
  <1> SUFFICES ASSUME PatchInv PROVE DOMAIN patch \subseteq 0 .. image.size - 1
    BY DEF PatchInside
  <1>1. CASE patch = <<>> BY <1>1, SMT
  <1>2. CASE DOMAIN patch = Written /\ HeaderFits
    <2>1. size = image.size /\ size \in Nat /\ size >= 560
      BY <1>2 DEF PatchInv, HeaderFits, HeaderSize
    <2>2. 0 .. HeaderSize - 1 \subseteq 0 .. size - 1 BY <2>1, SMT DEF HeaderSize
    <2> QED BY <1>2, <2>1, <2>2, FieldsInHeader
  <1> QED BY <1>1, <1>2 DEF PatchInv

-----------------------------------------------------------------------------
(* The sizes of the sections, summed up *)

\* The function behind DataEnd, for any table of sections.
PartialSums(v) ==
  CHOOSE g : g = [s \in SUBSET DOMAIN v |-> IF s = {} THEN 0 ELSE g[s \ {Max(s)}] + v[Max(s)].raw]

\* The sizes of the first k sections.
SumUpTo(v, k) == PartialSums(v)[1 .. k]

LEMMA SectionFields ==
  ASSUME NEW s \in Section
  PROVE  s.va \in 0 .. Max32 /\ s.vsize \in 0 .. Max32 /\ s.ptr \in 0 .. Max32 /\ s.raw \in 0 .. Max32
         /\ s.va \in Nat /\ s.vsize \in Nat /\ s.ptr \in Nat /\ s.raw \in Nat
  BY Max32Assumption, SMT DEF Section, UInt32

LEMMA SumRecursion ==
  ASSUME NEW v \in Seq(Section)
  PROVE  /\ SumUpTo(v, 0) = 0
         /\ \A k \in 1 .. Len(v) : SumUpTo(v, k) = SumUpTo(v, k - 1) + v[k].raw
         /\ \A k \in 0 .. Len(v) : SumUpTo(v, k) \in Nat
  <1> DEFINE n == Len(v)
             F == [p \in Nat \X (1 .. n) |-> p[1] + v[p[2]].raw]
             value(g, s) == IF s = {} THEN 0 ELSE g[s \ {Max(s)}] + v[Max(s)].raw
             f == PartialSums(v)
  <1>1. n \in Nat /\ DOMAIN v = 1 .. n OBVIOUS
  <1>2. \A k \in 1 .. n : v[k] \in Section /\ v[k].raw \in Nat BY <1>1, SectionFields
  <1> HIDE DEF n
  <1>3. F \in [Nat \X (1 .. n) -> Nat] BY <1>2
  <1> HIDE DEF F
  <1>4. PICK g \in [SUBSET (1 .. n) -> Nat] : IsFold(g, F, 0, n) BY <1>1, <1>3, FoldExists
  <1>5. g = [s \in SUBSET (1 .. n) |-> value(g, s)]
    <2>1. ASSUME NEW s \in SUBSET (1 .. n), s # {}
          PROVE  F[<<g[s \ {Max(s)}], Max(s)>>] = g[s \ {Max(s)}] + v[Max(s)].raw
      <3>1. Max(s) \in 1 .. n BY <1>1, <2>1, MaxIs
      <3>2. g[s \ {Max(s)}] \in Nat OBVIOUS
      <3>3. <<g[s \ {Max(s)}], Max(s)>> \in Nat \X (1 .. n) BY <3>1, <3>2
      <3> QED BY <3>3 DEF F
    <2>2. g = [s \in SUBSET (1 .. n) |-> IF s = {} THEN 0 ELSE F[<<g[s \ {Max(s)}], Max(s)>>]]
      BY <1>4, Zenon DEF IsFold
    <2> QED BY <2>1, <2>2, Zenon
  <1>6. f = [s \in SUBSET (1 .. n) |-> value(f, s)] BY <1>1, <1>5, Zenon DEF PartialSums
  <1>7. f[1 .. 0] = 0
    <2>1. 1 .. 0 = {} /\ {} \in SUBSET (1 .. n) OBVIOUS
    <2> HIDE DEF f
    <2> QED BY <1>6, <2>1, Zenon
  <1>8. ASSUME NEW k \in 1 .. n PROVE f[1 .. k] = f[1 .. k - 1] + v[k].raw
    <2>1. 1 .. k \in SUBSET (1 .. n) /\ 1 .. k # {} /\ Max(1 .. k) = k /\ (1 .. k) \ {k} = 1 .. k - 1
      BY <1>1, FoldUnfolds
    <2> HIDE DEF f
    <2>2. f[1 .. k] = value(f, 1 .. k) BY <1>6, <2>1, Zenon
    <2> QED BY <2>1, <2>2, Zenon
  <1>9. \A k \in 0 .. n : f[1 .. k] \in Nat
    <2> DEFINE S == {k \in 0 .. n : f[1 .. k] \in Nat}
    <2>1. 0 \in S BY <1>1, <1>7
    <2> HIDE DEF f
    <2>2. ASSUME NEW k \in 0 .. n - 1, k \in S PROVE k + 1 \in S
      <3>1. k + 1 \in 1 .. n /\ k + 1 \in 0 .. n /\ (k + 1) - 1 = k BY <1>1
      <3>2. f[1 .. k + 1] = f[1 .. k] + v[k + 1].raw BY <1>8, <3>1
      <3>3. f[1 .. k] \in Nat /\ v[k + 1].raw \in Nat BY <1>2, <2>2, <3>1
      <3> QED BY <3>1, <3>2, <3>3
    <2>3. \A k \in 0 .. n : k \in S
      <3> HIDE DEF S
      <3> QED BY <1>1, <2>1, <2>2, InductionUpTo
    <2> QED BY <2>3
  <1> QED BY <1>7, <1>8, <1>9, Zenon DEF SumUpTo, n

\* Where the data of an image ends, by its table.
LEMMA DataEndIs ==
  ASSUME image \in Image
  PROVE  DataEnd = image.headers + SumUpTo(image.sections, N)
  <1>1. DataEnd = image.headers + PartialSums(image.sections)[DOMAIN image.sections]
    BY Zenon DEF FoldLeft, MapThenFoldSet, PartialSums, DataEnd
  <1>2. DOMAIN image.sections = 1 .. N BY ImageFields DEF N
  <1> QED BY <1>1, <1>2 DEF SumUpTo

\* A sum over more sections is not less.
LEMMA SumGrows ==
  ASSUME NEW v \in Seq(Section), NEW k \in 0 .. Len(v)
  PROVE  SumUpTo(v, k) <= SumUpTo(v, Len(v))
  <1> DEFINE n == Len(v)
             S == {m \in 0 .. n : m >= k => SumUpTo(v, k) <= SumUpTo(v, m)}
             p(m) == SumUpTo(v, m)
  <1>1. /\ n \in Nat /\ k \in 0 .. n
        /\ \A m \in 1 .. n : p(m) = p(m - 1) + v[m].raw /\ v[m].raw \in Nat
        /\ \A m \in 0 .. n : p(m) \in Nat
    <2>1. \A m \in 1 .. n : v[m] \in Section OBVIOUS
    <2> QED BY <2>1, SumRecursion, SectionFields
  <1> HIDE DEF p, n
  <1>2. \A m \in 0 .. n : m >= k => p(k) <= p(m)
    <2> DEFINE T == {m \in 0 .. n : m >= k => p(k) <= p(m)}
    <2>1. 0 \in T BY <1>1
    <2>2. ASSUME NEW m \in 0 .. n - 1, m \in T PROVE m + 1 \in T
      <3>1. m + 1 \in 1 .. n /\ m + 1 \in 0 .. n /\ (m + 1) - 1 = m /\ m \in 0 .. n BY <1>1
      <3>2. p(m + 1) = p(m) + v[m + 1].raw /\ v[m + 1].raw \in Nat /\ p(m) \in Nat /\ p(m + 1) \in Nat /\ p(k) \in Nat
        BY <1>1, <3>1
      <3>3. CASE m + 1 = k BY <3>1, <3>2, <3>3
      <3>4. CASE m >= k BY <2>2, <3>1, <3>2, <3>4
      <3>5. CASE m + 1 < k BY <1>1, <3>1, <3>5
      <3> QED BY <1>1, <3>3, <3>4, <3>5
    <2>3. \A m \in 0 .. n : m \in T
      <3> HIDE DEF T
      <3> QED BY <1>1, <2>1, <2>2, InductionUpTo
    <2> QED BY <2>3
  <1>3. n \in 0 .. n /\ n >= k BY <1>1
  <1>4. p(k) <= p(n) BY <1>2, <1>3
  <1> QED BY <1>4 DEF p, n

-----------------------------------------------------------------------------
(* The sorted table *)

\* The sum of the sizes does not depend on the place of the insertion.
LEMMA InsertedSum ==
  ASSUME NEW t \in Seq(Section), NEW s \in Section
  PROVE  SumUpTo(Inserted(t, s), Len(t) + 1) = SumUpTo(t, Len(t)) + s.raw
  <1> DEFINE u == Inserted(t, s)
             n == Len(t)
             k == Cardinality({j \in DOMAIN t : t[j].ptr <= s.ptr})
             a(j) == SumUpTo(u, j)
             b(j) == SumUpTo(t, j)
             S == {j \in 0 .. n + 1 : a(j) = IF j <= k THEN b(j) ELSE b(j - 1) + s.raw}
  <1>1. /\ n \in Nat /\ k \in 0 .. n /\ u \in Seq(Section) /\ Len(u) = n + 1 /\ s.raw \in Nat
        /\ \A j \in 1 .. n + 1 : u[j] = IF j <= k THEN t[j] ELSE IF j = k + 1 THEN s ELSE t[j - 1]
    <2>1. n \in Nat /\ s.raw \in Nat BY SectionFields
    <2> QED BY <2>1, InsertedElements
  <1> HIDE DEF u, k
  <1>2. a(0) = 0 /\ \A j \in 1 .. n + 1 : a(j) = a(j - 1) + u[j].raw BY <1>1, SumRecursion
  <1>3. b(0) = 0 /\ (\A j \in 1 .. n : b(j) = b(j - 1) + t[j].raw) /\ \A j \in 0 .. n : b(j) \in Nat
    BY SumRecursion
  <1>4. \A j \in 1 .. n : t[j].raw \in Nat
    <2>1. \A j \in 1 .. n : t[j] \in Section OBVIOUS
    <2> QED BY <2>1, SectionFields
  <1> HIDE DEF a, b, n
  <1>5. 0 \in S BY <1>1, <1>2, <1>3
  <1>6. ASSUME NEW j \in 0 .. n + 1 - 1, j \in S PROVE j + 1 \in S
    <2>1. j + 1 \in 1 .. n + 1 /\ j + 1 \in 0 .. n + 1 /\ (j + 1) - 1 = j BY <1>1
    <2>2. a(j + 1) = a(j) + u[j + 1].raw BY <1>2, <2>1
    <2>3. a(j) = IF j <= k THEN b(j) ELSE b(j - 1) + s.raw BY <1>6
    <2>4. u[j + 1] = IF j + 1 <= k THEN t[j + 1] ELSE IF j + 1 = k + 1 THEN s ELSE t[j]
      BY <1>1, <2>1
    <2>5. CASE j + 1 <= k
      <3>1. j + 1 \in 1 .. n /\ j <= k BY <1>1, <2>1, <2>5
      <3>2. b(j + 1) = b(j) + t[j + 1].raw BY <1>3, <2>1, <3>1
      <3>3. a(j + 1) = b(j + 1) BY <2>2, <2>3, <2>4, <2>5, <3>1, <3>2
      <3> QED BY <2>1, <2>5, <3>3
    <2>6. CASE j = k
      <3>1. ~(j + 1 <= k) /\ j + 1 = k + 1 /\ j <= k BY <1>1, <2>6
      <3>2. a(j + 1) = b((j + 1) - 1) + s.raw BY <2>1, <2>2, <2>3, <2>4, <3>1
      <3> QED BY <2>1, <3>1, <3>2
    <2>7. CASE j > k
      <3>1. ~(j + 1 <= k) /\ j + 1 # k + 1 /\ ~(j <= k) /\ j \in 1 .. n /\ j - 1 \in 0 .. n
        BY <1>1, <2>7
      <3>2. b(j) = b(j - 1) + t[j].raw BY <1>3, <3>1
      <3>3. a(j + 1) = b(j - 1) + s.raw + t[j].raw BY <2>2, <2>3, <2>4, <3>1
      <3>4. a(j + 1) = b((j + 1) - 1) + s.raw BY <1>1, <1>3, <1>4, <2>1, <3>1, <3>2, <3>3
      <3> QED BY <2>1, <3>1, <3>4
    <2> QED BY <1>1, <2>5, <2>6, <2>7
  <1>7. \A j \in 0 .. n + 1 : j \in S
    <2> DEFINE m == n + 1
    <2> HIDE DEF S
    <2>1. m \in Nat /\ \A j \in 0 .. m - 1 : j \in S => j + 1 \in S BY <1>1, <1>6
    <2> HIDE DEF m
    <2>2. \A j \in 0 .. m : j \in S BY <1>5, <2>1, InductionUpTo
    <2> QED BY <2>2 DEF m
  <1>8. n + 1 \in S /\ ~(n + 1 <= k) /\ (n + 1) - 1 = n BY <1>1, <1>7
  <1>9. a(n + 1) = b(n) + s.raw BY <1>8
  <1> QED BY <1>9 DEF a, b, n, u

\* Neither section begins in the other.
Clear(s, r) == s.raw > 0 /\ r.raw > 0 => r.ptr >= s.ptr + s.raw \/ r.ptr + r.raw <= s.ptr

\* A sorted arrangement of the first m sections.
SortedOf(t, m) ==
  /\ t \in Seq(Section) /\ Len(t) = m
  /\ \A j, l \in 1 .. m : j < l => t[j].ptr <= t[l].ptr
  /\ \A j \in 1 .. m : \E k \in 1 .. m : t[j] = image.sections[k]
  /\ \A k \in 1 .. m : \E j \in 1 .. m : t[j] = image.sections[k]
  /\ SumUpTo(t, m) = SumUpTo(image.sections, m)
  /\ Tidy => \A j, l \in 1 .. m : j # l => Clear(t[j], t[l])

\* In a tidy image each section with data begins behind the headers or another
\* section, and all sections are clear of each other.
LEMMA TidySections ==
  ASSUME image \in Image, Tidy, NEW k \in 1 .. N
  PROVE  /\ image.sections[k].raw > 0 =>
              \/ image.sections[k].ptr = image.headers
              \/ \E l \in 1 .. N : /\ image.sections[l].raw > 0
                                   /\ image.sections[l].ptr + image.sections[l].raw = image.sections[k].ptr
         /\ \A l \in 1 .. N : k # l => Clear(image.sections[k], image.sections[l])
  BY Zenon DEF Tidy, Filled, Clear

\* The first m positions, when they are those that a condition on them selects.
LEMMA CountedPrefix ==
  ASSUME NEW n \in Nat, NEW B \in SUBSET (1 .. n),
         \A j, l \in 1 .. n : j < l /\ l \in B => j \in B
  PROVE  \A j \in 1 .. n : j \in B <=> j <= Cardinality(B)
  <1> DEFINE c == Cardinality(B)
  <1>1. PICK m \in 0 .. n : B = 1 .. m
    <2>1. CASE B = {}
      <3>1. B = 1 .. 0 /\ 0 \in 0 .. n BY <2>1
      <3> QED BY <3>1
    <2>2. CASE B # {}
      <3>1. Max(B) \in B /\ \A k \in B : k <= Max(B) BY <2>2, MaxIs
      <3> DEFINE m == Max(B)
      <3>2. m \in B /\ m \in 1 .. n /\ \A k \in B : k <= m BY <3>1
      <3> HIDE DEF m
      <3>3. B = 1 .. m
        <4>1. ASSUME NEW j \in B PROVE j \in 1 .. m
          <5>1. j <= m /\ j \in 1 .. n BY <3>2
          <5> QED BY <3>2, <5>1
        <4>2. ASSUME NEW j \in 1 .. m PROVE j \in B
          <5>1. j \in 1 .. n /\ (j < m \/ j = m) BY <3>2
          <5> QED BY <3>2, <5>1
        <4> QED BY <4>1, <4>2
      <3>4. m \in 0 .. n BY <3>2
      <3> QED BY <3>3, <3>4
    <2> QED BY <2>1, <2>2
  <1>2. Cardinality(1 .. m) = IF 1 > m THEN 0 ELSE m - 1 + 1 BY FS_Interval, SMT
  <1>3. c = m BY <1>1, <1>2
  <1> HIDE DEF c
  <1>4. \A j \in 1 .. n : j \in B <=> j <= c BY <1>1, <1>3
  <1> QED BY <1>4 DEF c

\* The next section goes to a place that keeps the table sorted.
LEMMA SortedNext ==
  ASSUME image \in Image, NEW m \in 0 .. N - 1, NEW t, SortedOf(t, m)
  PROVE  SortedOf(Inserted(t, image.sections[m + 1]), m + 1)
  <1> DEFINE s == image.sections[m + 1]
             u == Inserted(t, s)
             B == {j \in DOMAIN t : t[j].ptr <= s.ptr}
             k == Cardinality(B)
  <1>1. /\ image.sections \in Seq(Section) /\ N = Len(image.sections) /\ N \in Nat
        /\ m \in Nat /\ m + 1 \in 1 .. N BY ImageFields DEF N
  <1>2. s \in Section BY <1>1
  <1>3. t \in Seq(Section) /\ Len(t) = m /\ DOMAIN t = 1 .. m /\ \A j \in 1 .. m : t[j] \in Section
    BY DEF SortedOf
  <1>4. /\ u \in Seq(Section) /\ Len(u) = m + 1 /\ k \in 0 .. m
        /\ \A j \in 1 .. m + 1 : u[j] = IF j <= k THEN t[j] ELSE IF j = k + 1 THEN s ELSE t[j - 1]
    BY <1>2, <1>3, InsertedElements
  <1>5. SumUpTo(u, m + 1) = SumUpTo(image.sections, m + 1)
    <2>1. SumUpTo(u, m + 1) = SumUpTo(t, m) + s.raw BY <1>2, <1>3, InsertedSum
    <2>2. SumUpTo(image.sections, m + 1) = SumUpTo(image.sections, (m + 1) - 1) + s.raw
      BY <1>1, SumRecursion
    <2>3. (m + 1) - 1 = m BY <1>1
    <2> QED BY <2>1, <2>2, <2>3 DEF SortedOf
  <1>6. \A j, l \in 1 .. m : j < l => t[j].ptr <= t[l].ptr BY DEF SortedOf
  <1>7. \A j \in 1 .. m : t[j].ptr \in Nat /\ s.ptr \in Nat BY <1>2, <1>3, SectionFields
  <1>8. \A j \in 1 .. m : t[j].ptr <= s.ptr <=> j <= k
    <2>1. B \in SUBSET (1 .. m) /\ \A j \in 1 .. m : j \in B <=> t[j].ptr <= s.ptr BY <1>3
    <2>2. \A j, l \in 1 .. m : j < l /\ l \in B => j \in B
      <3> HIDE DEF B, s
      <3> QED BY <1>6, <1>7, <2>1
    <2>3. \A j \in 1 .. m : j \in B <=> j <= Cardinality(B)
      <3> HIDE DEF B
      <3> QED BY <1>1, <2>1, <2>2, CountedPrefix
    <2> HIDE DEF B
    <2> QED BY <2>1, <2>3 DEF k
  <1> HIDE DEF k, u, s, B
  <1>9. \A j, l \in 1 .. m + 1 : j < l => u[j].ptr <= u[l].ptr
    <2> SUFFICES ASSUME NEW j \in 1 .. m + 1, NEW l \in 1 .. m + 1, j < l PROVE u[j].ptr <= u[l].ptr
      OBVIOUS
    <2>1. CASE l <= k
      <3>1. j <= k /\ j \in 1 .. m /\ l \in 1 .. m BY <1>4, <2>1
      <3> QED BY <1>4, <1>6, <2>1, <3>1
    <2>2. CASE l = k + 1
      <3>1. j <= k /\ j \in 1 .. m /\ ~(l <= k) BY <1>4, <2>2
      <3>2. u[j] = t[j] /\ u[l] = s BY <1>4, <2>2, <3>1
      <3> QED BY <1>8, <3>1, <3>2
    <2>3. CASE l > k + 1
      <3>1. ~(l <= k) /\ l # k + 1 /\ l - 1 \in 1 .. m /\ ~(l - 1 <= k) BY <1>4, <2>3
      <3>2. u[l] = t[l - 1] /\ s.ptr <= t[l - 1].ptr BY <1>4, <1>7, <1>8, <3>1
      <3>3. CASE j <= k
        <4>1. j \in 1 .. m /\ j < l - 1 BY <1>4, <2>3, <3>3
        <4> QED BY <1>4, <1>6, <3>1, <3>2, <3>3, <4>1
      <3>4. CASE j = k + 1
        <4>1. u[j] = s BY <1>4, <3>4
        <4> QED BY <3>2, <4>1
      <3>5. CASE j > k + 1
        <4>1. ~(j <= k) /\ j # k + 1 /\ j - 1 \in 1 .. m /\ j - 1 < l - 1 BY <1>4, <3>5
        <4>2. u[j] = t[j - 1] BY <1>4, <4>1
        <4> QED BY <1>6, <3>1, <3>2, <4>1, <4>2
      <3> QED BY <1>4, <3>3, <3>4, <3>5
    <2> QED BY <1>4, <2>1, <2>2, <2>3
  <1>10. ASSUME NEW j \in 1 .. m + 1 PROVE \E p \in 1 .. m + 1 : u[j] = image.sections[p]
    <2>1. \A p \in 1 .. m : \E q \in 1 .. m + 1 : t[p] = image.sections[q]
      <3>1. \A p \in 1 .. m : \E q \in 1 .. m : t[p] = image.sections[q] BY DEF SortedOf
      <3>2. \A q \in 1 .. m : q \in 1 .. m + 1 BY <1>1
      <3> QED BY <3>1, <3>2, Zenon
    <2>2. u[j] = s \/ \E p \in 1 .. m : u[j] = t[p]
      <3>1. CASE j <= k
        <4>1. j \in 1 .. m BY <1>4, <3>1
        <4> QED BY <1>4, <3>1, <4>1
      <3>2. CASE j = k + 1 BY <1>4, <3>2
      <3>3. CASE j > k + 1
        <4>1. ~(j <= k) /\ j # k + 1 /\ j - 1 \in 1 .. m BY <1>4, <3>3
        <4> QED BY <1>4, <4>1
      <3> QED BY <1>4, <3>1, <3>2, <3>3
    <2>3. m + 1 \in 1 .. m + 1 BY <1>1
    <2> QED BY <2>1, <2>2, <2>3, Zenon DEF s
  <1>11. ASSUME NEW p \in 1 .. m + 1 PROVE \E j \in 1 .. m + 1 : u[j] = image.sections[p]
    <2>1. CASE p = m + 1
      <3>1. k + 1 \in 1 .. m + 1 /\ ~(k + 1 <= k) BY <1>4
      <3>2. u[k + 1] = s BY <1>4, <3>1
      <3> QED BY <2>1, <3>1, <3>2 DEF s
    <2>2. CASE p \in 1 .. m
      <3>1. PICK j \in 1 .. m : t[j] = image.sections[p] BY <2>2 DEF SortedOf
      <3>2. CASE j <= k
        <4>1. j \in 1 .. m + 1 BY <1>4
        <4> QED BY <1>4, <3>1, <3>2, <4>1
      <3>3. CASE j > k
        <4>1. j + 1 \in 1 .. m + 1 /\ ~(j + 1 <= k) /\ j + 1 # k + 1 /\ (j + 1) - 1 = j
          BY <1>4, <3>3
        <4>2. u[j + 1] = t[j] BY <1>4, <4>1
        <4> QED BY <3>1, <4>1, <4>2
      <3> QED BY <1>4, <3>2, <3>3
    <2> QED BY <2>1, <2>2
  <1>12. ASSUME Tidy, NEW j \in 1 .. m + 1, NEW l \in 1 .. m + 1, j # l PROVE Clear(u[j], u[l])
    <2> DEFINE from(p) == IF p <= k THEN p ELSE p - 1
    <2>1. \A p \in 1 .. m + 1 : p # k + 1 => from(p) \in 1 .. m /\ u[p] = t[from(p)]
      <3> SUFFICES ASSUME NEW p \in 1 .. m + 1, p # k + 1 PROVE from(p) \in 1 .. m /\ u[p] = t[from(p)]
        OBVIOUS
      <3>1. u[p] = IF p <= k THEN t[p] ELSE t[p - 1] BY <1>4
      <3>2. p <= k \/ p > k + 1 BY <1>4
      <3> QED BY <1>4, <3>1, <3>2
    <2>2. u[k + 1] = s
      <3>1. k + 1 \in 1 .. m + 1 /\ ~(k + 1 <= k) BY <1>4
      <3> QED BY <1>4, <3>1
    <2>3. ASSUME NEW p \in 1 .. m PROVE Clear(t[p], s) /\ Clear(s, t[p])
      <3>1. PICK q \in 1 .. m : t[p] = image.sections[q] BY DEF SortedOf
      <3>2. q \in 1 .. N /\ q # m + 1 /\ m + 1 \in 1 .. N BY <1>1
      <3> QED BY <1>12, <3>1, <3>2, TidySections DEF s
    <2>4. CASE j = k + 1
      <3>1. l # k + 1 BY <1>12, <2>4
      <3> QED BY <2>1, <2>2, <2>3, <2>4, <3>1
    <2>5. CASE l = k + 1
      <3>1. j # k + 1 BY <1>12, <2>5
      <3> QED BY <2>1, <2>2, <2>3, <2>5, <3>1
    <2>6. CASE j # k + 1 /\ l # k + 1
      <3>1. from(j) # from(l) BY <1>4, <1>12, <2>6
      <3>2. \A p, q \in 1 .. m : p # q => Clear(t[p], t[q]) BY <1>12, Zenon DEF SortedOf
      <3> HIDE DEF from
      <3> QED BY <2>1, <2>6, <3>1, <3>2
    <2> QED BY <2>4, <2>5, <2>6
  <1>13. SortedOf(u, m + 1) BY <1>4, <1>5, <1>9, <1>10, <1>11, <1>12 DEF SortedOf
  <1> QED BY <1>13 DEF u, s

LEMMA SortedNone == image \in Image => SortedOf(<<>>, 0)
  <1> SUFFICES ASSUME image \in Image PROVE SortedOf(<<>>, 0) OBVIOUS
  <1>1. image.sections \in Seq(Section) /\ <<>> \in Seq(Section) /\ Len(<<>>) = 0
    BY ImageFields
  <1>2. SumUpTo(<<>>, 0) = 0 /\ SumUpTo(image.sections, 0) = 0 BY <1>1, SumRecursion
  <1> QED BY <1>1, <1>2 DEF SortedOf

\* So the sections of every image can be sorted.
LEMMA SortedExists ==
  ASSUME image \in Image
  PROVE  \E t : SortedOf(t, N)
  <1> DEFINE S == {m \in 0 .. N : \E t : SortedOf(t, m)}
  <1>1. N \in Nat BY ImageFields DEF N
  <1>2. 0 \in S BY <1>1, SortedNone
  <1>3. ASSUME NEW m \in 0 .. N - 1, m \in S PROVE m + 1 \in S
    <2>1. PICK t : SortedOf(t, m) BY <1>3
    <2>2. SortedOf(Inserted(t, image.sections[m + 1]), m + 1) BY <2>1, SortedNext
    <2>3. m + 1 \in 0 .. N BY <1>1
    <2> QED BY <2>2, <2>3
  <1>4. \A m \in 0 .. N : m \in S
    <2> HIDE DEF S
    <2> QED BY <1>1, <1>2, <1>3, InductionUpTo
  <1>5. N \in 0 .. N BY <1>1
  <1> QED BY <1>4, <1>5

-----------------------------------------------------------------------------
(* Tidy images *)

\* No section lies in front of the headers' end: the first of them does not.
LEMMA TidyBehindHeaders ==
  ASSUME image \in Image, Tidy, NEW k \in 1 .. N, image.sections[k].raw > 0
  PROVE  image.sections[k].ptr >= image.headers
  <1> DEFINE s == image.sections
             h == image.headers
             low == {p \in Nat : p < h /\ \E l \in 1 .. N : s[l].raw > 0 /\ s[l].ptr = p}
  <1>1. \A l \in 1 .. N : s[l].ptr \in Nat /\ s[l].raw \in Nat
    <2>1. \A l \in 1 .. N : s[l] \in Section BY ImageFields DEF N
    <2> QED BY <2>1, SectionFields
  <1>2. h \in Nat BY ImageFields, Max32Assumption DEF UInt32
  <1>3. ASSUME low # {} PROVE FALSE
    <2>1. low \in SUBSET Nat OBVIOUS
    <2>2. PICK p \in low : \A q \in low : p <= q BY <1>3, <2>1, LeastNat
    <2>3. PICK l \in 1 .. N : s[l].raw > 0 /\ s[l].ptr = p /\ p < h BY <2>2
    <2>4. PICK m \in 1 .. N : s[m].raw > 0 /\ s[m].ptr + s[m].raw = p
      <3>1. s[l].ptr # h BY <1>1, <1>2, <2>3
      <3> QED BY <2>3, <3>1, TidySections
    <2>5. s[m].ptr < p /\ s[m].ptr \in Nat /\ p \in Nat BY <1>1, <2>3, <2>4
    <2>6. s[m].ptr \in low BY <1>2, <2>3, <2>4, <2>5
    <2> QED BY <2>2, <2>5, <2>6
  <1>4. s[k].ptr \notin low BY <1>3
  <1>5. ~(s[k].ptr < h) BY <1>1, <1>4
  <1> QED BY <1>1, <1>2, <1>5

\* In the sorted table every section with data begins where the one before it
\* ends, and the first one behind the headers.
LEMMA TidyInPlace ==
  ASSUME image \in Image, Tidy, NEW t, SortedOf(t, N)
  PROVE  \A j \in 1 .. N : t[j].raw > 0 => t[j].ptr = image.headers + SumUpTo(t, j - 1)
  <1> DEFINE n == N
             h == image.headers
             p(m) == SumUpTo(t, m)
             first(m) == p(m) = 0 /\ \A j \in 1 .. m : t[j].raw = 0
             last(m, j) == /\ t[j].raw > 0 /\ h + p(m) = t[j].ptr + t[j].raw
                           /\ \A l \in 1 .. m : t[l].raw > 0 => l <= j
             S == {m \in 0 .. n : /\ first(m) \/ \E j \in 1 .. m : last(m, j)
                                  /\ m >= 1 /\ t[m].raw > 0 => t[m].ptr = h + p(m - 1)}
  <1>1. n \in Nat /\ h \in Nat /\ t \in Seq(Section) /\ Len(t) = n
    BY ImageFields, Max32Assumption DEF N, UInt32, SortedOf
  <1>2. \A j \in 1 .. n : t[j].ptr \in Nat /\ t[j].raw \in Nat
    <2>1. \A j \in 1 .. n : t[j] \in Section BY <1>1
    <2> QED BY <2>1, SectionFields
  <1>3. /\ p(0) = 0 /\ (\A m \in 1 .. n : p(m) = p(m - 1) + t[m].raw) /\ \A m \in 0 .. n : p(m) \in Nat
    BY <1>1, SumRecursion
  <1>4. \A j, l \in 1 .. n : j < l => t[j].ptr <= t[l].ptr BY DEF SortedOf
  <1>5. ASSUME NEW j \in 1 .. n, NEW l \in 1 .. n, t[j].raw > 0, t[l].raw > 0, j < l
        PROVE  t[l].ptr >= t[j].ptr + t[j].raw
    <2>1. j # l BY <1>1, <1>5
    <2>2. Clear(t[j], t[l]) BY <1>5, <2>1, Zenon DEF SortedOf
    <2>3. t[j].ptr <= t[l].ptr BY <1>4, <1>5
    <2> QED BY <1>2, <1>5, <2>2, <2>3 DEF Clear
  <1>6. ASSUME NEW j \in 1 .. n, t[j].raw > 0
        PROVE  /\ t[j].ptr >= h
               /\ t[j].ptr = h \/ \E q \in 1 .. n : t[q].raw > 0 /\ t[q].ptr + t[q].raw = t[j].ptr
    <2>1. PICK k \in 1 .. N : t[j] = image.sections[k] BY Zenon DEF SortedOf
    <2>2. t[j].ptr >= h BY <1>6, <2>1, TidyBehindHeaders
    <2>3. ASSUME t[j].ptr # h
          PROVE  \E q \in 1 .. n : t[q].raw > 0 /\ t[q].ptr + t[q].raw = t[j].ptr
      <3>1. PICK l \in 1 .. N : image.sections[l].raw > 0
                                /\ image.sections[l].ptr + image.sections[l].raw = image.sections[k].ptr
        BY <1>6, <2>1, <2>3, TidySections
      <3>2. PICK q \in 1 .. N : t[q] = image.sections[l] BY Zenon DEF SortedOf
      <3> QED BY <2>1, <3>1, <3>2
    <2> QED BY <2>2, <2>3
  <1> HIDE DEF n, h, p
  \* It is a section further in front that ends where one begins.
  <1>7. ASSUME NEW j \in 1 .. n, NEW q \in 1 .. n, t[j].raw > 0, t[q].raw > 0,
               t[q].ptr + t[q].raw = t[j].ptr
        PROVE  q < j
    <2>1. q # j BY <1>2, <1>7
    <2>2. ~(j < q)
      <3> SUFFICES ASSUME j < q PROVE FALSE OBVIOUS
      <3>1. t[j].ptr <= t[q].ptr BY <1>4, Zenon
      <3> QED BY <1>2, <1>7, <3>1
    <2> QED BY <1>1, <2>1, <2>2
  <1>8. 0 \in S BY <1>1, <1>3
  <1>9. ASSUME NEW m \in 0 .. n - 1, m \in S PROVE m + 1 \in S
    <2> DEFINE x == t[m + 1]
    <2>1. m + 1 \in 1 .. n /\ m + 1 \in 0 .. n /\ m \in 0 .. n /\ (m + 1) - 1 = m /\ m + 1 >= 1
      BY <1>1
    <2>2. p(m + 1) = p(m) + x.raw /\ p(m) \in Nat /\ x.raw \in Nat /\ x.ptr \in Nat
      BY <1>2, <1>3, <2>1
    <2>3. first(m) \/ \E j \in 1 .. m : last(m, j) BY <1>9
    <2>4. \A j \in 1 .. m : j \in 1 .. n /\ j \in 1 .. m + 1 /\ j < m + 1 BY <1>1
    <2>5. \A j \in 1 .. m + 1 : j = m + 1 \/ j \in 1 .. m BY <1>1
    <2> HIDE DEF x
    <2>6. CASE x.raw = 0
      <3>1. p(m + 1) = p(m) BY <2>2, <2>6
      <3>2. t[m + 1].raw = 0 /\ ~(t[m + 1].raw > 0) BY <2>6 DEF x
      <3>3. first(m) => first(m + 1) BY <2>5, <3>1, <3>2, Zenon
      <3>4. \A j \in 1 .. m : last(m, j) => j \in 1 .. m + 1 /\ last(m + 1, j)
        BY <2>4, <2>5, <3>1, <3>2, Zenon
      <3>5. first(m + 1) \/ \E j \in 1 .. m + 1 : last(m + 1, j)
        <4> HIDE DEF first, last
        <4> QED BY <2>3, <3>3, <3>4, Zenon
      <3> HIDE DEF first, last
      <3> QED BY <2>1, <3>2, <3>5, Zenon
    <2>7. CASE x.raw > 0
      <3>1. x.ptr = h + p(m)
        <4>1. CASE first(m)
          <5>1. x.ptr = h
            <6> SUFFICES ASSUME x.ptr # h PROVE FALSE OBVIOUS
            <6>1. PICK q \in 1 .. n : t[q].raw > 0 /\ t[q].ptr + t[q].raw = x.ptr
              BY <1>6, <2>1, <2>7 DEF x
            <6>2. q < m + 1 BY <1>7, <2>1, <2>7, <6>1 DEF x
            <6>3. q \in 1 .. m BY <1>1, <6>2
            <6>4. t[q].raw = 0 BY <4>1, <6>3, Zenon
            <6> QED BY <6>1, <6>4
          <5>2. p(m) = 0 BY <4>1
          <5> QED BY <1>1, <5>1, <5>2
        <4>2. ASSUME NEW j \in 1 .. m, last(m, j) PROVE x.ptr = h + p(m)
          <5>1. t[j].raw > 0 /\ h + p(m) = t[j].ptr + t[j].raw /\ j \in 1 .. n /\ j < m + 1
            BY <2>4, <4>2
          <5>2. x.ptr >= t[j].ptr + t[j].raw BY <1>5, <2>1, <2>7, <5>1 DEF x
          <5>3. t[j].ptr >= h /\ t[j].ptr \in Nat /\ t[j].raw \in Nat BY <1>2, <1>6, <5>1
          <5>4. x.ptr # h BY <1>1, <2>2, <5>1, <5>2, <5>3
          <5>5. PICK q \in 1 .. n : t[q].raw > 0 /\ t[q].ptr + t[q].raw = x.ptr
            BY <1>6, <2>1, <2>7, <5>4 DEF x
          <5>6. q < m + 1 BY <1>7, <2>1, <2>7, <5>5 DEF x
          <5>7. q \in 1 .. m BY <1>1, <5>6
          <5>8. q <= j BY <4>2, <5>5, <5>7, Zenon
          <5>9. CASE q < j
            <6>1. t[j].ptr >= t[q].ptr + t[q].raw BY <1>5, <5>1, <5>5, <5>9
            <6> QED BY <5>1, <5>2, <5>3, <5>5, <6>1, <2>2
          <5>10. CASE q = j BY <5>1, <5>5, <5>10
          <5> QED BY <1>1, <5>8, <5>9, <5>10
        <4> HIDE DEF first, last
        <4> QED BY <2>3, <4>1, <4>2
      <3>2. last(m + 1, m + 1)
        <4>1. h + p(m + 1) = x.ptr + x.raw BY <1>1, <2>2, <3>1
        <4>2. \A l \in 1 .. m + 1 : l <= m + 1 BY <1>1
        <4> QED BY <2>7, <4>1, <4>2, Zenon DEF x
      <3>3. m + 1 \in 1 .. m + 1 BY <1>1
      <3>4. t[m + 1].ptr = h + p((m + 1) - 1) BY <2>1, <3>1 DEF x
      <3> HIDE DEF first, last
      <3> QED BY <2>1, <3>2, <3>3, <3>4, Zenon
    <2> QED BY <2>2, <2>6, <2>7
  <1>10. \A m \in 0 .. n : m \in S
    <2> HIDE DEF S
    <2> QED BY <1>1, <1>8, <1>9, InductionUpTo
  <1>11. ASSUME NEW j \in 1 .. n, t[j].raw > 0 PROVE t[j].ptr = h + p(j - 1)
    <2>1. j \in 0 .. n /\ j >= 1 BY <1>1
    <2> HIDE DEF first, last
    <2> QED BY <1>10, <1>11, <2>1, Zenon
  <1> QED BY <1>11 DEF n, h, p

\* So every section ends where the data end, or in front of it.
LEMMA TidyEnds ==
  ASSUME image \in Image, Tidy, NEW k \in 1 .. N, image.sections[k].raw > 0
  PROVE  image.sections[k].ptr + image.sections[k].raw <= DataEnd
  <1>1. PICK t : SortedOf(t, N) BY SortedExists
  <1>2. PICK j \in 1 .. N : t[j] = image.sections[k] BY <1>1, Zenon DEF SortedOf
  <1>3. t \in Seq(Section) /\ Len(t) = N /\ N \in Nat /\ SumUpTo(t, N) = SumUpTo(image.sections, N)
    BY <1>1, ImageFields DEF SortedOf, N
  <1>4. t[j].ptr = image.headers + SumUpTo(t, j - 1) BY <1>1, <1>2, TidyInPlace
  <1>5. SumUpTo(t, j) = SumUpTo(t, j - 1) + t[j].raw /\ SumUpTo(t, j) <= SumUpTo(t, N)
    <2>1. j \in 0 .. Len(t) /\ j \in 1 .. Len(t) BY <1>3
    <2>2. SumUpTo(t, j) = SumUpTo(t, j - 1) + t[j].raw BY <1>3, <2>1, SumRecursion
    <2>3. SumUpTo(t, j) <= SumUpTo(t, N) BY <1>3, <2>1, SumGrows
    <2> QED BY <2>2, <2>3
  <1>6. DataEnd = image.headers + SumUpTo(t, N) BY <1>3, DataEndIs
  <1>7. /\ SumUpTo(t, j - 1) \in Nat /\ SumUpTo(t, j) \in Nat /\ SumUpTo(t, N) \in Nat
        /\ image.headers \in Nat /\ t[j].raw \in Nat
    <2>1. j \in 0 .. Len(t) /\ j - 1 \in 0 .. Len(t) /\ N \in 0 .. Len(t) /\ t[j] \in Section
      BY <1>3
    <2>2. SumUpTo(t, j - 1) \in Nat /\ SumUpTo(t, j) \in Nat /\ SumUpTo(t, N) \in Nat
      BY <1>3, <2>1, SumRecursion
    <2> QED BY <2>1, <2>2, SectionFields, ImageFields, Max32Assumption DEF UInt32
  <1> QED BY <1>2, <1>4, <1>5, <1>6, <1>7

-----------------------------------------------------------------------------
(* Images as a linker makes them pass the checks *)

LEMMA ImageNumbers ==
  ASSUME image \in Image
  PROVE  /\ \A n \in {image.pe, image.dirs, image.optSize, image.headers, image.imageSize,
                      image.security.va, image.security.size, image.debug.va, image.debug.size} :
              n \in Nat /\ n <= Max32
         /\ image.size \in Nat /\ N \in Nat
         /\ \A k \in 1 .. N : image.sections[k] \in Section
  <1>1. /\ image.size \in Nat /\ image.pe \in UInt32 /\ image.dirs \in UInt32 /\ image.optSize \in UInt32
        /\ image.headers \in UInt32 /\ image.imageSize \in UInt32 /\ image.security \in Directory
        /\ image.debug \in Directory /\ image.sections \in Seq(Section) BY DEF Image
  <1>2. /\ image.security.va \in UInt32 /\ image.security.size \in UInt32
        /\ image.debug.va \in UInt32 /\ image.debug.size \in UInt32 BY <1>1 DEF Directory
  <1>3. \A n \in UInt32 : n \in Nat /\ n <= Max32 BY Max32Assumption DEF UInt32
  <1>4. N \in Nat /\ \A k \in 1 .. N : image.sections[k] \in Section BY <1>1 DEF N
  <1> QED BY <1>1, <1>2, <1>3, <1>4

LEMMA DividedBySectionSize ==
  ASSUME NEW x \in Nat, NEW n \in Nat
  PROVE  /\ x >= 40 * n => x \div 40 >= n
         /\ x >= 40 * (n + 1) => x \div 40 > n OBVIOUS

\* The headers of such an image, with numbers.
LEMMA WellFormedNumbers ==
  ASSUME image \in Image, WellFormed
  PROVE  /\ ~IsTe /\ image.format \in {"PE32", "PE32+"} /\ image.machine
         /\ WithoutDirectories \in {96, 112} /\ image.dirs \in 0 .. 16
         /\ image.optSize = WithoutDirectories + 8 * image.dirs
         /\ TableAt \in Nat /\ TableAt <= Max32 /\ SectionTable = TableAt
         /\ image.pe + 264 <= image.size
         /\ image.headers > TableAt /\ image.headers >= TableAt + 40 * N
         /\ image.imageSize > image.headers /\ image.imageSize >= TableAt + 40 * (N + 1)
         /\ DataEnd \in Nat /\ image.headers <= DataEnd /\ DataEnd <= image.size /\ CertSize \in Nat
         /\ DataEnd + CertSize <= image.size
         /\ CertSize # 0 => image.security.va + CertSize = image.size /\ image.size <= Max32
  <1>1. /\ image.format \in {"PE32", "PE32+"} /\ image.machine /\ image.pe + 264 <= image.size
        /\ image.dirs <= 16 /\ image.optSize = WithoutDirectories + 8 * image.dirs
        /\ image.headers > TableAt /\ image.headers >= TableAt + 40 * N
        /\ image.imageSize > image.headers /\ image.imageSize >= TableAt + 40 * (N + 1)
        /\ Tidy /\ (CertSize # 0 => image.size <= Max32)
    BY DEF WellFormed, UnionSize, MaxDirectories, DirectorySize, SectionSize
  <1>2. ~IsTe BY <1>1 DEF IsTe
  <1>3. /\ image.size \in Nat /\ image.pe \in Nat /\ image.dirs \in Nat /\ image.headers \in Nat
        /\ image.security.size \in Nat /\ image.headers <= Max32 BY ImageNumbers
  <1>4. WithoutDirectories \in {96, 112} /\ image.dirs \in 0 .. 16
    BY <1>1, <1>3 DEF WithoutDirectories
  <1>5. TableAt \in Nat /\ TableAt <= Max32 /\ SectionTable = TableAt
    <2>1. TableAt \in Nat /\ TableAt <= Max32 BY <1>1, <1>3, TableNumbers, Max32Assumption
    <2> QED BY <2>1, TableNumbers DEF Told
  <1>6. DataEnd \in Nat /\ image.headers <= DataEnd
    <2>1. N \in 0 .. Len(image.sections) BY ImageNumbers DEF N
    <2>2. SumUpTo(image.sections, N) \in Nat BY <2>1, ImageFields, SumRecursion
    <2> QED BY <1>3, <2>2, DataEndIs
  <1>7. CertSize \in Nat /\ (CertSize # 0 => CertSize = image.security.size)
    BY <1>3 DEF CertSize
  <1>8. DataEnd + CertSize <= image.size /\ (CertSize # 0 => image.security.va + image.security.size = image.size)
    BY <1>1 DEF Tidy
  <1> QED BY <1>1, <1>2, <1>3, <1>4, <1>5, <1>6, <1>7, <1>8

LEMMA WellFormedHeaders ==
  ASSUME image \in Image, WellFormed
  PROVE  HeadersValid
  <1>1. /\ image.size \in Nat /\ image.pe \in Nat /\ image.dirs \in Nat /\ image.headers \in Nat
        /\ image.optSize \in Nat /\ image.imageSize \in Nat /\ N \in Nat
        /\ image.security.va \in Nat /\ image.security.size \in Nat /\ SectionTable \in Nat
        /\ image.headers <= image.size
    <2>1. SectionTable = TableAt /\ TableAt \in Nat /\ DataEnd \in Nat /\ image.headers <= DataEnd
          /\ DataEnd <= image.size BY WellFormedNumbers
    <2> QED BY <2>1, ImageNumbers
  <1>2. Reads(0, DosSize) /\ Reads(image.pe, UnionSize)
    BY <1>1, WellFormedNumbers DEF Reads, DosSize, UnionSize
  <1>3. DirectoriesValid
    <2> DEFINE x == image.optSize - WithoutDirectories
    <2>1. x = 8 * image.dirs /\ image.dirs \in 0 .. 16 BY WellFormedNumbers
    <2>2. x \in Nat /\ x <= Max32 BY <2>1, Max32Assumption DEF UnionSize
    <2>3. Wrap(x) = x BY <2>2, WrapSmall
    <2> QED BY <2>1, <2>3 DEF DirectoriesValid, MaxDirectories, DirectorySize
  <1>4. TableValid
    <2>1. image.imageSize > SectionTable /\ image.imageSize - SectionTable \in Nat
          /\ image.imageSize - SectionTable >= 40 * (N + 1) BY <1>1, WellFormedNumbers
    <2>2. (image.imageSize - SectionTable) \div 40 > N BY <1>1, <2>1, DividedBySectionSize
    <2> QED BY <2>1, <2>2 DEF TableValid, SectionSize
  <1>5. HeaderSizeValid
    <2>1. /\ image.headers > SectionTable /\ image.headers < image.imageSize
          /\ image.headers - SectionTable \in Nat /\ image.headers - SectionTable >= 40 * N
      BY <1>1, WellFormedNumbers
    <2>2. (image.headers - SectionTable) \div 40 >= N BY <1>1, <2>1, DividedBySectionSize
    <2>3. Reads(image.headers - 1, 1) BY <1>1, <2>1 DEF Reads
    <2> QED BY <2>1, <2>2, <2>3 DEF HeaderSizeValid, SectionSize
  <1>6. SecurityInside
    <2> SUFFICES ASSUME Security < image.dirs, image.security.size # 0
                 PROVE  Max32 - image.security.va >= image.security.size
                        /\ Reads(image.security.va + image.security.size - 1, 1)
      BY DEF SecurityInside
    <2>1. CertSize = image.security.size BY <1>1 DEF CertSize, HasSecurity, Security
    <2>2. image.security.va + image.security.size = image.size /\ image.size <= Max32
      BY <2>1, WellFormedNumbers
    <2> QED BY <1>1, <2>2, Max32Assumption DEF Reads
  <1> QED BY <1>2, <1>3, <1>4, <1>5, <1>6, WellFormedNumbers
      DEF HeadersValid, OptionalHeaderValid

LEMMA WellFormedSection ==
  ASSUME image \in Image, WellFormed, NEW k \in 1 .. N
  PROVE  /\ SectionHeaderReads(k) /\ CheckedReads(k) /\ SectionInside(Adjusted(Checked(k)))
         /\ image.sections[k].raw > 0 => ~Beyond(<<image.sections[k].ptr, image.sections[k].ptr + image.sections[k].raw>>)
  <1>1. /\ image.size \in Nat /\ image.headers \in Nat /\ N \in Nat /\ TableAt \in Nat /\ SectionTable = TableAt
        /\ image.headers <= image.size /\ image.headers >= TableAt + 40 * N /\ TableAt <= Max32
        /\ DataEnd <= image.size /\ DataEnd \in Nat
    <2>1. SectionTable = TableAt /\ TableAt \in Nat /\ DataEnd \in Nat /\ image.headers <= DataEnd
          /\ DataEnd <= image.size /\ image.headers >= TableAt + 40 * N /\ TableAt <= Max32
      BY WellFormedNumbers
    <2> QED BY <2>1, ImageNumbers
  <1>2. SectionHeaderReads(k) /\ CheckedReads(k)
    BY <1>1 DEF SectionHeaderReads, CheckedReads, Reads, SectionSize
  <1> DEFINE s == image.sections[k]
  <1>3. Adjusted(Checked(k)) = s /\ Headers = image.headers
    <2>1. ~(TableAt > Max32) BY <1>1, Max32Assumption
    <2> QED BY <2>1, WellFormedNumbers DEF Adjusted, Checked, Headers
  <1>4. ASSUME s.raw > 0
        PROVE  /\ s.va >= Headers /\ s.ptr >= Headers
               /\ Max32 - s.ptr >= s.raw /\ Reads(s.ptr + s.raw - 1, 1)
               /\ ~Beyond(<<s.ptr, s.ptr + s.raw>>)
    <2>1. s.va >= image.headers /\ s.ptr + s.raw <= Max32
      <3>1. k \in Filled BY <1>4 DEF Filled
      <3> QED BY <3>1, Zenon DEF WellFormed
    <2>2. Tidy BY DEF WellFormed
    <2>3. s.ptr >= image.headers /\ s.ptr + s.raw <= DataEnd
      BY <1>4, <2>2, TidyBehindHeaders, TidyEnds
    <2>4. s.ptr \in Nat /\ s.raw \in Nat BY ImageNumbers, SectionFields
    <2> HIDE DEF s
    <2> QED BY <1>1, <1>3, <2>1, <2>3, <2>4, Max32Assumption DEF Reads, Beyond
  <1> QED BY <1>2, <1>3, <1>4 DEF SectionInside

\* The place of a debug directory of which all entries can be read.
Readable(p) == p >= 0 /\ p + image.debug.size <= image.size

LEMMA WellFormedDebug ==
  ASSUME image \in Image, WellFormed, image.dirs > Debug, NEW k \in 1 .. N, Covers(image.sections[k])
  PROVE  Readable(image.debug.va - image.sections[k].va + image.sections[k].ptr)
  <1> DEFINE s == image.sections[k]
             d == image.debug.va
  <1>1. s.va \in Nat /\ s.vsize \in Nat /\ s.ptr \in Nat /\ d \in Nat
    BY ImageNumbers, SectionFields
  <1>2. d >= s.va /\ d < Wrap(s.va + s.vsize) BY DEF Covers
  <1> HIDE DEF s, d
  <1>3. Wrap(s.va + s.vsize) <= s.va + s.vsize
    <2> DEFINE x == s.va + s.vsize
               y == Max32 + 1
    <2>1. x \in Nat /\ y \in Nat \ {0} BY <1>1, Max32Assumption
    <2> HIDE DEF x, y
    <2>2. x % y <= x BY <2>1
    <2> QED BY <2>2 DEF Wrap, x, y
  <1>4. Wrap(s.va + s.vsize) \in Int BY <1>1, Max32Assumption DEF Wrap
  <1>5. d \in s.va .. s.va + s.vsize - 1 BY <1>1, <1>2, <1>3, <1>4
  <1>6. s.ptr + (d - s.va) + image.debug.size <= image.size
    BY <1>5, Zenon DEF WellFormed, s, d
  <1>7. image.debug.size \in Nat /\ image.size \in Nat BY ImageNumbers
  <1>8. d - s.va + s.ptr >= 0 /\ d - s.va + s.ptr + image.debug.size <= image.size
    BY <1>1, <1>2, <1>6, <1>7
  <1> QED BY <1>8 DEF Readable, s, d

\* An entry of that directory.
LEMMA WellFormedEntry ==
  ASSUME image \in Image, WellFormed, image.dirs > Debug, NEW p \in Int, Readable(p),
         NEW j \in Nat \ {0}, (j - 1) % DebugSize = 0, j <= image.debug.size
  PROVE  Reads(p + j - 1, DebugSize) /\ ((j + DebugSize) - 1) % DebugSize = 0
  <1>1. image.debug.size % 28 = 0 /\ image.debug.size \in Nat /\ image.size \in Nat
    BY ImageNumbers DEF WellFormed, DebugSize
  <1>2. ASSUME NEW d \in Nat, d % 28 = 0, j <= d PROVE j - 1 + 28 <= d BY <1>2 DEF DebugSize
  <1>3. j - 1 + 28 <= image.debug.size BY <1>1, <1>2
  <1>4. ((j + 28) - 1) % 28 = 0 BY DEF DebugSize
  <1> QED BY <1>1, <1>3, <1>4 DEF Readable, Reads, DebugSize

-----------------------------------------------------------------------------
(* Well-formed images are measured *)

LEMMA SameReferences ==
  ASSUME image' = image
  PROVE  /\ WellFormed' <=> WellFormed
         /\ Tidy' <=> Tidy
         /\ DataEnd' = DataEnd /\ CertSize' = CertSize
         /\ \A p : Readable(p)' <=> Readable(p)
  <1>1. DataEnd' = DataEnd BY Zenon DEF DataEnd, FoldLeft, MapThenFoldSet
  <1>2. IsTe' = IsTe /\ N' = N /\ WithoutDirectories' = WithoutDirectories /\ CertSize' = CertSize
        /\ Filled' = Filled
    BY DEF IsTe, N, WithoutDirectories, CertSize, HasSecurity, Filled
  <1>3. TableAt' = TableAt BY <1>2 DEF TableAt
  <1>4. Tidy' <=> Tidy BY <1>1, <1>2, <1>3 DEF Tidy
  <1>5. WellFormed' <=> WellFormed BY <1>2, <1>3, <1>4 DEF WellFormed
  <1>6. \A p : Readable(p)' <=> Readable(p) BY DEF Readable
  <1> QED BY <1>1, <1>2, <1>4, <1>5, <1>6

LEMMA SameSorted ==
  ASSUME image' = image, NEW t, NEW m, SortedOf(t, m), table' = t, i' - 1 = m
  PROVE  SortedOf(table, i - 1)' BY SameReferences, Zenon DEF SortedOf

LEMMA SameSortedAll ==
  ASSUME image' = image, NEW t, SortedOf(t, N), table' = t
  PROVE  SortedOf(table, N)' BY SameReferences, SameImage, Zenon DEF SortedOf

Fine == WellFormed /\ image.faults = {}

\* The rest of the type.
Kinds ==
  /\ found \in Int /\ (~IsTe => found >= 0)
  /\ digest \in BOOLEAN /\ status \in {"", "not loaded", "unsupported", "out of resources", "success"}

\* What is found in a well-formed image is a debug directory that can be read.
Debugging ==
  /\ pc \in {"load", "headers", "sections"} => found = 0
  /\ Fine /\ pc = "search" => image.dirs > Debug /\ (found = 0 \/ Readable(found))
  /\ Fine /\ pc = "debug" => image.dirs > Debug /\ Readable(found) /\ (i - 1) % DebugSize = 0

\* The table is sorted, and the sum is that of the sections hashed.
Summing ==
  /\ pc = "sort" => SortedOf(table, i - 1) /\ sum = image.headers
  /\ pc = "hash" => SortedOf(table, N) /\ i <= N + 1 /\ sum = image.headers + SumUpTo(table, i - 1)

Accepted == Fine => pc # "crashed" /\ status \notin {"unsupported", "out of resources"}

ReasonInv == Kinds /\ Debugging /\ Summing /\ Accepted

Statuses == {"", "not loaded", "unsupported", "out of resources", "success"}

LEMMA ReasonImplies ==
  ASSUME RangeInv, ReasonInv
  PROVE  TypeOK /\ RefusedForReason
  BY DEF RangeInv, Typed, ReasonInv, Kinds, Accepted, Fine, TypeOK, RefusedForReason

LEMMA ReasonStarts == image \in Image /\ Begun => ReasonInv
  <1> SUFFICES ASSUME Begun PROVE ReasonInv OBVIOUS
  <1>1. pc \in {"load", "headers"} /\ found = 0 /\ status = "" BY DEF Begun
  <1>2. Kinds
    <2>0. \A x \in Nat : x = 0 => x \in Int /\ x >= 0 OBVIOUS
    <2>1. found \in Int /\ found >= 0 BY <1>1, <2>0, Zenon
    <2>2. digest \in BOOLEAN BY Zenon DEF Begun
    <2> QED BY <1>1, <2>1, <2>2, Zenon DEF Kinds
  <1>3. Accepted BY <1>1 DEF Accepted
  <1>4. Debugging /\ Summing BY <1>1 DEF Debugging, Summing
  <1> QED BY <1>2, <1>3, <1>4 DEF ReasonInv

\* A step outside of the search, the debug directory and the hashing of sections.
LEMMA ReasonKept ==
  ASSUME ReasonInv, image' = image, found' = found, digest' \in BOOLEAN, status' \in Statuses,
         pc' \in {"load", "headers", "sections"} => found = 0,
         pc' \notin {"search", "debug", "sort", "hash"},
         Fine => pc' # "crashed" /\ status' \notin {"unsupported", "out of resources"}
  PROVE  ReasonInv'
  <1>1. (IsTe' <=> IsTe) /\ (Fine' <=> Fine)
    <2>1. WellFormed' <=> WellFormed BY SameReferences
    <2> QED BY <2>1, SameImage DEF Fine
  <1>2. Kinds' /\ Accepted' BY <1>1 DEF ReasonInv, Kinds, Accepted, Statuses
  <1>3. Debugging' /\ Summing' BY <1>1 DEF Debugging, Summing
  <1> QED BY <1>2, <1>3 DEF ReasonInv

\* A refusal has a reason: the condition it is under does not hold for an image
\* that is fine.
LEMMA Refused ==
  ASSUME ReasonInv, ~Fine,
         \/ Refuse
         \/ \E s \in Statuses : Return(s)
  PROVE  ReasonInv'
  <1>1. /\ pc' \in {"returned", "crashed"} /\ UNCHANGED <<image, found, digest>>
        /\ status' \in Statuses
    <2>1. CASE \E s \in Statuses : Return(s) BY <2>1 DEF Return
    <2>2. CASE Crash BY <2>2 DEF Crash, ReasonInv, Kinds, Statuses
    <2>3. CASE Return("unsupported") BY <2>3 DEF Return, Statuses
    <2> QED BY <2>1, <2>2, <2>3 DEF Refuse
  <1>2. digest' \in BOOLEAN BY <1>1 DEF ReasonInv, Kinds
  <1> QED BY <1>1, <1>2, ReasonKept

LEMMA Ends ==
  ASSUME ReasonInv, NEW s \in {"not loaded", "success"}, Return(s)
  PROVE  ReasonInv'
  <1>1. /\ pc' = "returned" /\ UNCHANGED <<image, found, digest>> /\ status' = s
    BY DEF Return
  <1>2. digest' \in BOOLEAN BY <1>1 DEF ReasonInv, Kinds
  <1>3. s \in Statuses /\ s \notin {"unsupported", "out of resources"} BY DEF Statuses
  <1> QED BY <1>1, <1>2, <1>3, ReasonKept

\* A step on to a place where nothing is searched, hashed or sorted.
LEMMA GoesOn ==
  ASSUME ReasonInv, pc # "crashed", UNCHANGED <<image, found, digest, status>>,
         pc' \in {"headers", "sections", "measure", "context", "final"},
         pc' \in {"headers", "sections"} => pc \in {"load", "headers", "sections"}
  PROVE  ReasonInv'
  <1>1. digest' \in BOOLEAN /\ status' \in Statuses BY DEF ReasonInv, Kinds, Statuses
  <1>2. pc' \in {"load", "headers", "sections"} => found = 0 BY DEF ReasonInv, Debugging
  <1>3. Fine => pc' # "crashed" /\ status' \notin {"unsupported", "out of resources"}
    BY DEF ReasonInv, Accepted
  <1> QED BY <1>1, <1>2, <1>3, ReasonKept

LEMMA ReasonLoad ==
  ASSUME RangeInv, ReasonInv, LoadPeImage
  PROVE  ReasonInv'
  <1>1. CASE LoadFails BY <1>1, Ends DEF LoadFails
  <1>2. CASE Load BY <1>2, GoesOn DEF Load, Goto
  <1> QED BY <1>1, <1>2 DEF LoadPeImage

\* A step to or inside of the debug directory.
LEMMA Searches ==
  ASSUME ReasonInv, pc # "crashed", pc' \in {"search", "debug"}, UNCHANGED <<image, digest, status>>,
         found' \in Int, ~IsTe => found' >= 0,
         Fine => image.dirs > Debug,
         Fine /\ pc' = "search" => found' = 0 \/ Readable(found'),
         Fine /\ pc' = "debug" => Readable(found') /\ (i' - 1) % DebugSize = 0
  PROVE  ReasonInv'
  <1>1. (IsTe' <=> IsTe) /\ (Fine' <=> Fine) /\ image'.dirs = image.dirs
    <2>1. WellFormed' <=> WellFormed BY SameReferences
    <2> QED BY <2>1, SameImage DEF Fine
  <1>2. Kinds' /\ Accepted' BY <1>1 DEF ReasonInv, Kinds, Accepted
  <1>3. Summing' BY DEF Summing
  <1>4. Debugging' BY <1>1 DEF Debugging, Readable
  <1> QED BY <1>2, <1>3, <1>4 DEF ReasonInv

LEMMA ReasonHeaders ==
  ASSUME RangeInv, ReasonInv, GetPeHeader
  PROVE  ReasonInv'
  <1>1. CASE Goto("sections") BY <1>1, GoesOn DEF GetPeHeader, Goto
  <1>2. CASE ~HeadersValid /\ Refuse
    <2>1. ~Fine BY <1>2, WellFormedHeaders DEF RangeInv, Typed, Fine
    <2> QED BY <1>2, <2>1, Refused
  <1> QED BY <1>1, <1>2 DEF GetPeHeader

LEMMA ReasonSection ==
  ASSUME RangeInv, ReasonInv, CheckSection
  PROVE  ReasonInv'
  <1> DEFINE valid == CheckedReads(i) /\ SectionInside(Adjusted(Checked(i)))
  <1>1. pc = "sections" /\ i \in 1 .. N BY ImageNumbers DEF CheckSection, RangeInv, Typed
  <1>2. CASE UNCHANGED <<image, pc, found, table, hashed, sum, digest, status>>
    BY <1>1, <1>2, GoesOn
  <1>3. CASE ~valid /\ Refuse
    <2>1. ~Fine BY <1>1, <1>3, WellFormedSection DEF RangeInv, Typed, Fine
    <2> QED BY <1>3, <2>1, Refused
  <1> QED BY <1>2, <1>3 DEF CheckSection

LEMMA ReasonSearch ==
  ASSUME RangeInv, ReasonInv, SectionsChecked \/ SearchDebug \/ SearchFails \/ Searched
  PROVE  ReasonInv'
  <1>0. image \in Image /\ found \in Int /\ (~IsTe => found >= 0) /\ (Fine => WellFormed)
    BY DEF RangeInv, Typed, ReasonInv, Kinds, Fine
  <1>1. CASE SectionsChecked
    <2>1. pc = "sections" /\ UNCHANGED <<image, found, digest, status>> /\ found = 0
          /\ pc' = (IF IsTe \/ image.dirs > Debug THEN "search" ELSE "measure")
      BY <1>1 DEF SectionsChecked, Goto, ReasonInv, Debugging
    <2>2. CASE IsTe \/ image.dirs > Debug
      <3>1. Fine => image.dirs > Debug BY <1>0, <2>2, WellFormedNumbers
      <3> QED BY <2>1, <2>2, <3>1, Searches
    <2>3. CASE ~(IsTe \/ image.dirs > Debug) BY <2>1, <2>3, GoesOn
    <2> QED BY <2>2, <2>3
  <1>2. CASE SearchDebug
    <2> DEFINE s == image.sections[i]
               place == image.debug.va - s.va + s.ptr - (IF IsTe THEN TeShift ELSE 0)
    <2>1. /\ pc = "search" /\ pc' = "search" /\ i \in 1 .. N /\ UNCHANGED <<image, digest, status>>
          /\ (Covers(s) /\ found' = place) \/ found' = found
      <3>1. /\ pc = "search" /\ i <= N /\ UNCHANGED <<image, pc, digest, status>>
            /\ (Covers(s) /\ found' = place) \/ found' = found BY <1>2 DEF SearchDebug
      <3>2. i \in 1 .. N BY <1>0, <3>1, ImageNumbers DEF RangeInv, Typed
      <3> QED BY <3>1, <3>2
    <2>2. Fine => image.dirs > Debug /\ (found = 0 \/ Readable(found))
      BY <2>1 DEF ReasonInv, Debugging
    <2>3. CASE found' = found BY <1>0, <2>1, <2>2, <2>3, Searches
    <2>4. CASE Covers(s) /\ found' = place
      <3>1. s.va \in Nat /\ s.ptr \in Nat /\ image.debug.va \in Nat
        BY <1>0, <2>1, ImageNumbers, SectionFields
      <3>2. TeShift \in Int
        <4>1. image.stripped \in Int BY <1>0, Max32Assumption DEF Image, UInt32
        <4> QED BY <4>1, Max32Assumption DEF TeShift, Wrap, TeSize
      <3>3. found' \in Int BY <2>4, <3>1, <3>2
      <3>4. image.debug.va >= s.va BY <2>4 DEF Covers
      <3>5. ASSUME ~IsTe PROVE found' = image.debug.va - s.va + s.ptr BY <2>4, <3>1, <3>5
      <3>6. ~IsTe => found' >= 0 BY <3>1, <3>4, <3>5
      <3>7. Fine => Readable(found')
        <4> SUFFICES ASSUME Fine PROVE Readable(found') OBVIOUS
        <4>1. ~IsTe /\ Readable(image.debug.va - s.va + s.ptr)
          BY <1>0, <2>1, <2>2, <2>4, WellFormedNumbers, WellFormedDebug
        <4> QED BY <3>5, <4>1
      <3> HIDE DEF place
      <3> QED BY <2>1, <2>2, <3>3, <3>6, <3>7, Searches
    <2> QED BY <2>1, <2>3, <2>4
  <1>3. CASE Searched
    <2>1. pc = "search" /\ i' = 1 /\ UNCHANGED <<image, found, digest, status>>
          /\ pc' = (IF found = 0 THEN "measure" ELSE "debug") BY <1>3 DEF Searched, Goto
    <2>2. CASE found = 0 BY <2>1, <2>2, GoesOn
    <2>3. CASE found # 0
      <3>1. Fine => image.dirs > Debug /\ Readable(found)
        BY <2>1, <2>3 DEF ReasonInv, Debugging
      <3>2. (1 - 1) % DebugSize = 0 BY DEF DebugSize
      <3> QED BY <1>0, <2>1, <2>3, <3>1, <3>2, Searches
    <2> QED BY <2>2, <2>3
  <1>4. CASE SearchFails
    <2>1. i \in 1 .. N /\ ~SectionHeaderReads(i) /\ Refuse
      BY <1>0, <1>4, ImageNumbers DEF SearchFails, RangeInv, Typed
    <2>2. ~Fine BY <1>0, <2>1, WellFormedSection DEF Fine
    <2> QED BY <2>1, <2>2, Refused
  <1> QED BY <1>1, <1>2, <1>3, <1>4

LEMMA ReasonEntry ==
  ASSUME RangeInv, ReasonInv, ReadDebugEntry
  PROVE  ReasonInv'
  <1>0. image \in Image /\ found \in Int /\ (~IsTe => found >= 0) /\ (Fine => WellFormed)
        /\ i \in Nat \ {0} /\ pc = "debug"
    BY DEF RangeInv, Typed, ReasonInv, Kinds, Fine, ReadDebugEntry
  <1>1. Fine => image.dirs > Debug /\ Readable(found) /\ (i - 1) % DebugSize = 0
    BY <1>0 DEF ReasonInv, Debugging
  <1>2. Fine /\ i <= image.debug.size => Reads(found + i - 1, DebugSize) /\ ((i + DebugSize) - 1) % DebugSize = 0
    BY <1>0, <1>1, WellFormedEntry
  <1>3. CASE Goto("measure") BY <1>0, <1>3, GoesOn DEF Goto
  <1>4. CASE i <= image.debug.size /\ ~Reads(found + i - 1, DebugSize) /\ Refuse
    BY <1>2, <1>4, Refused
  <1>5. CASE i <= image.debug.size /\ i' = i + DebugSize /\ UNCHANGED <<image, pc, found, table, hashed, sum, digest, status>>
    <2>1. Fine => Readable(found') /\ (i' - 1) % DebugSize = 0
      <3>0. i <= image.debug.size BY <1>5
      <3>1. Fine => Readable(found) /\ ((i + DebugSize) - 1) % DebugSize = 0
        BY <1>1, <1>2, <3>0, Zenon
      <3>2. i' = i + DebugSize /\ found' = found BY <1>5
      <3>3. (i' - 1) % DebugSize = ((i + DebugSize) - 1) % DebugSize BY <3>2, Zenon
      <3> QED BY <3>1, <3>2, <3>3, Zenon
    <2>2. pc' = "debug" /\ UNCHANGED <<image, digest, status>> /\ found' \in Int /\ (~IsTe => found' >= 0)
      BY <1>0, <1>5
    <2> QED BY <1>0, <1>1, <2>1, <2>2, Searches
  <1> QED BY <1>3, <1>4, <1>5 DEF ReadDebugEntry

\* Where the hashing of the sections ends the data do.
LEMMA SumsToDataEnd ==
  ASSUME RangeInv, ReasonInv, pc = "hash", i > N
  PROVE  sum = DataEnd
  <1>1. image \in Image /\ i \in Nat /\ N \in Nat /\ i <= N + 1 /\ SortedOf(table, N)
        /\ sum = image.headers + SumUpTo(table, i - 1)
    BY ImageNumbers DEF RangeInv, Typed, ReasonInv, Summing
  <1>2. i - 1 = N BY <1>1
  <1>3. SumUpTo(table, N) = SumUpTo(image.sections, N) BY <1>1 DEF SortedOf
  <1> QED BY <1>1, <1>2, <1>3, DataEndIs

\* A step inside of the sort or the hashing of sections.
LEMMA Sums ==
  ASSUME ReasonInv, pc # "crashed", pc' \in {"sort", "hash"}, UNCHANGED <<image, found, digest, status>>,
         Summing'
  PROVE  ReasonInv'
  <1>1. (IsTe' <=> IsTe) /\ (Fine' <=> Fine)
    <2>1. WellFormed' <=> WellFormed BY SameReferences
    <2> QED BY <2>1, SameImage DEF Fine
  <1>2. Kinds' /\ Accepted' BY <1>1 DEF ReasonInv, Kinds, Accepted
  <1>3. Debugging' BY DEF Debugging
  <1> QED BY <1>2, <1>3 DEF ReasonInv

LEMMA ReasonContext ==
  ASSUME RangeInv, ReasonInv, HashHeaders
  PROVE  ReasonInv'
  <1>1. /\ pc = "context" /\ pc' = "sort" /\ i' = 1 /\ table' = table /\ sum' = image.headers
        /\ UNCHANGED <<image, found, digest, status>> BY DEF HashHeaders
  <1>2. image \in Image /\ table = <<>> BY <1>1 DEF RangeInv, Typed, Sorting
  <1>3. SortedOf(<<>>, 0) /\ i' - 1 = 0 BY <1>1, <1>2, SortedNone
  <1>4. SortedOf(table, i - 1)' BY <1>1, <1>2, <1>3, SameSorted
  <1>5. Summing' BY <1>1, <1>4 DEF Summing
  <1> QED BY <1>1, <1>5, Sums

LEMMA ReasonSort ==
  ASSUME RangeInv, ReasonInv, SortSection \/ Sorted
  PROVE  ReasonInv'
  <1>1. /\ image \in Image /\ pc = "sort" /\ i \in Nat \ {0} /\ N \in Nat /\ i <= N + 1
        /\ SortedOf(table, i - 1) /\ sum = image.headers
    BY ImageNumbers DEF RangeInv, Typed, Sorting, ReasonInv, Summing, SortSection, Sorted
  <1>2. CASE SortSection
    <2>1. /\ pc' = "sort" /\ i <= N /\ i' = i + 1 /\ table' = Inserted(table, image.sections[i])
          /\ UNCHANGED <<image, found, digest, status, sum>> BY <1>2 DEF SortSection
    <2> DEFINE m == i - 1
    <2>2. m \in 0 .. N - 1 /\ m + 1 = i /\ i' - 1 = m + 1 BY <1>1, <2>1
    <2>3. SortedOf(table, m) BY <1>1
    <2> HIDE DEF m
    <2>4. SortedOf(Inserted(table, image.sections[m + 1]), m + 1)
      BY <1>1, <2>2, <2>3, SortedNext
    <2>5. table' = Inserted(table, image.sections[m + 1]) BY <2>1, <2>2
    <2>6. SortedOf(table, i - 1)' BY <2>1, <2>2, <2>4, <2>5, SameSorted
    <2>7. Summing' BY <1>1, <2>1, <2>6 DEF Summing
    <2> QED BY <1>1, <2>1, <2>7, Sums
  <1>3. CASE Sorted
    <2>1. pc' = "hash" /\ i' = 1 /\ i > N /\ UNCHANGED <<image, found, table, sum, digest, status>>
      BY <1>3 DEF Sorted, Goto
    <2>2. i - 1 = N /\ i' - 1 = 0 /\ i' <= N + 1 BY <1>1, <2>1
    <2>3. SortedOf(table, N) BY <1>1, <2>2
    <2>4. SortedOf(table, N)' BY <2>1, <2>3, SameSortedAll
    <2>5. SumUpTo(table', i' - 1) = 0 BY <2>1, <2>2, <2>3, SumRecursion DEF SortedOf
    <2>6. image.headers \in Nat BY <1>1, ImageNumbers
    <2>7. sum' = image'.headers + SumUpTo(table', i' - 1) BY <1>1, <2>1, <2>5, <2>6
    <2>8. Summing' BY <2>1, <2>2, <2>4, <2>7, SameImage DEF Summing
    <2> QED BY <1>1, <2>1, <2>8, Sums
  <1> QED BY <1>2, <1>3

LEMMA ReasonHash ==
  ASSUME RangeInv, ReasonInv, HashSection
  PROVE  ReasonInv'
  <1>1. /\ pc = "hash" /\ pc' = "hash" /\ i <= N /\ i' = i + 1 /\ sum' = sum + table[i].raw
        /\ UNCHANGED <<image, found, table, digest, status>> BY DEF HashSection
  <1>2. /\ image \in Image /\ i \in Nat \ {0} /\ N \in Nat /\ SortedOf(table, N)
        /\ sum = image.headers + SumUpTo(table, i - 1)
    BY <1>1, ImageNumbers DEF RangeInv, Typed, ReasonInv, Summing
  <1>3. i \in 1 .. N /\ i' - 1 = i /\ i' <= N + 1 BY <1>1, <1>2
  <1>4. table \in Seq(Section) /\ Len(table) = N BY <1>2 DEF SortedOf
  <1>5. SumUpTo(table, i) = SumUpTo(table, i - 1) + table[i].raw /\ SumUpTo(table, i - 1) \in Nat
    <2>1. i \in 1 .. Len(table) /\ i - 1 \in 0 .. Len(table) BY <1>2, <1>3, <1>4
    <2> QED BY <1>4, <2>1, SumRecursion
  <1>6. image.headers \in Nat /\ table[i].raw \in Nat
    <2>1. table[i] \in Section BY <1>3, <1>4
    <2> QED BY <1>2, <2>1, ImageNumbers, SectionFields
  <1>7. sum' = image'.headers + SumUpTo(table', i' - 1)
    <2>1. sum' = image.headers + SumUpTo(table, i) BY <1>1, <1>2, <1>5, <1>6
    <2> QED BY <1>1, <1>3, <2>1
  <1>8. SortedOf(table, N)' BY <1>1, <1>2, SameSortedAll
  <1>9. Summing' BY <1>1, <1>3, <1>7, <1>8, SameImage DEF Summing
  <1> QED BY <1>1, <1>9, Sums

LEMMA ReasonTail ==
  ASSUME RangeInv, ReasonInv, HashTail
  PROVE  ReasonInv'
  <1>1. pc = "hash" /\ i > N BY DEF HashTail
  <1>2. CASE Rest < 0 /\ Return("unsupported")
    <2>1. ~Fine
      <3> SUFFICES ASSUME Fine PROVE FALSE OBVIOUS
      <3>1. image \in Image /\ WellFormed BY DEF Fine, RangeInv, Typed
      <3>2. sum = DataEnd BY <1>1, SumsToDataEnd
      <3>3. DataEnd \in Nat /\ CertSize \in Nat /\ DataEnd + CertSize <= image.size /\ image.size \in Nat
        BY <3>1, WellFormedNumbers, ImageNumbers
      <3> QED BY <1>2, <3>2, <3>3 DEF Rest
    <2> QED BY <1>2, <2>1, Refused DEF Statuses
  <1>3. CASE pc' = "final" /\ UNCHANGED <<image, i, found, table, sum, digest, status>>
    BY <1>1, <1>3, GoesOn
  <1> QED BY <1>2, <1>3 DEF HashTail

LEMMA ReasonOthers ==
  ASSUME RangeInv, ReasonInv, Measure \/ NoContext \/ NoTable \/ Finalize
  PROVE  ReasonInv'
  <1>1. CASE Measure
    <2>1. CASE IsTe /\ Refuse
      <3>1. ~Fine BY <2>1, WellFormedNumbers DEF Fine, RangeInv, Typed
      <3> QED BY <2>1, <3>1, Refused
    <2>2. CASE Goto("context") BY <1>1, <2>2, GoesOn DEF Measure, Goto
    <2> QED BY <1>1, <2>1, <2>2 DEF Measure
  <1>2. CASE NoContext BY <1>2, Ends DEF NoContext
  <1>3. CASE NoTable
    <2>1. ~Fine BY <1>3 DEF NoTable, Fine
    <2>2. Return("out of resources") BY <1>3 DEF NoTable
    <2>3. \E s \in Statuses : Return(s) BY <2>2 DEF Statuses
    <2> QED BY <2>1, <2>3, Refused
  <1>4. CASE Finalize
    <2>1. pc' = "returned" /\ status' = "success" /\ UNCHANGED <<image, found>>
      BY <1>4 DEF Finalize
    <2>2. digest' \in BOOLEAN BY <1>4, Zenon DEF Finalize
    <2>3. status' \in Statuses /\ status' \notin {"unsupported", "out of resources"}
      BY <2>1 DEF Statuses
    <2> QED BY <2>1, <2>2, <2>3, ReasonKept
  <1> QED BY <1>1, <1>2, <1>3, <1>4

\* Nothing of such an image makes the hash read beyond it.
LEMMA ReasonOverruns ==
  ASSUME RangeInv, ReasonInv, HeadersOverrun \/ TableOverruns \/ SectionOverruns
  PROVE  ReasonInv'
  <1>1. Crash BY DEF HeadersOverrun, TableOverruns, SectionOverruns, Overruns
  <1>2. ~Fine
    <2> SUFFICES ASSUME Fine PROVE FALSE OBVIOUS
    <2>1. image \in Image /\ WellFormed /\ N \in Nat /\ i \in Nat \ {0}
      BY ImageNumbers DEF Fine, RangeInv, Typed
    <2>2. CASE HeadersOverrun
      <3>1. Layout /\ (\E k \in DOMAIN HeaderRanges : Beyond(HeaderRanges[k]))
        <4>1. pc \in Hashing BY <2>2 DEF HeadersOverrun, Hashing
        <4>2. Known BY <2>1, WellFormedNumbers DEF Known, Told
        <4> QED BY <2>2, <4>1, <4>2, HashingImage DEF HeadersOverrun, Overruns
      <3> DEFINE h == image.headers
                 c == CheckSum
                 e == SecurityEntry
      <3>2. /\ c \in Nat /\ e \in Nat /\ h \in Nat /\ image.size \in Nat
            /\ c + 4 <= e /\ c + 4 <= h /\ h <= image.size /\ (HasSecurity => e + 8 <= h)
        BY <3>1 DEF Layout, DirectorySize
      <3>3. HeaderRanges = IF HasSecurity THEN <<<<0, c>>, <<c + 4, e>>, <<e + 8, h>>>> ELSE <<<<0, c>>, <<c + 4, h>>>>
        BY DEF HeaderRanges, DirectorySize
      <3> HIDE DEF h, c, e
      <3>4. CASE HasSecurity
        <4>1. HeaderRanges = <<<<0, c>>, <<c + 4, e>>, <<e + 8, h>>>> /\ e + 8 <= h
          BY <3>2, <3>3, <3>4
        <4>2. ~Beyond(<<0, c>>) /\ ~Beyond(<<c + 4, e>>) /\ ~Beyond(<<e + 8, h>>)
          BY <3>2, <4>1 DEF Beyond
        <4>3. \A k \in DOMAIN HeaderRanges : HeaderRanges[k] \in {<<0, c>>, <<c + 4, e>>, <<e + 8, h>>}
          BY <4>1
        <4> QED BY <3>1, <4>2, <4>3
      <3>5. CASE ~HasSecurity
        <4>1. HeaderRanges = <<<<0, c>>, <<c + 4, h>>>> BY <3>3, <3>5
        <4>2. ~Beyond(<<0, c>>) /\ ~Beyond(<<c + 4, h>>) BY <3>2 DEF Beyond
        <4>3. \A k \in DOMAIN HeaderRanges : HeaderRanges[k] \in {<<0, c>>, <<c + 4, h>>}
          BY <4>1
        <4> QED BY <3>1, <4>2, <4>3
      <3> QED BY <3>4, <3>5
    <2>3. CASE TableOverruns
      <3>1. i \in 1 .. N /\ ~SectionHeaderReads(i) BY <2>1, <2>3 DEF TableOverruns
      <3> QED BY <2>1, <3>1, WellFormedSection
    <2>4. CASE SectionOverruns
      <3> DEFINE s == table[i]
      <3>1. /\ pc = "hash" /\ i \in 1 .. N /\ s.raw # 0
            /\ \E k \in DOMAIN DataOf(s) : Beyond(DataOf(s)[k])
        BY <2>1, <2>4 DEF SectionOverruns, Overruns
      <3>2. PICK k \in 1 .. N : s = image.sections[k]
        <4>1. Len(table) = N /\ table \in Seq(Section) BY <3>1 DEF RangeInv, Typed, Sorting
        <4>2. i \in DOMAIN table BY <3>1, <4>1
        <4> QED BY <4>2 DEF RangeInv, Sorting
      <3>3. s.raw > 0
        <4>1. s.raw \in Nat BY <2>1, <3>2, ImageNumbers, SectionFields
        <4> HIDE DEF s
        <4> QED BY <3>1, <4>1
      <3>4. ~Beyond(<<s.ptr, s.ptr + s.raw>>) BY <2>1, <3>2, <3>3, WellFormedSection
      <3>5. \A j \in DOMAIN DataOf(s) : DataOf(s)[j] = <<s.ptr, s.ptr + s.raw>>
        BY DEF DataOf
      <3> QED BY <3>1, <3>4, <3>5
    <2> QED BY <2>2, <2>3, <2>4
  <1> QED BY <1>1, <1>2, Refused DEF Refuse

LEMMA ReasonStutter ==
  ASSUME ReasonInv, UNCHANGED vars
  PROVE  ReasonInv'
  <1>1. UNCHANGED <<image, pc, i, found, table, sum, digest, status>> BY DEF vars
  <1>2. (IsTe' <=> IsTe) /\ (Fine' <=> Fine)
    <2>1. WellFormed' <=> WellFormed BY <1>1, SameReferences
    <2> QED BY <1>1, <2>1, SameImage DEF Fine
  <1>3. Kinds' /\ Accepted' /\ Debugging'
    BY <1>1, <1>2 DEF ReasonInv, Kinds, Accepted, Debugging, Readable
  <1>4. Summing'
    <2>1. pc = "sort" => SortedOf(table, i - 1)' BY <1>1, SameSorted DEF ReasonInv, Summing
    <2>2. pc = "hash" => SortedOf(table, N)' BY <1>1, SameSortedAll DEF ReasonInv, Summing
    <2> QED BY <1>1, <2>1, <2>2, SameImage DEF ReasonInv, Summing
  <1> QED BY <1>3, <1>4 DEF ReasonInv

LEMMA ReasonNext ==
  RangeInv /\ ReasonInv /\ [Next]_vars => ReasonInv'
  <1>1. RangeInv /\ ReasonInv /\ GetImageInfo => ReasonInv'
    BY ReasonHeaders, ReasonSection, ReasonSearch, ReasonEntry DEF GetImageInfo
  <1>2. RangeInv /\ ReasonInv /\ HashImage => ReasonInv'
    BY ReasonContext, ReasonSort, ReasonHash, ReasonTail, ReasonOthers, ReasonOverruns DEF HashImage
  <1> QED BY <1>1, <1>2, ReasonLoad, ReasonStutter DEF Next, Program, Terminated

-----------------------------------------------------------------------------
(* The measurement of a kernel as a whole *)

\* Lines in front of n were understood.
Understood(n) == \A k \in 1 .. n - 1 : file[k].var # "unknown" /\ ~file[k].lead

\* What has become of the configuration file at each step, and that a digest is
\* made behind it.
ConfigInv ==
  /\ file \in Seq(Line) \cup {None, Absent} /\ next \in Nat \ {0}
  /\ step = "open" => next = 1
  /\ step = "read" => file \notin {None, Absent} /\ next <= Len(file) + 1 /\ Understood(next)
  /\ step \in {"prepare", "measure"} => ~Misread
  /\ step \in {"failed", "crashed"} => Misread \/ image.size < HeaderSize
  /\ digest => step = "measure"

LEMMA ConfigInvImplies == ConfigInv => ConfigRefusedForReason
  BY Zenon DEF ConfigInv, ConfigRefusedForReason

LEMMA ConfigInvInit == KernelInit => ConfigInv
  <1> SUFFICES ASSUME KernelInit PROVE ConfigInv OBVIOUS
  <1>1. file \in Seq(Line) \cup {None, Absent}
    <2>1. PICK k \in Kernels : file = k.file BY DEF KernelInit
    <2> QED BY <2>1, KernelsAssumption
  <1>2. step = "open" /\ next = 1 /\ ~digest BY Zenon DEF KernelInit, ConfigStart, Start
  <1>3. next \in Nat \ {0} /\ step \notin {"read", "prepare", "measure", "failed", "crashed"}
    BY <1>2
  <1> QED BY <1>1, <1>2, <1>3, Zenon DEF ConfigInv

\* A step of the configuration.
LEMMA ConfigInvStep ==
  ASSUME image \in Image, ConfigInv, PatchInv, Configure \/ PrepareImage
  PROVE  ConfigInv'
  <1>1. /\ digest' = digest /\ image'.size = image.size /\ step \notin {"measure", "failed", "crashed"}
        /\ ConfigNext /\ file' = file
    BY ConfigSteps DEF Configuring, ConfigNext, NoFile, ConfigLoad, ConfigFails, Open, SkipLine,
       SetField, EndOfFile, OpenFails, UnknownField, ImageTooSmall, Prepare, Go
  <1>2. ~digest /\ ~digest' BY <1>1, Zenon DEF ConfigInv
  <1>3. /\ file \in Seq(Line) \cup {None, Absent} /\ next \in Nat \ {0} /\ None # Absent
        /\ (Misread' <=> Misread) /\ \A n : Understood(n)' <=> Understood(n)
    BY <1>1, FilesAssumption, Zenon DEF ConfigInv, Misread, Understood
  <1>4. CASE NoFile
    <2>1. file = None /\ step' = "measure" /\ next' = next BY <1>4 DEF NoFile, Go
    <2>2. ~Misread BY <1>3, <2>1 DEF Misread
    <2> QED BY <1>1, <1>2, <1>3, <2>1, <2>2 DEF ConfigInv
  <1>5. CASE OpenFails
    <2>1. file = Absent /\ step' = "failed" /\ next' = next BY <1>5 DEF OpenFails, Go
    <2>2. Misread BY <2>1 DEF Misread
    <2> QED BY <1>1, <1>2, <1>3, <2>1, <2>2 DEF ConfigInv
  <1>6. ASSUME step = "read"
        PROVE  /\ file \in Seq(Line) /\ file \notin {None, Absent} /\ next <= Len(file) + 1 /\ Understood(next)
               /\ DOMAIN file = 1 .. Len(file) /\ Len(file) \in Nat
    <2>1. file \in Seq(Line) /\ file \notin {None, Absent} /\ next <= Len(file) + 1 /\ Understood(next)
      BY <1>3, <1>6 DEF ConfigInv
    <2> QED BY <2>1
  <1>7. CASE Open
    <2>1. step' = "read" /\ next' = next /\ step = "open" /\ file \notin {None, Absent}
      BY <1>7 DEF Open, Go
    <2>2. next = 1 /\ file \in Seq(Line) BY <1>3, <2>1 DEF ConfigInv
    <2>3. next <= Len(file) + 1 /\ \A k \in 1 .. next - 1 : FALSE BY <2>2
    <2>4. Understood(next) BY <2>3, Zenon DEF Understood
    <2> QED BY <1>1, <1>2, <1>3, <2>1, <2>3, <2>4 DEF ConfigInv
  <1>8. CASE SkipLine \/ SetField
    <2>1. /\ step = "read" /\ next <= Len(file) /\ file[next].var # "unknown" /\ next' = next + 1
          /\ step' = (IF file[next].lead THEN "crashed" ELSE "read")
      BY <1>8 DEF SkipLine, SetField, Reading, AfterLine, Field
    <2>2. file \in Seq(Line) /\ file \notin {None, Absent} /\ Understood(next) /\ Len(file) \in Nat
          /\ next \in DOMAIN file BY <1>3, <1>6, <2>1
    <2>3. CASE file[next].lead
      <3>1. Misread BY <2>2, <2>3 DEF Misread
      <3> QED BY <1>1, <1>2, <1>3, <2>1, <2>3, <3>1 DEF ConfigInv
    <2>4. CASE ~file[next].lead
      <3>1. \A k \in 1 .. (next + 1) - 1 : k = next \/ k \in 1 .. next - 1 BY <1>3
      <3>2. Understood(next + 1) BY <2>1, <2>2, <2>4, <3>1, Zenon DEF Understood
      <3>3. next + 1 \in Nat \ {0} /\ next + 1 <= Len(file) + 1 BY <1>3, <2>1, <2>2
      <3> QED BY <1>1, <1>2, <1>3, <2>1, <2>2, <2>4, <3>2, <3>3 DEF ConfigInv
    <2> QED BY <2>3, <2>4
  <1>9. CASE UnknownField
    <2>1. step = "read" /\ step' = "failed" /\ next' = next /\ next <= Len(file) /\ file[next].var = "unknown"
      BY <1>9 DEF UnknownField, Reading, Go
    <2>2. next \in DOMAIN file /\ file # None BY <1>3, <1>6, <2>1
    <2>3. Misread BY <2>1, <2>2 DEF Misread
    <2> QED BY <1>1, <1>2, <1>3, <2>1, <2>3 DEF ConfigInv
  <1>10. CASE EndOfFile
    <2>1. step = "read" /\ step' = "prepare" /\ next' = next /\ next > Len(file)
      BY <1>10 DEF EndOfFile, Go
    <2>2. \A k \in DOMAIN file : k \in 1 .. next - 1 BY <1>3, <1>6, <2>1
    <2>3. ~Misread BY <1>6, <2>1, <2>2, Zenon DEF Misread, Understood
    <2> QED BY <1>1, <1>2, <1>3, <2>1, <2>3 DEF ConfigInv
  <1>11. CASE ImageTooSmall
    <2>1. step' = "failed" /\ next' = next /\ image.size < HeaderSize
      BY <1>11 DEF ImageTooSmall, Go, HeaderFits, PatchInv, HeaderSize
    <2> QED BY <1>1, <1>2, <1>3, <2>1 DEF ConfigInv
  <1>12. CASE Prepare
    <2>1. step = "prepare" /\ step' = "measure" /\ next' = next BY <1>12 DEF Prepare
    <2>2. ~Misread BY <2>1 DEF ConfigInv
    <2> QED BY <1>1, <1>2, <1>3, <2>1, <2>2 DEF ConfigInv
  <1> QED BY <1>1, <1>4, <1>5, <1>7, <1>8, <1>9, <1>10, <1>11, <1>12 DEF ConfigNext, ConfigLoad, ConfigFails

\* A step that leaves the configuration alone.
LEMMA ConfigInvKept ==
  ASSUME ConfigInv, UNCHANGED <<file, step, next>>, image' = image, digest' => digest \/ step = "measure"
  PROVE  ConfigInv'
  <1>1. Misread' <=> Misread BY DEF Misread
  <1>2. Understood(next)' <=> Understood(next) BY DEF Understood
  <1> QED BY <1>1, <1>2, Zenon DEF ConfigInv

\* Only Finalize makes a digest.
LEMMA DigestMade ==
  ASSUME Program, ~Finalize
  PROVE  digest' = digest
  BY DEF Program, LoadPeImage, LoadFails, Load, GetImageInfo, GetPeHeader, CheckSection, SectionsChecked,
     SearchDebug, SearchFails, Searched, ReadDebugEntry, HashImage, Measure, NoContext, HashHeaders, NoTable,
     SortSection, Sorted, HashSection, HashTail, HeadersOverrun, TableOverruns, SectionOverruns, Overruns,
     Goto, Return, Refuse, Crash

LEMMA ConfigInvNext ==
  image \in Image /\ ConfigInv /\ PatchInv /\ [KernelNext]_allVars => ConfigInv'
  <1> SUFFICES ASSUME image \in Image, ConfigInv, PatchInv, [KernelNext]_allVars PROVE ConfigInv'
    OBVIOUS
  <1>1. CASE Configure \/ PrepareImage BY <1>1, ConfigInvStep
  <1>2. CASE LoadPeImage /\ UNCHANGED kvars
    <2>1. ~Finalize /\ Program BY <1>2 DEF LoadPeImage, LoadFails, Load, Finalize, Program
    <2>2. digest' = digest /\ image' = image
      BY <1>2, <2>1, DigestMade DEF LoadPeImage, LoadFails, Load, Return, Goto
    <2> QED BY <1>2, <2>2, ConfigInvKept DEF kvars
  <1>3. CASE MeasureKernel
    <2>1. ~PrepareImage BY <1>3 DEF MeasureKernel, Measuring, PrepareImage, Configuring
    <2>2. step = "measure" /\ UNCHANGED kvars /\ image' = image
      BY <1>3, <2>1, ImageUnchanged DEF MeasureKernel, Measuring, KernelNext, KernelProgram
    <2> QED BY <2>2, ConfigInvKept DEF kvars
  <1>4. CASE ConfigureFails BY <1>4, ConfigInvKept DEF ConfigureFails, kvars
  <1>5. CASE UNCHANGED allVars \/ (Terminated /\ UNCHANGED kvars)
    <2>1. UNCHANGED <<image, digest, file, step, next>>
      BY <1>5 DEF allVars, vars, kvars, Terminated
    <2> QED BY <2>1, ConfigInvKept
  <1> QED BY <1>1, <1>2, <1>3, <1>4, <1>5 DEF KernelNext, KernelProgram

-----------------------------------------------------------------------------
(* The bytes of a number *)

LEMMA ValuesAre ==
  /\ Values[0] = 1
  /\ \A n \in 0 .. LongSize - 1 : Values[n + 1] = Byte * Values[n]
  /\ \A n \in 0 .. LongSize : Values[n] \in Nat \ {0}
  <1> DEFINE b1 == Byte
             b2 == Byte * b1
             b3 == Byte * b2
             b4 == Byte * b3
             b5 == Byte * b4
             b6 == Byte * b5
             b7 == Byte * b6
             b8 == Byte * b7
             f == [n \in 0 .. 8 |->
                     IF n = 0 THEN 1 ELSE IF n = 1 THEN b1 ELSE IF n = 2 THEN b2 ELSE IF n = 3 THEN b3
                     ELSE IF n = 4 THEN b4 ELSE IF n = 5 THEN b5 ELSE IF n = 6 THEN b6 ELSE IF n = 7 THEN b7 ELSE b8]
             g == [n \in 0 .. LongSize |-> f[n]]
             value(h, n) == IF n = 0 THEN 1 ELSE Byte * h[n - 1]
  <1>0. LongSize \in 4 .. 8 BY LongAssumption
  <1>1. \A n \in 0 .. 8 : f[n] = value(f, n)
    <2>0. Byte * 1 = Byte BY ByteAssumption
    <2> HIDE DEF b2, b3, b4, b5, b6, b7, b8
    <2>1. /\ f[0] = 1 /\ f[1] = b1 /\ f[2] = b2 /\ f[3] = b3 /\ f[4] = b4 /\ f[5] = b5 /\ f[6] = b6 /\ f[7] = b7 /\ f[8] = b8
      OBVIOUS
    <2>2. /\ f[1] = Byte * f[0] /\ f[2] = Byte * f[1] /\ f[3] = Byte * f[2] /\ f[4] = Byte * f[3]
          /\ f[5] = Byte * f[4] /\ f[6] = Byte * f[5] /\ f[7] = Byte * f[6] /\ f[8] = Byte * f[7]
      BY <2>0, <2>1, Zenon DEF b2, b3, b4, b5, b6, b7, b8
    <2> SUFFICES ASSUME NEW n \in 0 .. 8 PROVE f[n] = value(f, n) OBVIOUS
    <2>3. n \in {0, 1, 2, 3, 4, 5, 6, 7, 8} OBVIOUS
    <2> HIDE DEF f
    <2> QED BY <2>1, <2>2, <2>3
  <1> HIDE DEF f
  <1>2. g = [n \in 0 .. LongSize |-> value(g, n)]
    <2>1. ASSUME NEW n \in 0 .. LongSize PROVE f[n] = value(g, n)
      <3>1. n \in 0 .. 8 /\ (n # 0 => n - 1 \in 0 .. LongSize) BY <1>0
      <3>2. n # 0 => g[n - 1] = f[n - 1] BY <3>1
      <3> HIDE DEF g
      <3>3. f[n] = value(f, n) BY <1>1, <3>1, Zenon
      <3> QED BY <3>2, <3>3, Zenon
    <2>2. g = [n \in 0 .. LongSize |-> f[n]] OBVIOUS
    <2> HIDE DEF g
    <2> QED BY <2>1, <2>2, Zenon
  <1> HIDE DEF g
  <1>3. Values = [n \in 0 .. LongSize |-> value(Values, n)] BY <1>2, Zenon DEF Values
  <1>4. Values[0] = 1 BY <1>0, <1>3
  <1>5. \A n \in 0 .. LongSize - 1 : Values[n + 1] = Byte * Values[n]
    <2> SUFFICES ASSUME NEW n \in 0 .. LongSize - 1 PROVE Values[n + 1] = Byte * Values[n]
      OBVIOUS
    <2>1. n + 1 \in 0 .. LongSize /\ n + 1 # 0 /\ (n + 1) - 1 = n BY <1>0
    <2>2. Values[n + 1] = value(Values, n + 1) BY <1>3, <2>1, Zenon
    <2> QED BY <2>1, <2>2
  <1>6. \A n \in 0 .. LongSize : Values[n] \in Nat \ {0}
    <2> DEFINE S == {n \in 0 .. LongSize : Values[n] \in Nat \ {0}}
               last == LongSize
    <2>1. 0 \in S /\ last \in Nat BY <1>0, <1>4
    <2>2. ASSUME NEW n \in 0 .. last - 1, n \in S PROVE n + 1 \in S
      <3>1. n \in 0 .. LongSize - 1 /\ n + 1 \in 0 .. LongSize BY <1>0
      <3>2. Values[n + 1] = Byte * Values[n] /\ Values[n] \in Nat \ {0} BY <1>5, <2>2, <3>1
      <3> DEFINE a == Values[n]
      <3>3. a \in Nat \ {0} BY <3>2
      <3> HIDE DEF a
      <3>4. Byte * a \in Nat \ {0} BY <3>3, ByteAssumption
      <3> QED BY <3>1, <3>2, <3>4 DEF a
    <2>3. \A n \in 0 .. last : n \in S
      <3> HIDE DEF S, last
      <3> QED BY <2>1, <2>2, InductionUpTo
    <2> QED BY <2>3
  <1> QED BY <1>4, <1>5, <1>6

LEMMA TimesOrder ==
  ASSUME NEW a \in Nat, NEW b \in Nat, NEW c \in Nat, a <= b
  PROVE  c * a <= c * b
  <1> DEFINE d == b - a
  <1>1. d \in Nat /\ b = a + d OBVIOUS
  <1> HIDE DEF d
  <1>2. c * b = c * a + c * d /\ c * d \in Nat /\ c * a \in Nat BY <1>1
  <1> QED BY <1>2

LEMMA DivisionIs ==
  ASSUME NEW a \in Nat, NEW b \in Nat \ {0}
  PROVE  a \div b \in Nat /\ b * (a \div b) <= a /\ a < b * ((a \div b) + 1) OBVIOUS

LEMMA DivisionUnique ==
  ASSUME NEW a \in Nat, NEW b \in Nat \ {0}, NEW q \in Nat, b * q <= a, a < b * (q + 1)
  PROVE  a \div b = q
  <1> DEFINE r == a \div b
  <1>1. r \in Nat /\ b * r <= a /\ a < b * (r + 1) BY DivisionIs
  <1> HIDE DEF r
  <1>2. ~(r < q)
    <2> SUFFICES ASSUME r < q PROVE FALSE OBVIOUS
    <2>1. r + 1 <= q /\ r + 1 \in Nat BY <1>1
    <2>2. b * (r + 1) <= b * q BY <2>1, TimesOrder
    <2>3. b * (r + 1) \in Int /\ b * q \in Int BY <1>1
    <2> QED BY <1>1, <2>2, <2>3
  <1>3. ~(q < r)
    <2> SUFFICES ASSUME q < r PROVE FALSE OBVIOUS
    <2>1. q + 1 <= r /\ q + 1 \in Nat BY <1>1
    <2>2. b * (q + 1) <= b * r BY <1>1, <2>1, TimesOrder
    <2>3. b * (q + 1) \in Int /\ b * r \in Int BY <1>1
    <2> QED BY <1>1, <2>2, <2>3
  <1>4. r = q BY <1>1, <1>2, <1>3
  <1> QED BY <1>4 DEF r

\* What is divided twice is divided by the product.
LEMMA DivisionTwice ==
  ASSUME NEW v \in Nat, NEW b \in Nat \ {0}, NEW c \in Nat \ {0}
  PROVE  v \div (b * c) = (v \div c) \div b
  <1> DEFINE x == v \div c
             y == x \div b
             d == b * c
  <1>1. x \in Nat /\ c * x <= v /\ v < c * (x + 1) BY DivisionIs
  <1> HIDE DEF x
  <1>2. y \in Nat /\ b * y <= x /\ x < b * (y + 1) BY <1>1, DivisionIs
  <1> HIDE DEF y
  <1>3. d \in Nat \ {0} /\ b * y \in Nat /\ b * (y + 1) \in Nat /\ x + 1 <= b * (y + 1)
    BY <1>1, <1>2
  <1>4. d * y <= v
    <2>1. c * (b * y) <= c * x BY <1>1, <1>2, <1>3, TimesOrder
    <2>2. c * (b * y) = d * y BY <1>2
    <2>3. c * x \in Int /\ d * y \in Int BY <1>1, <1>2, <1>3
    <2> QED BY <1>1, <2>1, <2>2, <2>3
  <1>5. v < d * (y + 1)
    <2> DEFINE z == y + 1
    <2>0. z \in Nat /\ x + 1 \in Nat BY <1>1, <1>2
    <2>1. c * (x + 1) <= c * (b * z) BY <1>3, <2>0, TimesOrder
    <2> HIDE DEF z
    <2>2. c * (b * z) = d * z BY <2>0
    <2>3. c * (x + 1) \in Int /\ d * z \in Int BY <1>1, <1>3, <2>0
    <2> QED BY <1>1, <2>1, <2>2, <2>3 DEF z
  <1> HIDE DEF d
  <1>6. v \div d = y BY <1>2, <1>3, <1>4, <1>5, DivisionUnique
  <1> QED BY <1>6 DEF d, y, x

\* A number is what its last digit and the others make.
LEMMA LastDigit ==
  ASSUME NEW x \in Nat, NEW b \in Nat \ {0}
  PROVE  (x \div b) * b + (x % b) = x /\ x % b \in Nat OBVIOUS

-----------------------------------------------------------------------------
(* The fields of the setup header *)

LEMMA FieldNumbers ==
  /\ \A f \in Field : At[f] \in 528 .. 552 /\ Width[f] \in {1, 2, 4}
  /\ \A f, g \in Field : f # g => At[f] + Width[f] <= At[g] \/ At[g] + Width[g] <= At[f]
  <1> DEFINE Row(h) ==
           \/ h = "type_of_loader" /\ At[h] = 528 /\ Width[h] = 1
           \/ h = "loadflags" /\ At[h] = 529 /\ Width[h] = 1
           \/ h = "setup_move_size" /\ At[h] = 530 /\ Width[h] = 2
           \/ h = "code32_start" /\ At[h] = 532 /\ Width[h] = 4
           \/ h = "ramdisk_image" /\ At[h] = 536 /\ Width[h] = 4
           \/ h = "ramdisk_size" /\ At[h] = 540 /\ Width[h] = 4
           \/ h = "bootsect_kludge" /\ At[h] = 544 /\ Width[h] = 4
           \/ h = "heap_end_ptr" /\ At[h] = 548 /\ Width[h] = 2
           \/ h = "ext_loader_ver" /\ At[h] = 550 /\ Width[h] = 1
           \/ h = "ext_loader_type" /\ At[h] = 551 /\ Width[h] = 1
           \/ h = "cmd_line_ptr" /\ At[h] = 552 /\ Width[h] = 4
  <1>1. \A h \in Field : Row(h) BY SMT DEF At, Width, Field
  <1>2. \A f \in Field : At[f] \in 528 .. 552 /\ Width[f] \in {1, 2, 4} BY <1>1
  <1>3. ASSUME NEW f \in Field, NEW g \in Field, f # g
        PROVE  At[f] + Width[f] <= At[g] \/ At[g] + Width[g] <= At[f]
    <2> DEFINE a == At[f]
               b == At[g]
               v == Width[f]
               w == Width[g]
    <2>1. a = b => f = g BY <1>1
    <2>2. \/ a \in {528, 529, 550, 551} /\ v = 1
          \/ a \in {530, 548} /\ v = 2
          \/ a \in {532, 536, 540, 544, 552} /\ v = 4 BY <1>1
    <2>3. \/ b \in {528, 529, 550, 551} /\ w = 1
          \/ b \in {530, 548} /\ w = 2
          \/ b \in {532, 536, 540, 544, 552} /\ w = 4 BY <1>1
    <2> HIDE DEF a, b, v, w
    <2>4. a # b => a + v <= b \/ b + w <= a BY <2>2, <2>3
    <2> QED BY <1>3, <2>1, <2>4 DEF a, b, v, w
  <1> QED BY <1>2, <1>3

\* Each byte belongs to one field.
LEMMA PatchIs ==
  ASSUME NEW f \in Field, NEW j \in 0 .. Width[f] - 1
  PROVE  /\ At[f] + j \in Written
         /\ Patch[At[f] + j] = (config[f] \div Values[j]) % Byte
  <1> DEFINE p == At[f] + j
             g == CHOOSE h \in Field : p \in Place(h)
  <1>1. At[f] \in Nat /\ Width[f] \in Nat BY FieldNumbers
  <1>2. p \in Place(f) /\ p - At[f] = j BY <1>1 DEF Place
  <1>3. g \in Field /\ p \in Place(g)
    <2> HIDE DEF p
    <2> QED BY <1>2
  <1>4. p \in Written BY <1>2 DEF Written
  <1> HIDE DEF p, g
  <1>5. g = f
    <2>1. At[g] \in Nat /\ Width[g] \in Nat BY <1>3, FieldNumbers
    <2>2. At[f] <= p /\ p <= At[f] + Width[f] - 1 /\ At[g] <= p /\ p <= At[g] + Width[g] - 1 /\ p \in Int
      BY <1>1, <1>2, <1>3, <2>1 DEF Place
    <2>3. ~(At[f] + Width[f] <= At[g] \/ At[g] + Width[g] <= At[f]) BY <1>1, <2>1, <2>2
    <2> QED BY <1>3, <2>3, FieldNumbers, Zenon
  <1>6. Patch[p] = ByteOf(g, p) BY <1>4, Zenon DEF Patch, g
  <1>7. ByteOf(f, p) = (config[f] \div Values[j]) % Byte BY <1>2, Zenon DEF ByteOf
  <1>8. Patch[p] = (config[f] \div Values[j]) % Byte BY <1>5, <1>6, <1>7, Zenon
  <1> QED BY <1>4, <1>8 DEF p

\* The function behind InImage, and its value for the first k bytes.
ImageFunction(f, v) ==
  CHOOSE g : g = [s \in SUBSET DOMAIN v |->
                    IF s = {} THEN 0 ELSE g[s \ {Max(s)}] * Byte + patch[At[f] + Width[f] - v[Max(s)]]]

LEMMA ImageRecursion ==
  ASSUME NEW f \in Field, \A j \in 0 .. Width[f] - 1 : patch[At[f] + j] \in Nat
  PROVE  \E h \in [0 .. Width[f] -> Nat] :
           /\ h[0] = 0 /\ h[Width[f]] = InImage(f)
           /\ \A k \in 1 .. Width[f] : h[k] = h[k - 1] * Byte + patch[At[f] + (Width[f] - k)]
  <1> DEFINE n == Width[f]
             v == [k \in 1 .. n |-> k]
             F == [p \in Nat \X (1 .. n) |-> p[1] * Byte + patch[At[f] + (n - p[2])]]
             value(g, s) == IF s = {} THEN 0 ELSE g[s \ {Max(s)}] * Byte + patch[At[f] + n - v[Max(s)]]
             e == ImageFunction(f, v)
  <1>1. n \in Nat /\ At[f] \in Nat /\ DOMAIN v = 1 .. n BY FieldNumbers
  <1>2. InImage(f) = e[DOMAIN v]
    BY Zenon DEF InImage, FoldLeft, MapThenFoldSet, ImageFunction
  <1>3. \A k \in 1 .. n : patch[At[f] + (n - k)] \in Nat
    <2> SUFFICES ASSUME NEW k \in 1 .. n PROVE patch[At[f] + (n - k)] \in Nat OBVIOUS
    <2>1. n - k \in 0 .. n - 1 BY <1>1
    <2> QED BY <2>1
  <1> HIDE DEF n
  <1>4. F \in [Nat \X (1 .. n) -> Nat]
    <2>1. ASSUME NEW p \in Nat \X (1 .. n) PROVE p[1] * Byte + patch[At[f] + (n - p[2])] \in Nat
      <3>1. p[1] \in Nat /\ p[2] \in 1 .. n OBVIOUS
      <3>2. patch[At[f] + (n - p[2])] \in Nat BY <1>3, <3>1
      <3> DEFINE x == p[1]
                 y == patch[At[f] + (n - p[2])]
      <3>3. x \in Nat /\ y \in Nat BY <3>1, <3>2
      <3> HIDE DEF x, y
      <3>4. x * Byte + y \in Nat BY <3>3, ByteAssumption
      <3> QED BY <3>4 DEF x, y
    <2> QED BY <2>1, Zenon
  <1> HIDE DEF F, v, e
  <1>5. PICK g \in [SUBSET (1 .. n) -> Nat] : IsFold(g, F, 0, n)
    <2>1. 0 \in Nat OBVIOUS
    <2> QED BY <1>1, <1>4, <2>1, FoldExists
  <1>6. g = [s \in SUBSET (1 .. n) |-> value(g, s)]
    <2>1. ASSUME NEW s \in SUBSET (1 .. n), s # {}
          PROVE  F[<<g[s \ {Max(s)}], Max(s)>>] = g[s \ {Max(s)}] * Byte + patch[At[f] + n - v[Max(s)]]
      <3>1. Max(s) \in 1 .. n BY <1>1, <2>1, MaxIs
      <3>2. g[s \ {Max(s)}] \in Nat OBVIOUS
      <3> DEFINE m == Max(s)
                 x == g[s \ {m}]
                 p == <<x, m>>
      <3>3. p \in Nat \X (1 .. n) /\ p[1] = x /\ p[2] = m /\ m \in 1 .. n BY <3>1, <3>2
      <3> HIDE DEF p, x, m
      <3>4. F[p] = p[1] * Byte + patch[At[f] + (n - p[2])] BY <3>3, Zenon DEF F
      <3>5. v[m] = m /\ At[f] + (n - m) = At[f] + n - v[m] BY <1>1, <3>3 DEF v
      <3>6. F[p] = x * Byte + patch[At[f] + n - v[m]] BY <3>3, <3>4, <3>5, Zenon
      <3> QED BY <3>6, Zenon DEF p, x, m
    <2>2. g = [s \in SUBSET (1 .. n) |-> IF s = {} THEN 0 ELSE F[<<g[s \ {Max(s)}], Max(s)>>]]
      BY <1>5, Zenon DEF IsFold
    <2> QED BY <2>1, <2>2, Zenon
  <1>7. e = [s \in SUBSET (1 .. n) |-> value(e, s)]
    BY <1>1, <1>6, Zenon DEF ImageFunction, e, n
  <1> DEFINE h == [k \in 0 .. n |-> e[1 .. k]]
  <1>8. h[0] = 0
    <2>1. 1 .. 0 = {} /\ {} \in SUBSET (1 .. n) /\ 0 \in 0 .. n BY <1>1
    <2>2. e[{}] = 0 BY <1>7, <2>1, Zenon
    <2> QED BY <2>1, <2>2
  <1>9. ASSUME NEW k \in 1 .. n PROVE h[k] = h[k - 1] * Byte + patch[At[f] + (n - k)]
    <2>1. 1 .. k \in SUBSET (1 .. n) /\ 1 .. k # {} /\ Max(1 .. k) = k /\ (1 .. k) \ {k} = 1 .. k - 1
      BY <1>1, FoldUnfolds
    <2>2. e[1 .. k] = value(e, 1 .. k) BY <1>7, <2>1, Zenon
    <2>3. v[k] = k /\ At[f] + n - v[k] = At[f] + (n - k) /\ k \in 0 .. n /\ k - 1 \in 0 .. n
      BY <1>1 DEF v
    <2>4. e[1 .. k] = e[1 .. k - 1] * Byte + patch[At[f] + (n - k)]
      BY <2>1, <2>2, <2>3, Zenon
    <2>5. h[k] = e[1 .. k] /\ h[k - 1] = e[1 .. k - 1] BY <2>3
    <2> HIDE DEF h
    <2> QED BY <2>4, <2>5, Zenon
  <1>10. h[n] = InImage(f) BY <1>1, <1>2
  <1>11. h = [k \in 0 .. n |-> h[k]] OBVIOUS
  <1> HIDE DEF h
  <1>12. \A k \in 0 .. n : h[k] \in Nat
    <2> DEFINE S == {k \in 0 .. n : h[k] \in Nat}
    <2>1. 0 \in S BY <1>1, <1>8
    <2>2. ASSUME NEW k \in 0 .. n - 1, k \in S PROVE k + 1 \in S
      <3>1. k + 1 \in 1 .. n /\ k + 1 \in 0 .. n /\ (k + 1) - 1 = k BY <1>1
      <3> DEFINE x == h[k]
                 y == patch[At[f] + (n - (k + 1))]
      <3>2. h[k + 1] = x * Byte + y /\ x \in Nat /\ y \in Nat BY <1>3, <1>9, <2>2, <3>1
      <3> HIDE DEF x, y
      <3>3. x * Byte + y \in Nat BY <3>2, ByteAssumption
      <3> QED BY <3>1, <3>2, <3>3
    <2>3. \A k \in 0 .. n : k \in S
      <3> HIDE DEF S
      <3> QED BY <1>1, <2>1, <2>2, InductionUpTo
    <2> QED BY <2>3
  <1>13. h \in [0 .. n -> Nat] BY <1>11, <1>12
  <1> QED BY <1>8, <1>9, <1>10, <1>13 DEF n

\* The bytes of a field make its value.
LEMMA FieldInImage ==
  ASSUME NEW f \in Field, config[f] \in Nat, config[f] < Values[Width[f]], patch = Patch
  PROVE  InImage(f) = config[f]
  <1> DEFINE n == Width[f]
             c == config[f]
             q(j) == c \div Values[j]
  <1>1. n \in 1 .. 4 /\ At[f] \in Nat /\ c \in Nat BY FieldNumbers
  <1>2. \A j \in 0 .. n : Values[j] \in Nat \ {0} /\ q(j) \in Nat
    <2> SUFFICES ASSUME NEW j \in 0 .. n PROVE Values[j] \in Nat \ {0} /\ q(j) \in Nat
      OBVIOUS
    <2>1. j \in 0 .. LongSize BY <1>1, LongAssumption
    <2>2. Values[j] \in Nat \ {0} BY <2>1, ValuesAre
    <2> HIDE DEF c
    <2> QED BY <1>1, <2>2, DivisionIs
  <1>3. \A j \in 0 .. n - 1 : q(j + 1) = q(j) \div Byte
    <2> SUFFICES ASSUME NEW j \in 0 .. n - 1 PROVE q(j + 1) = q(j) \div Byte OBVIOUS
    <2>1. j \in 0 .. LongSize - 1 /\ j \in 0 .. LongSize BY <1>1, LongAssumption
    <2>2. Values[j + 1] = Byte * Values[j] /\ Values[j] \in Nat \ {0} /\ Byte \in Nat \ {0}
      BY <2>1, ValuesAre, ByteAssumption
    <2> HIDE DEF c
    <2> QED BY <1>1, <2>2, DivisionTwice
  <1>4. \A j \in 0 .. n - 1 : patch[At[f] + j] = q(j) % Byte /\ patch[At[f] + j] \in Nat
    <2> SUFFICES ASSUME NEW j \in 0 .. n - 1 PROVE patch[At[f] + j] = q(j) % Byte /\ patch[At[f] + j] \in Nat
      OBVIOUS
    <2>1. patch[At[f] + j] = q(j) % Byte BY PatchIs
    <2>2. q(j) \in Nat /\ Byte \in Nat \ {0} BY <1>1, <1>2, ByteAssumption
    <2> HIDE DEF q
    <2>3. q(j) % Byte \in Nat BY <2>2, LastDigit
    <2> QED BY <2>1, <2>3
  <1>5. q(0) = c /\ q(n) = 0
    <2>1. Values[0] = 1 /\ Values[n] \in Nat \ {0} /\ c < Values[n] BY <1>1, <1>2, ValuesAre
    <2> DEFINE w == Values[n]
    <2> HIDE DEF c, w
    <2>2. c \div w = 0
      <3>1. w * 0 <= c /\ c < w * (0 + 1) /\ 0 \in Nat BY <1>1, <2>1 DEF w
      <3> QED BY <1>1, <2>1, <3>1, DivisionUnique DEF w
    <2>3. c \div 1 = c BY <1>1
    <2> QED BY <2>1, <2>2, <2>3 DEF w
  <1>6. PICK h \in [0 .. n -> Nat] :
          /\ h[0] = 0 /\ h[n] = InImage(f)
          /\ \A k \in 1 .. n : h[k] = h[k - 1] * Byte + patch[At[f] + (n - k)]
    BY <1>4, ImageRecursion
  <1> HIDE DEF q, n
  <1> DEFINE S == {k \in 0 .. n : h[k] = q(n - k)}
  <1>7. 0 \in S BY <1>1, <1>5, <1>6
  <1>8. ASSUME NEW k \in 0 .. n - 1, k \in S PROVE k + 1 \in S
    <2> DEFINE j == n - (k + 1)
    <2>1. j \in 0 .. n - 1 /\ j + 1 = n - k /\ k + 1 \in 1 .. n /\ k + 1 \in 0 .. n /\ (k + 1) - 1 = k /\ j \in 0 .. n
      BY <1>1
    <2> HIDE DEF j
    <2>2. h[k] = q(j + 1) BY <1>8, <2>1
    <2>3. h[k + 1] = h[k] * Byte + patch[At[f] + j] BY <1>6, <2>1 DEF j
    <2>4. q(j + 1) = q(j) \div Byte /\ patch[At[f] + j] = q(j) % Byte /\ q(j) \in Nat
      BY <1>2, <1>3, <1>4, <2>1
    <2>5. (q(j) \div Byte) * Byte + (q(j) % Byte) = q(j)
      <3> DEFINE x == q(j)
      <3>1. x \in Nat /\ Byte \in Nat \ {0} BY <2>4, ByteAssumption
      <3> HIDE DEF x
      <3>2. (x \div Byte) * Byte + (x % Byte) = x BY <3>1, LastDigit
      <3> QED BY <3>2 DEF x
    <2>6. h[k + 1] = q(j) BY <2>2, <2>3, <2>4, <2>5, Zenon
    <2> QED BY <2>1, <2>6 DEF j
  <1>9. n \in S
    <2>1. \A k \in 0 .. n : k \in S
      <3> HIDE DEF S
      <3>1. n \in Nat BY <1>1
      <3>2. \A k \in 0 .. n - 1 : k \in S => k + 1 \in S BY <1>8, Zenon
      <3> QED BY <1>7, <3>1, <3>2, InductionUpTo, Zenon
    <2> QED BY <1>1, <2>1
  <1>10. h[n] = q(0) BY <1>1, <1>9
  <1> QED BY <1>5, <1>6, <1>10

-----------------------------------------------------------------------------
(* The values of the configuration file *)

\* v is what the lines in front of n give the field f.
Latest(f, n, v) ==
  \/ v = 0 /\ \A k \in 1 .. n - 1 : file[k].var # f
  \/ \E k \in 1 .. n - 1 : /\ file[k].var = f /\ v = FieldValue(f, file[k].val)
                           /\ \A l \in 1 .. n - 1 : file[l].var = f => l <= k

\* A field holds the value of the last line naming it, the image in the end the
\* bytes of the fields.
ValuesInv ==
  /\ config \in [Field -> Nat] /\ \A f \in Field : config[f] < Values[Width[f]]
  /\ step = "open" => \A f \in Field : config[f] = 0
  /\ step = "read" => \A f \in Field : Latest(f, next, config[f])
  /\ step = "prepare" => \A f \in Field : config[f] = Configured(f)
  /\ step = "measure" /\ file # None => patch = Patch /\ \A f \in Field : config[f] = Configured(f)

LEMMA ConfiguredIs ==
  ASSUME file \in Seq(Line), NEW f \in Field, NEW v, Latest(f, Len(file) + 1, v)
  PROVE  v = Configured(f)
  <1>1. DOMAIN file = 1 .. (Len(file) + 1) - 1 /\ Len(file) \in Nat OBVIOUS
  <1> DEFINE D == 1 .. (Len(file) + 1) - 1
  <1>2. D \subseteq Int /\ DOMAIN file = D BY <1>1
  <1> HIDE DEF D
  <1>3. CASE v = 0 /\ \A k \in D : file[k].var # f
    BY <1>2, <1>3, Zenon DEF Configured, Named
  <1>4. ASSUME NEW k \in D, file[k].var = f, v = FieldValue(f, file[k].val), \A l \in D : file[l].var = f => l <= k
        PROVE  v = Configured(f)
    <2>1. k \in Named(f) /\ \A l \in Named(f) : l <= k BY <1>2, <1>4, Zenon DEF Named
    <2> DEFINE m == CHOOSE j \in Named(f) : \A l \in Named(f) : l <= j
    <2>2. m \in Named(f) /\ \A l \in Named(f) : l <= m BY <2>1, Zenon
    <2> HIDE DEF m
    <2>3. m = k
      <3>1. m <= k /\ k <= m /\ m \in Int /\ k \in Int BY <1>2, <2>1, <2>2 DEF Named
      <3> QED BY <3>1
    <2>4. Configured(f) = Strtol(file[m].val) % Values[Width[f]]
      BY <2>1, Zenon DEF Configured, m
    <2> QED BY <1>4, <2>3, <2>4, Zenon DEF FieldValue
  <1> QED BY <1>3, <1>4, Zenon DEF Latest, D

LEMMA FieldValueType ==
  ASSUME NEW f \in Field, NEW n \in Int
  PROVE  FieldValue(f, n) \in Nat /\ FieldValue(f, n) < Values[Width[f]]
  <1>1. Width[f] \in 0 .. LongSize BY FieldNumbers, LongAssumption
  <1> DEFINE w == Values[Width[f]]
             x == Strtol(n)
  <1>2. w \in Nat \ {0} BY <1>1, ValuesAre
  <1>3. x \in Int
    <2> DEFINE e == Values[LongSize]
    <2>1. e \in Nat
      <3>1. LongSize \in 0 .. LongSize BY LongAssumption
      <3> QED BY <3>1, ValuesAre
    <2> HIDE DEF e
    <2>2. e \div 2 \in Int BY <2>1
    <2>3. LongEnd \in Int BY <2>2 DEF LongEnd, e
    <2> QED BY <2>3 DEF Strtol
  <1> HIDE DEF w, x
  <1>4. x % w \in Nat /\ x % w < w BY <1>2, <1>3
  <1> QED BY <1>4 DEF FieldValue, w, x

LEMMA LineIs ==
  ASSUME file \in Seq(Line), NEW k \in 1 .. Len(file)
  PROVE  file[k].val \in Int /\ file[k].var \in Field \cup {"unknown", "none"}
  <1>1. file[k] \in Line OBVIOUS
  <1> QED BY <1>1 DEF Line

\* A line that names no field leaves all values, one that names one sets it.
LEMMA LatestSkips ==
  ASSUME NEW n \in Nat \ {0}, NEW f, NEW v, file[n].var # f, Latest(f, n, v)
  PROVE  Latest(f, n + 1, v)
  <1>1. /\ \A k \in 1 .. n - 1 : k \in 1 .. (n + 1) - 1
        /\ \A k \in 1 .. (n + 1) - 1 : k \in 1 .. n - 1 \/ k = n OBVIOUS
  <1> QED BY <1>1, Zenon DEF Latest

LEMMA LatestSets ==
  ASSUME NEW n \in Nat \ {0}, NEW f, file[n].var = f
  PROVE  Latest(f, n + 1, FieldValue(f, file[n].val))
  <1>1. n \in 1 .. (n + 1) - 1 /\ \A l \in 1 .. (n + 1) - 1 : l <= n OBVIOUS
  <1> QED BY <1>1, Zenon DEF Latest

LEMMA SameConfigured ==
  ASSUME file' = file
  PROVE  /\ \A f : Configured(f)' = Configured(f)
         /\ \A f, n, v : Latest(f, n, v)' <=> Latest(f, n, v)
  <1>1. \A f : Configured(f)' = Configured(f) BY DEF Configured, Named, Strtol
  <1>2. \A f, n, v : Latest(f, n, v)' <=> Latest(f, n, v) BY DEF Latest, FieldValue, Strtol
  <1> QED BY <1>1, <1>2

LEMMA ValuesInit == KernelInit => ValuesInv
  <1> SUFFICES ASSUME KernelInit PROVE ValuesInv OBVIOUS
  <1>1. config = [f \in Field |-> 0] /\ step = "open" BY DEF KernelInit, ConfigStart
  <1>2. ASSUME NEW f \in Field PROVE 0 < Values[Width[f]]
    <2>1. Width[f] \in 0 .. LongSize BY FieldNumbers, LongAssumption
    <2> DEFINE w == Values[Width[f]]
    <2>2. w \in Nat \ {0} BY <2>1, ValuesAre
    <2> HIDE DEF w
    <2>3. 0 < w BY <2>2
    <2> QED BY <2>3 DEF w
  <1>3. config \in [Field -> Nat] /\ \A f \in Field : config[f] = 0 BY <1>1
  <1>4. \A f \in Field : config[f] < Values[Width[f]] BY <1>2, <1>3, Zenon
  <1> QED BY <1>1, <1>3, <1>4 DEF ValuesInv

\* A step that leaves the configuration alone.
LEMMA ValuesKept ==
  ASSUME ValuesInv, UNCHANGED <<file, config, patch, step, next>>
  PROVE  ValuesInv'
  <1>1. Patch' = Patch BY DEF Patch, ByteOf
  <1>2. /\ \A f \in Field : Latest(f, next, config[f])' <=> Latest(f, next, config[f])
    <2>1. \A f, n, v : Latest(f, n, v)' <=> Latest(f, n, v) BY SameConfigured
    <2> QED BY <2>1, Zenon DEF Latest
  <1>3. \A f : Configured(f)' = Configured(f) BY SameConfigured
  <1> QED BY <1>1, <1>2, <1>3, Zenon DEF ValuesInv

\* A step that ends the configuration without a measurement.
LEMMA ValuesStop ==
  ASSUME ValuesInv, config' = config, step' \in {"failed", "crashed"}
  PROVE  ValuesInv'
  <1>1. step' \notin {"open", "read", "prepare", "measure"} OBVIOUS
  <1> QED BY <1>1, Zenon DEF ValuesInv

\* A step on in the file.
LEMMA ValuesRead ==
  ASSUME config' \in [Field -> Nat], \A f \in Field : config'[f] < Values[Width[f]],
         file' = file, step' = "read", NEW n, next' = n, NEW c, config' = c,
         \A f \in Field : Latest(f, n, c[f])
  PROVE  ValuesInv'
  <1>1. \A f \in Field : Latest(f, next, config[f])'
    <2> SUFFICES ASSUME NEW f \in Field PROVE Latest(f, next, config[f])' OBVIOUS
    <2>1. Latest(f, n, c[f]) OBVIOUS
    <2> QED BY <2>1, Zenon DEF Latest, FieldValue, Strtol
  <1>2. step' \notin {"open", "prepare", "measure"} OBVIOUS
  <1> QED BY <1>1, <1>2, Zenon DEF ValuesInv

LEMMA ValuesStep ==
  ASSUME ConfigInv, ValuesInv, ConfigNext
  PROVE  ValuesInv'
  <1>0. ConfigNext /\ file' = file
    BY DEF ConfigNext, NoFile, ConfigLoad, ConfigFails, Open, SkipLine,
       SetField, EndOfFile, OpenFails, UnknownField, ImageTooSmall, Prepare, Go
  <1>1. /\ config \in [Field -> Nat] /\ \A f \in Field : config[f] < Values[Width[f]]
        /\ next \in Nat \ {0} BY Zenon DEF ValuesInv, ConfigInv
  <1>2. CASE NoFile
    <2>1. file' = None /\ step' = "measure" /\ config' = config BY <1>2 DEF NoFile, Go
    <2> QED BY <1>1, <2>1 DEF ValuesInv
  <1>3. CASE OpenFails \/ UnknownField \/ ImageTooSmall
    BY <1>3, ValuesStop DEF OpenFails, UnknownField, ImageTooSmall, Go
  <1>4. CASE Open
    <2>1. step = "open" /\ step' = "read" /\ next' = next /\ config' = config
      BY <1>4 DEF Open, Go
    <2>2. next = 1 /\ \A f \in Field : config[f] = 0 BY <2>1 DEF ConfigInv, ValuesInv
    <2>3. \A k \in 1 .. next - 1 : FALSE BY <2>2
    <2>4. \A f \in Field : Latest(f, next, config[f]) BY <2>2, <2>3, Zenon DEF Latest
    <2> QED BY <1>0, <1>1, <2>1, <2>4, ValuesRead
  <1>5. ASSUME Reading
        PROVE  /\ \A f \in Field : Latest(f, next, config[f])
               /\ file \in Seq(Line) /\ next \in 1 .. Len(file)
    <2>1. step = "read" /\ next <= Len(file) BY <1>5 DEF Reading
    <2>2. file \in Seq(Line) BY <2>1, FilesAssumption DEF ConfigInv
    <2> QED BY <1>1, <2>1, <2>2 DEF ValuesInv
  <1>6. CASE SkipLine
    <2>1. /\ Reading /\ file[next].var = "none" /\ next' = next + 1 /\ config' = config
          /\ step' \in {"read", "crashed"} BY <1>6 DEF SkipLine, AfterLine
    <2>2. \A f \in Field : Latest(f, next + 1, config[f])
      <3>1. \A f \in Field : file[next].var # f BY <2>1 DEF Field
      <3> QED BY <1>1, <1>5, <2>1, <3>1, LatestSkips
    <2>3. CASE step' = "read" BY <1>0, <1>1, <2>1, <2>2, <2>3, ValuesRead
    <2>4. CASE step' = "crashed" BY <2>1, <2>4, ValuesStop
    <2> QED BY <2>1, <2>3, <2>4
  <1>7. CASE SetField
    <2> DEFINE g == file[next].var
               x == FieldValue(g, file[next].val)
               c == [config EXCEPT ![g] = x]
    <2>1. Reading /\ g \in Field /\ next' = next + 1 /\ config' = c /\ step' \in {"read", "crashed"}
      BY <1>7 DEF SetField, AfterLine
    <2>2. x \in Nat /\ x < Values[Width[g]] BY <1>5, <2>1, LineIs, FieldValueType
    <2>3. \A f \in Field : c[f] = IF f = g THEN x ELSE config[f] BY <1>1
    <2>4. config' \in [Field -> Nat] BY <1>1, <2>1, <2>2
    <2>5. Latest(g, next + 1, x) BY <1>1, LatestSets
    <2>6. \A f \in Field : f # g => Latest(f, next + 1, config[f])
      BY <1>1, <1>5, <2>1, LatestSkips
    <2> HIDE DEF c, x, g
    <2>7. (\A f \in Field : c[f] < Values[Width[f]]) /\ \A f \in Field : Latest(f, next + 1, c[f])
      BY <1>1, <2>2, <2>3, <2>5, <2>6, Zenon
    <2>8. CASE step' = "read"
      <3>1. \A f \in Field : config'[f] < Values[Width[f]] BY <2>1, <2>7, Zenon
      <3> QED BY <1>0, <2>1, <2>4, <2>7, <2>8, <3>1, ValuesRead
    <2>9. CASE step' = "crashed"
      <3>1. config' \in [Field -> Nat] /\ \A f \in Field : config'[f] < Values[Width[f]]
        BY <2>1, <2>4, <2>7, Zenon
      <3> QED BY <2>9, <3>1 DEF ValuesInv
    <2> QED BY <2>1, <2>8, <2>9
  <1>8. CASE EndOfFile
    <2>1. step = "read" /\ step' = "prepare" /\ next > Len(file) /\ config' = config
      BY <1>8 DEF EndOfFile, Go
    <2>2. file \in Seq(Line) /\ next <= Len(file) + 1 /\ \A f \in Field : Latest(f, next, config[f])
      BY <2>1, FilesAssumption DEF ConfigInv, ValuesInv
    <2>3. next = Len(file) + 1 BY <1>1, <2>1, <2>2
    <2>4. \A f \in Field : config[f] = Configured(f) BY <2>2, <2>3, ConfiguredIs
    <2>5. \A f \in Field : config'[f] = Configured(f)'
      BY <1>0, <2>1, <2>4, SameConfigured, Zenon
    <2> QED BY <1>1, <2>1, <2>5 DEF ValuesInv
  <1>9. CASE Prepare
    <2>1. step = "prepare" /\ step' = "measure" /\ config' = config /\ patch' = Patch
      BY <1>9 DEF Prepare, Patch
    <2>2. Patch' = Patch BY <2>1 DEF Patch, ByteOf
    <2>3. \A f \in Field : config'[f] = Configured(f)'
      BY <1>0, <2>1, SameConfigured, Zenon DEF ValuesInv
    <2> QED BY <1>1, <2>1, <2>2, <2>3 DEF ValuesInv
  <1> QED BY <1>0, <1>2, <1>3, <1>4, <1>6, <1>7, <1>8, <1>9 DEF ConfigNext, ConfigLoad, ConfigFails

LEMMA ValuesNext ==
  ConfigInv /\ ValuesInv /\ [KernelNext]_allVars => ValuesInv'
  <1> SUFFICES ASSUME ConfigInv, ValuesInv, [KernelNext]_allVars PROVE ValuesInv' OBVIOUS
  <1>1. CASE Configure \/ PrepareImage
    BY <1>1, ValuesStep DEF Configure, PrepareImage, ConfigNext
  <1>2. CASE UNCHANGED kvars BY <1>2, ValuesKept DEF kvars
  <1> QED BY <1>1, <1>2 DEF KernelNext, KernelProgram, ConfigureFails, MeasureKernel, allVars, kvars

-----------------------------------------------------------------------------
(* The headers that are written over *)

\* A number of two digits, the lower one with m values.
LEMMA TwoDigits ==
  ASSUME NEW m \in Nat \ {0}, NEW n \in Nat \ {0}, NEW x \in 0 .. m - 1, NEW y \in 0 .. n - 1
  PROVE  x + m * y \in 0 .. m * n - 1
  <1> DEFINE k == n - 1
  <1>1. k \in Nat /\ n = k + 1 /\ y \in Nat /\ y <= k OBVIOUS
  <1> HIDE DEF k
  <1>2. m * y <= m * k BY <1>1, TimesOrder
  <1>3. m * n = m * k + m /\ m * y \in Nat /\ m * k \in Nat BY <1>1
  <1> QED BY <1>2, <1>3

LEMMA WordValues ==
  /\ Values[2] = Byte * Byte /\ Values[2] \in Nat \ {0}
  /\ Max32 = Values[2] * Values[2] - 1
  <1>1. /\ 0 \in 0 .. LongSize - 1 /\ 1 \in 0 .. LongSize - 1 /\ 2 \in 0 .. LongSize - 1 /\ 3 \in 0 .. LongSize - 1
        /\ 2 \in 0 .. LongSize BY LongAssumption
  <1>2. /\ Values[0 + 1] = Byte * 1 /\ Values[1 + 1] = Byte * Values[1]
        /\ Values[2 + 1] = Byte * Values[2] /\ Values[3 + 1] = Byte * Values[3] /\ Values[2] \in Nat \ {0}
    BY <1>1, ValuesAre, Zenon
  <1> DEFINE v == Values
  <1>3. v[1] = Byte /\ v[2] = Byte * v[1] /\ v[3] = Byte * v[2] /\ v[4] = Byte * v[3] /\ Max32 = v[4] - 1
    BY <1>2, ByteAssumption, WidthAssumption
  <1>4. v[2] = Byte * Byte /\ v[3] = Byte * (Byte * Byte) /\ v[4] = Byte * (Byte * (Byte * Byte))
    BY <1>3
  <1>5. Byte * (Byte * (Byte * Byte)) = (Byte * Byte) * (Byte * Byte) BY ByteAssumption
  <1> HIDE DEF v
  <1> QED BY <1>2, <1>3, <1>4, <1>5 DEF v

\* A byte that is written is one, and so is one that is left.
Bytes(b) == \A p \in Written : b[p] \in 0 .. Byte - 1

LEMMA NewByteIs ==
  ASSUME NEW b, Bytes(b), NEW n \in Nat, NEW at \in Nat, NEW j \in 0 .. 3
  PROVE  NewByte(b, n, at, j) \in 0 .. Byte - 1
  <1> DEFINE w == Values[j]
             q == n \div w
  <1>1. w \in Nat \ {0}
    <2>1. j \in 0 .. LongSize BY LongAssumption
    <2> QED BY <2>1, ValuesAre
  <1> HIDE DEF w
  <1>2. q \in Nat BY <1>1, DivisionIs
  <1> HIDE DEF q
  <1>3. q % Byte \in 0 .. Byte - 1 BY <1>2, ByteAssumption
  <1> QED BY <1>3 DEF NewByte, Bytes, q, w

LEMMA NewWordIs ==
  ASSUME NEW b, Bytes(b), NEW n \in UInt32, NEW at \in Nat
  PROVE  NewWord(b, n, at) \in UInt32
  <1>0. n \in Nat /\ Byte \in Nat \ {0} BY Max32Assumption, ByteAssumption DEF UInt32
  <1>1. ASSUME NEW j \in {0, 2} PROVE NewHalf(b, n, at, j) \in 0 .. Values[2] - 1
    <2> DEFINE x == NewByte(b, n, at, j)
               y == NewByte(b, n, at, j + 1)
    <2>1. j \in 0 .. 3 /\ j + 1 \in 0 .. 3 OBVIOUS
    <2>2. x \in 0 .. Byte - 1 /\ y \in 0 .. Byte - 1 BY <1>0, <2>1, NewByteIs
    <2>3. NewHalf(b, n, at, j) = x + Byte * y BY DEF NewHalf
    <2> HIDE DEF x, y
    <2>4. x + Byte * y \in 0 .. Byte * Byte - 1 BY <1>0, <2>2, TwoDigits
    <2> QED BY <2>3, <2>4, WordValues, Zenon
  <1> DEFINE x == NewHalf(b, n, at, 0)
             y == NewHalf(b, n, at, 2)
             v == Values[2]
  <1>2. x \in 0 .. v - 1 /\ y \in 0 .. v - 1 /\ v \in Nat \ {0} BY <1>1, WordValues
  <1>3. NewWord(b, n, at) = IF Touched(at, at + 4) THEN x + v * y ELSE n BY DEF NewWord
  <1>4. Max32 = v * v - 1 BY WordValues
  <1> HIDE DEF x, y, v
  <1>5. x + v * y \in 0 .. v * v - 1 BY <1>2, TwoDigits
  <1>6. x + v * y \in UInt32 BY <1>4, <1>5, Zenon DEF UInt32
  <1> QED BY <1>3, <1>6, Zenon

LEMMA NewDirectoryIs ==
  ASSUME NEW b, Bytes(b), NEW d \in Directory, NEW at \in Nat
  PROVE  NewDirectory(b, d, at) \in Directory
  <1>1. d.va \in UInt32 /\ d.size \in UInt32 /\ at + 4 \in Nat BY DEF Directory
  <1>2. NewWord(b, d.va, at) \in UInt32 /\ NewWord(b, d.size, at + 4) \in UInt32
    BY <1>1, NewWordIs
  <1> QED BY <1>2 DEF NewDirectory, Directory

LEMMA NewTableIs ==
  ASSUME NEW b, Bytes(b), NEW t \in Seq(Section), NEW at \in Nat
  PROVE  NewTable(b, t, at) \in Seq(Section) /\ Len(NewTable(b, t, at)) = Len(t)
  <1> DEFINE n == Len(t)
             u == NewTable(b, t, at)
  <1>1. n \in Nat /\ DOMAIN t = 1 .. n OBVIOUS
  <1>2. ASSUME NEW k \in 1 .. n PROVE NewSection(b, t[k], at + (k - 1) * SectionSize) \in Section
    <2> DEFINE a == at + (k - 1) * SectionSize
               s == t[k]
    <2>1. a \in Nat /\ s \in Section BY <1>1 DEF SectionSize
    <2> HIDE DEF a, s
    <2>2. /\ s.va \in UInt32 /\ s.vsize \in UInt32 /\ s.ptr \in UInt32 /\ s.raw \in UInt32
          /\ a + 8 \in Nat /\ a + 12 \in Nat /\ a + 16 \in Nat /\ a + 20 \in Nat
      BY <2>1 DEF Section
    <2>3. /\ NewWord(b, s.vsize, a + 8) \in UInt32 /\ NewWord(b, s.va, a + 12) \in UInt32
          /\ NewWord(b, s.raw, a + 16) \in UInt32 /\ NewWord(b, s.ptr, a + 20) \in UInt32
      BY <2>2, NewWordIs
    <2>4. NewSection(b, s, a) \in Section BY <2>3 DEF NewSection, Section
    <2> QED BY <2>4 DEF a, s
  <1>3. u = [k \in 1 .. n |-> NewSection(b, t[k], at + (k - 1) * SectionSize)]
    BY <1>1, Zenon DEF NewTable
  <1> HIDE DEF u, n
  <1>4. u \in [1 .. n -> Section] BY <1>2, <1>3, Zenon
  <1>5. u \in Seq(Section) /\ Len(u) = n BY <1>1, <1>4
  <1> QED BY <1>5 DEF u, n

\* The fields of an image, before its two tables are compared.
HeaderRecord ==
  [load : {"good", "missing", "short"}, size : Nat, pe : UInt32,
   format : {"PE32", "PE32+", "TE", "other"}, machine : BOOLEAN,
   dirs : UInt32, optSize : UInt32, imageSize : UInt32, headers : UInt32,
   security : Directory, debug : Directory, reloc : Directory,
   sections : Seq(Section), low : Seq(Section), stripped : UInt32, base : UInt32,
   faults : SUBSET {"memory", "digest"}]

LEMMA HeaderRecordIs == Image = {m \in HeaderRecord : Len(m.low) = Len(m.sections)}
  BY Zenon DEF Image, HeaderRecord

\* An image with other tables of the same length is one.
LEMMA WithTablesIs ==
  ASSUME NEW m \in Image, NEW ss \in Seq(Section), NEW ll \in Seq(Section), Len(ll) = Len(ss)
  PROVE  [m EXCEPT !.sections = ss, !.low = ll] \in Image
  <1> DEFINE SS == Seq(Section)
             UU == UInt32
             DD == Directory
             R == [load : {"good", "missing", "short"}, size : Nat, pe : UU,
           format : {"PE32", "PE32+", "TE", "other"}, machine : BOOLEAN,
           dirs : UU, optSize : UU, imageSize : UU, headers : UU,
           security : DD, debug : DD, reloc : DD,
           sections : SS, low : SS, stripped : UU, base : UU,
           faults : SUBSET {"memory", "digest"}]
             m1 == [m EXCEPT !.sections = ss]
             m2 == [m1 EXCEPT !.low = ll]
  <1>1. m \in R BY HeaderRecordIs DEF HeaderRecord
  <1>2. ss \in SS /\ ll \in SS OBVIOUS
  <1> HIDE DEF SS, UU, DD, m1, m2
  <1>3. m1 \in R /\ m1.sections = ss BY <1>1, <1>2, SMT DEF m1
  <1>4. m2 \in R /\ m2.low = ll /\ m2.sections = m1.sections BY <1>3, <1>2, SMT DEF m2
  <1>5. m2 \in HeaderRecord BY <1>4 DEF HeaderRecord, SS, UU, DD
  <1>6. m2 = [m EXCEPT !.sections = ss, !.low = ll] BY Zenon DEF m1, m2
  <1> HIDE DEF R
  <1> QED BY <1>3, <1>4, <1>5, <1>6, HeaderRecordIs, Zenon

\* So is one with other fields of the optional header.
LEMMA WithHeadersIs ==
  ASSUME NEW m \in Image, NEW is \in UInt32, NEW hs \in UInt32, NEW ds \in UInt32,
         NEW sd \in Directory, NEW dd \in Directory
  PROVE  [m EXCEPT !.imageSize = is, !.headers = hs, !.dirs = ds, !.security = sd, !.debug = dd] \in Image
  <1> DEFINE SS == Seq(Section)
             UU == UInt32
             DD == Directory
             R == [load : {"good", "missing", "short"}, size : Nat, pe : UU,
           format : {"PE32", "PE32+", "TE", "other"}, machine : BOOLEAN,
           dirs : UU, optSize : UU, imageSize : UU, headers : UU,
           security : DD, debug : DD, reloc : DD,
           sections : SS, low : SS, stripped : UU, base : UU,
           faults : SUBSET {"memory", "digest"}]
             m1 == [m EXCEPT !.imageSize = is]
             m2 == [m1 EXCEPT !.headers = hs]
             m3 == [m2 EXCEPT !.dirs = ds]
             m4 == [m3 EXCEPT !.security = sd]
             m5 == [m4 EXCEPT !.debug = dd]
  <1>1. m \in R BY HeaderRecordIs DEF HeaderRecord
  <1>2. is \in UU /\ hs \in UU /\ ds \in UU /\ sd \in DD /\ dd \in DD OBVIOUS
  <1> HIDE DEF SS, UU, DD, m1, m2, m3, m4, m5
  <1>3. m1 \in R /\ m1.low = m.low /\ m1.sections = m.sections BY <1>1, <1>2, SMT DEF m1
  <1>4. m2 \in R /\ m2.low = m1.low /\ m2.sections = m1.sections BY <1>3, <1>2, SMT DEF m2
  <1>5. m3 \in R /\ m3.low = m2.low /\ m3.sections = m2.sections BY <1>4, <1>2, SMT DEF m3
  <1>6. m4 \in R /\ m4.low = m3.low /\ m4.sections = m3.sections BY <1>5, <1>2, SMT DEF m4
  <1>7. m5 \in R /\ m5.low = m4.low /\ m5.sections = m4.sections BY <1>6, <1>2, SMT DEF m5
  <1>8. m5 \in HeaderRecord BY <1>7 DEF HeaderRecord, SS, UU, DD
  <1>9. m5 = [m EXCEPT !.imageSize = is, !.headers = hs, !.dirs = ds, !.security = sd, !.debug = dd]
    BY Zenon DEF m1, m2, m3, m4, m5
  <1> HIDE DEF R
  <1> QED BY <1>3, <1>4, <1>5, <1>6, <1>7, <1>8, <1>9, HeaderRecordIs, Zenon

LEMMA OverwrittenIs ==
  ASSUME image \in Image, NEW b, Bytes(b)
  PROVE  Overwritten(b) \in Image
  <1> DEFINE ss == NewTable(b, image.sections, TableAt)
             ll == NewTable(b, image.low, SectionTable)
             is == NewWord(b, image.imageSize, OptionalAt + 56)
             hs == NewWord(b, image.headers, OptionalAt + 60)
             ds == NewWord(b, image.dirs, OptionalAt + WithoutDirectories - 4)
             sd == NewDirectory(b, image.security, DirectoryAt(Security))
             dd == NewDirectory(b, image.debug, DirectoryAt(Debug))
  <1>1. /\ image.sections \in Seq(Section) /\ image.low \in Seq(Section) /\ Len(image.low) = Len(image.sections)
        /\ image.imageSize \in UInt32 /\ image.headers \in UInt32 /\ image.dirs \in UInt32
        /\ image.security \in Directory /\ image.debug \in Directory BY DEF Image
  <1>2. TableAt \in Nat /\ SectionTable \in Nat
    <2>1. TableAt \in Nat BY TableNumbers
    <2>2. ASSUME NEW x \in Nat PROVE x % (Max32 + 1) \in Nat BY Max32Assumption
    <2> QED BY <2>1, <2>2 DEF SectionTable, Wrap
  <1>3. /\ OptionalAt + 56 \in Nat /\ OptionalAt + 60 \in Nat /\ OptionalAt + WithoutDirectories - 4 \in Nat
        /\ DirectoryAt(Security) \in Nat /\ DirectoryAt(Debug) \in Nat
    <2>1. image.pe \in Nat /\ WithoutDirectories \in {96, 112}
      BY ImageNumbers DEF WithoutDirectories
    <2> QED BY <2>1 DEF OptionalAt, DirectoryAt, FileHeaderEnd, DirectorySize, Security, Debug
  <1>4. ss \in Seq(Section) /\ ll \in Seq(Section) /\ Len(ll) = Len(ss)
    BY <1>1, <1>2, NewTableIs
  <1>5. is \in UInt32 /\ hs \in UInt32 /\ ds \in UInt32 BY <1>1, <1>3, NewWordIs
  <1>6. sd \in Directory /\ dd \in Directory BY <1>1, <1>3, NewDirectoryIs
  <1>7. Overwritten(b) = IF IsTe THEN [image EXCEPT !.sections = ss, !.low = ll]
                         ELSE [[image EXCEPT !.sections = ss, !.low = ll] EXCEPT
                                 !.imageSize = is, !.headers = hs, !.dirs = ds, !.security = sd, !.debug = dd]
    BY SMT DEF Overwritten, WithTables, Image
  <1> HIDE DEF ss, ll, is, hs, ds, sd, dd
  <1>8. [image EXCEPT !.sections = ss, !.low = ll] \in Image BY <1>4, WithTablesIs
  <1>9. [[image EXCEPT !.sections = ss, !.low = ll] EXCEPT
           !.imageSize = is, !.headers = hs, !.dirs = ds, !.security = sd, !.debug = dd] \in Image
    BY <1>5, <1>6, <1>8, WithHeadersIs
  <1> QED BY <1>7, <1>8, <1>9, Zenon

\* What PrepareImage makes of an image is one.
LEMMA PreparedIs ==
  ASSUME image \in Image, ValuesInv, PrepareImage
  PROVE  image' \in Image
  <1>1. Bytes(Patch)
    <2> SUFFICES ASSUME NEW f \in Field, NEW p \in Place(f) PROVE Patch[p] \in 0 .. Byte - 1
      BY Zenon DEF Bytes, Written
    <2> DEFINE j == p - At[f]
    <2>1. At[f] \in Nat /\ Width[f] \in 1 .. 4 BY FieldNumbers
    <2>2. j \in 0 .. Width[f] - 1 /\ p = At[f] + j BY <2>1 DEF Place
    <2> HIDE DEF j
    <2>3. Patch[p] = (config[f] \div Values[j]) % Byte BY <2>2, PatchIs
    <2> DEFINE c == config[f]
               w == Values[j]
    <2>4. c \in Nat /\ w \in Nat \ {0}
      <3>1. j \in 0 .. LongSize BY <2>1, <2>2, LongAssumption
      <3> QED BY <3>1, ValuesAre DEF ValuesInv
    <2> HIDE DEF c, w
    <2> DEFINE q == c \div w
    <2>5. q \in Nat BY <2>4, DivisionIs
    <2> HIDE DEF q
    <2>6. q % Byte \in 0 .. Byte - 1 BY <2>5, ByteAssumption
    <2> QED BY <2>3, <2>6 DEF q, c, w
  <1>2. Overwritten(Patch) \in Image BY <1>1, OverwrittenIs
  <1>3. image' \in Images \cup {Overwritten(Patch)} BY DEF PrepareImage, Rewritten
  <1> QED BY <1>2, <1>3, ImagesAssumption

-----------------------------------------------------------------------------
(* The kernel *)

\* Of the variables of the measurement every step is one of Next, but for that
\* which writes the fields and the return of a caller whose configuration failed.
LEMMA KernelSteps ==
  [KernelNext]_allVars => [Next]_vars \/ PrepareImage \/ ConfigureFails
  BY Zenon DEF KernelNext, KernelProgram, Configure, MeasureKernel, Next, Program, allVars

\* Until its headers are read nothing is known of the image, so that it may
\* change.
Fresh == pc \in {"load", "headers"} => Begun

LEMMA FreshNext == Fresh /\ [KernelNext]_allVars => Fresh'
  <1> SUFFICES ASSUME Fresh, [KernelNext]_allVars PROVE Fresh' OBVIOUS
  <1>1. CASE Load
    <2>1. /\ pc = "load" /\ pc' = "headers" /\ i' = 1
          /\ UNCHANGED <<found, table, hashed, sum, digest, status>> BY <1>1 DEF Load, Goto
    <2> QED BY <2>1, Zenon DEF Fresh, Begun
  <1>2. CASE Program /\ ~Load
    <2>1. pc' \notin {"load", "headers"}
      BY <1>2 DEF Program, LoadPeImage, LoadFails, GetImageInfo, GetPeHeader, CheckSection, SectionsChecked,
         SearchDebug, SearchFails, Searched, ReadDebugEntry, HashImage, Measure, NoContext, HashHeaders, NoTable,
         SortSection, Sorted, HashSection, HashTail, Finalize, HeadersOverrun, TableOverruns, SectionOverruns,
         Overruns, Goto, Return, Refuse, Crash
    <2> QED BY <2>1, Zenon DEF Fresh
  <1>3. CASE UNCHANGED vars \/ PrepareImage
    <2>1. UNCHANGED <<pc, i, found, table, hashed, sum, digest, status>>
      BY <1>3 DEF vars, PrepareImage
    <2> QED BY <2>1, Zenon DEF Fresh, Begun
  <1>4. CASE ConfigureFails
    <2>1. pc' \notin {"load", "headers"} BY <1>4 DEF ConfigureFails
    <2> QED BY <2>1, Zenon DEF Fresh
  <1> QED BY <1>1, <1>2, <1>3, <1>4, Zenon
          DEF KernelNext, KernelProgram, Configure, MeasureKernel, Program, Terminated, allVars

LEMMA PreparedIsFresh ==
  ASSUME image \in Image, Fresh, ValuesInv, PrepareImage
  PROVE  image' \in Image /\ Begun'
  <1>1. pc = "headers" /\ UNCHANGED <<pc, i, found, table, hashed, sum, digest, status>>
    BY DEF PrepareImage, Configuring
  <1>2. Begun' BY <1>1, Zenon DEF Fresh, Begun
  <1> QED BY <1>2, PreparedIs

\* The invariants that hold at the beginning hold of the image that was written.
LEMMA BegunAgain == (image \in Image /\ Begun)' => RangeInv' /\ ReasonInv'
  <1>1. (image \in Image /\ Begun => RangeInv /\ ReasonInv)'
    BY RangeStarts, ReasonStarts, PTL
  <1> QED BY <1>1

KernelInv == RangeInv /\ ReasonInv /\ Fresh /\ PatchInv /\ ConfigInv /\ ValuesInv

LEMMA KernelInvInit == KernelInit => KernelInv
  <1> SUFFICES ASSUME KernelInit PROVE RangeInv /\ ReasonInv /\ Fresh
    BY PatchInit, ConfigInvInit, ValuesInit DEF KernelInv
  <1>1. image \in Image /\ Start
    <2>1. PICK k \in Kernels : image = k.image BY DEF KernelInit
    <2> QED BY <2>1, KernelsAssumption DEF KernelInit
  <1> QED BY <1>1, StartIsBegun, RangeStarts, ReasonStarts DEF Fresh

LEMMA KernelInvNext == KernelInv /\ [KernelNext]_allVars => KernelInv'
  <1> SUFFICES ASSUME KernelInv, [KernelNext]_allVars PROVE RangeInv' /\ ReasonInv'
    BY PatchStep, ConfigInvNext, ValuesNext, FreshNext DEF KernelInv, RangeInv, Typed
  <1>1. CASE [Next]_vars BY <1>1, RangeStep, ReasonNext DEF KernelInv
  <1>2. CASE ConfigureFails
    <2>1. /\ pc = "headers" /\ pc' = "returned"
          /\ UNCHANGED <<image, i, found, table, hashed, sum, digest, status>>
      BY <1>2 DEF ConfigureFails
    <2>2. RangeInv' BY <2>1, Stops DEF KernelInv
    <2>3. digest' \in BOOLEAN /\ status' \in Statuses
      BY <2>1 DEF KernelInv, ReasonInv, Kinds, Statuses
    <2>4. Fine => status' \notin {"unsupported", "out of resources"}
      BY <2>1 DEF KernelInv, ReasonInv, Accepted
    <2> QED BY <2>1, <2>2, <2>3, <2>4, ReasonKept DEF KernelInv
  <1>3. CASE PrepareImage
    BY <1>3, PreparedIsFresh, BegunAgain DEF KernelInv, RangeInv, Typed
  <1> QED BY <1>1, <1>2, <1>3, KernelSteps

\* Whatever the configuration file says, the fields of the setup header are
\* written inside the buffer of the kernel (kernel_config.c:149-168).
THEOREM WrittenInside == KernelSpec => []PatchInside
  BY KernelInvInit, KernelInvNext, PatchInvImplies, PTL DEF KernelSpec, KernelInv

\* Whatever the image and the configuration file are, the program keeps to its
\* state; an image whose headers are as a linker makes them, once the fields are
\* written, is not refused, and a configuration only for a line that cannot be
\* understood or an image without room for the header (MeasureBootPeCoff.c:138-598,
\* kernel_config.c:109-168).
THEOREM RefusedForReasonOnly == KernelSpec => []KernelRefusedForReason
  <1>1. KernelInv => KernelRefusedForReason
    BY ReasonImplies, ConfigInvImplies DEF KernelRefusedForReason, KernelInv
  <1> QED BY <1>1, KernelInvInit, KernelInvNext, PTL DEF KernelSpec

\* What is hashed of a kernel, whatever headers the fields are written over, lies
\* in its file and is nothing the format leaves out, below 4 GiB and beyond if a
\* UINT32 holds the place of its section table (MeasureBootPeCoff.c:1034-1263).
THEOREM KernelAllowedOnly == KernelSpec => []HashedAllowed
  <1>1. KernelInv => HashedAllowed BY RangeInvImplies DEF KernelInv
  <1> QED BY <1>1, KernelInvInit, KernelInvNext, PTL DEF KernelSpec

-----------------------------------------------------------------------------
(* Ranges joined *)

\* What Joined does with one more range.
Joining(rs, r) ==
  IF r[1] = r[2] THEN rs
  ELSE IF rs # <<>> /\ Last(rs)[2] = r[1]
  THEN Append(Front(rs), <<Last(rs)[1], r[2]>>)
  ELSE Append(rs, r)

Range2 == Nat \X Nat

\* The function behind Joined, and its value for the first k ranges.
JoinFunction(v) ==
  CHOOSE g : g = [s \in SUBSET DOMAIN v |-> IF s = {} THEN <<>> ELSE Joining(g[s \ {Max(s)}], v[Max(s)])]
JoinUpTo(v, k) == JoinFunction(v)[1 .. k]

LEMMA FrontAndLast ==
  ASSUME NEW rs \in Seq(Range2), rs # <<>>
  PROVE  /\ Front(rs) \in Seq(Range2) /\ Len(Front(rs)) = Len(rs) - 1 /\ Last(rs) \in Range2
         /\ \A j \in 1 .. Len(rs) - 1 : Front(rs)[j] = rs[j]
  <1>1. Len(rs) \in Nat \ {0} /\ \A j \in 1 .. Len(rs) : rs[j] \in Range2
    <2> DEFINE R == Range2
    <2>1. rs \in Seq(R) /\ rs # <<>> OBVIOUS
    <2> HIDE DEF R
    <2>2. Len(rs) \in Nat \ {0} /\ \A j \in 1 .. Len(rs) : rs[j] \in R BY <2>1
    <2> QED BY <2>2 DEF R
  <1>2. Front(rs) = SubSeq(rs, 1, Len(rs) - 1) /\ Last(rs) = rs[Len(rs)] BY DEF Front, Last
  <1> DEFINE m == Len(rs) - 1
             front == SubSeq(rs, 1, m)
  <1>3. m \in Nat /\ \A j \in 1 .. m : j \in 1 .. Len(rs) BY <1>1
  <1>4. front \in Seq(Range2) /\ Len(front) = m /\ \A j \in 1 .. m : front[j] = rs[j]
    <2>1. (\A j \in 1 .. m : rs[j] \in Range2) /\ 1 \in Int /\ m \in Int BY <1>1, <1>3
    <2> HIDE DEF m
    <2>2. front \in Seq(Range2) /\ Len(front) = (IF 1 <= m THEN m - 1 + 1 ELSE 0)
          /\ \A j \in 1 .. m - 1 + 1 : front[j] = rs[1 + j - 1] BY <2>1, SubSeqProperties
    <2> HIDE DEF front
    <2>3. Len(front) = m BY <1>3, <2>2, SMT
    <2>4. ASSUME NEW j \in 1 .. m PROVE front[j] = rs[j]
      <3>1. j \in 1 .. m - 1 + 1 /\ 1 + j - 1 = j BY <1>3, <2>4, SMT
      <3> QED BY <2>2, <3>1
    <2> QED BY <2>2, <2>3, <2>4
  <1>5. Last(rs) \in Range2 BY <1>1, <1>2
  <1> QED BY <1>2, <1>4, <1>5

LEMMA AppendFrontLast ==
  ASSUME NEW rs \in Seq(Range2), NEW a \in Nat, NEW b \in Nat
  PROVE  /\ Append(rs, <<a, b>>) # <<>>
         /\ Last(Append(rs, <<a, b>>)) = <<a, b>>
         /\ Front(Append(rs, <<a, b>>)) = rs
  <1> DEFINE r == <<a, b>>
             n == Len(rs)
             s == Append(rs, r)
  <1>1. r \in Range2 /\ n \in Nat BY DEF Range2
  <1> HIDE DEF r
  <1>2. /\ s \in Seq(Range2) /\ Len(s) = n + 1 /\ s[n + 1] = r /\ s # <<>>
        /\ \A j \in 1 .. n : s[j] = rs[j] BY <1>1
  <1>3. Last(s) = r BY <1>2 DEF Last
  <1>4. Front(s) \in Seq(Range2) /\ Len(Front(s)) = n /\ \A j \in 1 .. n : Front(s)[j] = rs[j]
    <2>1. Front(s) \in Seq(Range2) /\ Len(Front(s)) = Len(s) - 1
          /\ \A j \in 1 .. Len(s) - 1 : Front(s)[j] = s[j]
      <3> HIDE DEF s
      <3> QED BY <1>2, FrontAndLast
    <2>2. Len(s) - 1 = n BY <1>1, <1>2
    <2> QED BY <1>2, <2>1, <2>2
  <1>5. Front(s) = rs
    <2> DEFINE front == Front(s)
    <2>1. front \in Seq(Range2) /\ Len(front) = Len(rs) /\ \A j \in 1 .. Len(rs) : front[j] = rs[j]
      BY <1>4
    <2> HIDE DEF front
    <2> QED BY <2>1, SeqEqual DEF front
  <1> QED BY <1>2, <1>3, <1>5 DEF r

LEMMA JoiningType ==
  ASSUME NEW rs \in Seq(Range2), NEW r \in Range2
  PROVE  Joining(rs, r) \in Seq(Range2)
  <1>1. CASE rs # <<>>
    <2>1. Front(rs) \in Seq(Range2) /\ Last(rs) \in Range2 BY <1>1, FrontAndLast
    <2>2. <<Last(rs)[1], r[2]>> \in Range2 BY <2>1 DEF Range2
    <2> QED BY <1>1, <2>1, <2>2 DEF Joining
  <1>2. CASE rs = <<>> BY <1>2 DEF Joining
  <1> QED BY <1>1, <1>2

LEMMA JoinRecursion ==
  ASSUME NEW v \in Seq(Range2)
  PROVE  /\ JoinUpTo(v, 0) = <<>>
         /\ \A k \in 1 .. Len(v) : JoinUpTo(v, k) = Joining(JoinUpTo(v, k - 1), v[k])
         /\ \A k \in 0 .. Len(v) : JoinUpTo(v, k) \in Seq(Range2)
         /\ Joined(v) = JoinUpTo(v, Len(v))
  <1> DEFINE n == Len(v)
             A == Seq(Range2)
             F == [p \in A \X (1 .. n) |-> Joining(p[1], v[p[2]])]
             value(g, s) == IF s = {} THEN <<>> ELSE Joining(g[s \ {Max(s)}], v[Max(s)])
             f == JoinFunction(v)
  <1>1. n \in Nat /\ DOMAIN v = 1 .. n /\ <<>> \in A OBVIOUS
  <1>2. \A k \in 1 .. n : v[k] \in Range2 BY <1>1
  <1>3. F \in [A \X (1 .. n) -> A]
    <2> HIDE DEF n, A
    <2>1. ASSUME NEW p \in A \X (1 .. n) PROVE Joining(p[1], v[p[2]]) \in A
      <3>1. p[1] \in A /\ p[2] \in 1 .. n OBVIOUS
      <3> QED BY <1>2, <3>1, JoiningType DEF A
    <2> QED BY <2>1, Zenon
  <1>0. Joined(v) = f[1 .. n]
    <2>1. Joined(v) = f[DOMAIN v]
      BY Zenon DEF FoldLeft, MapThenFoldSet, JoinFunction, Joining, Joined
    <2> QED BY <1>1, <2>1
  <1> HIDE DEF n, F, A
  <1>4. PICK g \in [SUBSET (1 .. n) -> A] : IsFold(g, F, <<>>, n) BY <1>1, <1>3, FoldExists
  <1>5. g = [s \in SUBSET (1 .. n) |-> value(g, s)]
    <2>1. ASSUME NEW s \in SUBSET (1 .. n), s # {}
          PROVE  F[<<g[s \ {Max(s)}], Max(s)>>] = Joining(g[s \ {Max(s)}], v[Max(s)])
      <3>1. Max(s) \in 1 .. n BY <1>1, <2>1, MaxIs
      <3>2. g[s \ {Max(s)}] \in A OBVIOUS
      <3> DEFINE p == <<g[s \ {Max(s)}], Max(s)>>
      <3>3. p \in A \X (1 .. n) /\ p[1] = g[s \ {Max(s)}] /\ p[2] = Max(s) BY <3>1, <3>2
      <3> HIDE DEF p
      <3>4. F[p] = Joining(p[1], v[p[2]]) BY <3>3, Zenon DEF F
      <3> QED BY <3>3, <3>4, Zenon DEF p
    <2>2. g = [s \in SUBSET (1 .. n) |-> IF s = {} THEN <<>> ELSE F[<<g[s \ {Max(s)}], Max(s)>>]]
      BY <1>4, Zenon DEF IsFold
    <2> QED BY <2>1, <2>2, Zenon
  <1>6. f = [s \in SUBSET (1 .. n) |-> value(f, s)] BY <1>1, <1>5, Zenon DEF JoinFunction
  <1>7. f[1 .. 0] = <<>>
    <2>1. 1 .. 0 = {} /\ {} \in SUBSET (1 .. n) OBVIOUS
    <2> HIDE DEF f
    <2> QED BY <1>6, <2>1, Zenon
  <1>8. ASSUME NEW k \in 1 .. n PROVE f[1 .. k] = Joining(f[1 .. k - 1], v[k])
    <2>1. 1 .. k \in SUBSET (1 .. n) /\ 1 .. k # {} /\ Max(1 .. k) = k /\ (1 .. k) \ {k} = 1 .. k - 1
      BY <1>1, FoldUnfolds
    <2> HIDE DEF f
    <2>2. f[1 .. k] = value(f, 1 .. k) BY <1>6, <2>1, Zenon
    <2> QED BY <2>1, <2>2, Zenon
  <1>9. \A k \in 0 .. n : f[1 .. k] \in A
    <2> DEFINE S == {k \in 0 .. n : f[1 .. k] \in A}
    <2>1. 0 \in S BY <1>1, <1>7
    <2> HIDE DEF f
    <2>2. ASSUME NEW k \in 0 .. n - 1, k \in S PROVE k + 1 \in S
      <3>1. k + 1 \in 1 .. n /\ k + 1 \in 0 .. n /\ (k + 1) - 1 = k BY <1>1
      <3>2. f[1 .. k + 1] = Joining(f[1 .. k], v[k + 1]) BY <1>8, <3>1
      <3>3. f[1 .. k] \in A /\ v[k + 1] \in Range2 BY <1>2, <2>2, <3>1
      <3>4. f[1 .. k + 1] \in A BY <3>2, <3>3, JoiningType DEF A
      <3> QED BY <3>1, <3>4
    <2>3. \A k \in 0 .. n : k \in S
      <3> HIDE DEF S
      <3> QED BY <1>1, <2>1, <2>2, InductionUpTo
    <2> QED BY <2>3
  <1> QED BY <1>0, <1>7, <1>8, <1>9, Zenon DEF JoinUpTo, n, A

\* A range behind others is joined to what they give.
LEMMA JoinedBehind ==
  ASSUME NEW v \in Seq(Range2), NEW r \in Range2
  PROVE  /\ v \o <<r>> \in Seq(Range2)
         /\ Joined(v \o <<r>>) = Joining(Joined(v), r)
         /\ Joined(v) \in Seq(Range2)
  <1> DEFINE n == Len(v)
             w == v \o <<r>>
             S == {k \in 0 .. n : JoinUpTo(w, k) = JoinUpTo(v, k)}
  <1>1. /\ n \in Nat /\ w \in Seq(Range2) /\ Len(w) = n + 1 /\ w[n + 1] = r
        /\ \A j \in 1 .. n : w[j] = v[j] OBVIOUS
  <1> HIDE DEF w
  <1>2. /\ JoinUpTo(v, 0) = <<>> /\ Joined(v) = JoinUpTo(v, n) /\ Joined(v) \in Seq(Range2)
        /\ \A k \in 1 .. n : JoinUpTo(v, k) = Joining(JoinUpTo(v, k - 1), v[k])
    <2>1. n \in 0 .. Len(v) BY <1>1
    <2>2. JoinUpTo(v, n) \in Seq(Range2) BY <2>1, JoinRecursion
    <2> QED BY <2>2, JoinRecursion
  <1> HIDE DEF n
  <1>3. /\ JoinUpTo(w, 0) = <<>> /\ Joined(w) = JoinUpTo(w, n + 1)
        /\ \A k \in 1 .. n + 1 : JoinUpTo(w, k) = Joining(JoinUpTo(w, k - 1), w[k])
    BY <1>1, JoinRecursion
  <1>4. 0 \in S BY <1>1, <1>2, <1>3
  <1>5. ASSUME NEW k \in 0 .. n - 1, k \in S PROVE k + 1 \in S
    <2>1. k + 1 \in 1 .. n /\ k + 1 \in 1 .. n + 1 /\ k + 1 \in 0 .. n /\ (k + 1) - 1 = k
      BY <1>1
    <2>2. JoinUpTo(w, k + 1) = Joining(JoinUpTo(w, k), w[k + 1]) BY <1>3, <2>1
    <2>3. JoinUpTo(v, k + 1) = Joining(JoinUpTo(v, k), v[k + 1]) BY <1>2, <2>1
    <2>4. JoinUpTo(w, k) = JoinUpTo(v, k) /\ w[k + 1] = v[k + 1] BY <1>1, <1>5, <2>1
    <2> QED BY <2>1, <2>2, <2>3, <2>4
  <1>6. \A k \in 0 .. n : k \in S
    <2> HIDE DEF S
    <2> QED BY <1>1, <1>4, <1>5, InductionUpTo
  <1>7. n \in S /\ n + 1 \in 1 .. n + 1 /\ (n + 1) - 1 = n BY <1>1, <1>6
  <1>8. Joined(w) = Joining(JoinUpTo(w, n), w[n + 1]) BY <1>3, <1>7
  <1>9. Joined(w) = Joining(Joined(v), r) BY <1>1, <1>2, <1>7, <1>8
  <1> QED BY <1>1, <1>2, <1>9 DEF w

\* Two ranges next to each other are joined as one.
LEMMA JoinedTogether ==
  ASSUME NEW rs \in Seq(Range2), NEW a \in Nat, NEW b \in Nat, NEW c \in Nat, a <= b, b <= c
  PROVE  Joining(Joining(rs, <<a, b>>), <<b, c>>) = Joining(rs, <<a, c>>)
  <1> DEFINE one == Joining(rs, <<a, b>>)
  <1>1. CASE a = b BY <1>1 DEF Joining
  <1>2. CASE b = c BY <1>2 DEF Joining
  <1>3. CASE a # b /\ b # c
    <2>0. a # c BY <1>3
    <2>1. CASE rs # <<>> /\ Last(rs)[2] = a
      <3> DEFINE front == Front(rs)
                 l == Last(rs)[1]
      <3>1. front \in Seq(Range2) /\ l \in Nat BY <2>1, FrontAndLast DEF Range2
      <3>2. one = Append(front, <<l, b>>) /\ Joining(rs, <<a, c>>) = Append(front, <<l, c>>)
        BY <1>3, <2>0, <2>1 DEF Joining
      <3> HIDE DEF front, l
      <3>3. Append(front, <<l, b>>) # <<>> /\ Last(Append(front, <<l, b>>)) = <<l, b>>
            /\ Front(Append(front, <<l, b>>)) = front BY <3>1, AppendFrontLast
      <3>4. one # <<>> /\ Last(one) = <<l, b>> /\ Front(one) = front BY <3>2, <3>3, Zenon
      <3>5. <<b, c>>[1] = b /\ <<b, c>>[2] = c /\ <<l, b>>[1] = l /\ <<l, b>>[2] = b OBVIOUS
      <3> HIDE DEF one
      <3>6. Joining(one, <<b, c>>) = Append(front, <<l, c>>)
        BY <1>3, <3>4, <3>5, Zenon DEF Joining
      <3> QED BY <3>2, <3>6, Zenon DEF one
    <2>2. CASE ~(rs # <<>> /\ Last(rs)[2] = a)
      <3>1. one = Append(rs, <<a, b>>) /\ Joining(rs, <<a, c>>) = Append(rs, <<a, c>>)
        BY <1>3, <2>0, <2>2 DEF Joining
      <3>2. Append(rs, <<a, b>>) # <<>> /\ Last(Append(rs, <<a, b>>)) = <<a, b>>
            /\ Front(Append(rs, <<a, b>>)) = rs BY AppendFrontLast
      <3>3. one # <<>> /\ Last(one) = <<a, b>> /\ Front(one) = rs BY <3>1, <3>2, Zenon
      <3>4. <<b, c>>[1] = b /\ <<b, c>>[2] = c /\ <<a, b>>[1] = a /\ <<a, b>>[2] = b OBVIOUS
      <3> HIDE DEF one
      <3>5. Joining(one, <<b, c>>) = Append(rs, <<a, c>>)
        BY <1>3, <3>3, <3>4, Zenon DEF Joining
      <3> QED BY <3>1, <3>5, Zenon DEF one
    <2> QED BY <2>1, <2>2
  <1> QED BY <1>1, <1>2, <1>3

-----------------------------------------------------------------------------
(* What is hashed of a tidy image *)

\* An image whose digest is exact: tidy, while no call of the hash fails.
Exact == "digest" \notin image.faults /\ Tidy

\* The headers of such an image lie behind its section table, so that a UINT32
\* holds the place of that table.
LEMMA ExactKnown ==
  ASSUME image \in Image, Exact
  PROVE  Known
  <1>1. image \in Image /\ TableAt <= image.headers BY DEF Exact, Tidy
  <1>2. TableAt \in Nat /\ image.headers \in 0 .. Max32 /\ Max32 \in Nat
    BY <1>1, TableNumbers, ImageFields, Max32Assumption DEF UInt32
  <1>3. TableAt <= Max32 BY <1>1, <1>2
  <1> QED BY <1>3, Zenon DEF Known, Told

LEMMA ExactLayout ==
  ASSUME RangeInv, pc \in Hashing, Exact
  PROVE  Layout
  <1>1. Known BY ExactKnown DEF RangeInv, Typed
  <1> QED BY <1>1, HashingImage, Zenon

\* The ranges in front of the one that ends the headers, and where it begins.
Fixed == IF HasSecurity THEN <<<<0, CheckSum>>, <<CheckSum + 4, SecurityEntry>>>> ELSE <<<<0, CheckSum>>>>
From == IF HasSecurity THEN SecurityEntry + DirectorySize ELSE CheckSum + 4

\* The image up to e, without the fields that are left out.
UpTo(e) == Fixed \o <<<<From, e>>>>
UpToSum == UpTo(sum)

\* What is hashed is, joined, the image up to the sum; at the end it is that of
\* the format.
Covering ==
  /\ pc \notin {"sort", "hash", "final", "returned", "crashed"} => hashed = <<>>
  /\ Exact /\ pc \in {"sort", "hash"} => Joined(hashed) = Joined(UpToSum)
  /\ Exact /\ pc = "final" => Joined(hashed) = Joined(Authenticode)
  /\ status # "" => pc = "returned"
  /\ Exact /\ status = "success" => digest /\ Joined(hashed) = Joined(Authenticode)

LEMMA CoveringImplies == Covering => HashedIsAuthenticode
  BY Zenon DEF Covering, Exact, HashedIsAuthenticode

LEMMA SameExact ==
  ASSUME image' = image
  PROVE  (Exact' <=> Exact) /\ Joined(Authenticode)' = Joined(Authenticode)
  <1>1. Exact' <=> Exact BY SameReferences DEF Exact
  <1>2. HasSecurity' = HasSecurity /\ CheckSum' = CheckSum /\ SecurityEntry' = SecurityEntry /\ CertSize' = CertSize
    BY SameReferences DEF HasSecurity, CheckSum, SecurityEntry, WithoutDirectories
  <1>3. Authenticode' = Authenticode BY <1>2 DEF Authenticode
  <1>4. Joined(Authenticode)' = Joined(Authenticode)
    BY <1>3, Zenon DEF Joined, FoldLeft, MapThenFoldSet
  <1> QED BY <1>1, <1>4

LEMMA SameUpTo ==
  ASSUME image' = image, NEW e, sum' = e
  PROVE  Joined(UpToSum)' = Joined(UpTo(e))
  <1>1. HasSecurity' = HasSecurity /\ CheckSum' = CheckSum /\ SecurityEntry' = SecurityEntry
    BY DEF HasSecurity, CheckSum, SecurityEntry, WithoutDirectories
  <1>2. UpToSum' = UpTo(e) BY <1>1, Zenon DEF UpToSum, UpTo, Fixed, From
  <1> QED BY <1>2, Zenon DEF Joined, FoldLeft, MapThenFoldSet

LEMMA SameJoined ==
  ASSUME NEW h, hashed' = h
  PROVE  Joined(hashed)' = Joined(h) BY Zenon DEF Joined, FoldLeft, MapThenFoldSet

LEMMA TwoOfThem ==
  ASSUME NEW S, NEW a \in S, NEW b \in S
  PROVE  <<a>> \o <<b>> = <<a, b>> /\ <<a>> \in Seq(S) /\ <<a, b>> \in Seq(S)
  <1> DEFINE v == <<a>>
             w == <<b>>
             u == v \o w
             x == <<a, b>>
  <1>1. /\ v \in Seq(S) /\ w \in Seq(S) /\ Len(v) = 1 /\ Len(w) = 1 /\ v[1] = a /\ w[1] = b
        /\ x \in Seq(S) /\ Len(x) = 2 /\ x[1] = a /\ x[2] = b OBVIOUS
  <1> HIDE DEF v, w, x
  <1>2. u \in Seq(S) /\ Len(u) = 2 /\ \A j \in 1 .. 2 : u[j] = IF j <= 1 THEN v[j] ELSE w[j - 1]
    BY <1>1, ConcatProperties
  <1> HIDE DEF u
  <1>3. \A j \in 1 .. 2 : u[j] = x[j] BY <1>1, <1>2
  <1>4. u = x BY <1>1, <1>2, <1>3, SeqEqual
  <1> QED BY <1>1, <1>4 DEF u, v, w, x

LEMMA ThreeOfThem ==
  ASSUME NEW S, NEW a \in S, NEW b \in S, NEW c \in S
  PROVE  <<a, b>> \o <<c>> = <<a, b, c>> /\ <<a, b, c>> \in Seq(S)
  <1> DEFINE v == <<a, b>>
             w == <<c>>
             u == v \o w
             x == <<a, b, c>>
  <1>1. /\ v \in Seq(S) /\ w \in Seq(S) /\ Len(v) = 2 /\ Len(w) = 1 /\ v[1] = a /\ v[2] = b /\ w[1] = c
        /\ x \in Seq(S) /\ Len(x) = 3 /\ x[1] = a /\ x[2] = b /\ x[3] = c OBVIOUS
  <1> HIDE DEF v, w, x
  <1>2. /\ u \in Seq(S) /\ Len(u) = Len(v) + Len(w)
        /\ \A j \in 1 .. Len(v) + Len(w) : u[j] = IF j <= Len(v) THEN v[j] ELSE w[j - Len(v)]
    <2> HIDE DEF u
    <2> QED BY <1>1, ConcatProperties, Zenon DEF u
  <1> HIDE DEF u
  <1>3. Len(u) = 3 /\ \A j \in 1 .. 3 : u[j] = x[j] BY <1>1, <1>2
  <1>4. u = x BY <1>1, <1>2, <1>3, SeqEqual
  <1> QED BY <1>1, <1>4 DEF u, v, w, x

\* The headers are what HashHeaders hashes, the whole what the format demands.
LEMMA UpToIs ==
  ASSUME Layout, NEW e \in Nat
  PROVE  /\ UpTo(e) = IF HasSecurity
                      THEN <<<<0, CheckSum>>, <<CheckSum + 4, SecurityEntry>>, <<SecurityEntry + DirectorySize, e>>>>
                      ELSE <<<<0, CheckSum>>, <<CheckSum + 4, e>>>>
         /\ UpTo(e) \in Seq(Range2) /\ Fixed \in Seq(Range2) /\ From \in Nat /\ From <= image.headers
  <1>1. /\ CheckSum \in Nat /\ SecurityEntry \in Nat /\ CheckSum + 4 \in Nat /\ SecurityEntry + DirectorySize \in Nat
        /\ From \in Nat /\ From <= image.headers /\ 0 \in Nat
    BY DEF Layout, DirectorySize, From
  <1> DEFINE a == <<0, CheckSum>>
             b == <<CheckSum + 4, SecurityEntry>>
             c == <<SecurityEntry + DirectorySize, e>>
             d == <<CheckSum + 4, e>>
  <1>2. a \in Range2 /\ b \in Range2 /\ c \in Range2 /\ d \in Range2 BY <1>1 DEF Range2
  <1>3. UpTo(e) = IF HasSecurity THEN <<a, b>> \o <<c>> ELSE <<a>> \o <<d>>
    BY Zenon DEF UpTo, Fixed, From
  <1>4. Fixed = IF HasSecurity THEN <<a, b>> ELSE <<a>> BY Zenon DEF Fixed
  <1> HIDE DEF a, b, c, d
  <1>5. /\ <<a, b>> \o <<c>> = <<a, b, c>> /\ <<a>> \o <<d>> = <<a, d>>
        /\ <<a, b>> \in Seq(Range2) /\ <<a>> \in Seq(Range2)
        /\ <<a, b, c>> \in Seq(Range2) /\ <<a, d>> \in Seq(Range2)
    <2>1. <<a, b>> \o <<c>> = <<a, b, c>> /\ <<a, b, c>> \in Seq(Range2)
      BY <1>2, ThreeOfThem, Zenon
    <2>2. <<a>> \o <<d>> = <<a, d>> /\ <<a, d>> \in Seq(Range2) BY <1>2, TwoOfThem, Zenon
    <2>3. <<a>> \in Seq(Range2) /\ <<a, b>> \in Seq(Range2) BY <1>2, TwoOfThem, Zenon
    <2> QED BY <2>1, <2>2, <2>3, Zenon
  <1>6. /\ UpTo(e) = IF HasSecurity THEN <<a, b, c>> ELSE <<a, d>>
        /\ UpTo(e) \in Seq(Range2) /\ Fixed \in Seq(Range2) BY <1>3, <1>4, <1>5, Zenon
  <1> QED BY <1>1, <1>6, Zenon DEF a, b, c, d

\* A range behind the headers takes the image further.
LEMMA GoesFurther ==
  ASSUME Layout, NEW h \in Seq(Range2), NEW e \in Nat, NEW n \in Nat,
         image.headers <= e, e <= n, Joined(h) = Joined(UpTo(e))
  PROVE  Joined(h \o <<<<e, n>>>>) = Joined(UpTo(n))
  <1> DEFINE r == <<From, e>>
             s == <<From, n>>
             t == <<e, n>>
  <1>1. From \in Nat /\ From <= e /\ Fixed \in Seq(Range2)
    <2>1. From \in Nat /\ From <= image.headers /\ Fixed \in Seq(Range2) BY UpToIs, Zenon
    <2>2. image.headers \in Nat BY DEF Layout
    <2> QED BY <2>1, <2>2
  <1>2. r \in Range2 /\ s \in Range2 /\ t \in Range2 BY <1>1 DEF Range2
  <1>3. UpTo(e) = Fixed \o <<r>> /\ UpTo(n) = Fixed \o <<s>> BY DEF UpTo
  <1>4. Joining(Joining(Joined(Fixed), r), t) = Joining(Joined(Fixed), s)
    <2>1. Joined(Fixed) \in Seq(Range2) BY <1>1, <1>2, JoinedBehind
    <2> QED BY <1>1, <2>1, JoinedTogether
  <1> HIDE DEF r, s, t
  <1>5. Joined(UpTo(e)) = Joining(Joined(Fixed), r) /\ Joined(UpTo(n)) = Joining(Joined(Fixed), s)
    BY <1>1, <1>2, <1>3, JoinedBehind
  <1>6. Joined(h \o <<t>>) = Joining(Joined(h), t) BY <1>2, JoinedBehind
  <1>7. Joined(h \o <<t>>) = Joined(UpTo(n)) BY <1>4, <1>5, <1>6, Zenon
  <1> QED BY <1>7 DEF t

\* Without a fault everything given to the hash is hashed.
LEMMA HashesAll ==
  ASSUME Exact, NEW ranges \in Seq(Range2), Hash(ranges)
  PROVE  hashed' = hashed \o ranges
  <1>1. PICK lost \in {{}} :
          hashed' = hashed \o [k \in DOMAIN ranges |-> IF k \in lost THEN Nothing ELSE ranges[k]]
    BY DEF Hash, Exact
  <1>2. [k \in DOMAIN ranges |-> IF k \in lost THEN Nothing ELSE ranges[k]] = [k \in DOMAIN ranges |-> ranges[k]]
    BY <1>1
  <1>3. [k \in DOMAIN ranges |-> ranges[k]] = ranges BY DEF Range2
  <1> QED BY <1>1, <1>2, <1>3

LEMMA CoverStarts == Begun => Covering
  <1> SUFFICES ASSUME Begun PROVE Covering OBVIOUS
  <1>1. pc \in {"load", "headers"} /\ status = "" /\ hashed = <<>> BY DEF Begun
  <1>2. pc \notin {"sort", "hash", "final", "returned", "crashed"} BY <1>1
  <1> QED BY <1>1, <1>2, Zenon DEF Covering

LEMMA CoverAgain == Begun' => Covering'
  BY CoverStarts, PTL

\* A call that ends without a digest.
LEMMA CoverStops ==
  ASSUME pc' \in {"returned", "crashed"}, status' # "success", status' = "" \/ pc' = "returned"
  PROVE  Covering' BY Zenon DEF Covering

LEMMA CoverRefused ==
  ASSUME Covering, pc # "returned", Refuse
  PROVE  Covering'
  <1>1. status = "" BY Zenon DEF Covering
  <1>2. CASE Crash BY <1>1, <1>2, CoverStops DEF Crash
  <1>3. CASE Return("unsupported") BY <1>3, CoverStops DEF Return
  <1> QED BY <1>2, <1>3 DEF Refuse

\* In front of the hashing nothing is hashed.
LEMMA CoverBefore ==
  ASSUME Covering, pc \notin {"sort", "hash", "final", "returned", "crashed"},
         pc' \notin {"sort", "hash", "final", "returned", "crashed"}, UNCHANGED <<hashed, status>>
  PROVE  Covering'
  <1>1. hashed' = <<>> /\ status' = "" BY Zenon DEF Covering
  <1> QED BY <1>1, Zenon DEF Covering

\* A step inside the hashing, given what it does to the hash.
LEMMA CoverHashes ==
  ASSUME Covering, pc \notin {"returned", "crashed"}, UNCHANGED <<image, status>>,
         NEW h, hashed' = h, NEW e, sum' = e,
         \/ pc' \in {"sort", "hash"} /\ (Exact => Joined(h) = Joined(UpTo(e)))
         \/ pc' = "final" /\ (Exact => Joined(h) = Joined(Authenticode))
  PROVE  Covering'
  <1>1. status' = "" /\ "" # "success" BY Zenon DEF Covering
  <1>2. (Exact' <=> Exact) /\ Joined(Authenticode)' = Joined(Authenticode) BY SameExact
  <1>3. Joined(hashed)' = Joined(h) BY SameJoined
  <1>4. Joined(UpToSum)' = Joined(UpTo(e)) BY SameUpTo
  <1>5. CASE pc' \in {"sort", "hash"} /\ (Exact => Joined(h) = Joined(UpTo(e)))
    <2>1. pc' # "final" /\ pc' \in {"sort", "hash", "final", "returned", "crashed"} BY <1>5
    <2> QED BY <1>1, <1>2, <1>3, <1>4, <1>5, <2>1, Zenon DEF Covering
  <1>6. CASE pc' = "final" /\ (Exact => Joined(h) = Joined(Authenticode))
    <2>1. pc' \notin {"sort", "hash"} /\ pc' \in {"sort", "hash", "final", "returned", "crashed"}
      BY <1>6
    <2> QED BY <1>1, <1>2, <1>3, <1>4, <1>6, <2>1, Zenon DEF Covering
  <1> QED BY <1>5, <1>6

LEMMA CoverLoad ==
  ASSUME RangeInv, Covering, LoadPeImage
  PROVE  Covering'
  <1>1. CASE LoadFails BY <1>1, CoverStops DEF LoadFails, Return
  <1>2. CASE Load BY <1>2, CoverBefore DEF Load, Goto
  <1> QED BY <1>1, <1>2 DEF LoadPeImage

LEMMA CoverInfo ==
  ASSUME Covering, GetImageInfo \/ Measure
  PROVE  Covering'
  <1>1. /\ pc \in {"headers", "sections", "search", "debug", "measure"}
        /\ \/ Refuse
           \/ /\ pc' \in {"headers", "sections", "search", "debug", "measure", "context"}
              /\ UNCHANGED <<hashed, status>>
    BY DEF GetImageInfo, GetPeHeader, CheckSection, SectionsChecked, SearchDebug, Searched, ReadDebugEntry,
       SearchFails, Measure, Goto
  <1> QED BY <1>1, CoverRefused, CoverBefore

LEMMA CoverHeaders ==
  ASSUME RangeInv, Covering, HashHeaders
  PROVE  Covering'
  <1>1. /\ pc = "context" /\ pc' = "sort" /\ sum' = image.headers /\ UNCHANGED <<image, status>>
        /\ Hash(HeaderRanges) BY DEF HashHeaders
  <1>2. image.headers \in Nat BY ImageNumbers DEF RangeInv, Typed
  <1>3. hashed = <<>> BY <1>1, Zenon DEF Covering
  <1>4. Exact => hashed' = UpTo(image.headers)
    <2> SUFFICES ASSUME Exact PROVE hashed' = UpTo(image.headers) OBVIOUS
    <2>1. Layout BY <1>1, ExactLayout DEF Hashing
    <2>2. HeaderRanges = UpTo(image.headers) /\ UpTo(image.headers) \in Seq(Range2)
      BY <1>2, <2>1, UpToIs, Zenon DEF HeaderRanges
    <2>3. hashed' = <<>> \o UpTo(image.headers) BY <1>1, <1>3, <2>2, HashesAll
    <2> QED BY <2>2, <2>3
  <1> DEFINE h == hashed'
  <1>5. Exact => Joined(h) = Joined(UpTo(image.headers)) BY <1>4, Zenon
  <1> HIDE DEF h
  <1>6. hashed' = h BY DEF h
  <1> QED BY <1>1, <1>5, <1>6, CoverHashes

LEMMA CoverSort ==
  ASSUME RangeInv, Covering, SortSection \/ Sorted
  PROVE  Covering'
  <1>1. pc = "sort" /\ pc' \in {"sort", "hash"} /\ UNCHANGED <<image, status, hashed, sum>>
    BY DEF SortSection, Sorted, Goto
  <1>2. Exact => Joined(hashed) = Joined(UpTo(sum)) BY <1>1, Zenon DEF Covering, UpToSum
  <1> QED BY <1>1, <1>2, CoverHashes

LEMMA CoverSection ==
  ASSUME RangeInv, ReasonInv, Covering, HashSection
  PROVE  Covering'
  <1> DEFINE s == table[i]
             n == sum + s.raw
  <1>1. /\ pc = "hash" /\ pc' = "hash" /\ i <= N /\ sum' = n /\ UNCHANGED <<image, status>>
        /\ IF s.raw = 0 THEN hashed' = hashed ELSE Hash(<<<<s.ptr, s.ptr + s.raw>>>>)
    BY DEF HashSection, DataOf
  <1>2. /\ image \in Image /\ i \in 1 .. N /\ sum \in Nat /\ sum >= image.headers /\ image.headers \in Nat
        /\ hashed \in Seq(Range2) BY <1>1, ImageNumbers DEF RangeInv, Typed, Sorting, Range2
  <1>3. SortedOf(table, N) /\ sum = image.headers + SumUpTo(table, i - 1)
    BY <1>1 DEF ReasonInv, Summing
  <1>4. s.ptr \in Nat /\ s.raw \in Nat
    <2>1. table \in Seq(Section) /\ i \in 1 .. Len(table) BY <1>2, <1>3 DEF SortedOf
    <2>2. s \in Section BY <2>1
    <2> HIDE DEF s
    <2> QED BY <2>2, SectionFields
  <1>5. Exact => Joined(hashed) = Joined(UpTo(sum)) BY <1>1, Zenon DEF Covering, UpToSum
  <1> DEFINE h == hashed'
  <1>6. Exact => Joined(h) = Joined(UpTo(n))
    <2> SUFFICES ASSUME Exact PROVE Joined(h) = Joined(UpTo(n)) OBVIOUS
    <2>1. CASE s.raw = 0
      <3>1. n = sum /\ h = hashed BY <1>1, <1>2, <2>1
      <3> QED BY <1>5, <3>1, Zenon
    <2>2. CASE s.raw # 0
      <3>1. s.ptr = sum
        <4>1. s.raw > 0 BY <1>4, <2>2
        <4> QED BY <1>2, <1>3, <4>1, TidyInPlace DEF Exact
      <3> DEFINE r == <<sum, n>>
      <3>2. Hash(<<r>>) BY <1>1, <2>2, <3>1
      <3>3. n \in Nat /\ sum <= n /\ image.headers <= sum BY <1>2, <1>4
      <3> HIDE DEF n, s
      <3>4. r \in Range2 BY <1>2, <3>3 DEF Range2
      <3>5. <<r>> \in Seq(Range2)
        <4> HIDE DEF r
        <4> QED BY <3>4, TwoOfThem, Zenon
      <3>6. h = hashed \o <<r>> BY <3>2, <3>5, HashesAll, Zenon
      <3>7. Joined(hashed \o <<r>>) = Joined(UpTo(n))
        <4>1. Layout BY <1>1, ExactLayout DEF Hashing
        <4> QED BY <1>2, <1>5, <3>3, <4>1, GoesFurther
      <3> QED BY <3>6, <3>7, Zenon
    <2> QED BY <2>1, <2>2
  <1> HIDE DEF h, n, s
  <1>7. hashed' = h BY DEF h
  <1> QED BY <1>1, <1>6, <1>7, CoverHashes

LEMMA CoverTail ==
  ASSUME RangeInv, ReasonInv, Covering, HashTail
  PROVE  Covering'
  <1> DEFINE e == image.size - CertSize
             h == hashed'
  <1>1. pc = "hash" /\ i > N BY DEF HashTail
  <1>2. CASE Return("unsupported") BY <1>2, CoverStops DEF Return
  <1>3. CASE /\ image.size <= sum \/ Rest >= 0
             /\ IF image.size > sum THEN Hash(<<<<sum, sum + Rest>>>>) ELSE hashed' = hashed
             /\ pc' = "final" /\ UNCHANGED <<image, sum, status>>
    <2>1. /\ image \in Image /\ sum \in Nat /\ sum >= image.headers /\ hashed \in Seq(Range2)
          /\ image.headers \in Nat /\ image.size \in Nat /\ CertSize \in Nat
      <3>1. /\ image \in Image /\ sum \in Nat /\ sum >= image.headers /\ hashed \in Seq(Range2)
        BY <1>1 DEF RangeInv, Typed, Sorting, Range2
      <3>2. image.headers \in Nat /\ image.size \in Nat /\ image.security.size \in Nat
        BY <3>1, ImageNumbers
      <3> QED BY <3>1, <3>2 DEF CertSize
    <2>0. Exact => Layout BY <1>1, ExactLayout DEF Hashing
    <2>2. sum = DataEnd BY <1>1, SumsToDataEnd
    <2>3. Exact => sum + CertSize <= image.size BY <2>2 DEF Exact, Tidy
    <2>4. Exact => Joined(hashed) = Joined(UpTo(sum)) BY <1>1, Zenon DEF Covering, UpToSum
    <2>5. Exact => e \in Nat /\ sum <= e BY <2>1, <2>3
    <2>6. ASSUME Exact PROVE Joined(h) = Joined(UpTo(e))
      <3>1. CASE image.size <= sum
        <4>1. e = sum /\ h = hashed BY <1>3, <2>1, <2>3, <2>6, <3>1
        <4> QED BY <2>4, <2>6, <4>1, Zenon
      <3>2. CASE image.size > sum
        <4> DEFINE r == <<sum, e>>
        <4>1. Hash(<<<<sum, sum + Rest>>>>) BY <1>3, <2>1, <3>2
        <4>2. sum + Rest = e BY <2>1 DEF Rest
        <4>3. Hash(<<r>>) BY <4>1, <4>2, Zenon
        <4>4. e \in Nat /\ sum <= e /\ image.headers <= sum BY <2>1, <2>5, <2>6
        <4> HIDE DEF e
        <4>5. r \in Range2 BY <2>1, <4>4 DEF Range2
        <4>6. <<r>> \in Seq(Range2)
          <5> HIDE DEF r
          <5> QED BY <4>5, TwoOfThem, Zenon
        <4>7. h = hashed \o <<r>> BY <2>6, <4>3, <4>6, HashesAll, Zenon
        <4>8. Joined(hashed \o <<r>>) = Joined(UpTo(e))
          BY <2>0, <2>1, <2>4, <2>6, <4>4, GoesFurther
        <4> QED BY <4>7, <4>8, Zenon
      <3> QED BY <2>1, <3>1, <3>2
    <2>7. Exact => UpTo(e) = Authenticode
      <3> SUFFICES ASSUME Exact PROVE UpTo(e) = Authenticode OBVIOUS
      <3>1. e \in Nat BY <2>5
      <3>2. Authenticode = IF HasSecurity
                           THEN <<<<0, CheckSum>>, <<CheckSum + 4, SecurityEntry>>, <<SecurityEntry + DirectorySize, e>>>>
                           ELSE <<<<0, CheckSum>>, <<CheckSum + 4, e>>>>
        BY Zenon DEF Authenticode
      <3> HIDE DEF e
      <3> QED BY <2>0, <3>1, <3>2, UpToIs, Zenon
    <2>8. Exact => Joined(h) = Joined(Authenticode) BY <2>6, <2>7, Zenon
    <2> HIDE DEF h
    <2>9. hashed' = h BY DEF h
    <2> QED BY <1>1, <1>3, <2>8, <2>9, CoverHashes
  <1> QED BY <1>2, <1>3 DEF HashTail

LEMMA CoverEnd ==
  ASSUME Covering, NoContext \/ NoTable \/ Finalize
  PROVE  Covering'
  <1>1. CASE NoContext
    <2>1. pc' = "returned" /\ "digest" \in image.faults /\ image' = image
      BY <1>1 DEF NoContext, Return
    <2>2. ~Exact' BY <2>1 DEF Exact
    <2> QED BY <2>1, <2>2, Zenon DEF Covering
  <1>2. CASE NoTable BY <1>2, CoverStops DEF NoTable, Return
  <1>3. CASE Finalize
    <2>1. pc = "final" /\ pc' = "returned" /\ status' = "success" /\ UNCHANGED <<image, hashed>>
      BY <1>3 DEF Finalize
    <2>2. (Exact' <=> Exact) /\ Joined(Authenticode)' = Joined(Authenticode)
      BY <2>1, SameExact
    <2>3. Joined(hashed)' = Joined(hashed) BY <2>1, SameJoined
    <2>4. Exact => digest' BY <1>3, Zenon DEF Finalize, Exact
    <2>5. Exact => Joined(hashed) = Joined(Authenticode) BY <2>1, Zenon DEF Covering
    <2> QED BY <2>1, <2>2, <2>3, <2>4, <2>5, Zenon DEF Covering
  <1> QED BY <1>1, <1>2, <1>3

LEMMA CoverStutter ==
  ASSUME Covering, UNCHANGED vars
  PROVE  Covering'
  <1>1. UNCHANGED <<image, pc, hashed, sum, digest, status>> BY DEF vars
  <1>2. (Exact' <=> Exact) /\ Joined(Authenticode)' = Joined(Authenticode)
    BY <1>1, SameExact
  <1>3. Joined(hashed)' = Joined(hashed) BY <1>1, SameJoined
  <1>4. Joined(UpToSum)' = Joined(UpToSum) BY <1>1, SameUpTo, Zenon DEF UpToSum
  <1> QED BY <1>1, <1>2, <1>3, <1>4, Zenon DEF Covering

\* What is read beyond the file ends the process.
LEMMA CoverOverrun ==
  ASSUME Covering, HeadersOverrun \/ TableOverruns \/ SectionOverruns
  PROVE  Covering'
  <1>1. pc \in {"context", "sort", "hash"} /\ Crash
    BY DEF HeadersOverrun, TableOverruns, SectionOverruns, Overruns
  <1>2. status = "" /\ pc' = "crashed" /\ status' = status
    BY <1>1, Zenon DEF Covering, Crash
  <1> QED BY <1>2, CoverStops

LEMMA CoverNext ==
  RangeInv /\ ReasonInv /\ Covering /\ [Next]_vars => Covering'
  <1>1. RangeInv /\ ReasonInv /\ Covering /\ HashImage => Covering'
    BY CoverInfo, CoverHeaders, CoverSort, CoverSection, CoverTail, CoverEnd, CoverOverrun DEF HashImage
  <1> QED BY <1>1, CoverLoad, CoverInfo, CoverStutter DEF Next, Program, Terminated

LEMMA CoverKernel ==
  KernelInv /\ Covering /\ [KernelNext]_allVars => Covering'
  <1> SUFFICES ASSUME KernelInv, Covering, [KernelNext]_allVars PROVE Covering' OBVIOUS
  <1>1. CASE [Next]_vars BY <1>1, CoverNext DEF KernelInv
  <1>2. CASE ConfigureFails
    <2>1. pc = "headers" /\ pc' = "returned" /\ status' = status BY <1>2 DEF ConfigureFails
    <2>2. status' = "" BY <2>1, Zenon DEF Covering
    <2> QED BY <2>1, <2>2, CoverStops
  <1>3. CASE PrepareImage
    <2>1. Begun' BY <1>3, PreparedIsFresh DEF KernelInv, RangeInv, Typed
    <2> QED BY <2>1, CoverAgain
  <1> QED BY <1>1, <1>2, <1>3, KernelSteps

\* A tidy kernel is measured as its Authenticode digest demands, in whatever
\* order its section table is, while no call of the hash fails: everything is
\* hashed once and in the order of the file but for the checksum, the entry of
\* the certificate table and the table (MeasureBootPeCoff.c:1034-1271).
THEOREM MeasuredAsAuthenticode == KernelSpec => []HashedIsAuthenticode
  <1>1. KernelInit => Covering BY StartIsBegun, CoverStarts DEF KernelInit
  <1> QED BY <1>1, KernelInvInit, KernelInvNext, CoverKernel, CoveringImplies, PTL DEF KernelSpec

\* The same of the measurement on its own, whatever image it is given: it keeps
\* to its state, refuses none without a reason and hashes what the format demands
\* (MeasureBootPeCoff.c:138-1271).
THEOREM MeasuredOnItsOwn == Spec => [](TypeOK /\ RefusedForReason /\ HashedIsAuthenticode)
  <1>1. Init => ReasonInv /\ Covering
    BY ImagesAssumption, StartIsBegun, ReasonStarts, CoverStarts DEF Init
  <1> QED BY <1>1, RangeInit, RangeStep, ReasonImplies, ReasonNext, CoverNext, CoveringImplies, PTL DEF Spec

-----------------------------------------------------------------------------
(* What joined ranges cover *)

\* The position p lies in one of the first n ranges.
Inside(v, n, p) == \E j \in 1 .. n : v[j][1] <= p /\ p < v[j][2]
Ordered(v) == \A j \in 1 .. Len(v) : v[j][1] <= v[j][2]

LEMMA RangeNumbers ==
  ASSUME NEW v \in Seq(Range2), NEW j \in 1 .. Len(v)
  PROVE  v[j] \in Range2 /\ v[j][1] \in Nat /\ v[j][2] \in Nat
  <1>1. v[j] \in Range2
    <2> DEFINE R == Range2
    <2>1. v \in Seq(R) OBVIOUS
    <2> HIDE DEF R
    <2>2. v[j] \in R BY <2>1
    <2> QED BY <2>2 DEF R
  <1> QED BY <1>1 DEF Range2

LEMMA InsideAppend ==
  ASSUME NEW v \in Seq(Range2), NEW r \in Range2
  PROVE  /\ \A p : Inside(Append(v, r), Len(v) + 1, p) <=> Inside(v, Len(v), p) \/ (r[1] <= p /\ p < r[2])
         /\ Ordered(v) /\ r[1] <= r[2] => Ordered(Append(v, r))
         /\ Append(v, r) \in Seq(Range2) /\ Len(Append(v, r)) = Len(v) + 1
  <1> DEFINE n == Len(v)
             w == Append(v, r)
  <1>1. /\ n \in Nat /\ w \in Seq(Range2) /\ Len(w) = n + 1 /\ w[n + 1] = r /\ \A j \in 1 .. n : w[j] = v[j]
    <2> DEFINE R == Range2
    <2>1. v \in Seq(R) /\ r \in R OBVIOUS
    <2> HIDE DEF R
    <2>2. /\ n \in Nat /\ w \in Seq(R) /\ Len(w) = n + 1 /\ w[n + 1] = r /\ \A j \in 1 .. n : w[j] = v[j]
      BY <2>1
    <2> QED BY <2>2 DEF R
  <1> HIDE DEF n, w
  <1>2. /\ n + 1 \in 1 .. n + 1
        /\ \A j \in 1 .. n + 1 : j = n + 1 \/ j \in 1 .. n
        /\ \A j \in 1 .. n : j \in 1 .. n + 1 BY <1>1
  <1>3. \A p : Inside(w, n + 1, p) <=> Inside(v, n, p) \/ (r[1] <= p /\ p < r[2])
    BY <1>1, <1>2, Zenon DEF Inside
  <1>4. Ordered(v) /\ r[1] <= r[2] => Ordered(w) BY <1>1, <1>2, Zenon DEF Ordered, n
  <1> QED BY <1>1, <1>3, <1>4 DEF n, w

\* Joining a range adds its positions.
LEMMA JoiningCovers ==
  ASSUME NEW v \in Seq(Range2), NEW r \in Range2, Ordered(v), r[1] <= r[2]
  PROVE  /\ \A p \in Nat : Inside(Joining(v, r), Len(Joining(v, r)), p) <=> Inside(v, Len(v), p) \/ (r[1] <= p /\ p < r[2])
         /\ Ordered(Joining(v, r))
  <1>0. r[1] \in Nat /\ r[2] \in Nat BY DEF Range2
  <1>1. CASE r[1] = r[2]
    <2>1. Joining(v, r) = v BY <1>1 DEF Joining
    <2>2. \A p \in Nat : ~(r[1] <= p /\ p < r[2]) BY <1>0, <1>1
    <2> QED BY <2>1, <2>2, Zenon
  <1>2. CASE r[1] # r[2] /\ v # <<>> /\ Last(v)[2] = r[1]
    <2> DEFINE n == Len(v)
               front == Front(v)
               l == Last(v)
               s == <<l[1], r[2]>>
    <2>1. /\ Joining(v, r) = Append(front, s) /\ front \in Seq(Range2) /\ Len(front) = n - 1 /\ l \in Range2
          /\ \A j \in 1 .. n - 1 : front[j] = v[j] BY <1>2, FrontAndLast DEF Joining
    <2>2. /\ n \in Nat /\ n >= 1 /\ l = v[n] BY <1>2 DEF Last
    <2>3. l[1] \in Nat /\ l[2] = r[1] /\ l[1] <= l[2] /\ s \in Range2 /\ s[1] = l[1] /\ s[2] = r[2]
      <3>1. l[1] \in Nat /\ l[2] = r[1] BY <1>2, <2>1 DEF Range2
      <3>2. n \in 1 .. Len(v) BY <2>2
      <3>3. l[1] <= l[2] BY <2>2, <3>2, Zenon DEF Ordered
      <3> QED BY <1>0, <3>1, <3>3 DEF Range2
    <2> DEFINE m == n - 1
    <2>4. m \in Nat /\ m + 1 = n /\ n \in 1 .. n /\ (\A j \in 1 .. m : j \in 1 .. n) /\ \A j \in 1 .. n : j \in 1 .. m \/ j = n
      BY <2>2
    <2>5. Ordered(front)
      <3> SUFFICES ASSUME NEW j \in 1 .. Len(front) PROVE front[j][1] <= front[j][2]
        BY DEF Ordered
      <3>1. j \in 1 .. m BY <2>1
      <3>2. j \in 1 .. Len(v) /\ front[j] = v[j] BY <2>1, <2>4, <3>1
      <3> QED BY <3>2 DEF Ordered
    <2> HIDE DEF front, s, l, m, n
    <2>6. /\ \A p : Inside(Append(front, s), Len(front) + 1, p) <=> Inside(front, Len(front), p) \/ (s[1] <= p /\ p < s[2])
          /\ Ordered(front) /\ s[1] <= s[2] => Ordered(Append(front, s))
          /\ Len(Append(front, s)) = Len(front) + 1 BY <2>1, <2>3, InsideAppend
    <2>7. s[1] <= s[2] BY <1>0, <2>3
    <2>8. Len(front) = m BY <2>1 DEF m
    <2>9. ASSUME NEW p \in Nat
          PROVE  Inside(front, m, p) \/ (s[1] <= p /\ p < s[2]) <=> Inside(v, n, p) \/ (r[1] <= p /\ p < r[2])
      <3>1. Inside(v, n, p) <=> Inside(front, m, p) \/ (l[1] <= p /\ p < l[2])
        <4>1. \A j \in 1 .. m : front[j] = v[j] BY <2>1 DEF m
        <4> QED BY <2>2, <2>4, <4>1, Zenon DEF Inside
      <3>2. s[1] <= p /\ p < s[2] <=> (l[1] <= p /\ p < l[2]) \/ (r[1] <= p /\ p < r[2])
        BY <1>0, <2>3
      <3> QED BY <3>1, <3>2, Zenon
    <2> QED BY <2>1, <2>5, <2>6, <2>7, <2>8, <2>9, Zenon DEF n
  <1>3. CASE r[1] # r[2] /\ ~(v # <<>> /\ Last(v)[2] = r[1])
    <2>1. Joining(v, r) = Append(v, r) BY <1>3 DEF Joining
    <2> QED BY <2>1, InsideAppend
  <1> QED BY <1>1, <1>2, <1>3

\* What joined ranges cover is what the ranges do.
LEMMA JoinedCovers ==
  ASSUME NEW v \in Seq(Range2), Ordered(v), NEW p \in Nat
  PROVE  Inside(Joined(v), Len(Joined(v)), p) <=> Inside(v, Len(v), p)
  <1> DEFINE n == Len(v)
             f(k) == JoinUpTo(v, k)
             S == {k \in 0 .. n : Ordered(f(k)) /\ (Inside(f(k), Len(f(k)), p) <=> Inside(v, k, p))}
  <1>1. n \in Nat OBVIOUS
  <1>2. /\ f(0) = <<>> /\ Joined(v) = f(n)
        /\ \A k \in 1 .. n : f(k) = Joining(f(k - 1), v[k])
        /\ \A k \in 0 .. n : f(k) \in Seq(Range2) BY JoinRecursion
  <1> HIDE DEF f
  <1>3. 0 \in S
    <2>1. Len(f(0)) = 0 /\ 0 \in 0 .. n /\ \A j \in 1 .. 0 : FALSE BY <1>1, <1>2
    <2>2. Ordered(f(0)) /\ ~Inside(f(0), Len(f(0)), p) /\ ~Inside(v, 0, p)
      BY <2>1, Zenon DEF Ordered, Inside
    <2> QED BY <2>1, <2>2
  <1>4. ASSUME NEW k \in 0 .. n - 1, k \in S PROVE k + 1 \in S
    <2>1. k + 1 \in 1 .. n /\ k + 1 \in 0 .. n /\ k \in 0 .. n /\ (k + 1) - 1 = k BY <1>1
    <2> DEFINE r == v[k + 1]
    <2>2. f(k + 1) = Joining(f(k), r) /\ f(k) \in Seq(Range2) /\ r \in Range2 /\ r[1] <= r[2]
      <3>1. k + 1 \in 1 .. Len(v) BY <2>1
      <3> QED BY <1>2, <2>1, <3>1, RangeNumbers DEF Ordered
    <2>3. Ordered(f(k)) /\ (Inside(f(k), Len(f(k)), p) <=> Inside(v, k, p)) BY <1>4
    <2> HIDE DEF r
    <2>4. /\ Inside(f(k + 1), Len(f(k + 1)), p) <=> Inside(f(k), Len(f(k)), p) \/ (r[1] <= p /\ p < r[2])
          /\ Ordered(f(k + 1)) BY <2>2, <2>3, JoiningCovers
    <2>5. Inside(v, k + 1, p) <=> Inside(v, k, p) \/ (r[1] <= p /\ p < r[2])
      <3>1. /\ k + 1 \in 1 .. k + 1 /\ (\A j \in 1 .. k : j \in 1 .. k + 1)
            /\ \A j \in 1 .. k + 1 : j \in 1 .. k \/ j = k + 1 BY <2>1
      <3> QED BY <3>1, Zenon DEF Inside, r
    <2> QED BY <2>1, <2>3, <2>4, <2>5
  <1>5. n \in S
    <2>1. \A k \in 0 .. n : k \in S
      <3> HIDE DEF S, n
      <3> QED BY <1>1, <1>3, <1>4, InductionUpTo
    <2> QED BY <1>1, <2>1
  <1> QED BY <1>2, <1>5

-----------------------------------------------------------------------------
(* The fields are measured *)

\* An image that was hashed has the headers that were checked.
LaidOut == Exact /\ status = "success" => Layout

LEMMA SameLayout == ASSUME image' = image PROVE Layout' <=> Layout
  BY DEF Layout, CheckSum, SecurityEntry, HasSecurity, WithoutDirectories

\* A digest is returned by Finalize, or lost with its context.
LEMMA LaidOutStep ==
  ASSUME RangeInv, LaidOut, Program
  PROVE  LaidOut'
  <1>1. image' = image
    BY DEF Program, LoadPeImage, LoadFails, Load, GetImageInfo, GetPeHeader, CheckSection, SectionsChecked,
       SearchDebug, SearchFails, Searched, ReadDebugEntry, HashImage, Measure, NoContext, HashHeaders, NoTable,
       SortSection, Sorted, HashSection, HashTail, Finalize, HeadersOverrun, TableOverruns, SectionOverruns,
       Overruns, Goto, Return, Refuse, Crash
  <1>2. (Layout' <=> Layout) /\ (Exact' <=> Exact) BY <1>1, SameLayout, SameExact
  <1>3. CASE Finalize
    <2>1. pc \in Hashing BY <1>3 DEF Finalize, Hashing
    <2>2. Exact => Layout BY <2>1, ExactLayout
    <2> QED BY <1>2, <2>2, Zenon DEF LaidOut
  <1>4. CASE NoContext
    <2>1. ~Exact BY <1>4 DEF NoContext, Exact
    <2> QED BY <1>2, <2>1, Zenon DEF LaidOut
  <1>5. CASE ~Finalize /\ ~NoContext
    <2>1. status' \in {status, "not loaded", "unsupported", "out of resources"}
      BY <1>5 DEF Program, LoadPeImage, LoadFails, Load, GetImageInfo, GetPeHeader, CheckSection, SectionsChecked,
         SearchDebug, SearchFails, Searched, ReadDebugEntry, HashImage, Measure, HashHeaders, NoTable, SortSection,
         Sorted, HashSection, HashTail, HeadersOverrun, TableOverruns, SectionOverruns, Overruns,
         Goto, Return, Refuse, Crash
    <2>2. status' = "success" => status = "success" BY <2>1
    <2> QED BY <1>2, <2>2, Zenon DEF LaidOut
  <1> QED BY <1>3, <1>4, <1>5

LEMMA LaidOutNext ==
  KernelInv /\ LaidOut /\ [KernelNext]_allVars => LaidOut'
  <1> SUFFICES ASSUME KernelInv, LaidOut, [KernelNext]_allVars PROVE LaidOut' OBVIOUS
  <1>1. CASE Program BY <1>1, LaidOutStep DEF KernelInv
  <1>2. CASE UNCHANGED <<image, status>>
    <2>1. (Layout' <=> Layout) /\ (Exact' <=> Exact) BY <1>2, SameLayout, SameExact
    <2> QED BY <1>2, <2>1, Zenon DEF LaidOut
  <1>3. CASE PrepareImage
    <2>1. Begun' BY <1>3, PreparedIsFresh DEF KernelInv, RangeInv, Typed
    <2>2. status' # "success" BY <2>1 DEF Begun
    <2> QED BY <2>2, Zenon DEF LaidOut
  <1> QED BY <1>1, <1>2, <1>3 DEF KernelNext, KernelProgram, Configure, ConfigureFails, MeasureKernel, Program,
          Terminated, allVars, vars

\* The digest of a tidy image covers every position but those left out.
LEMMA DigestCovers ==
  ASSUME RangeInv, Exact, Layout, Joined(hashed) = Joined(Authenticode), NEW p \in Nat
  PROVE  HashedAt(p) \/ ExcludedAt(p)
  <1> DEFINE e == image.size - CertSize
  <1>1. /\ image \in Image /\ hashed \in Seq(Range2) /\ Ordered(hashed)
    <2>1. image \in Image /\ hashed \in Seq(Range2) BY DEF RangeInv, Typed, Range2
    <2>2. Ordered(hashed)
      <3>1. Known BY <2>1, ExactKnown
      <3>2. \A k \in DOMAIN hashed : hashed[k][1] <= hashed[k][2]
        BY <3>1, Zenon DEF RangeInv, Ranged, Good
      <3>3. DOMAIN hashed = 1 .. Len(hashed) BY <2>1
      <3> QED BY <3>2, <3>3, Zenon DEF Ordered
    <2> QED BY <2>1, <2>2
  <1>2. /\ CheckSum \in Nat /\ SecurityEntry \in Nat /\ CheckSum + 4 <= SecurityEntry
        /\ image.headers \in Nat /\ image.size \in Nat /\ CheckSum + 4 <= image.headers
        /\ HasSecurity => SecurityEntry + 8 <= image.headers BY DEF Layout, DirectorySize
  <1>3. e \in Nat /\ image.headers <= e
    <2>1. DataEnd + CertSize <= image.size BY DEF Exact, Tidy
    <2>2. DataEnd \in Nat /\ image.headers <= DataEnd
      <3>1. image.sections \in Seq(Section) /\ N \in 0 .. Len(image.sections) /\ N \in Nat
        BY <1>1, ImageFields DEF N
      <3>2. SumUpTo(image.sections, N) \in Nat BY <3>1, SumRecursion
      <3> QED BY <1>1, <1>2, <3>2, DataEndIs
    <2>3. CertSize \in Nat BY <1>1, ImageNumbers DEF CertSize
    <2> QED BY <1>2, <2>1, <2>2, <2>3
  <1>4. Authenticode = IF HasSecurity
                       THEN <<<<0, CheckSum>>, <<CheckSum + 4, SecurityEntry>>, <<SecurityEntry + DirectorySize, e>>>>
                       ELSE <<<<0, CheckSum>>, <<CheckSum + 4, e>>>>
    BY Zenon DEF Authenticode
  <1>5. UpTo(e) = Authenticode /\ Authenticode \in Seq(Range2)
    <2> HIDE DEF e
    <2> QED BY <1>3, <1>4, UpToIs, Zenon
  <1>6. ~ExcludedAt(p) => p < e /\ ~(CheckSum <= p /\ p < CheckSum + 4)
                          /\ (HasSecurity => ~(SecurityEntry <= p /\ p < SecurityEntry + 8))
    <2> SUFFICES ASSUME ~ExcludedAt(p)
                 PROVE  p < e /\ ~(CheckSum <= p /\ p < CheckSum + 4)
                        /\ (HasSecurity => ~(SecurityEntry <= p /\ p < SecurityEntry + 8))
      OBVIOUS
    <2>1. p \notin CheckSum .. CheckSum + 3 /\ ~(p >= e)
          /\ (HasSecurity => p \notin SecurityEntry .. SecurityEntry + 8 - 1)
      BY DEF ExcludedAt, DirectorySize
    <2> HIDE DEF e
    <2> QED BY <1>2, <1>3, <2>1
  <1> HIDE DEF e
  <1>7. /\ Ordered(Authenticode)
        /\ ~ExcludedAt(p) => Inside(Authenticode, Len(Authenticode), p)
    <2> DEFINE a == <<0, CheckSum>>
               b == <<CheckSum + 4, SecurityEntry>>
               c == <<SecurityEntry + DirectorySize, e>>
               d == <<CheckSum + 4, e>>
    <2>1. /\ a[1] = 0 /\ a[2] = CheckSum /\ b[1] = CheckSum + 4 /\ b[2] = SecurityEntry
          /\ c[1] = SecurityEntry + 8 /\ c[2] = e /\ d[1] = CheckSum + 4 /\ d[2] = e
      BY DEF DirectorySize
    <2>2. Authenticode = IF HasSecurity THEN <<a, b, c>> ELSE <<a, d>> BY <1>4, Zenon
    <2> HIDE DEF a, b, c, d
    <2>3. CASE HasSecurity
      <3>1. /\ Len(Authenticode) = 3 /\ Authenticode[1] = a /\ Authenticode[2] = b /\ Authenticode[3] = c
            /\ 1 \in 1 .. 3 /\ 2 \in 1 .. 3 /\ 3 \in 1 .. 3 /\ \A j \in 1 .. 3 : j = 1 \/ j = 2 \/ j = 3
        BY <2>2, <2>3
      <3>2. a[1] <= a[2] /\ b[1] <= b[2] /\ c[1] <= c[2] BY <1>2, <1>3, <2>1, <2>3
      <3>3. ~ExcludedAt(p) => (a[1] <= p /\ p < a[2]) \/ (b[1] <= p /\ p < b[2]) \/ (c[1] <= p /\ p < c[2])
        BY <1>2, <1>3, <1>6, <2>1, <2>3
      <3> QED BY <3>1, <3>2, <3>3, Zenon DEF Ordered, Inside
    <2>4. CASE ~HasSecurity
      <3>1. /\ Len(Authenticode) = 2 /\ Authenticode[1] = a /\ Authenticode[2] = d
            /\ 1 \in 1 .. 2 /\ 2 \in 1 .. 2 /\ \A j \in 1 .. 2 : j = 1 \/ j = 2
        BY <2>2, <2>4
      <3>2. a[1] <= a[2] /\ d[1] <= d[2] BY <1>2, <1>3, <2>1
      <3>3. ~ExcludedAt(p) => (a[1] <= p /\ p < a[2]) \/ (d[1] <= p /\ p < d[2])
        BY <1>2, <1>3, <1>6, <2>1
      <3> QED BY <3>1, <3>2, <3>3, Zenon DEF Ordered, Inside
    <2> QED BY <2>3, <2>4
  <1>8. Inside(hashed, Len(hashed), p) <=> Inside(Authenticode, Len(Authenticode), p)
    BY <1>1, <1>5, <1>7, JoinedCovers, Zenon
  <1>9. HashedAt(p) <=> Inside(hashed, Len(hashed), p)
    <2>1. DOMAIN hashed = 1 .. Len(hashed) BY <1>1
    <2> QED BY <2>1, Zenon DEF HashedAt, Inside
  <1> QED BY <1>7, <1>8, <1>9, Zenon

LEMMA ConfiguredImplies ==
  RangeInv /\ Covering /\ ConfigInv /\ ValuesInv /\ LaidOut => MeasuredAsConfigured
  <1> SUFFICES ASSUME RangeInv, Covering, ConfigInv, ValuesInv, LaidOut,
                      status = "success" /\ digest /\ file # None
               PROVE  /\ DOMAIN patch = Written
                      /\ \A f \in Field : InImage(f) = Configured(f)
                      /\ Tidy /\ "digest" \notin image.faults =>
                           \A p \in Written : HashedAt(p) \/ ExcludedAt(p)
    BY Zenon DEF MeasuredAsConfigured
  <1>1. step = "measure" /\ file # None BY Zenon DEF ConfigInv
  <1>2. patch = Patch /\ \A f \in Field : config[f] = Configured(f) BY <1>1 DEF ValuesInv
  <1>3. DOMAIN patch = Written BY <1>2, Zenon DEF Patch
  <1>4. ASSUME NEW f \in Field PROVE InImage(f) = Configured(f)
    <2>1. config[f] \in Nat /\ config[f] < Values[Width[f]] BY DEF ValuesInv
    <2> QED BY <1>2, <2>1, FieldInImage
  <1>5. ASSUME Tidy, "digest" \notin image.faults, NEW p \in Written PROVE HashedAt(p) \/ ExcludedAt(p)
    <2>1. Exact BY <1>5 DEF Exact
    <2>2. Layout /\ Joined(hashed) = Joined(Authenticode)
      BY <2>1, Zenon DEF LaidOut, Covering
    <2>3. p \in Nat BY FieldsInHeader DEF HeaderSize
    <2> QED BY <2>1, <2>2, <2>3, DigestCovers
  <1> QED BY <1>3, <1>4, <1>5

\* A digest of a configured kernel is that of the fields of its file: each field
\* of the image holds the value of the last line naming it, cut to its width, and
\* every byte of it is hashed but for those the digest leaves out
\* (kernel_config.c:50-79, 131, 155-168, MeasureBootPeCoff.c:1034-1271).
THEOREM FieldsAreMeasured == KernelSpec => []MeasuredAsConfigured
  <1>1. KernelInit => Covering /\ LaidOut
    BY StartIsBegun, CoverStarts DEF KernelInit, Start, LaidOut
  <1>2. KernelInv /\ Covering /\ LaidOut => MeasuredAsConfigured
    BY ConfiguredImplies DEF KernelInv
  <1> QED BY <1>1, <1>2, KernelInvInit, KernelInvNext, CoverKernel, LaidOutNext, PTL DEF KernelSpec
=============================================================================
