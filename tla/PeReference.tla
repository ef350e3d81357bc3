----------------------------- MODULE PeReference -----------------------------
(***************************************************************************)
(* The Authenticode digest of an image, and which images have one.         *)
(***************************************************************************)
EXTENDS PeCoff, SequencesExt

\* The state.  The place of the debug directory is below the file only for a TE
\* image, whose shift may exceed it.
TypeOK ==
  /\ i \in Nat \ {0} /\ found \in Int /\ (~IsTe => found >= 0) /\ sum \in Nat
  /\ table \in Seq(Section) /\ hashed \in Seq(Nat \X Nat)
  /\ digest \in BOOLEAN
  /\ status \in {"", "not loaded", "unsupported", "out of resources", "success"}

-----------------------------------------------------------------------------

\* Ranges as the bytes they give, in order.
Joined(ranges) ==
  FoldLeft(LAMBDA rs, r : IF r[1] = r[2] THEN rs
                          ELSE IF rs # <<>> /\ Last(rs)[2] = r[1]
                          THEN Append(Front(rs), <<Last(rs)[1], r[2]>>)
                          ELSE Append(rs, r), <<>>, ranges)

\* Everything but the checksum, the entry of the certificate table and the
\* table.
Authenticode ==
  LET end == image.size - CertSize
  IN  IF HasSecurity
      THEN <<<<0, CheckSum>>, <<CheckSum + 4, SecurityEntry>>, <<SecurityEntry + DirectorySize, end>>>>
      ELSE <<<<0, CheckSum>>, <<CheckSum + 4, end>>>>

Filled == {k \in 1 .. N : image.sections[k].raw > 0}

DataEnd == image.headers + FoldLeft(LAMBDA n, s : n + s.raw, 0, image.sections)

\* The sections lie behind the headers, that of the section table included,
\* without gaps, in any order of the table, and the certificates, if any, end
\* the file.
Tidy ==
  /\ TableAt <= image.headers
  /\ \A k \in Filled :
       LET s == image.sections[k]
       IN  /\ s.ptr = image.headers \/ \E l \in Filled : image.sections[l].ptr + image.sections[l].raw = s.ptr
           /\ \A l \in Filled \ {k} : image.sections[l].ptr >= s.ptr + s.raw
                                      \/ image.sections[l].ptr + image.sections[l].raw <= s.ptr
  /\ DataEnd + CertSize <= image.size
  /\ CertSize # 0 => image.security.va + image.security.size = image.size

\* An image as a linker makes it, with what a UINT32 places in its first 4 GiB.
WellFormed ==
  /\ image.format \in {"PE32", "PE32+"} /\ image.machine
  /\ image.pe + UnionSize <= image.size
  /\ image.dirs <= MaxDirectories
  /\ image.optSize = WithoutDirectories + DirectorySize * image.dirs
  /\ image.headers > TableAt /\ image.headers >= TableAt + SectionSize * N
  /\ image.imageSize > image.headers /\ image.imageSize >= TableAt + SectionSize * (N + 1)
  /\ Tidy
  /\ \A k \in Filled : LET s == image.sections[k] IN s.va >= image.headers /\ s.ptr + s.raw <= Max32
  /\ CertSize # 0 => image.size <= Max32
  /\ image.dirs > Debug =>
       /\ image.debug.size % DebugSize = 0
       /\ \A k \in 1 .. N :
            LET s == image.sections[k]
            IN  image.debug.va \in s.va .. s.va + s.vsize - 1 =>
                  /\ s.ptr + (image.debug.va - s.va) + image.debug.size <= image.size
                  /\ s.va + s.vsize <= Max32

\* What is hashed lies in the file: the headers, the sections and the rest,
\* whose sizes are differences of fields that were validated one by one.
HashedInside == \A k \in DOMAIN hashed : 0 <= hashed[k][1] /\ hashed[k][1] <= hashed[k][2] /\ hashed[k][2] <= image.size

\* The checksum and the entry of the certificate table are not hashed, by
\* whatever section or rest.
Apart(r, first, end) == r[1] = r[2] \/ r[2] <= first \/ end <= r[1]
ExcludedNotHashed ==
  \A k \in DOMAIN hashed :
    /\ Apart(hashed[k], CheckSum, CheckSum + 4)
    /\ HasSecurity => Apart(hashed[k], SecurityEntry, SecurityEntry + DirectorySize)

\* Each range that is hashed is one the format allows: inside the file, without
\* the excluded fields (MeasureBootPeCoff.c:1034-1263).  So it is for every file
\* below 4 GiB, and for a larger one if the UINT32 SectionHeaderOffset holds the
\* place of its section table (MeasureBootPeCoff.c:288, 402, 521).  If not the
\* headers that are checked are not those that are used.
HashedAllowed ==
  image.size <= Max32 \/ TableAt <= Max32 => HashedInside /\ ExcludedNotHashed

\* The digest of an image without gaps is its Authenticode digest, in whatever
\* order the section table is, while no call of the hash fails
\* (MeasureBootPeCoff.c:1178-1271).
HashedIsAuthenticode ==
  status = "success" /\ "digest" \notin image.faults /\ Tidy =>
    digest /\ Joined(hashed) = Joined(Authenticode)

\* An image as a linker makes it is measured (MeasureBootPeCoff.c:138-598).
RefusedForReason ==
  pc = "crashed" \/ status \in {"unsupported", "out of resources"} =>
    ~WellFormed \/ image.faults # {}
=============================================================================
