---------------------------- MODULE ImaReference ----------------------------
(***************************************************************************)
(* calculate-ima-pcr and pcr-extend as they are used together: the entries *)
(* of the first are reference values for the measurement list of a system, *)
(* and extended by the second they give the register of that system, if it *)
(* measures its files in that order.                                       *)
(***************************************************************************)
EXTENDS ImaEntries, PcrExtend

CONSTANT ExtendLines   \* command lines pcr-extend is started with by itself

\* The digests of entries are digests.
ASSUME DigestAssumption ==
  /\ ExtendLines \subseteq Seq(ExtendArgument)
  /\ \A t \in Template :
       /\ <<t, <<"boot">>, <<"boot_aggregate">>>> \in Digest
       /\ \A f \in File : \A k \in 1 .. Len(Path[f]) + 1 :
            {<<t, <<"content", f>>, SubSeq(Path[f], k, Len(Path[f]))>>,
             <<t, <<"part", f>>, SubSeq(Path[f], k, Len(Path[f]))>>} \subseteq Digest

vars == <<argv, opts, fs, short, pc, i, walk, log, out, ret,
          line, tokens, scarce, at, inputs, lens, pcr, printed, status>>

\* calculate-ima-pcr is started, or pcr-extend alone.
Init ==
  /\ ImaInit /\ ExtendInit
  /\ \/ argv \in CommandLines /\ pc = "parse" /\ at = "waiting" /\ line = <<>> /\ scarce = FALSE
     \/ argv = <<>> /\ pc = "exited" /\ at = "parse" /\ line \in ExtendLines /\ scarce = short

\* The digests of the entries as one argument, or each as an argument.
LinesOf(entries) ==
  LET token(k) == [shape |-> "sha256", digest |-> entries[k].sha256]
      in(ts) == [opt |-> "in", val |-> ts]
  IN  {<<in([k \in DOMAIN entries |-> token(k)])>>, [k \in DOMAIN entries |-> in(<<token(k)>>)]}

StartExtend ==
  /\ at = "waiting" /\ pc = "exited" /\ ret = 0
  /\ at' = "parse" /\ line' \in LinesOf(out[1])
  /\ UNCHANGED <<imaVars, tokens, scarce, inputs, lens, pcr, printed, status>>

Calculate == CalculateIma /\ UNCHANGED extendVars

Simulate == SimulateExtend /\ UNCHANGED imaVars

Terminated ==
  /\ pc \in {"exited", "crashed"} /\ at \in {"waiting", "exited", "crashed"}
  /\ UNCHANGED vars

Next == Calculate \/ StartExtend \/ Simulate \/ Terminated

Spec == Init /\ [][Next]_vars

-----------------------------------------------------------------------------
(* Reference values *)

Given == opts.strip # Unset

Rests(path) == {SubSeq(path, k, Len(path)) : k \in 1 .. Len(path) + 1}

\* The path on the system that will run, below the prefix.
PathThere(path) ==
  IF Given /\ \E rest \in Rests(path) : path = opts.strip \o rest
  THEN CHOOSE rest \in Rests(path) : path = opts.strip \o rest
  ELSE path

Measured(digest, path) == <<opts.template, digest, path>>

FileEntry(f) ==
  [path |-> PathThere(Path[f]), pcr |-> opts.pcr,
   sha256 |-> Measured(<<"content", f>>, PathThere(Path[f])), optional |-> TRUE]

BootEntry ==
  [path |-> <<"boot_aggregate">>, pcr |-> opts.pcr,
   sha256 |-> Measured(<<"boot">>, <<"boot_aggregate">>), optional |-> FALSE]

\* The node at position j of a way: its directories, and where they lead to.
Along(w, j) == IF j \in DOMAIN w.dirs THEN w.dirs[j] ELSE w.node

\* Directories each of which is in the one in front of it.
Chains ==
  {ds \in UNION {[1 .. n -> Dir] : n \in 0 .. Cardinality(Dir)} :
     \A j \in 1 .. Len(ds) - 1 : ds[j + 1] \in Children[ds[j]]}

\* The ways down from the paths of the command line.
Trails ==
  {w \in [arg : DOMAIN opts.paths, dirs : Chains, node : Node] :
     /\ Along(w, 1) = opts.paths[w.arg]
     /\ w.dirs # <<>> => w.node \in Children[Last(w.dirs)]
     /\ \A j \in 1 .. Len(w.dirs) + 1 : fs[Along(w, j)] # "absent"}

BootWay == [arg |-> 0, dirs |-> <<>>, node |-> Unset]

\* What is to be measured, a file once for each way down to it.
References ==
  {w \in Trails : w.node \in File} \cup (IF opts.aggregate = Unset THEN {} ELSE {BootWay})

Entry(w) == IF w = BootWay THEN BootEntry ELSE FileEntry(w.node)

EntryDigest(w) == Entry(w).sha256

Times(x, s) == Cardinality({k \in DOMAIN s : s[k] = x})

\* How many of the references refs have the value x.
Expected(x, refs, V(_)) == Cardinality({w \in refs : V(w) = x})

\* s has the value of each of the references refs, and no other.
ListsAll(s, refs, V(_)) ==
  \A x \in Range(s) \cup {V(w) : w \in refs} : Times(x, s) = Expected(x, refs, V)

\* Every element of s is the value of a reference, none more often than there are
\* references for it.
ListsSome(s, refs, V(_)) == \A x \in Range(s) : Times(x, s) <= Expected(x, refs, V)

\* Files and directories that are skipped without a word: a path of the
\* command line that is a locked file, and what is locked below the first level.
LostQuietly ==
  \E w \in Trails :
    /\ fs[w.node] = "locked"
    /\ IF w.node \in File THEN Len(w.dirs) # 1 ELSE w.dirs # <<>>

\* A file whose hash is that of a part of it.
SpoiltQuietly == \E f \in File : fs[f] = "failing"

-----------------------------------------------------------------------------

\* The variables of both programs keep their ranges, and the walk does not go
\* deeper than the tree (main.c:230-274, pcr-extend/main.c:32-91).
TypeOK ==
  /\ \A k \in DOMAIN argv : argv[k] \in Argument
  /\ pc \in Label /\ i \in 1 .. Len(opts.paths) + 1 /\ ret \in {-1, 0, 1}
  /\ walk \in Seq(SUBSET Node) /\ Len(walk) <= Cardinality(Dir)
  /\ pc = "walk" <=> (walk # <<>> /\ pc \notin {"exited", "crashed"})
  /\ \A k \in DOMAIN log : log[k].pcr = opts.pcr
  /\ at \in ExtendLabel /\ status \in {-1, 0} /\ lens \in Nat
  /\ \A k \in DOMAIN line : line[k] \in ExtendArgument
  /\ Len(inputs) + Len(pcr) <= lens

\* The printed entries are those of the files below the paths, links and
\* repetitions included, each under its path on the other system, and that of
\* the boot aggregate in front of them; a subdirectory that cannot be walked to
\* its end neither stops the walk of the directories above nor takes their
\* entries along (main.c:202-312).
PublishedIsReference ==
  out # Unprinted /\ ~short /\ ~LostQuietly /\ ~SpoiltQuietly =>
    /\ ListsAll(out[1], References, Entry)
    /\ opts.aggregate # Unset => Head(out[1]) = BootEntry

\* Whatever is lost, to a locked file, a failing allocation, a realloc that
\* takes the log along (main.c:60-119): what is printed are reference values,
\* none more often than there are files for it, and never none at all.
PublishedWithinReference ==
  out # Unprinted /\ ~SpoiltQuietly =>
    out[1] # <<>> /\ ListsSome(out[1], References, Entry)

\* A file of a directory of the command line that cannot be hashed is reported
\* (main.c:258-266).
FirstLevelComplete ==
  out # Unprinted /\ ~short =>
    \A k \in DOMAIN opts.paths : opts.paths[k] \in Dir =>
      \A f \in Children[opts.paths[k]] \cap File : fs[f] # "locked"

\* Entries may be lost, but none is invented, and a loss is reported where the
\* code reports it; meanwhile the walk keeps to the tree
\* (calculate-ima-pcr/main.c:60-119, 230-312).
LossesBounded == TypeOK /\ PublishedWithinReference /\ FirstLevelComplete

\* The register pcr-extend prints for the entries calculate-ima-pcr has
\* printed is that of a system which measures the boot aggregate and then these
\* files (main.c:202-312 and pcr-extend/main.c:80-87).
RegisterOfSystem ==
  printed # NotPrinted /\ out # Unprinted /\ ~short /\ ~LostQuietly /\ ~SpoiltQuietly
    /\ Cardinality(References) <= FittingLens =>
    LET extended == [k \in DOMAIN printed |-> printed[k][2]]
    IN  /\ ListsAll(extended, References, EntryDigest)
        /\ opts.aggregate # Unset => Head(extended) = BootEntry.sha256

\* The entries of calculate-ima-pcr are those of the files, and pcr-extend makes
\* of them the register of the system (calculate-ima-pcr/main.c:202-312,
\* pcr-extend/main.c:80-87).
ResultsAreReference == PublishedIsReference /\ RegisterOfSystem

\* pcr-extend as a register with a journal of what is to be extended into it.
RegisterValue == [r \in {10} |-> IF at = "waiting" THEN NotPrinted ELSE pcr]
RegisterJournal == [r \in {10} |-> pcr \o inputs]
RegisterShown == IF printed = NotPrinted THEN {} ELSE {10}

R == INSTANCE MeasurementRegisters WITH
  Register <- {10}, Digest <- {}, Unset <- NotPrinted,
  reg <- RegisterValue, journal <- RegisterJournal, published <- RegisterShown

\* The register of pcr-extend is reset once, every digest of the command line
\* is extended into it, in whatever arguments they come, and nothing is printed
\* before; this holds as long as the lengths fit (pcr-extend/main.c:43-89).
ImplementsRegisters ==
  /\ R!AbsInit \/ at # "waiting"
  /\ [][Overrun' \/ R!AbsNext]_(R!absVars)
=============================================================================
