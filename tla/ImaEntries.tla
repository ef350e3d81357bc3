----------------------------- MODULE ImaEntries -----------------------------
(***************************************************************************)
(* calculate-ima-pcr: the entries the kernel's IMA will add to its list    *)
(* when it measures the files below some paths, and the one for the boot   *)
(* aggregate.                                                              *)
(*                                                                         *)
(* A path is a sequence of pieces of its text.  A digest is the tuple of   *)
(* what was hashed (the hash is free of collisions).  The layout of the    *)
(* printed entries is left out.                                            *)
(***************************************************************************)
EXTENDS Integers, Sequences, FiniteSets, SequencesExt

CONSTANTS File, Dir,     \* what is found at paths, links resolved
          Children,      \* Children[d]: what the directory d holds
          Piece,         \* parts of the text of a path
          Path,          \* Path[f]: the canonical path of the file f
          Root,          \* the argument "/"
          Environments,  \* the states of the files and of the memory the runs may start with
          CommandLines,  \* the command lines the runs may start with
          Unset          \* an option that was not given

Node == File \cup Dir

\* "absent": there is no such path, or it is a dangling link.  "locked": it
\* cannot be opened.  "failing": opened, and reading stops with an error.
FileState == {"ok", "absent", "locked", "failing"}

\* The value of --boot_aggregate: its bytes are a SHA-256 digest, another
\* number of bytes, or no bytes at all.
Aggregate == {"sha256", "other length", "no hex"}

Template == {"ima-sig", "ima-ng", "ima"}

\* An argument with its value; "unknown" also stands for an option without one.
Argument ==
  [opt : {"format"}, val : {"json", "text", "xml"}]
    \cup [opt : {"tpmpcr"}, val : Int \cup {Unset}]
    \cup [opt : {"verbose", "unknown"}, val : {Unset}]
    \cup [opt : {"path"}, val : Node \cup {Root}]
    \cup [opt : {"strip"}, val : Seq(Piece)]
    \cup [opt : {"imatemplate"}, val : Template]
    \cup [opt : {"boot_aggregate"}, val : Aggregate]

Label == {"parse", "validate", "aggregate", "paths", "walk", "print", "exited", "crashed"}

\* No directory is below itself: no link leads back to a directory above it.
ASSUME TreeAssumption ==
  /\ IsFiniteSet(Node) /\ File \cap Dir = {}
  /\ Children \in [Dir -> SUBSET Node]
  /\ \E height \in [Dir -> 1 .. Cardinality(Dir)] :
       \A d \in Dir : \A c \in Children[d] \cap Dir : height[c] < height[d]
  /\ Path \in [File -> Seq(Piece)]
  /\ Root \notin Node /\ Unset \notin Seq(Piece) \cup Template \cup Aggregate

ASSUME RunsAssumption ==
  /\ Environments \subseteq [fs : [Node -> FileState], short : BOOLEAN]
  /\ CommandLines \subseteq Seq(Argument)

VARIABLES
  argv,   \* the arguments not parsed yet
  opts,   \* what the parsed ones have set
  fs,     \* fs[n]: the state of a path
  short,  \* allocations may fail in this run
  pc,     \* the next step
  i,      \* the path that is looked at
  walk,   \* the entries not read yet of each directory that is open
  log,    \* evlog.log, empty while it is NULL
  out,    \* the entries that were printed, if any were
  ret     \* the exit status, 1 before it is known

environment == <<argv, opts, fs, short>>
imaVars == <<argv, opts, fs, short, pc, i, walk, log, out, ret>>

Unprinted == <<>>

ImaInit ==
  /\ \E e \in Environments : fs = e.fs /\ short = e.short
  /\ opts = [format |-> "json", pcr |-> 10, strip |-> Unset, template |-> Unset,
             aggregate |-> Unset, paths |-> <<>>]
  /\ i = 1 /\ walk = <<>> /\ log = <<>>
  /\ out = Unprinted /\ ret = 1

Goto(label) == pc' = label /\ UNCHANGED <<environment, i, walk, log, out, ret>>

Exit(status, printed) ==
  /\ pc' = "exited" /\ ret' = status /\ out' = printed
  /\ UNCHANGED <<environment, i, walk, log>>

Fail == Exit(-1, out)

Crash == pc' = "crashed" /\ UNCHANGED <<environment, i, walk, log, out, ret>>

-----------------------------------------------------------------------------
(* main, the options *)

NextArg == argv[1]

Parsing == pc = "parse" /\ argv # <<>>

Parsed(newOpts) ==
  /\ argv' = Tail(argv) /\ opts' = newOpts
  /\ UNCHANGED <<fs, short, pc, i, walk, log, out, ret>>

ParseFormat ==
  /\ Parsing /\ NextArg.opt = "format" /\ NextArg.val # "xml"
  /\ Parsed([opts EXCEPT !.format = NextArg.val])

ParsePcr ==
  /\ Parsing /\ NextArg.opt = "tpmpcr" /\ NextArg.val # Unset
  /\ Parsed([opts EXCEPT !.pcr = NextArg.val])

ParseVerbose == Parsing /\ NextArg.opt = "verbose" /\ Parsed(opts)

\* The slash at the end of a path is removed, which leaves nothing of Root.
ParsePath ==
  /\ Parsing /\ NextArg.opt = "path"
  /\ Parsed([opts EXCEPT !.paths = Append(@, NextArg.val)])

ParseString(o, field) ==
  /\ Parsing /\ NextArg.opt = o
  /\ \/ Parsed([opts EXCEPT ![field] = NextArg.val])
     \/ short /\ Fail

ParseAggregate ==
  /\ Parsing /\ NextArg.opt = "boot_aggregate"
  /\ \/ NextArg.val # "no hex" /\ Parsed([opts EXCEPT !.aggregate = NextArg.val])
     \/ (NextArg.val = "no hex" \/ short) /\ Fail

ParseRefused ==
  /\ Parsing
  /\ \/ NextArg.opt = "format" /\ NextArg.val = "xml"
     \/ NextArg.opt = "tpmpcr" /\ NextArg.val = Unset
     \/ NextArg.opt = "unknown"
  /\ Fail

ParseEnd == pc = "parse" /\ argv = <<>> /\ Goto("validate")

Validate ==
  /\ pc = "validate"
  /\ IF opts.paths = <<>> /\ opts.aggregate = Unset THEN Fail
     ELSE /\ pc' = "aggregate"
          /\ opts' = [opts EXCEPT !.template = IF @ = Unset THEN "ima-sig" ELSE @]
          /\ UNCHANGED <<argv, fs, short, i, walk, log, out, ret>>

-----------------------------------------------------------------------------
(* The entries *)

Supported == opts.template \in {"ima-sig", "ima-ng"}

\* [fault] The prefix is cut off whether or not the path starts with it.
StrippedBlindly(path) ==
  IF opts.strip = Unset \/ Len(opts.strip) > Len(path) THEN path
  ELSE SubSeq(path, Len(opts.strip) + 1, Len(path))

\* strip_prefix_new
Stripped(path) ==
  IF opts.strip = Unset \/ ~IsPrefix(opts.strip, path) THEN path
  ELSE SubSeq(path, Len(opts.strip) + 1, Len(path))

\* The hash of the template: the digest and the path, and for ima-sig the
\* length of a signature, 0.
TemplateHash(digest, path) == <<opts.template, digest, path>>

EntryOf(digest, path, optional) ==
  [path |-> path, pcr |-> opts.pcr, sha256 |-> TemplateHash(digest, path), optional |-> optional]

\* evlog_add, whose result is 0 also when it has lost the entry and, with
\* realloc, those in front of it.
EvlogAdd(entry) ==
  \/ log' = Append(log, entry)
  \/ short /\ log' = <<>>

\* hash_file does not tell a read error from the end of the file.
FileHash(f) == IF fs[f] = "failing" THEN <<"part", f>> ELSE <<"content", f>>

Readable(f) == fs[f] \in {"ok", "failing"}

\* [fault] The result of hash_file is not looked at.
FileMeasuredAlways(f) ==
  /\ fs[f] # "absent" /\ Supported
  /\ EvlogAdd(EntryOf(IF fs[f] = "ok" THEN FileHash(f) ELSE <<"part", f>>, Stripped(Path[f]), TRUE))

\* calculate_ima_entry_path: an entry and 0, or nothing and -1.
FileMeasured(f) ==
  Readable(f) /\ Supported /\ EvlogAdd(EntryOf(FileHash(f), Stripped(Path[f]), TRUE))

FileRefused(f) == fs[f] = "locked" \/ (Readable(f) /\ ~Supported) \/ (Readable(f) /\ short)

\* realpath fails, and the path is skipped.
FileSkipped(f) == fs[f] = "absent" \/ short

MeasureAggregate ==
  /\ pc = "aggregate"
  /\ \/ opts.aggregate = Unset /\ Goto("paths")
     \/ /\ opts.aggregate = "sha256" /\ Supported
        /\ EvlogAdd(EntryOf(<<"boot">>, <<"boot_aggregate">>, FALSE))
        /\ pc' = "paths"
        /\ UNCHANGED <<environment, i, walk, out, ret>>
     \/ /\ opts.aggregate # Unset /\ (opts.aggregate = "other length" \/ ~Supported)
        /\ Fail

-----------------------------------------------------------------------------
(* calculate_ima_entries and the depth first walk below a directory *)

AtPath == pc = "paths" /\ i <= Len(opts.paths)

Arrived == opts.paths[i]

PathRejected == AtPath /\ (Arrived \in Node => fs[Arrived] = "absent") /\ Fail

\* The result of calculate_ima_entry_path is not looked at.
MeasurePath ==
  /\ AtPath /\ Arrived \in File /\ fs[Arrived] # "absent"
  /\ \/ FileMeasured(Arrived)
     \/ (FileRefused(Arrived) \/ FileSkipped(Arrived)) /\ log' = log
  /\ i' = i + 1
  /\ UNCHANGED <<environment, pc, walk, out, ret>>

Opened(d) == fs[d] \notin {"locked", "absent"}

OpenRefused(d) == ~Opened(d) \/ short

WalkPath ==
  /\ AtPath /\ Arrived \in Dir /\ fs[Arrived] # "absent"
  /\ \/ /\ Opened(Arrived)
        /\ pc' = "walk" /\ walk' = <<Children[Arrived]>>
        /\ UNCHANGED <<environment, i, log, out, ret>>
     \/ OpenRefused(Arrived) /\ Fail

PathsDone == pc = "paths" /\ i > Len(opts.paths) /\ Goto("print")

Depth == Len(walk)

\* The directory on top of the stack with the entry n read.
Read(n) == [walk EXCEPT ![Depth] = @ \ {n}]

\* Leave the directory on top of the stack for its parent or the next path.
LeaveDirectory ==
  /\ walk' = SubSeq(walk, 1, Depth - 1)
  /\ IF Depth = 1 THEN pc' = "paths" /\ i' = i + 1 ELSE UNCHANGED <<pc, i>>
  /\ UNCHANGED <<environment, log, out, ret>>

\* readdir delivers the entries in any order.  A directory that cannot be
\* opened is skipped, the result of the recursive call is not looked at.
EnterDirectory(d) ==
  /\ pc = "walk" /\ d \in walk[Depth] \cap Dir
  /\ \/ Opened(d) /\ walk' = Append(Read(d), Children[d])
     \/ OpenRefused(d) /\ walk' = Read(d)
  /\ UNCHANGED <<environment, pc, i, log, out, ret>>

MeasureEntry(f) ==
  /\ pc = "walk" /\ f \in walk[Depth] \cap File
  /\ walk' = Read(f)
  /\ FileMeasured(f) \/ (FileSkipped(f) /\ log' = log)
  /\ UNCHANGED <<environment, pc, i, out, ret>>

\* A file that cannot be hashed ends the walk of its directory with -1, which
\* only that of a path of the command line reports.
EntryRefused(f) ==
  /\ pc = "walk" /\ f \in walk[Depth] \cap File /\ FileRefused(f)
  /\ IF Depth = 1 THEN Fail ELSE LeaveDirectory

DirectoryDone == pc = "walk" /\ walk[Depth] = {} /\ LeaveDirectory

-----------------------------------------------------------------------------

PrintLog ==
  /\ pc = "print"
  /\ IF log = <<>> THEN Fail ELSE Exit(0, <<log>>)

\* The allocations whose result is not looked at: the list of paths, the
\* default template, a digest context, the hexadecimal text of a digest.
OutOfMemory ==
  /\ short
  /\ \/ Parsing /\ NextArg.opt = "path"
     \/ pc = "validate" /\ opts.template = Unset
     \/ pc = "aggregate" /\ opts.aggregate = "sha256" /\ Supported
     \/ AtPath /\ Arrived \in File /\ Readable(Arrived)
     \/ pc = "walk" /\ \E f \in walk[Depth] \cap File : Readable(f)
  /\ Crash

-----------------------------------------------------------------------------

ParseOptions ==
  \/ ParseFormat \/ ParsePcr \/ ParseVerbose \/ ParsePath
  \/ ParseString("strip", "strip") \/ ParseString("imatemplate", "template")
  \/ ParseAggregate \/ ParseRefused \/ ParseEnd \/ Validate

CalculateEntries ==
  \/ MeasureAggregate \/ PathRejected \/ MeasurePath \/ WalkPath \/ PathsDone
  \/ \E d \in Dir : EnterDirectory(d)
  \/ \E f \in File : MeasureEntry(f) \/ EntryRefused(f)
  \/ DirectoryDone

CalculateIma == ParseOptions \/ CalculateEntries \/ PrintLog \/ OutOfMemory
=============================================================================
