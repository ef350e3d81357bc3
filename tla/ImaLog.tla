------------------------------- MODULE ImaLog -------------------------------
(***************************************************************************)
(* parse-ima-pcr: reads the binary measurement list of the kernel, which   *)
(* may grow meanwhile, and prints its records as reference values.         *)
(*                                                                         *)
(* A file is the records it is made of and its size in parts: the header   *)
(* of a record, the name of its template and its data.  A part that is cut *)
(* off in its middle is read like one that is not there.  The hash is free *)
(* of collisions, and no part has the hash of another.                     *)
(***************************************************************************)
EXTENDS Integers, Sequences, FiniteSets, SequencesExt

CONSTANTS Absent,     \* no such file
          Scenarios   \* the command lines, the files and their faults

\* The templates of the kernel; "custom" is a format of the boot command line,
\* which takes the place of the name.  "too long" is no template but a header
\* whose name_len is above TCG_EVENT_NAME_LEN_MAX.
RecordTemplate == {"ima", "ima-ng", "ima-sig", "ima-modsig", "ima-ngv2", "ima-sigv2", "ima-buf", "custom",
             "too long"}

\* The header of a violation has a digest of zeros.
Record == [template : RecordTemplate, violation : BOOLEAN]

Parts == 3

ListFile == [records : Seq(Record), size : Nat]

ListPath == {"runtime measurements", "copy"}

ListArgument == [opt : {"measurements", "verbose", "unknown"}]

\* "read": read may fail.  "again": it may fail with EAGAIN.  "memory": an
\* allocation may return NULL.
Fault == {"read", "again", "memory"}

\* "later": the records the kernel adds while the program runs.
Scenario == [args : Seq(ListArgument), files : [ListPath -> ListFile \cup {Absent}], later : Seq(Record),
             faults : SUBSET Fault]

ParserLabel == {"parse", "open", "read", "header", "name", "data", "verify", "fields", "print",
          "close", "exited", "crashed"}

ASSUME AbsentAssumption == Absent \notin ListFile

\* The list of the kernel is one of whole records; a copy may be cut off.
ASSUME ScenariosAssumption ==
  /\ Scenarios \subseteq Scenario
  /\ \A s \in Scenarios : \A p \in ListPath :
       s.files[p] # Absent =>
         /\ s.files[p].size <= Parts * Len(s.files[p].records)
         /\ p = "runtime measurements" => s.files[p].size = Parts * Len(s.files[p].records)

VARIABLES
  args,     \* the arguments not parsed yet
  path,     \* ima_file
  present,  \* the records the list had when it was opened, a history variable
  files,    \* files[p]: the file at path p
  later,    \* the records the kernel has yet to add
  faults,   \* the faults of this run
  step,     \* the next step
  buf,      \* buf[u]: the part of the file at position u of the buffer
  ptr,      \* the parts that are parsed
  header,   \* the record template.header is of, 0 for none
  name,     \* template.name, "" for none
  data,     \* the record template.template_data is of, 0 for none
  fmt,      \* the format of the last entry of ima_template_desc
  module,   \* module_name: a record the name is from, 0 for none
  shown,    \* what was printed: the records, and whether the list is closed
  code      \* the exit status, 1 while running

input == <<args, path, files, later, faults, present>>
template == <<header, name, data, fmt, module>>
listVars == <<args, path, files, later, faults, present, step, buf, ptr, header, name, data, fmt,
              module, shown, code>>

\* The fields of a known template.
Format ==
  [t \in {"ima", "ima-ng", "ima-sig", "ima-modsig"} |->
     CASE t = "ima" -> <<"d", "n">>
       [] t = "ima-ng" -> <<"d-ng", "n-ng">>
       [] t = "ima-sig" -> <<"d-ng", "n-ng", "sig">>
       [] t = "ima-modsig" -> <<"d-ng", "n-ng", "sig", "d-modsig", "modsig">>]

ListInit ==
  /\ \E s \in Scenarios : args = s.args /\ files = s.files /\ later = s.later /\ faults = s.faults
  /\ path = "runtime measurements" /\ present = 0 /\ step = "parse"
  /\ buf = <<>> /\ ptr = 0
  /\ header = 0 /\ name = "" /\ data = 0 /\ module = 0
  /\ fmt = Format["ima-modsig"]
  /\ shown = [records |-> <<>>, closed |-> FALSE] /\ code = 1

GoOn(label) == step' = label /\ UNCHANGED <<input, buf, ptr, template, shown, code>>

EndWith(status) == step' = "exited" /\ code' = status /\ UNCHANGED <<input, buf, ptr, template, shown>>

BreakOff == step' = "crashed" /\ UNCHANGED <<input, buf, ptr, template, shown, code>>

Short == "memory" \in faults

\* ima_parse_binary_runtime_measurements has returned -1: main does not look
\* at its result.
Refuse == EndWith(0)

-----------------------------------------------------------------------------
(* The kernel *)

\* Another file is measured.
AddRecord ==
  /\ later # <<>> /\ files["runtime measurements"] # Absent
  /\ files' = [files EXCEPT !["runtime measurements"] =
              [records |-> Append(@.records, Head(later)), size |-> @.size + Parts]]
  /\ later' = Tail(later)
  /\ UNCHANGED <<args, path, faults, present, step, buf, ptr, template, shown, code>>

-----------------------------------------------------------------------------
(* main and ml_get_ima_list_new *)

ArgumentIs(o) == step = "parse" /\ args # <<>> /\ args[1].opt = o

ParseMeasurements ==
  /\ ArgumentIs("measurements")
  /\ path' = "copy" /\ args' = Tail(args)
  /\ UNCHANGED <<files, later, faults, present, step, buf, ptr, template, shown, code>>

TakeVerbose ==
  /\ ArgumentIs("verbose") /\ args' = Tail(args)
  /\ UNCHANGED <<path, files, later, faults, present, step, buf, ptr, template, shown, code>>

ArgumentRefused == ArgumentIs("unknown") /\ EndWith(-1)

ArgumentsEnd == step = "parse" /\ args = <<>> /\ GoOn("open")

Open ==
  /\ step = "open"
  /\ \/ files[path] = Absent /\ EndWith(-1)
     \/ /\ files[path] # Absent
        /\ step' = "read" /\ present' = files[path].size \div Parts
        /\ UNCHANGED <<args, path, files, later, faults, buf, ptr, template, shown, code>>

ReadPart ==
  /\ step = "read" /\ Len(buf) < files[path].size
  /\ buf' = Append(buf, Len(buf) + 1)
  /\ UNCHANGED <<input, step, ptr, template, shown, code>>

\* The read is tried again, into the same place.
ReadAgain == step = "read" /\ "again" \in faults /\ UNCHANGED listVars

\* [fault] Every result but a byte ends the list.
ReadEndOnAgain == step = "read" /\ (Len(buf) >= files[path].size \/ "again" \in faults) /\ GoOn("header")

ReadEnd == step = "read" /\ Len(buf) >= files[path].size /\ GoOn("header")

\* Without memory the read fails, too, as it is into a buffer at NULL.
ReadFails == step = "read" /\ faults \cap {"read", "memory"} # {} /\ EndWith(-1)

-----------------------------------------------------------------------------
(* ima_parse_binary_runtime_measurements *)

RecordOf(part) == (part + Parts - 1) \div Parts

TheRecord(r) == files[path].records[r]

\* The next part of the buffer is the part k of the record that is parsed.
NextIs(k) == ptr < Len(buf) /\ buf[ptr + 1] = Parts * (header - 1) + k

ReadHeader ==
  /\ step = "header"
  /\ IF ptr < Len(buf)
     THEN /\ header' = RecordOf(buf[ptr + 1]) /\ ptr' = ptr + 1 /\ step' = "name"
          /\ UNCHANGED <<input, buf, name, data, fmt, module, shown, code>>
     ELSE GoOn("close")

\* The data of the record in front, freed already, or an uninitialised pointer
\* is freed.
NameTooLong == TheRecord(header).template = "too long"

RejectName == step = "name" /\ NameTooLong /\ (Refuse \/ BreakOff)

\* A name that is not there leaves the zeros of the memset.
ReadName ==
  /\ step = "name" /\ ~NameTooLong
  /\ IF NextIs(2) THEN name' = TheRecord(header).template /\ ptr' = ptr + 1
     ELSE name' = "" /\ ptr' = ptr
  /\ step' = "data"
  /\ UNCHANGED <<input, buf, header, data, fmt, module, shown, code>>

\* read_template_data: what is not there leaves the zeros of calloc, of a size
\* that may be that of the record in front.
ReadTemplateData ==
  /\ step = "data"
  /\ IF NextIs(3) /\ name # "" THEN data' = header /\ ptr' = ptr + 1
     ELSE data' = 0 /\ ptr' = ptr
  /\ step' = "verify"
  /\ UNCHANGED <<input, buf, header, name, fmt, module, shown, code>>

\* [fault] The result of verify_template_hash is not looked at.
VerifyNothing == step = "verify" /\ GoOn("fields")

VerifyTemplateHash ==
  /\ step = "verify"
  /\ IF data = header /\ ~TheRecord(header).violation THEN GoOn("fields") ELSE Refuse

\* The fields of a template, after the last entry of the table was overwritten
\* for one that is not in it.
Unknown(t) == t \notin DOMAIN Format

FieldsOf(t) == IF t = "ima-modsig" \/ Unknown(t) THEN fmt' ELSE Format[t]

\* The branch that the program takes for a name.
Family(t) ==
  CASE t \in {"ima-sig", "ima-sigv2"} -> "ima-sig"
    [] t = "ima-modsig" -> "ima-modsig"
    [] t \in {"ima-ng", "ima-ngv2"} -> "ima-ng"
    [] OTHER -> "unknown"

\* The name of a template as a format; that of a custom one is its format.
AsFormat(t) == IF t = "custom" THEN <<"d-ng", "n-ng">> ELSE <<t>>

\* The first field n-ng is the name of the module, in the branches that know
\* it; the fields behind it are not looked at.
HasName(t) == Family(t) # "unknown" /\ \E j \in DOMAIN FieldsOf(t) : FieldsOf(t)[j] = "n-ng"

\* [fault] A record without a name is passed over.
GetTemplateDataOrSkip ==
  /\ step = "fields"
  /\ fmt' = IF Unknown(name) THEN AsFormat(name) ELSE fmt
  /\ \/ HasName(name) /\ module' = header /\ step' = "print"
     \/ ~HasName(name) /\ module' = 0 /\ step' = "header"
  /\ UNCHANGED <<input, buf, ptr, header, name, data, shown, code>>

\* get_template_data
GetTemplateData ==
  /\ step = "fields"
  /\ fmt' = IF Unknown(name) THEN AsFormat(name) ELSE fmt
  /\ \/ /\ HasName(name)
        /\ module' = header /\ step' = "print"
        /\ UNCHANGED <<input, buf, ptr, header, name, data, shown, code>>
     \/ /\ ~HasName(name) \/ Short
        /\ module' = 0 /\ step' = "exited" /\ code' = 0
        /\ UNCHANGED <<input, buf, ptr, header, name, data, shown>>

\* "(null)", without memory for the text of the hash.
NoText == 0

PrintRecord ==
  /\ step = "print" /\ step' = "header"
  /\ \E hash \in {data} \cup (IF Short THEN {NoText} ELSE {}) :
       shown' = [shown EXCEPT !.records = Append(@, [sha256 |-> hash, description |-> module])]
  /\ UNCHANGED <<input, buf, ptr, template, code>>

CloseList ==
  /\ step = "close"
  /\ shown' = [shown EXCEPT !.closed = TRUE]
  /\ step' = "exited" /\ code' = 0
  /\ UNCHANGED <<input, buf, ptr, template>>

\* The template data and the digest contexts are used without a look at the
\* pointer.
NoMemory == Short /\ step \in {"data", "verify", "print"} /\ BreakOff

-----------------------------------------------------------------------------

Main == ParseMeasurements \/ TakeVerbose \/ ArgumentRefused \/ ArgumentsEnd \/ Open

ReadList == ReadPart \/ ReadAgain \/ ReadEnd \/ ReadFails

ParseRecords ==
  \/ ReadHeader \/ RejectName \/ ReadName \/ ReadTemplateData \/ VerifyTemplateHash
  \/ GetTemplateData \/ PrintRecord \/ CloseList \/ NoMemory

Program == Main \/ ReadList \/ ParseRecords

ListEnded == step \in {"exited", "crashed"} /\ UNCHANGED listVars

ListNext == AddRecord \/ Program \/ ListEnded

ListSpec == ListInit /\ [][ListNext]_listVars

-----------------------------------------------------------------------------
\* What the program is for: the hashes of the records that the kernel has
\* extended, all of them and in its order.

\* The hash of the data of a record is what the kernel extends, except for a
\* violation.
Extended(r) == ~TheRecord(r).violation

\* Templates with the digest of a file and its path that the program supports.
IsSupported(r) == TheRecord(r).template \in {"ima-ng", "ima-sig", "ima-modsig"}

Complete(r) == Parts * r <= files[path].size

Printed == Len(shown.records)

\* Every variable of the parser keeps its range, nothing is parsed beyond the
\* buffer (ima_measure.c:112-123), and the buffer is a part of the file
\* (main.c:57-74).
ParserTypeOK ==
  /\ step \in ParserLabel /\ path \in ListPath /\ code \in {-1, 0, 1}
  /\ files \in [ListPath -> ListFile \cup {Absent}]
  /\ buf = [u \in 1 .. Len(buf) |-> u]
  /\ buf # <<>> => Len(buf) <= files[path].size
  /\ ptr \in 0 .. Len(buf)
  /\ name \in RecordTemplate \cup {""}
  /\ {header, data, module} \subseteq 0 .. RecordOf(Len(buf))

\* Each printed value is that of one record, of its data and its name, in the
\* order of the list, and only of records whose value the kernel has extended,
\* whatever part of the file the buffers of the record before come from
\* (ima_measure.c:310-370).
PrintedIsExtended ==
  \A r \in DOMAIN shown.records :
    /\ shown.records[r].description = r
    /\ shown.records[r].sha256 = r \/ (Short /\ shown.records[r].sha256 = NoText)
    /\ Complete(r) /\ Extended(r) /\ IsSupported(r)

\* A list that is closed has every record that was there when the program
\* opened it, however the kernel went on and however often the read had to be
\* tried again (main.c:57-74); the end of the list is the only sign of that, as
\* main returns 0 also for a record it could not parse (main.c:133-138).
ClosedIsComplete ==
  shown.closed => Printed = RecordOf(Len(buf)) /\ Printed >= present

\* A list stays open only in front of a record that cannot be a reference
\* value: a violation, a template that is not supported, a record that is cut
\* off or malformed (ima_measure.c:310-341).
OpenHasReason ==
  step = "exited" /\ code = 0 /\ ~shown.closed /\ ~Short =>
    LET r == Printed + 1
    IN  /\ r \in DOMAIN files[path].records
        /\ ~Complete(r) \/ ~Extended(r) \/ ~IsSupported(r)

\* The bracket at the end of the list tells whether it is complete: main returns
\* 0 in either case (main.c:133-138).
BracketTellsComplete == ClosedIsComplete /\ OpenHasReason

\* The last entry of the table of templates, overwritten with a pointer to the
\* name of an unknown one (ima_measure.c:145-149), is not used for another
\* record.
TableOfRecord == step = "fields" => fmt = Format["ima-modsig"]

\* What one record leaves to the next, in the table of templates and in the
\* buffers, is not taken for its own (ima_measure.c:112-149).
RecordsApart == ParserTypeOK /\ TableOfRecord
=============================================================================
