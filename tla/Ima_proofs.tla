----------------------------- MODULE Ima_proofs -----------------------------
(***************************************************************************)
(* Proofs about the two views of the kernel's measurement list.            *)
(*                                                                         *)
(* parse-ima-pcr, for every list, every growth of it and every fault: what *)
(* is printed is what the kernel has extended, a closed list is complete,  *)
(* and nothing of a record is left to the next one.                        *)
(*                                                                         *)
(* calculate-ima-pcr with pcr-extend, for every tree, every state of its   *)
(* files and every command line: what is printed are the entries of the    *)
(* files below the paths, and the register is made of them.                *)
(***************************************************************************)
EXTENDS ImaLog, ImaReference, SequenceLemmas, FiniteSetTheorems, TLAPS
-----------------------------------------------------------------------------
(* The inductive invariant *)

RuntimeList == "runtime measurements"

\* The files, which the kernel extends by whole records.
FilesSound ==
  /\ path \in ListPath /\ later \in Seq(Record) /\ files \in [ListPath -> ListFile \cup {Absent}]
  /\ \A p \in ListPath : files[p] # Absent => files[p].size <= Parts * Len(files[p].records)
  /\ files[RuntimeList] # Absent => files[RuntimeList].size = Parts * Len(files[RuntimeList].records)

\* What is read ends with a record, or it is a copy and all of it.
BufferEnds ==
  \/ Len(buf) = Parts * RecordOf(Len(buf))
  \/ path = "copy" /\ Len(buf) = files[path].size

InRecord == {"name", "data", "verify", "fields", "print"}

IsParsing == step \in InRecord \cup {"header", "close"}

\* The buffer holds the beginning of the file, and once it is read, all that was
\* there when the file was opened.
BufferSound ==
  /\ present \in Nat /\ buf \in Seq(Nat) /\ buf = [u \in 1 .. Len(buf) |-> u]
  /\ step \in {"parse", "open"} => buf = <<>>
  /\ buf # <<>> \/ step = "read" \/ IsParsing \/ code = 0 => files[path] # Absent
  /\ files[path] # Absent => Len(buf) <= files[path].size
  /\ step = "read" => Parts * present <= files[path].size
  /\ IsParsing => Parts * present <= Len(buf) /\ BufferEnds

\* The template of the record that is parsed, and the parts of it that were there.
NameRead == name = TheRecord(header).template
DataRead == data = header /\ ptr = Parts * header /\ NameRead

\* Where the parser is in its buffer: between two records all that is printed is
\* parsed; within one, its header, its name and its data, in this order.
ParserSound ==
  /\ ptr \in 0 .. Len(buf) /\ {header, data, module} \subseteq 0 .. RecordOf(Len(buf))
  /\ name \in RecordTemplate \cup {""}
  /\ step \in {"parse", "open", "read"} => ptr = 0
  /\ step = "header" => ptr = Parts * Printed
  /\ step = "close" => ptr = Parts * Printed /\ ptr = Len(buf)
  /\ step \in InRecord => header = Printed + 1
  /\ step = "name" => ptr = Parts * Printed + 1
  /\ step = "data" => \/ NameRead /\ ptr = Parts * Printed + 2
                      \/ name = "" /\ ptr = Len(buf) /\ ptr < Parts * header
  /\ step = "verify" => \/ DataRead
                        \/ data = 0 /\ ptr = Len(buf) /\ ptr < Parts * header
  /\ step \in {"fields", "print"} => DataRead /\ Extended(header)
  /\ step = "print" => module = header /\ IsSupported(header)

\* The table of templates is as it was until the program ends.
TableSound == step \notin {"exited", "crashed"} => fmt = Format["ima-modsig"]

\* What is printed, and why a list was left open.
OutputSound ==
  /\ step \in ParserLabel /\ code \in {-1, 0, 1}
  /\ shown \in [records : Seq([sha256 : Nat, description : Nat]), closed : BOOLEAN]
  /\ PrintedIsExtended
  /\ Parts * Printed <= Len(buf)
  /\ step \in {"parse", "open", "read"} => shown.records = <<>>
  /\ step # "exited" => code = 1 /\ ~shown.closed
  /\ ClosedIsComplete
  /\ OpenHasReason

IInv == FilesSound /\ BufferSound /\ ParserSound /\ TableSound /\ OutputSound

-----------------------------------------------------------------------------
(* Positions *)

LEMMA RecordOfBounds ==
  ASSUME NEW n \in Nat
  PROVE  /\ RecordOf(n) \in Nat
         /\ n <= Parts * RecordOf(n) /\ Parts * RecordOf(n) <= n + 2
  BY SMT DEF RecordOf, Parts

LEMMA RecordOfIs ==
  ASSUME NEW n \in Nat, NEW r \in Nat, n <= Parts * r, Parts * r <= n + 2
  PROVE  RecordOf(n) = r
  <1> DEFINE q == RecordOf(n)
  <1>1. q \in Nat /\ n <= 3 * q /\ 3 * q <= n + 2 BY RecordOfBounds DEF Parts
  <1>2. n <= 3 * r /\ 3 * r <= n + 2 BY DEF Parts
  <1> HIDE DEF q
  <1>3. q = r BY <1>1, <1>2, SMT
  <1> QED BY <1>3 DEF q

LEMMA BufferIs ==
  ASSUME BufferSound, NEW u \in 1 .. Len(buf)
  PROVE  buf[u] = u BY DEF BufferSound

\* A record that begins in the buffer is one of the file.
LEMMA RecordsOfBuffer ==
  ASSUME FilesSound, BufferSound, NEW r \in Nat, r # 0, r <= RecordOf(Len(buf))
  PROVE  /\ files[path] \in ListFile /\ files[path] # Absent
         /\ r \in DOMAIN files[path].records /\ TheRecord(r) \in Record
  <1>1. Len(buf) \in Nat BY DEF BufferSound
  <1>2. Len(buf) # 0 BY <1>1, RecordOfBounds, SMT DEF Parts
  <1>3. buf # <<>> BY <1>2, EmptySeq
  <1>4. files[path] # Absent /\ files[path] \in ListFile BY <1>3 DEF BufferSound, FilesSound
  <1>5. /\ files[path].size \in Nat /\ files[path].records \in Seq(Record)
        /\ Len(buf) <= files[path].size /\ files[path].size <= Parts * Len(files[path].records)
    BY <1>4 DEF FilesSound, BufferSound, ListFile
  <1>6. Len(files[path].records) \in Nat BY <1>5
  <1>7. r \in 1 .. Len(files[path].records)
    <2> DEFINE q == RecordOf(Len(buf))
    <2> DEFINE b == Len(buf)
    <2> DEFINE k == Len(files[path].records)
    <2> DEFINE z == files[path].size
    <2>1. q \in Nat /\ 3 * q <= b + 2 BY <1>1, RecordOfBounds DEF Parts
    <2>2. b <= z /\ z <= 3 * k /\ b \in Nat /\ z \in Nat /\ k \in Nat /\ r <= q
      BY <1>1, <1>5, <1>6 DEF Parts
    <2> HIDE DEF q, b, z, k
    <2>3. r <= k BY <2>1, <2>2, SMT
    <2> QED BY <2>2, <2>3, SMT DEF k
  <1> QED BY <1>4, <1>5, <1>7 DEF TheRecord

-----------------------------------------------------------------------------
(* The kernel adds a record *)

\* What the kernel adds changes no record and no size but that of its own list.
LEMMA Grown ==
  ASSUME FilesSound, AddRecord
  PROVE  /\ FilesSound'
         /\ \A p \in ListPath : files'[p] = Absent <=> files[p] = Absent
         /\ \A p \in ListPath : files[p] # Absent =>
              /\ files[p].size \in Nat /\ files'[p].size \in Nat /\ files[p].size <= files'[p].size
              /\ \A r \in DOMAIN files[p].records :
                   r \in DOMAIN files'[p].records /\ files'[p].records[r] = files[p].records[r]
         /\ files'["copy"] = files["copy"]
  <1> DEFINE old == files[RuntimeList]
  <1> DEFINE new == [records |-> Append(old.records, Head(later)), size |-> old.size + Parts]
  <1>1. /\ later # <<>> /\ old # Absent /\ files' = [files EXCEPT ![RuntimeList] = new]
        /\ later' = Tail(later) /\ path' = path BY DEF AddRecord, RuntimeList, input
  <1>2. old \in ListFile /\ old.records \in Seq(Record) /\ old.size \in Nat
    BY <1>1 DEF FilesSound, ListFile, RuntimeList, ListPath
  <1>3. Head(later) \in Record /\ Tail(later) \in Seq(Record)
    BY <1>1, HeadTailProperties DEF FilesSound
  <1>4. /\ new.records \in Seq(Record) /\ Len(new.records) = Len(old.records) + 1
        /\ \A r \in DOMAIN old.records :
             r \in DOMAIN new.records /\ new.records[r] = old.records[r]
    BY <1>2, <1>3, AppendProperties
  <1>5. new.size \in Nat /\ new.size = old.size + 3 BY <1>2, SMT DEF Parts
  <1>6. new \in ListFile /\ new # Absent
    <2>1. new.records \in Seq(Record) /\ new.size \in Nat BY <1>4, <1>5
    <2>2. [records |-> new.records, size |-> new.size] \in ListFile BY <2>1 DEF ListFile
    <2>3. new = [records |-> new.records, size |-> new.size] OBVIOUS
    <2> HIDE DEF new
    <2> QED BY <2>2, <2>3, AbsentAssumption, Zenon
  <1> HIDE DEF new
  <1>7. \A p \in ListPath : files'[p] = IF p = RuntimeList THEN new ELSE files[p]
    BY <1>1 DEF FilesSound
  <1>8. RuntimeList \in ListPath /\ "copy" \in ListPath /\ "copy" # RuntimeList
    BY DEF ListPath, RuntimeList
  <1>9. Len(old.records) \in Nat /\ old.size = 3 * Len(old.records)
    BY <1>1, <1>2 DEF FilesSound, Parts
  <1>10. new.size = Parts * Len(new.records) BY <1>4, <1>5, <1>9, SMT DEF Parts
  <1>11. \A p \in ListPath : files'[p] # Absent => files'[p].size <= Parts * Len(files'[p].records)
    <2> SUFFICES ASSUME NEW p \in ListPath, files'[p] # Absent
                 PROVE  files'[p].size <= Parts * Len(files'[p].records) OBVIOUS
    <2>1. CASE p = RuntimeList
      <3>1. files'[p] = new BY <1>7, <2>1
      <3> QED BY <1>5, <1>10, <3>1, SMT
    <2>2. CASE p # RuntimeList BY <1>7, <2>2 DEF FilesSound
    <2> QED BY <2>1, <2>2
  <1>12. FilesSound'
    <2>1. files' \in [ListPath -> ListFile \cup {Absent}] BY <1>1, <1>6 DEF FilesSound
    <2> QED BY <1>1, <1>3, <1>7, <1>8, <1>10, <1>11, <2>1 DEF FilesSound
  <1>13. \A p \in ListPath : files'[p] = Absent <=> files[p] = Absent BY <1>1, <1>6, <1>7
  <1>14. ASSUME NEW p \in ListPath, files[p] # Absent
         PROVE  /\ files[p].size \in Nat /\ files'[p].size \in Nat /\ files[p].size <= files'[p].size
                /\ \A r \in DOMAIN files[p].records :
                     r \in DOMAIN files'[p].records /\ files'[p].records[r] = files[p].records[r]
    <2>1. CASE p = RuntimeList
      <3>1. files'[p] = new /\ files[p] = old BY <1>7, <2>1
      <3>2. old.size \in Nat /\ new.size \in Nat /\ old.size <= new.size BY <1>2, <1>5, SMT
      <3> HIDE DEF old
      <3> QED BY <1>4, <3>1, <3>2, Zenon
    <2>2. CASE p # RuntimeList
      <3>1. files'[p] = files[p] BY <1>7, <2>2
      <3>2. files[p].size \in Nat BY <1>14 DEF FilesSound, ListFile
      <3> QED BY <3>1, <3>2, SMT
    <2> QED BY <2>1, <2>2
  <1> QED BY <1>7, <1>8, <1>12, <1>13, <1>14, Zenon

LEMMA PrintedIsNat ==
  ASSUME IInv
  PROVE  /\ shown.records \in Seq([sha256 : Nat, description : Nat]) /\ Printed \in Nat
         /\ DOMAIN shown.records = 1 .. Printed
         /\ Len(buf) \in Nat /\ RecordOf(Len(buf)) \in Nat /\ ptr \in Nat
         /\ header \in Nat /\ header <= RecordOf(Len(buf))
  <1>1. shown.records \in Seq([sha256 : Nat, description : Nat]) BY DEF IInv, OutputSound
  <1>2. Len(buf) \in Nat BY DEF IInv, BufferSound
  <1>3. RecordOf(Len(buf)) \in Nat BY <1>2, RecordOfBounds
  <1>4. ptr \in 0 .. Len(buf) /\ header \in 0 .. RecordOf(Len(buf)) BY DEF IInv, ParserSound
  <1> QED BY <1>1, <1>2, <1>3, <1>4 DEF Printed

LEMMA RecordKept ==
  ASSUME FilesSound, AddRecord, files[path] # Absent, NEW r \in DOMAIN files[path].records
  PROVE  r \in DOMAIN files'[path'].records /\ TheRecord(r)' = TheRecord(r)
  <1>1. path' = path /\ path \in ListPath BY DEF AddRecord, FilesSound
  <1> QED BY <1>1, Grown DEF TheRecord

LEMMA AddRecordBuffer == ASSUME IInv, AddRecord PROVE BufferSound'
  <1>1. UNCHANGED <<path, present, step, buf, code>> /\ path \in ListPath
    BY DEF AddRecord, IInv, FilesSound
  <1>2. /\ files'[path] = Absent <=> files[path] = Absent
        /\ files[path] # Absent =>
             files[path].size \in Nat /\ files'[path].size \in Nat /\ files[path].size <= files'[path].size
        /\ files'["copy"] = files["copy"] BY <1>1, Grown DEF IInv
  <1>3. Len(buf) \in Nat /\ present \in Nat BY DEF IInv, BufferSound
  <1>4. files[path] # Absent =>
          /\ Len(buf) <= files'[path].size
          /\ Parts * present <= files[path].size => Parts * present <= files'[path].size
    BY <1>2, <1>3, SMT DEF IInv, BufferSound, Parts
  <1>5. BufferEnds => BufferEnds' BY <1>1, <1>2 DEF BufferEnds, RecordOf
  <1>6. IsParsing' <=> IsParsing BY <1>1 DEF IsParsing
  <1> QED BY <1>1, <1>2, <1>4, <1>5, <1>6 DEF IInv, BufferSound

LEMMA AddRecordParser == ASSUME IInv, AddRecord PROVE ParserSound'
  <1>1. UNCHANGED <<path, step, buf, ptr, header, name, data, module, shown>>
    BY DEF AddRecord, template
  <1>2. CASE step \in InRecord
    <2>1. header = Printed + 1 BY <1>2 DEF IInv, ParserSound
    <2>2. header \in Nat /\ header # 0 /\ header <= RecordOf(Len(buf)) BY <2>1, PrintedIsNat
    <2>3. files[path] # Absent /\ header \in DOMAIN files[path].records
      BY <2>2, RecordsOfBuffer DEF IInv
    <2>4. TheRecord(header)' = TheRecord(header) BY <1>1, <2>3, RecordKept DEF IInv
    <2> QED
      BY <1>1, <2>4
      DEF IInv, ParserSound, NameRead, DataRead, Extended, IsSupported, Printed, InRecord, RecordOf
  <1>3. CASE step \notin InRecord
    BY <1>1, <1>3 DEF IInv, ParserSound, InRecord, Printed, RecordOf
  <1> QED BY <1>2, <1>3

LEMMA AddRecordOutput == ASSUME IInv, AddRecord PROVE OutputSound'
  <1>1. UNCHANGED <<path, step, buf, shown, code, faults, present>> /\ path \in ListPath
    BY DEF AddRecord, IInv, FilesSound
  <1>2. Printed \in Nat /\ Len(buf) \in Nat /\ Parts * Printed <= Len(buf)
    BY DEF IInv, OutputSound, BufferSound, Printed
  <1>3. FilesSound /\ BufferSound BY DEF IInv
  <1>4. ASSUME NEW r \in DOMAIN files[path].records, files[path] # Absent
        PROVE  /\ r \in DOMAIN files'[path'].records
               /\ Extended(r)' = Extended(r) /\ IsSupported(r)' = IsSupported(r)
    BY <1>3, <1>4, RecordKept DEF Extended, IsSupported
  <1>5. PrintedIsExtended'
    <2> SUFFICES ASSUME NEW r \in DOMAIN shown.records
                 PROVE  Complete(r)' /\ Extended(r)' /\ IsSupported(r)'
      BY <1>1 DEF IInv, OutputSound, PrintedIsExtended, Short
    <2>1. r \in Nat /\ r # 0 /\ r <= Printed BY DEF Printed, IInv, OutputSound
    <2>2. RecordOf(Len(buf)) \in Nat /\ Len(buf) <= 3 * RecordOf(Len(buf))
      BY <1>2, RecordOfBounds DEF Parts
    <2>3. r <= RecordOf(Len(buf)) BY <1>2, <2>1, <2>2, SMT DEF Parts
    <2>4. r \in DOMAIN files[path].records /\ files[path] # Absent
      BY <1>3, <2>1, <2>3, RecordsOfBuffer
    <2>5. Complete(r) /\ Extended(r) /\ IsSupported(r)
      BY DEF IInv, OutputSound, PrintedIsExtended
    <2>6. files[path].size \in Nat /\ files'[path].size \in Nat /\ files[path].size <= files'[path].size
      BY <1>1, <1>3, <2>4, Grown
    <2>7. Complete(r)' BY <1>1, <2>1, <2>5, <2>6, SMT DEF Complete, Parts
    <2> QED BY <1>4, <2>4, <2>5, <2>7
  <1>6. ClosedIsComplete' BY <1>1 DEF IInv, OutputSound, ClosedIsComplete, Printed, RecordOf
  <1>7. OpenHasReason'
    <2> SUFFICES ASSUME step = "exited", code = 0, ~shown.closed, ~Short, NEW r, r = Printed + 1
                 PROVE  /\ r \in DOMAIN files'[path'].records
                        /\ ~Complete(r)' \/ ~Extended(r)' \/ ~IsSupported(r)'
      BY <1>1 DEF OpenHasReason, Short, Printed, Complete, Extended, IsSupported, TheRecord
    <2>1. /\ r \in DOMAIN files[path].records
          /\ ~Complete(r) \/ ~Extended(r) \/ ~IsSupported(r)
      BY DEF IInv, OutputSound, OpenHasReason
    <2>2. files[path] # Absent BY DEF IInv, BufferSound
    <2>3. r \in DOMAIN files'[path'].records
          /\ Extended(r)' = Extended(r) /\ IsSupported(r)' = IsSupported(r)
      BY <1>4, <2>1, <2>2
    <2>4. ASSUME ~Complete(r) PROVE ~Complete(r)'
      <3>1. files[path] \in ListFile /\ files[path].records \in Seq(Record) /\ files[path].size \in Nat
        BY <1>1, <2>2 DEF IInv, FilesSound, ListFile
      <3>2. r \in Nat /\ r <= Len(files[path].records) /\ Len(files[path].records) \in Nat
        BY <2>1, <3>1
      <3>3. path # RuntimeList
        <4> SUFFICES ASSUME path = RuntimeList PROVE FALSE OBVIOUS
        <4>1. files[path].size = 3 * Len(files[path].records)
          BY <1>3, <2>2 DEF FilesSound, Parts
        <4>2. ~(3 * r <= files[path].size) BY <2>4 DEF Complete, Parts
        <4> QED BY <3>1, <3>2, <4>1, <4>2, SMT
      <3>4. path = "copy" BY <1>1, <3>3 DEF ListPath, RuntimeList
      <3>5. files'[path] = files[path] BY <1>3, <3>4, Grown
      <3> QED BY <1>1, <2>4, <3>5 DEF Complete
    <2> QED BY <2>1, <2>3, <2>4
  <1> QED BY <1>1, <1>5, <1>6, <1>7 DEF IInv, OutputSound, Printed

LEMMA AddRecordStep == ASSUME IInv, AddRecord PROVE IInv'
  <1>1. TableSound' BY DEF AddRecord, template, IInv, TableSound
  <1> QED BY <1>1, Grown, AddRecordBuffer, AddRecordParser, AddRecordOutput DEF IInv

-----------------------------------------------------------------------------
(* The program opens and reads the list *)

LEMMA FilesKept ==
  ASSUME IInv, UNCHANGED <<files, later>>, path' \in {path, "copy"}
  PROVE  FilesSound' BY DEF IInv, FilesSound, ListPath

LEMMA NothingRead ==
  ASSUME IInv, step \in {"parse", "open", "read"}
  PROVE  /\ code = 1 /\ ~shown.closed /\ shown.records = <<>> /\ Printed = 0
         /\ present \in Nat
         /\ step # "read" => buf = <<>> BY DEF IInv, BufferSound, OutputSound, Printed

\* A step that leaves the output of the parser alone.
LEMMA OutputKept ==
  ASSUME IInv, UNCHANGED shown, step \in {"parse", "open", "read"}, code' \in {-1, 1},
         step' \in ParserLabel, step' # "exited" => code' = 1, Len(buf') \in Nat
  PROVE  OutputSound'
  <1>1. shown.records = <<>> /\ ~shown.closed /\ Printed = 0 BY NothingRead
  <1>2. Printed' = 0 /\ shown'.records = <<>> /\ ~shown'.closed BY <1>1 DEF Printed
  <1>3. PrintedIsExtended' BY <1>2 DEF PrintedIsExtended
  <1>4. Parts * Printed' <= Len(buf') BY <1>2, SMT DEF Parts
  <1> QED BY <1>2, <1>3, <1>4 DEF IInv, OutputSound, ClosedIsComplete, OpenHasReason

LEMMA ParseStep ==
  ASSUME IInv, ParseMeasurements \/ TakeVerbose \/ ArgumentRefused \/ ArgumentsEnd
  PROVE  IInv'
  <1>1. /\ step = "parse" /\ path' \in {path, "copy"} /\ step' \in {"parse", "open", "exited"}
        /\ UNCHANGED <<files, later, faults, present, buf, ptr, header, name, data, fmt, module, shown>>
        /\ code' \in {-1, code}
        /\ step' # "exited" => code' = code
        /\ step' # "parse" => path' = path
    BY DEF ParseMeasurements, TakeVerbose, ArgumentRefused, ArgumentsEnd, ArgumentIs, EndWith, GoOn, input, template
  <1>2. code = 1 /\ buf = <<>> /\ present \in Nat BY <1>1, NothingRead
  <1>3. FilesSound' BY <1>1, FilesKept
  <1>4. BufferSound'
    <2>1. \A p \in ListPath : files[p] # Absent => files[p].size \in Nat
      BY DEF IInv, FilesSound, ListFile
    <2>2. Len(buf) = 0 /\ path' \in ListPath BY <1>1, <1>2 DEF IInv, FilesSound, ListPath
    <2>3. files'[path'] # Absent => Len(buf') <= files'[path'].size BY <1>1, <2>1, <2>2, SMT
    <2>4. code' # 0 BY <1>1, <1>2
    <2> QED BY <1>1, <1>2, <2>3, <2>4 DEF IInv, BufferSound, IsParsing, InRecord
  <1>5. ParserSound' BY <1>1 DEF IInv, ParserSound, InRecord, RecordOf
  <1>6. TableSound' BY <1>1 DEF IInv, TableSound
  <1>7. OutputSound' BY <1>1, <1>2, OutputKept DEF ParserLabel
  <1> QED BY <1>3, <1>4, <1>5, <1>6, <1>7 DEF IInv

LEMMA OpenStep == ASSUME IInv, Open PROVE IInv'
  <1>1. /\ step = "open" /\ UNCHANGED <<path, files, later, buf, ptr, header, name, data, fmt, module, shown>>
        /\ \/ step' = "exited" /\ code' = -1 /\ present' = present
           \/ /\ files[path] # Absent /\ step' = "read" /\ present' = files[path].size \div Parts
              /\ code' = code BY DEF Open, EndWith, input, template
  <1>2. code = 1 /\ buf = <<>> /\ present \in Nat BY <1>1, NothingRead
  <1>3. files[path] # Absent => files[path].size \in Nat BY DEF IInv, FilesSound, ListFile
  <1>4. BufferSound'
    <2>1. step' = "read" => present' \in Nat /\ Parts * present' <= files[path].size
      BY <1>1, <1>3, SMT DEF Parts
    <2>2. code' # 0 /\ present' \in Nat BY <1>1, <1>2, <2>1
    <2> QED BY <1>1, <1>2, <2>1, <2>2 DEF IInv, BufferSound, IsParsing, InRecord
  <1>5. ParserSound' BY <1>1 DEF IInv, ParserSound, InRecord, RecordOf
  <1>6. TableSound' BY <1>1 DEF IInv, TableSound
  <1>7. OutputSound' BY <1>1, <1>2, OutputKept DEF ParserLabel
  <1> QED BY <1>1, <1>4, <1>5, <1>6, <1>7, FilesKept DEF IInv

LEMMA ReadPartStep == ASSUME IInv, ReadPart PROVE IInv'
  <1>1. /\ step = "read" /\ step' = "read" /\ code' = code /\ Len(buf) < files[path].size
        /\ buf' = Append(buf, Len(buf) + 1)
        /\ UNCHANGED <<path, files, later, present, ptr, header, name, data, fmt, module, shown>>
    BY DEF ReadPart, input, template
  <1>2. code = 1 /\ present \in Nat /\ buf \in Seq(Nat) /\ Len(buf) \in Nat
    BY <1>1, NothingRead DEF IInv, BufferSound
  <1>3. Len(buf') = Len(buf) + 1 /\ buf' \in Seq(Nat) BY <1>1, <1>2, AppendProperties
  <1>4. files[path] # Absent /\ files[path].size \in Nat
    BY <1>1 DEF IInv, BufferSound, FilesSound, ListFile
  <1>5. BufferSound'
    <2>1. buf' = [u \in 1 .. Len(buf') |-> u]
      <3>1. \A u \in 1 .. Len(buf') : buf'[u] = u
        <4> SUFFICES ASSUME NEW u \in 1 .. Len(buf') PROVE buf'[u] = u OBVIOUS
        <4>1. CASE u \in 1 .. Len(buf)
          BY <1>1, <1>2, <4>1, BufferIs, AppendProperties DEF IInv
        <4>2. CASE u = Len(buf) + 1 BY <1>1, <1>2, <4>2, AppendProperties
        <4> QED BY <1>2, <1>3, <4>1, <4>2, SMT
      <3>2. buf' = [u \in DOMAIN buf' |-> buf'[u]] /\ DOMAIN buf' = 1 .. Len(buf') BY <1>3
      <3> QED BY <3>1, <3>2
    <2>2. Len(buf') <= files[path].size BY <1>1, <1>2, <1>3, <1>4, SMT
    <2> QED BY <1>1, <1>2, <1>3, <1>4, <2>1, <2>2 DEF IInv, BufferSound, IsParsing, InRecord
  <1>6. ParserSound'
    <2>1. RecordOf(Len(buf)) <= RecordOf(Len(buf'))
          /\ RecordOf(Len(buf)) \in Nat /\ RecordOf(Len(buf')) \in Nat
      BY <1>2, <1>3, SMT DEF RecordOf, Parts
    <2>2. ptr \in 0 .. Len(buf')
      <3>1. ptr = 0 BY <1>1 DEF IInv, ParserSound
      <3> QED BY <1>2, <1>3, <3>1, SMT
    <2>3. {header, data, module} \subseteq 0 .. RecordOf(Len(buf)) BY DEF IInv, ParserSound
    <2>4. 0 .. RecordOf(Len(buf)) \subseteq 0 .. RecordOf(Len(buf')) BY <2>1, SMT
    <2> QED BY <1>1, <2>2, <2>3, <2>4 DEF IInv, ParserSound, InRecord
  <1>7. TableSound' BY <1>1 DEF IInv, TableSound
  <1>8. OutputSound' BY <1>1, <1>2, <1>3, OutputKept DEF ParserLabel
  <1> QED BY <1>1, <1>5, <1>6, <1>7, <1>8, FilesKept DEF IInv

LEMMA ReadEndStep == ASSUME IInv, ReadEnd PROVE IInv'
  <1>1. /\ step = "read" /\ step' = "header" /\ Len(buf) >= files[path].size
        /\ UNCHANGED <<path, files, later, present, buf, ptr, header, name, data, fmt, module, shown, code>>
    BY DEF ReadEnd, GoOn, input, template
  <1>2. code = 1 /\ present \in Nat /\ Len(buf) \in Nat /\ Printed = 0
    BY <1>1, NothingRead DEF IInv, BufferSound
  <1>3. files[path] # Absent /\ files[path] \in ListFile /\ path \in ListPath
    BY <1>1 DEF IInv, BufferSound, FilesSound
  <1>4. Len(buf) = files[path].size
    <2>1. files[path].size \in Nat /\ Len(buf) <= files[path].size
      BY <1>3 DEF IInv, BufferSound, ListFile
    <2> QED BY <1>1, <1>2, <2>1, SMT
  <1>5. BufferEnds
    <2>1. CASE path = "copy" BY <1>4, <2>1 DEF BufferEnds
    <2>2. CASE path = RuntimeList
      <3>1. files[path].size = Parts * Len(files[path].records) /\ Len(files[path].records) \in Nat
        BY <1>3, <2>2 DEF IInv, FilesSound, ListFile
      <3>2. RecordOf(Len(buf)) = Len(files[path].records)
        BY <1>2, <1>4, <3>1, RecordOfIs, SMT DEF Parts
      <3> QED BY <1>4, <3>1, <3>2 DEF BufferEnds
    <2> QED BY <1>3, <2>1, <2>2 DEF ListPath, RuntimeList
  <1>6. BufferSound'
    BY <1>1, <1>3, <1>4, <1>5 DEF IInv, BufferSound, BufferEnds, IsParsing, RecordOf
  <1>7. ParserSound'
    <2>1. ptr = 0 /\ Parts * Printed' = 0
      <3>1. ptr = 0 BY <1>1 DEF IInv, ParserSound
      <3>2. Printed' = 0 BY <1>1, <1>2 DEF Printed
      <3> QED BY <3>1, <3>2, SMT DEF Parts
    <2> QED BY <1>1, <2>1 DEF IInv, ParserSound, InRecord, RecordOf
  <1>8. TableSound' BY <1>1 DEF IInv, TableSound
  <1>9. OutputSound' BY <1>1, <1>2, OutputKept DEF ParserLabel
  <1> QED BY <1>1, <1>6, <1>7, <1>8, <1>9, FilesKept DEF IInv

LEMMA ReadFailsStep == ASSUME IInv, ReadFails PROVE IInv'
  <1>1. /\ step = "read" /\ step' = "exited" /\ code' = -1
        /\ UNCHANGED <<path, files, later, present, buf, ptr, header, name, data, fmt, module, shown>>
    BY DEF ReadFails, EndWith, input, template
  <1>2. Len(buf) \in Nat BY DEF IInv, BufferSound
  <1>3. BufferSound' BY <1>1 DEF IInv, BufferSound, IsParsing, InRecord
  <1>4. ParserSound' BY <1>1 DEF IInv, ParserSound, InRecord, RecordOf
  <1>5. TableSound' BY <1>1 DEF TableSound
  <1>6. OutputSound' BY <1>1, <1>2, OutputKept DEF ParserLabel
  <1> QED BY <1>1, <1>3, <1>4, <1>5, <1>6, FilesKept DEF IInv

LEMMA Unchanged == ASSUME IInv, UNCHANGED listVars PROVE IInv'
  <1>1. FilesSound' /\ BufferSound' /\ TableSound'
    BY DEF listVars, IInv, FilesSound, BufferSound, BufferEnds, TableSound, IsParsing, RecordOf
  <1>2. ParserSound'
    BY DEF listVars, IInv, ParserSound, NameRead, DataRead, TheRecord, Extended, IsSupported, Printed, RecordOf
  <1>3. OutputSound'
    BY DEF listVars, IInv, OutputSound, PrintedIsExtended, ClosedIsComplete, OpenHasReason, Complete,
           TheRecord, Extended, IsSupported, Printed, RecordOf, Short
  <1> QED BY <1>1, <1>2, <1>3 DEF IInv

-----------------------------------------------------------------------------
(* The program parses the records *)

\* A record that is parsed is one of the file.
LEMMA InTheFile ==
  ASSUME IInv, step \in InRecord
  PROVE  /\ header = Printed + 1 /\ header # 0
         /\ header \in DOMAIN files[path].records
         /\ TheRecord(header) \in Record /\ TheRecord(header).template \in RecordTemplate
  <1>1. header = Printed + 1 BY DEF IInv, ParserSound
  <1>2. header # 0 BY <1>1, PrintedIsNat, SMT
  <1>3. header \in DOMAIN files[path].records /\ TheRecord(header) \in Record
    BY <1>2, PrintedIsNat, RecordsOfBuffer DEF IInv
  <1> QED BY <1>1, <1>2, <1>3 DEF Record

\* A record that ends behind the buffer is cut off in the file, too.
LEMMA CutOff ==
  ASSUME IInv, step \in InRecord, ptr = Len(buf), ptr < Parts * header
  PROVE  ~Complete(header)
  <1>1. BufferEnds BY DEF IInv, BufferSound, IsParsing
  <1>2. header <= RecordOf(Len(buf)) /\ RecordOf(Len(buf)) \in Nat /\ header \in Nat /\ ptr \in Nat
    BY PrintedIsNat
  <1>3. Len(buf) # 3 * RecordOf(Len(buf)) BY <1>2, SMT DEF Parts
  <1>4. Len(buf) = files[path].size BY <1>1, <1>3 DEF BufferEnds, Parts
  <1> QED BY <1>2, <1>4, SMT DEF Complete, Parts

LEMMA ParserKept ==
  ASSUME IInv, IsParsing, IsParsing', UNCHANGED <<input, buf, shown, code>>
  PROVE  FilesSound' /\ BufferSound' /\ OutputSound'
  <1>1. FilesSound' BY DEF IInv, FilesSound, input
  <1>2. BufferSound'
    BY DEF IInv, BufferSound, BufferEnds, IsParsing, InRecord, input, RecordOf
  <1>3. step' \in ParserLabel /\ step' \notin {"parse", "open", "read", "exited"} /\ step # "exited"
    BY DEF IsParsing, InRecord, ParserLabel
  <1>4. PrintedIsExtended'
    BY DEF IInv, OutputSound, PrintedIsExtended, Complete, Extended, IsSupported, TheRecord, Short, input
  <1>5. OutputSound'
    BY <1>3, <1>4 DEF IInv, OutputSound, ClosedIsComplete, OpenHasReason, Printed, input
  <1> QED BY <1>1, <1>2, <1>5

LEMMA CrashStep == ASSUME IInv, step \in InRecord, BreakOff PROVE IInv'
  <1>1. step' = "crashed" /\ UNCHANGED <<input, buf, ptr, template, shown, code>>
    BY DEF BreakOff
  <1>2. FilesSound' BY <1>1 DEF IInv, FilesSound, input
  <1>3. BufferSound' BY <1>1 DEF IInv, BufferSound, IsParsing, InRecord, input
  <1>4. ParserSound' BY <1>1 DEF IInv, ParserSound, InRecord, RecordOf, template
  <1>5. TableSound' BY <1>1 DEF TableSound
  <1>6. PrintedIsExtended'
    BY <1>1 DEF IInv, OutputSound, PrintedIsExtended, Complete, Extended, IsSupported, TheRecord, Short,
                input
  <1>7. OutputSound'
    BY <1>1, <1>6
    DEF IInv, OutputSound, ClosedIsComplete, OpenHasReason, Printed, ParserLabel, InRecord
  <1> QED BY <1>2, <1>3, <1>4, <1>5, <1>7 DEF IInv

\* The list stays open in front of a record that is no reference value.
LEMMA RefuseStep ==
  ASSUME IInv, step \in InRecord, step' = "exited", code' = 0,
         UNCHANGED <<input, buf, ptr, header, name, data, shown>>, module' \in {module, 0},
         Short \/ ~Complete(header) \/ ~Extended(header) \/ ~IsSupported(header)
  PROVE  IInv'
  <1>1. FilesSound' BY DEF IInv, FilesSound, input
  <1>2. BufferSound' BY DEF IInv, BufferSound, IsParsing, InRecord, input
  <1>3. ParserSound'
    <2>1. 0 \in 0 .. RecordOf(Len(buf)) BY PrintedIsNat
    <2> QED BY <2>1 DEF IInv, ParserSound, InRecord, RecordOf
  <1>4. TableSound' BY DEF TableSound
  <1>5. PrintedIsExtended'
    BY DEF IInv, OutputSound, PrintedIsExtended, Complete, Extended, IsSupported, TheRecord, Short, input
  <1>6. OpenHasReason'
    BY InTheFile DEF OpenHasReason, Complete, Extended, IsSupported, TheRecord, Printed, Short, input
  <1>7. OutputSound'
    BY <1>5, <1>6 DEF IInv, OutputSound, ClosedIsComplete, Printed, ParserLabel, InRecord
  <1> QED BY <1>1, <1>2, <1>3, <1>4, <1>7 DEF IInv

LEMMA ReadHeaderStep == ASSUME IInv, ReadHeader PROVE IInv'
  <1>1. step = "header" /\ UNCHANGED <<input, buf, name, data, fmt, module, shown, code>>
    BY DEF ReadHeader, GoOn, template
  <1>2. ptr = Parts * Printed /\ ptr \in Nat /\ Printed \in Nat /\ Len(buf) \in Nat
    BY <1>1, PrintedIsNat DEF IInv, ParserSound
  <1>3. CASE ptr < Len(buf)
    <2>1. header' = RecordOf(buf[ptr + 1]) /\ ptr' = ptr + 1 /\ step' = "name"
      BY <1>3 DEF ReadHeader
    <2>2. ptr + 1 \in 1 .. Len(buf) BY <1>2, <1>3, SMT
    <2>3. buf[ptr + 1] = ptr + 1 BY <2>2, BufferIs DEF IInv
    <2>4. header' = Printed + 1
      <3>1. ptr + 1 \in Nat /\ Printed + 1 \in Nat
            /\ ptr + 1 <= 3 * (Printed + 1) /\ 3 * (Printed + 1) <= (ptr + 1) + 2
        BY <1>2, SMT DEF Parts
      <3>2. RecordOf(ptr + 1) = Printed + 1 BY <3>1, RecordOfIs DEF Parts
      <3> QED BY <2>1, <2>3, <3>2
    <2>5. header' \in 0 .. RecordOf(Len(buf))
      <3> DEFINE q == RecordOf(Len(buf))
      <3>1. q \in Nat /\ Len(buf) <= 3 * q BY <1>2, RecordOfBounds DEF Parts
      <3>2. 3 * Printed < Len(buf) BY <1>2, <1>3 DEF Parts
      <3> HIDE DEF q
      <3>3. Printed + 1 \in 0 .. q BY <1>2, <3>1, <3>2, SMT
      <3> QED BY <2>4, <3>3 DEF q
    <2>6. ParserSound'
      <3>1. ptr' \in 0 .. Len(buf) BY <1>2, <2>1, <2>2, SMT
      <3> QED BY <1>1, <1>2, <2>1, <2>4, <2>5, <3>1 DEF IInv, ParserSound, InRecord, Printed, RecordOf
    <2>7. TableSound' BY <1>1 DEF IInv, TableSound
    <2> QED BY <1>1, <2>1, <2>6, <2>7, ParserKept DEF IInv, IsParsing, InRecord
  <1>4. CASE ~(ptr < Len(buf))
    <2>1. step' = "close" /\ ptr' = ptr /\ header' = header
      BY <1>4 DEF ReadHeader, GoOn, template
    <2>2. ptr = Len(buf)
      <3>1. ptr \in 0 .. Len(buf) BY DEF IInv, ParserSound
      <3> QED BY <1>2, <1>4, <3>1, SMT
    <2>3. ParserSound'
      BY <1>1, <1>2, <2>1, <2>2 DEF IInv, ParserSound, InRecord, Printed, RecordOf
    <2>4. TableSound' BY <1>1 DEF IInv, TableSound
    <2> QED BY <1>1, <2>1, <2>3, <2>4, ParserKept DEF IInv, IsParsing
  <1> QED BY <1>3, <1>4

LEMMA RejectNameStep == ASSUME IInv, RejectName PROVE IInv'
  <1>1. CASE BreakOff BY <1>1, CrashStep DEF RejectName, InRecord
  <1>2. CASE Refuse
    <2>1. /\ step \in InRecord /\ step' = "exited" /\ code' = 0 /\ module' = module
          /\ UNCHANGED <<input, buf, ptr, header, name, data, shown>>
      BY <1>2 DEF RejectName, Refuse, EndWith, InRecord, template
    <2>2. ~IsSupported(header) BY DEF RejectName, NameTooLong, IsSupported
    <2> QED BY <2>1, <2>2, RefuseStep
  <1> QED BY <1>1, <1>2 DEF RejectName

\* The part of the buffer after ptr is the next part of the record, if any.
LEMMA NextPart ==
  ASSUME IInv, step \in InRecord, NEW k \in 1 .. Parts, ptr = Parts * Printed + k - 1
  PROVE  /\ NextIs(k) <=> ptr < Len(buf)
         /\ ~NextIs(k) => ptr = Len(buf) /\ ptr < Parts * header
         /\ ptr \in 0 .. Len(buf)
         /\ NextIs(k) => ptr + 1 \in 0 .. Len(buf)
  <1>1. header = Printed + 1 /\ Printed \in Nat /\ ptr \in Nat /\ Len(buf) \in Nat
    BY InTheFile, PrintedIsNat
  <1>2. ptr \in 0 .. Len(buf) BY DEF IInv, ParserSound
  <1>3. k \in 1 .. 3 BY DEF Parts
  <1>4. ptr < Len(buf) => ptr + 1 \in 1 .. Len(buf) BY <1>1, SMT
  <1>5. ptr < Len(buf) => buf[ptr + 1] = ptr + 1 BY <1>4, BufferIs DEF IInv
  <1>6. Parts * (header - 1) + k = ptr + 1 BY <1>1, <1>3, SMT DEF Parts
  <1>7. ptr < Parts * header BY <1>1, <1>3, SMT DEF Parts
  <1>8. NextIs(k) <=> ptr < Len(buf) BY <1>5, <1>6 DEF NextIs
  <1>9. ~(ptr < Len(buf)) => ptr = Len(buf) BY <1>1, <1>2, SMT
  <1>10. ptr + 1 \in 1 .. Len(buf) => ptr + 1 \in 0 .. Len(buf) BY <1>1, SMT
  <1> QED BY <1>2, <1>4, <1>7, <1>8, <1>9, <1>10

LEMMA ReadNameStep == ASSUME IInv, ReadName PROVE IInv'
  <1>1. step = "name" /\ step \in InRecord /\ step' = "data"
        /\ UNCHANGED <<input, buf, header, data, fmt, module, shown, code>>
    BY DEF ReadName, InRecord
  <1>2. header = Printed + 1 /\ TheRecord(header).template \in RecordTemplate /\ Printed \in Nat
    BY <1>1, InTheFile, PrintedIsNat
  <1>3. ptr = Parts * Printed + 1 BY <1>1 DEF IInv, ParserSound
  <1>4. ptr = Parts * Printed + 2 - 1 /\ 2 \in 1 .. Parts BY <1>2, <1>3, SMT DEF Parts
  <1>5. ParserSound'
    <2>1. CASE NextIs(2)
      <3>1. name' = TheRecord(header).template /\ ptr' = ptr + 1 BY <2>1 DEF ReadName
      <3>2. ptr' \in 0 .. Len(buf) /\ ptr' = Parts * Printed + 2
        <4>1. Parts * Printed + 1 + 1 = Parts * Printed + 2 BY <1>2, SMT DEF Parts
        <4> QED BY <1>1, <1>3, <1>4, <2>1, <3>1, <4>1, NextPart
      <3>3. NameRead' BY <1>1, <3>1 DEF NameRead, TheRecord, input
      <3>4. Printed' = Printed BY <1>1 DEF Printed
      <3> QED BY <1>1, <1>2, <3>1, <3>2, <3>3, <3>4 DEF IInv, ParserSound, InRecord, RecordOf
    <2>2. CASE ~NextIs(2)
      <3>1. name' = "" /\ ptr' = ptr BY <2>2 DEF ReadName
      <3>2. ptr = Len(buf) /\ ptr < Parts * header BY <1>1, <1>4, <2>2, NextPart
      <3>3. Printed' = Printed BY <1>1 DEF Printed
      <3> QED BY <1>1, <1>2, <3>1, <3>2, <3>3 DEF IInv, ParserSound, InRecord, RecordOf
    <2> QED BY <2>1, <2>2
  <1>6. TableSound' BY <1>1 DEF IInv, TableSound
  <1> QED BY <1>1, <1>5, <1>6, ParserKept DEF IInv, IsParsing, InRecord

LEMMA ReadTemplateDataStep == ASSUME IInv, ReadTemplateData PROVE IInv'
  <1>1. step = "data" /\ step \in InRecord /\ step' = "verify"
        /\ UNCHANGED <<input, buf, header, name, fmt, module, shown, code>>
    BY DEF ReadTemplateData, InRecord
  <1>2. header = Printed + 1 /\ TheRecord(header).template \in RecordTemplate /\ Printed \in Nat
        /\ header \in 0 .. RecordOf(Len(buf)) /\ 0 \in 0 .. RecordOf(Len(buf))
    <2>1. header = Printed + 1 /\ TheRecord(header).template \in RecordTemplate
      BY <1>1, InTheFile
    <2>2. header \in 0 .. RecordOf(Len(buf)) BY DEF IInv, ParserSound
    <2>3. Printed \in Nat /\ RecordOf(Len(buf)) \in Nat BY PrintedIsNat
    <2> QED BY <2>1, <2>2, <2>3
  <1>3. \/ NameRead /\ ptr = Parts * Printed + 2
        \/ name = "" /\ ptr = Len(buf) /\ ptr < Parts * header BY <1>1 DEF IInv, ParserSound
  <1>4. Printed' = Printed /\ (NameRead' <=> NameRead)
    BY <1>1 DEF Printed, NameRead, TheRecord, input
  <1>5. CASE NextIs(3) /\ name # ""
    <2>1. data' = header /\ ptr' = ptr + 1 BY <1>5 DEF ReadTemplateData
    <2>2. NameRead /\ ptr = Parts * Printed + 2 BY <1>3, <1>5
    <2>3. ptr = Parts * Printed + 3 - 1 /\ 3 \in 1 .. Parts /\ ptr + 1 = Parts * header
      BY <1>2, <2>2, SMT DEF Parts
    <2>4. ptr' \in 0 .. Len(buf) BY <1>1, <1>5, <2>1, <2>3, NextPart
    <2>5. DataRead' BY <1>1, <1>4, <2>1, <2>2, <2>3 DEF DataRead
    <2> QED
      <3>1. ParserSound'
        BY <1>1, <1>2, <1>4, <2>1, <2>4, <2>5 DEF IInv, ParserSound, InRecord, RecordOf
      <3>2. TableSound' BY <1>1 DEF IInv, TableSound
      <3> QED BY <1>1, <3>1, <3>2, ParserKept DEF IInv, IsParsing, InRecord
  <1>6. CASE ~(NextIs(3) /\ name # "")
    <2>1. data' = 0 /\ ptr' = ptr BY <1>6 DEF ReadTemplateData
    <2>2. ptr = Len(buf) /\ ptr < Parts * header
      <3>1. CASE name = ""
        <4>1. "" \notin RecordTemplate BY DEF RecordTemplate
        <4> QED BY <1>2, <1>3, <3>1, <4>1 DEF NameRead
      <3>2. CASE name # "" /\ ~NextIs(3)
        <4>1. ptr = Parts * Printed + 2 BY <1>3, <3>2
        <4>2. ptr = Parts * Printed + 3 - 1 /\ 3 \in 1 .. Parts BY <1>2, <4>1, SMT DEF Parts
        <4> QED BY <1>1, <3>2, <4>2, NextPart
      <3> QED BY <1>6, <3>1, <3>2
    <2> QED
      <3>1. ParserSound'
        BY <1>1, <1>2, <1>4, <2>1, <2>2 DEF IInv, ParserSound, InRecord, RecordOf
      <3>2. TableSound' BY <1>1 DEF IInv, TableSound
      <3> QED BY <1>1, <3>1, <3>2, ParserKept DEF IInv, IsParsing, InRecord
  <1> QED BY <1>5, <1>6

LEMMA VerifyTemplateHashStep == ASSUME IInv, VerifyTemplateHash PROVE IInv'
  <1>1. step = "verify" /\ step \in InRecord BY DEF VerifyTemplateHash, InRecord
  <1>2. DataRead \/ (data = 0 /\ ptr = Len(buf) /\ ptr < Parts * header)
    BY <1>1 DEF IInv, ParserSound
  <1>3. header # 0 BY <1>1, InTheFile
  <1>4. CASE data = header /\ ~TheRecord(header).violation
    <2>1. step' = "fields" /\ UNCHANGED <<input, buf, ptr, template, shown, code>>
      BY <1>4 DEF VerifyTemplateHash, GoOn
    <2>2. DataRead /\ Extended(header) BY <1>2, <1>3, <1>4 DEF Extended
    <2>3. ParserSound'
      BY <1>1, <2>1, <2>2
      DEF IInv, ParserSound, InRecord, RecordOf, DataRead, NameRead, TheRecord, Extended, Printed,
          input, template
    <2>4. TableSound' BY <1>1, <2>1 DEF IInv, TableSound, template
    <2> QED BY <1>1, <2>1, <2>3, <2>4, ParserKept DEF IInv, IsParsing, InRecord
  <1>5. CASE ~(data = header /\ ~TheRecord(header).violation)
    <2>1. /\ step' = "exited" /\ code' = 0 /\ module' = module
          /\ UNCHANGED <<input, buf, ptr, header, name, data, shown>>
      BY <1>5 DEF VerifyTemplateHash, Refuse, EndWith, template
    <2>2. ~Complete(header) \/ ~Extended(header)
      <3>1. CASE DataRead BY <1>5, <3>1 DEF DataRead, Extended
      <3>2. CASE ptr = Len(buf) /\ ptr < Parts * header BY <1>1, <3>2, CutOff
      <3> QED BY <1>2, <3>1, <3>2
    <2> QED BY <1>1, <2>1, <2>2, RefuseStep
  <1> QED BY <1>4, <1>5

\* The table is as it was, so that the templates with a name are the supported ones.
LEMMA SupportedHasName ==
  ASSUME NEW t \in RecordTemplate, fmt = Format["ima-modsig"],
         fmt' = IF Unknown(t) THEN AsFormat(t) ELSE fmt
  PROVE  /\ HasName(t) <=> t \in {"ima-ng", "ima-sig", "ima-modsig"}
         /\ HasName(t) => fmt' = fmt
  <1>1. DOMAIN Format = {"ima", "ima-ng", "ima-sig", "ima-modsig"} BY DEF Format
  <1>2. ASSUME t \in {"ima-ng", "ima-sig", "ima-modsig"}
        PROVE  HasName(t) /\ fmt' = fmt
    <2>1. ~Unknown(t) BY <1>1, <1>2 DEF Unknown
    <2>2. FieldsOf(t) = Format[t] /\ fmt' = fmt BY <2>1 DEF FieldsOf
    <2>3. 2 \in DOMAIN Format[t] /\ Format[t][2] = "n-ng" BY <1>2 DEF Format
    <2>4. Family(t) # "unknown" BY <1>2 DEF Family
    <2> QED BY <2>2, <2>3, <2>4 DEF HasName
  <1>3. ASSUME t \notin {"ima-ng", "ima-sig", "ima-modsig"}
        PROVE  ~HasName(t)
    <2>1. CASE t \in {"ima-ngv2", "ima-sigv2"}
      <3>1. Unknown(t) /\ t # "custom" BY <1>1, <2>1 DEF Unknown
      <3>2. FieldsOf(t) = <<t>> BY <3>1 DEF FieldsOf, AsFormat
      <3>3. \A j \in DOMAIN FieldsOf(t) : FieldsOf(t)[j] = t BY <3>2
      <3> QED BY <2>1, <3>3 DEF HasName
    <2>2. CASE t \notin {"ima-ngv2", "ima-sigv2"}
      <3>1. Family(t) = "unknown" BY <1>3, <2>2 DEF Family
      <3> QED BY <3>1 DEF HasName
    <2> QED BY <2>1, <2>2
  <1> QED BY <1>2, <1>3

LEMMA GetTemplateDataStep == ASSUME IInv, GetTemplateData PROVE IInv'
  <1>1. step = "fields" /\ step \in InRecord
        /\ UNCHANGED <<input, buf, ptr, header, name, data, shown>>
    BY DEF GetTemplateData, InRecord
  <1>2. DataRead /\ Extended(header) /\ name = TheRecord(header).template /\ name \in RecordTemplate
    BY <1>1, InTheFile DEF IInv, ParserSound, DataRead, NameRead
  <1>3. fmt = Format["ima-modsig"] /\ fmt' = IF Unknown(name) THEN AsFormat(name) ELSE fmt
    BY <1>1 DEF IInv, TableSound, GetTemplateData
  <1>4. /\ HasName(name) <=> IsSupported(header)
        /\ HasName(name) => fmt' = fmt BY <1>2, <1>3, SupportedHasName DEF IsSupported
  <1>5. CASE HasName(name) /\ module' = header /\ step' = "print" /\ code' = code
    <2>1. ParserSound'
      BY <1>1, <1>2, <1>4, <1>5
      DEF IInv, ParserSound, InRecord, RecordOf, DataRead, NameRead, TheRecord, Extended, IsSupported,
          Printed, input
    <2>2. TableSound' BY <1>3, <1>4, <1>5 DEF TableSound
    <2> QED BY <1>1, <1>5, <2>1, <2>2, ParserKept DEF IInv, IsParsing, InRecord
  <1>6. CASE (~HasName(name) \/ Short) /\ module' = 0 /\ step' = "exited" /\ code' = 0
    BY <1>1, <1>4, <1>6, RefuseStep
  <1> QED BY <1>5, <1>6 DEF GetTemplateData

LEMMA PrintRecordStep == ASSUME IInv, PrintRecord PROVE IInv'
  <1>1. step = "print" /\ step \in InRecord /\ step' = "header"
        /\ UNCHANGED <<input, buf, ptr, template, code>> BY DEF PrintRecord, InRecord
  <1>2. DataRead /\ Extended(header) /\ module = header /\ IsSupported(header)
    BY <1>1 DEF IInv, ParserSound
  <1>3. PICK hash \in {data} \cup (IF Short THEN {NoText} ELSE {}) :
          shown' = [shown EXCEPT !.records = Append(@, [sha256 |-> hash, description |-> module])]
    BY DEF PrintRecord
  <1> DEFINE new == [sha256 |-> hash, description |-> header]
  <1>4. (hash = header \/ (Short /\ hash = NoText)) /\ header \in Nat /\ header = Printed + 1
        /\ Printed \in Nat /\ ptr \in Nat /\ Len(buf) \in Nat /\ ptr \in 0 .. Len(buf)
    BY <1>1, <1>2, <1>3, InTheFile, PrintedIsNat DEF DataRead, IInv, ParserSound
  <1>5. new \in [sha256 : Nat, description : Nat] BY <1>4 DEF NoText
  <1>6. /\ shown'.records = Append(shown.records, new) /\ shown'.closed = shown.closed
        /\ shown' \in [records : Seq([sha256 : Nat, description : Nat]), closed : BOOLEAN]
    <2>1. shown' = [shown EXCEPT !.records = Append(@, new)] BY <1>2, <1>3
    <2>2. shown \in [records : Seq([sha256 : Nat, description : Nat]), closed : BOOLEAN]
      BY DEF IInv, OutputSound
    <2> HIDE DEF new
    <2>3. Append(shown.records, new) \in Seq([sha256 : Nat, description : Nat])
      BY <1>5, <2>2, AppendProperties
    <2> QED BY <2>1, <2>2, <2>3
  <1> HIDE DEF new
  <1>7. /\ Len(shown'.records) = Printed + 1 /\ DOMAIN shown'.records = 1 .. Printed + 1
        /\ \A r \in 1 .. Printed : shown'.records[r] = shown.records[r]
        /\ shown'.records[Printed + 1] = new
    BY <1>5, <1>6, PrintedIsNat, AppendProperties DEF Printed
  <1>8. FilesSound' BY <1>1 DEF IInv, FilesSound, input
  <1>9. BufferSound'
    BY <1>1 DEF IInv, BufferSound, BufferEnds, IsParsing, InRecord, input, RecordOf
  <1>10. Printed' = Printed + 1 /\ ptr = Parts * Printed'
    BY <1>2, <1>4, <1>7 DEF Printed, DataRead
  <1>11. ParserSound' BY <1>1, <1>10 DEF IInv, ParserSound, InRecord, template, RecordOf
  <1>12. TableSound' BY <1>1 DEF IInv, TableSound, template
  <1>13. Complete(header)
    <2>1. files[path] # Absent /\ files[path] \in ListFile /\ Len(buf) <= files[path].size
      BY <1>1 DEF IInv, BufferSound, FilesSound, IsParsing
    <2>2. files[path].size \in Nat /\ Parts * header <= Len(buf)
      BY <1>2, <1>4, <2>1, SMT DEF DataRead, ListFile, Parts
    <2> QED BY <1>4, <2>1, <2>2, SMT DEF Complete, Parts
  <1>14. PrintedIsExtended'
    <2> SUFFICES ASSUME NEW r \in 1 .. Printed + 1
                 PROVE  /\ shown'.records[r].description = r
                        /\ shown'.records[r].sha256 = r \/ (Short /\ shown'.records[r].sha256 = NoText)
                        /\ Complete(r) /\ Extended(r) /\ IsSupported(r)
      BY <1>1, <1>7 DEF PrintedIsExtended, Complete, Extended, IsSupported, TheRecord, Short, input
    <2>1. CASE r \in 1 .. Printed
      <3>1. r \in DOMAIN shown.records /\ PrintedIsExtended
        BY <2>1, PrintedIsNat DEF IInv, OutputSound
      <3> QED BY <1>7, <2>1, <3>1 DEF PrintedIsExtended
    <2>2. CASE r = Printed + 1 BY <1>2, <1>4, <1>7, <1>13, <2>2 DEF new
    <2> QED BY <1>4, <2>1, <2>2, SMT
  <1>15. OutputSound'
    <2>1. Parts * Printed' <= Len(buf) BY <1>4, <1>10, SMT
    <2>2. step # "exited" /\ ~shown.closed /\ code = 1 BY <1>1 DEF IInv, OutputSound
    <2> QED BY <1>1, <1>6, <1>14, <2>1, <2>2 DEF IInv, OutputSound, ClosedIsComplete, OpenHasReason, ParserLabel
  <1> QED BY <1>8, <1>9, <1>11, <1>12, <1>15 DEF IInv

LEMMA CloseListStep == ASSUME IInv, CloseList PROVE IInv'
  <1>1. /\ step = "close" /\ step' = "exited" /\ code' = 0
        /\ UNCHANGED <<input, buf, ptr, template>>
        /\ shown' = [shown EXCEPT !.closed = TRUE] BY DEF CloseList
  <1>2. /\ shown'.records = shown.records /\ shown'.closed /\ Printed' = Printed
        /\ shown' \in [records : Seq([sha256 : Nat, description : Nat]), closed : BOOLEAN]
    BY <1>1 DEF IInv, OutputSound, Printed
  <1>3. ptr = Parts * Printed /\ ptr = Len(buf) BY <1>1 DEF IInv, ParserSound
  <1>4. Parts * present <= Len(buf) /\ present \in Nat
    BY <1>1 DEF IInv, BufferSound, IsParsing
  <1>5. Printed = RecordOf(Len(buf)) /\ Printed >= present
    <2>1. Printed \in Nat /\ Len(buf) \in Nat BY PrintedIsNat
    <2>2. Len(buf) <= 3 * Printed /\ 3 * Printed <= Len(buf) + 2
      BY <1>3, <2>1, SMT DEF Parts
    <2>3. RecordOf(Len(buf)) = Printed BY <2>1, <2>2, RecordOfIs DEF Parts
    <2>4. Printed >= present BY <1>3, <1>4, <2>1, SMT DEF Parts
    <2> QED BY <2>3, <2>4
  <1>6. FilesSound' BY <1>1 DEF IInv, FilesSound, input
  <1>7. BufferSound' BY <1>1 DEF IInv, BufferSound, IsParsing, InRecord, input
  <1>8. ParserSound' BY <1>1 DEF IInv, ParserSound, InRecord, RecordOf, template
  <1>9. TableSound' BY <1>1 DEF TableSound
  <1>10. PrintedIsExtended'
    BY <1>1, <1>2 DEF IInv, OutputSound, PrintedIsExtended, Complete, Extended, IsSupported, TheRecord,
                      Short, input
  <1>11. OutputSound'
    BY <1>1, <1>2, <1>5, <1>10
    DEF IInv, OutputSound, ClosedIsComplete, OpenHasReason, ParserLabel, RecordOf, input
  <1> QED BY <1>6, <1>7, <1>8, <1>9, <1>11 DEF IInv

-----------------------------------------------------------------------------
(* The invariant and what it is for *)

LEMMA InitSound == ASSUME ListInit PROVE IInv
  <1>1. PICK s \in Scenarios : files = s.files /\ later = s.later BY DEF ListInit
  <1>2. s \in Scenario BY ScenariosAssumption
  <1>3. FilesSound
    BY <1>1, <1>2, ScenariosAssumption DEF ListInit, FilesSound, Scenario, ListPath, RuntimeList
  <1>4. /\ path \in ListPath /\ present = 0 /\ step = "parse" /\ buf = <<>> /\ ptr = 0
        /\ header = 0 /\ name = "" /\ data = 0 /\ module = 0 /\ fmt = Format["ima-modsig"]
        /\ shown = [records |-> <<>>, closed |-> FALSE] /\ code = 1
    BY DEF ListInit, ListPath
  <1>5. <<>> \in Seq(Nat) /\ Len(<<>>) = 0 /\ DOMAIN <<>> = {} OBVIOUS
  <1>6. Len(buf) = 0 /\ buf \in Seq(Nat) /\ DOMAIN buf = {} /\ RecordOf(Len(buf)) \in Nat
    <2>1. Len(buf) = 0 /\ buf \in Seq(Nat) /\ DOMAIN buf = {} BY <1>4, <1>5
    <2> QED BY <2>1, RecordOfBounds
  <1>7. shown.records = <<>> /\ ~shown.closed BY <1>4
  <1>8. Printed = 0 /\ DOMAIN shown.records = {} BY <1>5, <1>7 DEF Printed
  <1>9. BufferSound
    <2>1. files[path] # Absent => files[path].size \in Nat
      BY <1>3, <1>4 DEF FilesSound, ListFile
    <2>2. buf = [u \in 1 .. Len(buf) |-> u]
      <3>1. 1 .. Len(buf) = {} BY <1>6, SMT
      <3>2. buf = [u \in DOMAIN buf |-> buf[u]] BY <1>6
      <3> QED BY <1>6, <3>1, <3>2
    <2>3. files[path] # Absent => Len(buf) <= files[path].size BY <1>6, <2>1, SMT
    <2>4. present \in Nat /\ code # 0
      <3>1. present = 0 /\ code = 1 BY <1>4
      <3> QED BY <3>1, SMT
    <2>5. step # "read" /\ ~IsParsing /\ buf = <<>> BY <1>4 DEF IsParsing, InRecord
    <2> QED BY <1>6, <2>2, <2>3, <2>4, <2>5 DEF BufferSound
  <1>10. ParserSound
    <2>1. 0 \in 0 .. Len(buf) /\ 0 \in 0 .. RecordOf(Len(buf)) BY <1>6, SMT
    <2>2. {header, data, module} = {0} BY <1>4
    <2> QED BY <1>4, <2>1, <2>2 DEF ParserSound, InRecord
  <1>11. TableSound BY <1>4 DEF TableSound
  <1>12. OutputSound
    <2>1. Parts * Printed <= Len(buf) BY <1>6, <1>8, SMT DEF Parts
    <2>2. PrintedIsExtended BY <1>8 DEF PrintedIsExtended
    <2>3. shown \in [records : Seq([sha256 : Nat, description : Nat]), closed : BOOLEAN]
      <3>1. <<>> \in Seq([sha256 : Nat, description : Nat]) BY EmptySeq
      <3> QED BY <1>4, <3>1
    <2> QED BY <1>4, <1>7, <2>1, <2>2, <2>3 DEF OutputSound, ParserLabel, ClosedIsComplete, OpenHasReason
  <1> QED BY <1>3, <1>9, <1>10, <1>11, <1>12 DEF IInv

LEMMA NextSound == ASSUME IInv, [ListNext]_listVars PROVE IInv'
  <1>1. CASE AddRecord BY <1>1, AddRecordStep
  <1>2. CASE Main BY <1>2, ParseStep, OpenStep DEF Main
  <1>3. CASE ReadList
    BY <1>3, ReadPartStep, ReadEndStep, ReadFailsStep, Unchanged DEF ReadList, ReadAgain
  <1>4. CASE ParseRecords
    <2>1. CASE NoMemory BY <2>1, CrashStep DEF NoMemory, InRecord
    <2> QED
      BY <1>4, <2>1, ReadHeaderStep, RejectNameStep, ReadNameStep, ReadTemplateDataStep,
         VerifyTemplateHashStep, GetTemplateDataStep, PrintRecordStep, CloseListStep
      DEF ParseRecords
  <1>5. CASE ListEnded \/ UNCHANGED listVars BY <1>5, Unchanged DEF ListEnded
  <1> QED BY <1>1, <1>2, <1>3, <1>4, <1>5 DEF ListNext, Program

THEOREM InvariantHolds == ListSpec => []IInv
  <1>1. ListInit => IInv BY InitSound
  <1>2. IInv /\ [ListNext]_listVars => IInv' BY NextSound
  <1> QED BY <1>1, <1>2, PTL DEF ListSpec

\* Every value that parse-ima-pcr prints is that of the record at its place in the
\* list, complete, extended by the kernel and of a template that the program
\* supports, whatever the record before it left in the buffers and however the
\* kernel extends the list meanwhile (ima_measure.c:310-370).
THEOREM OnlyExtendedPrinted == ListSpec => []PrintedIsExtended
  <1>1. IInv => PrintedIsExtended BY DEF IInv, OutputSound
  <1> QED BY <1>1, InvariantHolds, PTL

\* A closed list has every record that was there when the list was opened, and an
\* open one ends in front of a record that is no reference value, for every list
\* and every growth of it (main.c:57-74, main.c:133-138, ima_measure.c:310-341).
THEOREM BracketTells == ListSpec => []BracketTellsComplete
  <1>1. IInv => BracketTellsComplete BY DEF IInv, OutputSound, BracketTellsComplete
  <1> QED BY <1>1, InvariantHolds, PTL

\* Nothing is parsed beyond the buffer, the buffer is a part of the file, and the
\* table of templates is as the program defines it whenever it is looked at, so
\* that no record is taken for another (ima_measure.c:112-149).
THEOREM RecordsStayApart == ListSpec => []RecordsApart
  <1>1. IInv => ParserTypeOK
    BY DEF IInv, FilesSound, BufferSound, ParserSound, OutputSound, ParserTypeOK
  <1>2. IInv => TableOfRecord BY DEF IInv, TableSound, TableOfRecord
  <1> QED BY <1>1, <1>2, InvariantHolds, PTL DEF RecordsApart

-----------------------------------------------------------------------------
(* calculate-ima-pcr: the invariant *)

Options == [format : {"json", "text"}, pcr : Int, strip : Seq(Piece) \cup {Unset},
            template : Template \cup {Unset}, aggregate : Aggregate \cup {Unset},
            paths : Seq(Node \cup {Root})]

OptionsSound ==
  /\ argv \in Seq(Argument) /\ opts \in Options
  /\ fs \in [Node -> FileState] /\ short \in BOOLEAN

EntryType ==
  [path : Seq(Piece \cup {"boot_aggregate"}), pcr : {opts.pcr}, sha256 : Digest, optional : BOOLEAN]

Working == pc \in {"paths", "walk", "print"} \/ out # Unprinted

\* What the program has when it comes to each of its steps.
StepSound ==
  /\ pc \in Label /\ i \in 1 .. Len(opts.paths) + 1 /\ ret \in {-1, 0, 1}
  /\ walk \in Seq(SUBSET Node) /\ log \in Seq(EntryType)
  /\ pc \in {"parse", "validate"} => log = <<>>
  /\ pc = "aggregate" => log = <<>> /\ opts.template \in Template
  /\ pc \in {"parse", "validate", "aggregate"} => i = 1 /\ out = Unprinted
  /\ pc \in {"parse", "validate", "aggregate", "paths", "print"} => walk = <<>>
  /\ pc = "walk" => walk # <<>> /\ i <= Len(opts.paths)
  /\ pc = "print" => i = Len(opts.paths) + 1
  /\ Working => opts.template \in Template
  /\ log # <<>> => Supported
  /\ out # Unprinted => /\ pc = "exited" /\ i = Len(opts.paths) + 1 /\ walk = <<>>
                        /\ out = <<log>> /\ log # <<>> /\ ret = 0
  /\ ret = 0 => out # Unprinted

\* The directories that are open: each is in the one in front of it, and its
\* entry there is read.
Traced(ds, todo, n) ==
  /\ ds \in Seq(Dir) /\ Len(ds) = Len(todo)
  /\ \A j \in 1 .. Len(ds) : todo[j] \in SUBSET Children[ds[j]] /\ fs[ds[j]] # "absent"
  /\ \A j \in 1 .. Len(ds) - 1 : ds[j + 1] \in Children[ds[j]] /\ ds[j + 1] \notin todo[j]
  /\ ds # <<>> => n <= Len(opts.paths) /\ ds[1] = opts.paths[n]

\* The way w follows the first j of the directories ds.
Follows(w, ds, j) == \A h \in 1 .. j : h \in DOMAIN w.dirs /\ w.dirs[h] = ds[h]

\* The way w is still to be gone: it starts at a later path, or it leaves the
\* directories that are open for an entry that is not read.
Pends(w, ds, todo, n) ==
  \/ w.arg > n
  \/ w.arg = n /\ (ds = <<>> \/ \E j \in 1 .. Len(ds) : Follows(w, ds, j) /\ Along(w, j + 1) \in todo[j])

Waiting(ds, todo, n) == {w \in References : Pends(w, ds, todo, n)}

Lossy == short \/ LostQuietly \/ ~Supported

\* The log has an entry for each way that is gone, as far as none is lost.
Keeps(b, l, waiting) ==
  /\ b \in [1 .. Len(l) -> References]
  /\ \A j, k \in 1 .. Len(l) : b[j] = b[k] => j = k
  /\ \A k \in 1 .. Len(l) : b[k] \notin waiting /\ (SpoiltQuietly \/ l[k] = Entry(b[k]))
  /\ Lossy \/ \A w \in References : w \in waiting \/ \E k \in 1 .. Len(l) : b[k] = w
  /\ ~short /\ opts.aggregate # Unset => l # <<>> /\ b[1] = BootWay

Ledger(l, waiting) == \E b : Keeps(b, l, waiting)

WalkAt(todo, n, l) == \E ds : Traced(ds, todo, n) /\ Ledger(l, Waiting(ds, todo, n))

WalkSound == Working => WalkAt(walk, i, log)

\* Of the directories of the command line, those that are walked have no locked
\* file among the entries that are read.
ReportsSound ==
  Working /\ ~short =>
    \A k \in 1 .. Len(opts.paths) :
      (k < i \/ (k = i /\ walk # <<>>)) /\ opts.paths[k] \in Dir =>
        \A f \in Children[opts.paths[k]] \cap File :
          fs[f] # "locked" \/ (k = i /\ walk # <<>> /\ f \in walk[1])

ImaInv == OptionsSound /\ StepSound /\ WalkSound /\ ReportsSound

-----------------------------------------------------------------------------
(* The ledger *)

LEMMA LedgerSame ==
  ASSUME NEW l, NEW W, NEW V \in SUBSET W, Ledger(l, W), Lossy \/ W \subseteq V
  PROVE  Ledger(l, V) BY DEF Ledger, Keeps

LEMMA LedgerLost ==
  ASSUME short, NEW W
  PROVE  Ledger(<<>>, W)
  <1> DEFINE b == [k \in 1 .. 0 |-> BootWay]
  <1>1. Len(<<>>) = 0 /\ 1 .. 0 = {} OBVIOUS
  <1>2. Keeps(b, <<>>, W) BY <1>1 DEF Keeps, Lossy
  <1> HIDE DEF b
  <1> QED BY <1>2 DEF Ledger

LEMMA LedgerAdded ==
  ASSUME NEW T, NEW l \in Seq(T), NEW e \in T, NEW W, NEW V \in SUBSET W, NEW w \in References,
         Ledger(l, W), w \in W, w \notin V, Lossy \/ W \subseteq V \cup {w},
         SpoiltQuietly \/ e = Entry(w)
  PROVE  Ledger(Append(l, e), V)
  <1> DEFINE n == Len(l)
             m == Append(l, e)
  <1>1. PICK b : Keeps(b, l, W) BY DEF Ledger
  <1> DEFINE c == [k \in 1 .. n + 1 |-> IF k = n + 1 THEN w ELSE b[k]]
  <1>2. /\ n \in Nat /\ Len(m) = n + 1 /\ m # <<>> /\ m[n + 1] = e /\ \A k \in 1 .. n : m[k] = l[k]
        /\ l = <<>> => n = 0 OBVIOUS
  <1>3. /\ b \in [1 .. n -> References]
        /\ \A j, k \in 1 .. n : b[j] = b[k] => j = k
        /\ \A k \in 1 .. n : b[k] \notin W /\ (SpoiltQuietly \/ l[k] = Entry(b[k]))
        /\ Lossy \/ \A x \in References : x \in W \/ \E k \in 1 .. n : b[k] = x
        /\ ~short /\ opts.aggregate # Unset => l # <<>> /\ b[1] = BootWay BY <1>1 DEF Keeps
  <1> HIDE DEF n, m
  <1>4. c \in [1 .. n + 1 -> References] /\ c[n + 1] = w /\ \A k \in 1 .. n : c[k] = b[k]
    BY <1>2, <1>3
  <1>5. \A k \in 1 .. n + 1 : k \in 1 .. n \/ k = n + 1 BY <1>2
  <1>6. n + 1 \in 1 .. n + 1 /\ n + 1 \notin 1 .. n /\ \A k \in 1 .. n : k \in 1 .. n + 1
    BY <1>2
  <1> HIDE DEF c
  <1>7. \A j, k \in 1 .. n + 1 : c[j] = c[k] => j = k BY <1>3, <1>4, <1>5, <1>6, Zenon
  <1>8. \A k \in 1 .. n + 1 : c[k] \notin V /\ (SpoiltQuietly \/ m[k] = Entry(c[k]))
    <2> SUFFICES ASSUME NEW k \in 1 .. n + 1 PROVE c[k] \notin V /\ (SpoiltQuietly \/ m[k] = Entry(c[k]))
      OBVIOUS
    <2>1. CASE k \in 1 .. n
      <3>1. m[k] = l[k] /\ c[k] = b[k] BY <1>2, <1>4, <2>1
      <3> QED BY <3>1, <1>3, <2>1, Zenon
    <2>2. CASE k = n + 1
      <3>1. m[k] = e /\ c[k] = w BY <1>2, <1>4, <2>2
      <3> QED BY <3>1, Zenon
    <2> QED BY <1>5, <2>1, <2>2
  <1>9. Lossy \/ \A x \in References : x \in V \/ \E k \in 1 .. n + 1 : c[k] = x
    <2> SUFFICES ASSUME ~Lossy, NEW x \in References, x \notin V PROVE \E k \in 1 .. n + 1 : c[k] = x
      OBVIOUS
    <2>1. CASE x = w BY <2>1, <1>4, <1>6
    <2>2. CASE x # w
      <3>1. PICK k \in 1 .. n : b[k] = x BY <1>3, <2>2
      <3> QED BY <3>1, <1>4, <1>6
    <2> QED BY <2>1, <2>2
  <1>10. ~short /\ opts.aggregate # Unset => m # <<>> /\ c[1] = BootWay
    <2> SUFFICES ASSUME ~short, opts.aggregate # Unset PROVE m # <<>> /\ c[1] = BootWay
      OBVIOUS
    <2>1. l # <<>> /\ b[1] = BootWay BY <1>3
    <2>2. n # 0 BY <2>1 DEF n
    <2>3. 1 \in 1 .. n BY <2>2, <1>2
    <2> QED BY <2>1, <2>3, <1>2, <1>4
  <1>11. Keeps(c, m, V) BY <1>2, <1>4, <1>7, <1>8, <1>9, <1>10, Zenon DEF Keeps
  <1> QED BY <1>11 DEF Ledger, m

-----------------------------------------------------------------------------
(* Ways *)

LEMMA TreeFacts ==
  /\ \A f \in File : f \in Node /\ f \notin Dir /\ Path[f] \in Seq(Piece)
  /\ \A d \in Dir : d \in Node /\ d \notin File /\ Children[d] \in SUBSET Node
  /\ \A n \in Node : n \in File \/ n \in Dir
  /\ Cardinality(Dir) \in Nat /\ IsFiniteSet(Dir) /\ IsFiniteSet(Node)
  <1>1. IsFiniteSet(Dir) BY TreeAssumption, FS_Subset DEF Node
  <1>2. Cardinality(Dir) \in Nat BY <1>1, FS_CardinalityType
  <1> QED BY <1>1, <1>2, TreeAssumption, Zenon DEF Node

\* A chain of directories is not longer than there are directories.
LEMMA ChainBound ==
  ASSUME NEW ds \in Seq(Dir), \A j \in 1 .. Len(ds) - 1 : ds[j + 1] \in Children[ds[j]]
  PROVE  Len(ds) <= Cardinality(Dir)
  <1> DEFINE n == Len(ds)
             N == Cardinality(Dir)
  <1>1. PICK height \in [Dir -> 1 .. N] : \A d \in Dir : \A c \in Children[d] \cap Dir : height[c] < height[d]
    BY TreeAssumption
  <1>2. n \in Nat /\ N \in Nat /\ \A j \in 1 .. n : ds[j] \in Dir BY TreeFacts
  <1> HIDE DEF N
  <1> DEFINE S == {m \in 0 .. n : m = 0 \/ height[ds[m]] + m <= N + 1}
  <1>3. 0 \in S BY <1>2
  <1>4. \A k \in 0 .. n - 1 : k \in S => k + 1 \in S
    <2> SUFFICES ASSUME NEW k \in 0 .. n - 1, k \in S PROVE k + 1 \in S OBVIOUS
    <2>1. k + 1 \in 1 .. n /\ ds[k + 1] \in Dir /\ height[ds[k + 1]] \in 1 .. N
      BY <1>1, <1>2
    <2>2. CASE k = 0 BY <2>1, <2>2, <1>2
    <2>3. CASE k # 0
      <3>1. k \in 1 .. n - 1 /\ k \in 1 .. n BY <2>3, <1>2
      <3>2. ds[k] \in Dir /\ ds[k + 1] \in Children[ds[k]] BY <3>1, <1>2
      <3>3. height[ds[k + 1]] < height[ds[k]] /\ height[ds[k]] \in 1 .. N
        BY <3>2, <2>1, <1>1
      <3>4. height[ds[k]] + k <= N + 1 BY <2>3
      <3> HIDE DEF n
      <3> QED BY <3>3, <3>4, <2>1, <1>2
    <2> QED BY <2>2, <2>3
  <1> HIDE DEF S
  <1>5. \A k \in 0 .. n : k \in S
    <2> HIDE DEF n
    <2> QED BY <1>2, <1>3, <1>4, InductionUpTo
  <1>6. CASE n = 0 BY <1>6, <1>2 DEF N
  <1>7. CASE n # 0
    <2>1. n \in S /\ n \in 1 .. n BY <1>5, <1>2, <1>7
    <2>2. height[ds[n]] + n <= N + 1 /\ height[ds[n]] \in 1 .. N
      BY <2>1, <1>1, <1>2, <1>7 DEF S
    <2> HIDE DEF n
    <2>3. n <= N BY <2>2, <1>2
    <2> QED BY <2>3 DEF N, n
  <1> QED BY <1>6, <1>7

LEMMA IsChain ==
  ASSUME NEW ds
  PROVE  ds \in Chains <=> ds \in Seq(Dir) /\ \A j \in 1 .. Len(ds) - 1 : ds[j + 1] \in Children[ds[j]]
  <1>1. ASSUME ds \in Chains PROVE ds \in Seq(Dir) /\ \A j \in 1 .. Len(ds) - 1 : ds[j + 1] \in Children[ds[j]]
    <2>1. PICK n \in 0 .. Cardinality(Dir) : ds \in [1 .. n -> Dir] BY <1>1 DEF Chains
    <2>2. n \in Nat BY TreeFacts
    <2>3. ds \in Seq(Dir) BY <2>1, <2>2, FunctionIsSeq
    <2> QED BY <2>3, <1>1 DEF Chains
  <1>2. ASSUME ds \in Seq(Dir), \A j \in 1 .. Len(ds) - 1 : ds[j + 1] \in Children[ds[j]] PROVE ds \in Chains
    <2>1. Len(ds) <= Cardinality(Dir) /\ Cardinality(Dir) \in Nat
      BY <1>2, ChainBound, TreeFacts
    <2>2. Len(ds) \in 0 .. Cardinality(Dir) /\ ds \in [1 .. Len(ds) -> Dir] BY <1>2, <2>1
    <2> QED BY <1>2, <2>2, Zenon DEF Chains
  <1> QED BY <1>1, <1>2

\* The parts of a way.
LEMMA WayParts ==
  ASSUME NEW w \in Trails
  PROVE  /\ w = [arg |-> w.arg, dirs |-> w.dirs, node |-> w.node]
         /\ w.arg \in DOMAIN opts.paths /\ w.node \in Node
         /\ w.dirs \in Seq(Dir) /\ DOMAIN w.dirs = 1 .. Len(w.dirs) /\ Len(w.dirs) \in Nat
         /\ \A j \in DOMAIN w.dirs : w.dirs[j] \in Dir
         /\ Along(w, 1) = opts.paths[w.arg]
         /\ \A j \in 1 .. Len(w.dirs) + 1 : fs[Along(w, j)] # "absent"
         /\ \A j \in DOMAIN w.dirs : Along(w, j + 1) \in Children[w.dirs[j]]
         /\ Along(w, Len(w.dirs) + 1) = w.node
  <1>1. /\ w \in [arg : DOMAIN opts.paths, dirs : Chains, node : Node]
        /\ Along(w, 1) = opts.paths[w.arg]
        /\ w.dirs # <<>> => w.node \in Children[Last(w.dirs)]
        /\ \A j \in 1 .. Len(w.dirs) + 1 : fs[Along(w, j)] # "absent" BY DEF Trails
  <1>2. /\ w = [arg |-> w.arg, dirs |-> w.dirs, node |-> w.node]
        /\ w.arg \in DOMAIN opts.paths /\ w.node \in Node /\ w.dirs \in Chains BY <1>1
  <1> DEFINE ds == w.dirs
  <1> HIDE DEF ds
  <1>3. ds \in Seq(Dir) /\ \A j \in 1 .. Len(ds) - 1 : ds[j + 1] \in Children[ds[j]]
    BY <1>2, IsChain DEF ds
  <1>4. DOMAIN ds = 1 .. Len(ds) /\ Len(ds) \in Nat /\ \A j \in DOMAIN ds : ds[j] \in Dir
    BY <1>3
  <1>5. Along(w, Len(ds) + 1) = w.node BY <1>4 DEF Along, ds
  <1>6. \A j \in DOMAIN ds : Along(w, j + 1) \in Children[ds[j]]
    <2> SUFFICES ASSUME NEW j \in DOMAIN ds PROVE Along(w, j + 1) \in Children[ds[j]]
      OBVIOUS
    <2>1. CASE j = Len(ds)
      <3>1. ds # <<>> /\ Last(ds) = ds[j] BY <2>1, <1>3, <1>4 DEF Last
      <3> QED BY <3>1, <2>1, <1>5, <1>1 DEF ds
    <2>2. CASE j # Len(ds)
      <3>1. j \in 1 .. Len(ds) - 1 /\ j + 1 \in DOMAIN ds BY <2>2, <1>4
      <3>2. Along(w, j + 1) = ds[j + 1] BY <3>1 DEF Along, ds
      <3> QED BY <3>1, <3>2, <1>3
    <2> QED BY <2>1, <2>2
  <1> QED BY <1>1, <1>2, <1>3, <1>4, <1>5, <1>6 DEF ds

\* What is known of m open directories.
OpenDirs(ds, todo, n, m) ==
  /\ ds \in Seq(Dir) /\ m \in Nat \ {0} /\ Len(ds) = m /\ Len(todo) = m /\ DOMAIN ds = 1 .. m /\ ds # <<>>
  /\ \A j \in 1 .. m : ds[j] \in Dir /\ todo[j] \in SUBSET Children[ds[j]] /\ fs[ds[j]] # "absent"
  /\ \A j \in 1 .. m - 1 : ds[j + 1] \in Children[ds[j]] /\ ds[j + 1] \notin todo[j]
  /\ n \in DOMAIN opts.paths /\ n <= Len(opts.paths) /\ ds[1] = opts.paths[n]
  /\ todo \in [1 .. m -> SUBSET Node]

LEMMA TracedParts ==
  ASSUME OptionsSound, NEW ds, NEW todo \in Seq(SUBSET Node), NEW n \in Nat \ {0}, Traced(ds, todo, n)
  PROVE  IF ds = <<>> THEN todo = <<>> /\ Len(ds) = 0 ELSE OpenDirs(ds, todo, n, Len(ds))
  <1>1. opts.paths \in Seq(Node \cup {Root}) BY DEF OptionsSound, Options
  <1>2. DOMAIN opts.paths = 1 .. Len(opts.paths) /\ Len(opts.paths) \in Nat BY <1>1
  <1>3. ds \in Seq(Dir) /\ Len(ds) = Len(todo) BY DEF Traced
  <1>4. Len(ds) \in Nat /\ DOMAIN ds = 1 .. Len(ds) /\ \A j \in 1 .. Len(ds) : ds[j] \in Dir
    BY <1>3
  <1>5. (Len(ds) # 0 <=> ds # <<>>) /\ todo \in [1 .. Len(ds) -> SUBSET Node] /\ (ds = <<>> <=> todo = <<>>)
    BY <1>3
  <1>6. ds # <<>> => n \in DOMAIN opts.paths /\ n <= Len(opts.paths) /\ ds[1] = opts.paths[n]
    BY <1>2 DEF Traced
  <1>7. CASE ds = <<>> BY <1>5, <1>7
  <1>8. CASE ds # <<>> BY <1>2, <1>3, <1>4, <1>5, <1>6, <1>8 DEF OpenDirs, Traced
  <1> QED BY <1>7, <1>8

LEMMA TracedTop ==
  ASSUME OptionsSound, NEW ds, NEW todo \in Seq(SUBSET Node), NEW n \in Nat \ {0}, Traced(ds, todo, n),
         NEW m \in Nat \ {0}, m = Len(ds)
  PROVE  OpenDirs(ds, todo, n, m)
  <1>1. IF ds = <<>> THEN todo = <<>> /\ Len(ds) = 0 ELSE OpenDirs(ds, todo, n, Len(ds))
    BY TracedParts
  <1>2. ds # <<>>
    <2>1. Len(ds) # 0 OBVIOUS
    <2> QED BY <2>1, <1>1
  <1> QED BY <1>1, <1>2

\* The way that leads to an entry of the directory on top of the stack.
Here(ds, n, x) == [arg |-> n, dirs |-> ds, node |-> x]

LEMMA HereIsTrail ==
  ASSUME OptionsSound, NEW ds, NEW todo \in Seq(SUBSET Node), NEW n \in Nat \ {0}, Traced(ds, todo, n),
         ds # <<>>, NEW x \in Children[ds[Len(ds)]], fs[x] # "absent"
  PROVE  Here(ds, n, x) \in Trails
  <1> DEFINE w == Here(ds, n, x)
             m == Len(ds)
  <1>1. /\ ds \in Seq(Dir) /\ m \in Nat \ {0} /\ DOMAIN ds = 1 .. m
        /\ \A j \in 1 .. m : ds[j] \in Dir /\ fs[ds[j]] # "absent"
        /\ \A j \in 1 .. m - 1 : ds[j + 1] \in Children[ds[j]]
        /\ n \in DOMAIN opts.paths /\ ds[1] = opts.paths[n]
    <2>1. OpenDirs(ds, todo, n, m) BY TracedParts
    <2> HIDE DEF m
    <2> QED BY <2>1 DEF OpenDirs
  <1>2. ds \in Chains BY <1>1, IsChain
  <1>3. x \in Node BY <1>1, TreeFacts
  <1>4. w \in [arg : DOMAIN opts.paths, dirs : Chains, node : Node] /\ w.arg = n /\ w.dirs = ds /\ w.node = x
    BY <1>1, <1>2, <1>3 DEF Here
  <1> HIDE DEF w
  <1>5. Along(w, 1) = opts.paths[w.arg] BY <1>1, <1>4 DEF Along
  <1>6. w.dirs # <<>> => w.node \in Children[Last(w.dirs)] BY <1>4 DEF Last
  <1>7. \A j \in 1 .. Len(w.dirs) + 1 : fs[Along(w, j)] # "absent" BY <1>1, <1>4 DEF Along
  <1> QED BY <1>4, <1>5, <1>6, <1>7, Zenon DEF Trails, w

LEMMA PathIsTrail ==
  ASSUME OptionsSound, NEW n \in 1 .. Len(opts.paths), opts.paths[n] \in Node, fs[opts.paths[n]] # "absent"
  PROVE  Here(<<>>, n, opts.paths[n]) \in Trails
  <1> DEFINE w == Here(<<>>, n, opts.paths[n])
  <1>1. opts.paths \in Seq(Node \cup {Root}) BY DEF OptionsSound, Options
  <1>2. n \in DOMAIN opts.paths BY <1>1
  <1>3. <<>> \in Chains
    <2>1. <<>> \in Seq(Dir) /\ \A j \in 1 .. Len(<<>>) - 1 : FALSE OBVIOUS
    <2> QED BY <2>1, IsChain
  <1>4. /\ w \in [arg : DOMAIN opts.paths, dirs : Chains, node : Node]
        /\ w.arg = n /\ w.dirs = <<>> /\ w.node = opts.paths[n] BY <1>2, <1>3 DEF Here
  <1> HIDE DEF w
  <1>5. \A j : Along(w, j) = opts.paths[n] BY <1>4 DEF Along
  <1>6. \A j \in 1 .. Len(w.dirs) + 1 : fs[Along(w, j)] # "absent" BY <1>5
  <1> QED BY <1>4, <1>5, <1>6, Zenon DEF Trails, w

\* A reference is a way down to a file, or that of the boot aggregate.
LEMMA ReferenceParts ==
  ASSUME OptionsSound, NEW w \in References, NEW n \in Nat \ {0}, w.arg >= n \/ w # BootWay
  PROVE  /\ w \in Trails /\ w.node \in File /\ w.node \notin Dir /\ w.arg \in Nat
         /\ w = Here(w.dirs, w.arg, w.node) /\ w.arg \in 1 .. Len(opts.paths)
  <1>1. BootWay.arg = 0 BY DEF BootWay
  <1>2. w # BootWay
    <2> HIDE DEF BootWay
    <2> QED BY <1>1
  <1>3. w \in Trails /\ w.node \in File BY <1>2, Zenon DEF References
  <1>4. opts.paths \in Seq(Node \cup {Root}) BY DEF OptionsSound, Options
  <1>5. DOMAIN opts.paths = 1 .. Len(opts.paths) /\ Len(opts.paths) \in Nat BY <1>4
  <1>6. w.arg \in DOMAIN opts.paths /\ w = [arg |-> w.arg, dirs |-> w.dirs, node |-> w.node]
    BY <1>3, WayParts
  <1>7. w.node \notin Dir BY <1>3, TreeFacts
  <1> QED BY <1>3, <1>5, <1>6, <1>7 DEF Here

LEMMA TrailIsReference ==
  ASSUME NEW w \in Trails, w.node \in File
  PROVE  w \in References BY DEF References

-----------------------------------------------------------------------------
(* How the ways that are still to be gone change *)

LEMMA PendsArg ==
  ASSUME OptionsSound, NEW w \in References, NEW n \in Nat \ {0}, NEW ds, NEW todo, Pends(w, ds, todo, n)
  PROVE  w.arg >= n /\ w # BootWay
  <1>1. w.arg \in Nat BY ReferenceParts DEF BootWay
  <1>2. w.arg >= n BY <1>1 DEF Pends
  <1> QED BY <1>2 DEF BootWay

LEMMA GonePath ==
  ASSUME OptionsSound, NEW n \in 1 .. Len(opts.paths), opts.paths[n] \in File
  PROVE  LET w == Here(<<>>, n, opts.paths[n])
         IN  /\ Waiting(<<>>, <<>>, n + 1) \in SUBSET Waiting(<<>>, <<>>, n)
             /\ Waiting(<<>>, <<>>, n) \subseteq Waiting(<<>>, <<>>, n + 1) \cup {w}
             /\ w \in References => w \in Waiting(<<>>, <<>>, n) /\ w \notin Waiting(<<>>, <<>>, n + 1)
  <1> DEFINE x == opts.paths[n]
             w == Here(<<>>, n, x)
  <1>1. w.arg = n /\ w.dirs = <<>> /\ w.node = x /\ n \in Nat \ {0} BY DEF Here
  <1>2. ASSUME NEW v \in Waiting(<<>>, <<>>, n + 1) PROVE v \in Waiting(<<>>, <<>>, n)
    <2>1. v \in References /\ Pends(v, <<>>, <<>>, n + 1) BY <1>2 DEF Waiting
    <2>2. v.arg >= n + 1 /\ v.arg \in Nat BY <2>1, <1>1, PendsArg, ReferenceParts
    <2> QED BY <2>1, <2>2, <1>1 DEF Waiting, Pends
  <1>3. ASSUME NEW v \in Waiting(<<>>, <<>>, n) PROVE v \in Waiting(<<>>, <<>>, n + 1) \/ v = w
    <2>1. v \in References /\ Pends(v, <<>>, <<>>, n) BY <1>3 DEF Waiting
    <2>2. v.arg >= n /\ v # BootWay BY <2>1, <1>1, PendsArg
    <2>3. v \in Trails /\ v.node \in File /\ v.arg \in Nat /\ v = Here(v.dirs, v.arg, v.node)
      BY <2>1, <2>2, <1>1, ReferenceParts
    <2>4. CASE v.arg = n
      <3>1. Along(v, 1) = x /\ v.dirs \in Seq(Dir) /\ DOMAIN v.dirs = 1 .. Len(v.dirs) /\ Len(v.dirs) \in Nat
            /\ \A j \in DOMAIN v.dirs : v.dirs[j] \in Dir BY <2>3, <2>4, WayParts
      <3>2. 1 \notin DOMAIN v.dirs
        <4> SUFFICES ASSUME 1 \in DOMAIN v.dirs PROVE FALSE OBVIOUS
        <4>1. x = v.dirs[1] /\ v.dirs[1] \in Dir BY <3>1 DEF Along
        <4> QED BY <4>1, TreeFacts
      <3>3. v.dirs = <<>>
        <4> DEFINE s == v.dirs
        <4>1. s \in Seq(Dir) /\ 1 \notin 1 .. Len(s) BY <3>1, <3>2
        <4> HIDE DEF s
        <4>2. s = <<>> BY <4>1
        <4> QED BY <4>2 DEF s
      <3>4. v.node = x BY <3>1, <3>2 DEF Along
      <3> QED BY <3>3, <3>4, <2>3, <2>4
    <2>5. CASE v.arg # n
      <3>1. v.arg > n /\ v.arg \in Nat BY <2>2, <2>3, <2>5, <1>1
      <3>2. v.arg >= n + 1 BY <3>1, <1>1
      <3> QED BY <2>1, <3>1, <3>2, <1>1 DEF Waiting, Pends
    <2> QED BY <2>4, <2>5
  <1>4. ASSUME w \in References PROVE w \in Waiting(<<>>, <<>>, n) /\ w \notin Waiting(<<>>, <<>>, n + 1)
    <2>1. Pends(w, <<>>, <<>>, n) BY <1>1 DEF Pends
    <2>2. ~Pends(w, <<>>, <<>>, n + 1) BY <1>1 DEF Pends
    <2> HIDE DEF w
    <2> QED BY <2>1, <2>2, <1>4 DEF Waiting
  <1> HIDE DEF w
  <1> QED BY <1>2, <1>3, <1>4 DEF w

LEMMA GoneInto ==
  ASSUME OptionsSound, NEW n \in 1 .. Len(opts.paths), NEW d \in Dir, opts.paths[n] = d
  PROVE  Waiting(<<d>>, <<Children[d]>>, n) = Waiting(<<>>, <<>>, n)
  <1> DEFINE ds == <<d>>
             todo == <<Children[d]>>
  <1>1. Len(ds) = 1 /\ ds[1] = d /\ todo[1] = Children[d] /\ ds # <<>> /\ n \in Nat \ {0} /\ \A j \in 1 .. 1 : j = 1
    OBVIOUS
  <1> HIDE DEF ds, todo
  <1>2. ASSUME NEW v \in References, Pends(v, ds, todo, n) PROVE Pends(v, <<>>, <<>>, n)
    BY <1>2 DEF Pends
  <1>3. ASSUME NEW v \in References, Pends(v, <<>>, <<>>, n) PROVE Pends(v, ds, todo, n)
    <2>1. v.arg >= n /\ v # BootWay BY <1>3, <1>1, PendsArg
    <2>2. v \in Trails /\ v.node \in File /\ v.node \notin Dir /\ v.arg \in Nat
      BY <2>1, <1>1, ReferenceParts
    <2>3. CASE v.arg = n
      <3>1. /\ Along(v, 1) = d
            /\ \A j \in DOMAIN v.dirs : Along(v, j + 1) \in Children[v.dirs[j]]
        BY <2>2, <2>3, WayParts
      <3>2. 1 \in DOMAIN v.dirs BY <3>1, <2>2 DEF Along
      <3>3. v.dirs[1] = d /\ Along(v, 1 + 1) \in Children[d] BY <3>1, <3>2 DEF Along
      <3>4. Follows(v, ds, 1) BY <3>2, <3>3, <1>1 DEF Follows
      <3>5. \E j \in 1 .. Len(ds) : Follows(v, ds, j) /\ Along(v, j + 1) \in todo[j]
        <4>1. 1 \in 1 .. Len(ds) /\ Along(v, 1 + 1) \in todo[1] BY <1>1, <3>3
        <4> QED BY <4>1, <3>4
      <3> QED BY <3>5, <2>3 DEF Pends
    <2>4. CASE v.arg # n BY <2>4, <2>1, <2>2, <1>1 DEF Pends
    <2> QED BY <2>3, <2>4
  <1>4. Waiting(ds, todo, n) = Waiting(<<>>, <<>>, n) BY <1>2, <1>3 DEF Waiting
  <1> QED BY <1>4 DEF ds, todo

\* The directory on top of the stack is left.
LEMMA GoneBack ==
  ASSUME OptionsSound, NEW n \in Nat \ {0}, NEW ds, NEW todo \in Seq(SUBSET Node), Traced(ds, todo, n),
         NEW m \in Nat \ {0}, m = Len(ds)
  PROVE  /\ m = 1 => /\ Waiting(<<>>, <<>>, n + 1) \in SUBSET Waiting(ds, todo, n)
                     /\ todo[m] = {} => Waiting(ds, todo, n) \subseteq Waiting(<<>>, <<>>, n + 1)
         /\ m # 1 =>
              LET es == SubSeq(ds, 1, m - 1)
                  rest == SubSeq(todo, 1, m - 1)
              IN  /\ Traced(es, rest, n)
                  /\ Waiting(es, rest, n) \in SUBSET Waiting(ds, todo, n)
                  /\ todo[m] = {} => Waiting(ds, todo, n) \subseteq Waiting(es, rest, n)
  <1>1. /\ ds \in Seq(Dir) /\ Len(ds) = Len(todo) /\ ds # <<>>
        /\ \A j \in 1 .. m : todo[j] \in SUBSET Children[ds[j]] /\ fs[ds[j]] # "absent"
        /\ \A j \in 1 .. m - 1 : ds[j + 1] \in Children[ds[j]] /\ ds[j + 1] \notin todo[j]
        /\ n <= Len(opts.paths) /\ ds[1] = opts.paths[n]
    <2>1. OpenDirs(ds, todo, n, m) BY TracedTop
    <2> QED BY <2>1, Zenon DEF OpenDirs
  <1>2. CASE m = 1
    <2>1. ASSUME NEW v \in Waiting(<<>>, <<>>, n + 1) PROVE v \in Waiting(ds, todo, n)
      <3>1. v \in References /\ Pends(v, <<>>, <<>>, n + 1) BY <2>1 DEF Waiting
      <3>2. n + 1 \in Nat \ {0} OBVIOUS
      <3>3. v.arg >= n + 1 /\ v.arg \in Nat BY <3>1, <3>2, PendsArg, ReferenceParts
      <3>4. v.arg > n BY <3>3
      <3> QED BY <3>1, <3>4 DEF Waiting, Pends
    <2>2. ASSUME todo[m] = {}, NEW v \in Waiting(ds, todo, n) PROVE v \in Waiting(<<>>, <<>>, n + 1)
      <3>1. v \in References /\ Pends(v, ds, todo, n) BY <2>2 DEF Waiting
      <3>2. v.arg \in Nat BY <3>1, PendsArg, ReferenceParts
      <3>3. \A j \in 1 .. Len(ds) : j = m BY <1>2
      <3>4. v.arg > n BY <3>1, <3>3, <2>2, <1>1, Zenon DEF Pends
      <3>5. v.arg > n + 1 \/ v.arg = n + 1 BY <3>4, <3>2
      <3> QED BY <3>1, <3>5 DEF Waiting, Pends
    <2> QED BY <1>2, <2>1, <2>2
  <1>3. CASE m # 1
    <2> DEFINE es == SubSeq(ds, 1, m - 1)
               rest == SubSeq(todo, 1, m - 1)
    <2>1. /\ es \in Seq(Dir) /\ Len(es) = m - 1 /\ \A j \in 1 .. m - 1 : es[j] = ds[j]
          /\ rest \in Seq(SUBSET Node) /\ Len(rest) = m - 1 /\ \A j \in 1 .. m - 1 : rest[j] = todo[j]
      BY <1>1, <1>3
    <2>2. m - 1 >= 1 /\ 1 \in 1 .. m - 1 /\ \A j \in 1 .. m - 1 : j \in 1 .. m /\ \A h \in 1 .. j : h \in 1 .. m - 1
      BY <1>3
    <2>3. \A j \in 1 .. m : j = m \/ j \in 1 .. m - 1 OBVIOUS
    <2> HIDE DEF es, rest
    <2>4. Traced(es, rest, n)
      <3>1. \A j \in 1 .. (m - 1) - 1 : j \in 1 .. m - 1 /\ j + 1 \in 1 .. m - 1 BY <2>2
      <3>2. es[1] = ds[1] BY <2>1, <2>2
      <3>3. \A j \in 1 .. Len(es) : rest[j] \in SUBSET Children[es[j]] /\ fs[es[j]] # "absent"
        BY <2>1, <2>2, <1>1
      <3>4. \A j \in 1 .. Len(es) - 1 : es[j + 1] \in Children[es[j]] /\ es[j + 1] \notin rest[j]
        BY <2>1, <3>1, <1>1
      <3> QED BY <2>1, <3>2, <3>3, <3>4, <1>1 DEF Traced
    <2>5. es # <<>>
      <3>1. Len(es) # 0 BY <2>1, <2>2
      <3> QED BY <3>1
    <2>6. \A v, j : j \in 1 .. m - 1 => (Follows(v, es, j) <=> Follows(v, ds, j))
      BY <2>1, <2>2 DEF Follows
    <2>7. ASSUME NEW v \in References, Pends(v, es, rest, n) PROVE Pends(v, ds, todo, n)
      BY <2>7, <2>1, <2>2, <2>5, <2>6, Zenon DEF Pends
    <2>8. ASSUME todo[m] = {}, NEW v \in References, Pends(v, ds, todo, n) PROVE Pends(v, es, rest, n)
      BY <2>8, <2>1, <2>3, <2>5, <2>6, <1>1, Zenon DEF Pends
    <2>9. /\ Waiting(es, rest, n) \in SUBSET Waiting(ds, todo, n)
          /\ todo[m] = {} => Waiting(ds, todo, n) \subseteq Waiting(es, rest, n)
      BY <2>7, <2>8 DEF Waiting
    <2> QED BY <2>4, <2>9, <1>3, Zenon DEF es, rest
  <1> QED BY <1>2, <1>3

\* What is left when the entry x is read: rest instead of todo.
RestGone(ds, todo, rest, n, m, x) ==
  /\ Traced(ds, rest, n) /\ rest \in Seq(SUBSET Node) /\ Len(rest) = m
  /\ Waiting(ds, rest, n) \in SUBSET Waiting(ds, todo, n)
  /\ \A v \in Waiting(ds, todo, n) : v \in Waiting(ds, rest, n)
                                     \/ (v.arg = n /\ Follows(v, ds, m) /\ Along(v, m + 1) = x)

\* The entry x of the directory on top of the stack is read.
LEMMA GoneEntry ==
  ASSUME OptionsSound, NEW n \in Nat \ {0}, NEW ds, NEW todo \in Seq(SUBSET Node), Traced(ds, todo, n),
         NEW m \in Nat \ {0}, m = Len(ds), NEW x \in todo[m]
  PROVE  RestGone(ds, todo, [todo EXCEPT ![m] = @ \ {x}], n, m, x)
  <1> DEFINE rest == [todo EXCEPT ![m] = @ \ {x}]
  <1>1. /\ ds \in Seq(Dir) /\ Len(ds) = Len(todo) /\ ds # <<>> /\ todo \in [1 .. m -> SUBSET Node]
        /\ \A j \in 1 .. m : todo[j] \in SUBSET Children[ds[j]] /\ fs[ds[j]] # "absent"
        /\ \A j \in 1 .. m - 1 : ds[j + 1] \in Children[ds[j]] /\ ds[j + 1] \notin todo[j]
        /\ n <= Len(opts.paths) /\ ds[1] = opts.paths[n]
    <2>1. OpenDirs(ds, todo, n, m) BY TracedTop
    <2> QED BY <2>1, Zenon DEF OpenDirs
  <1>2. m \in 1 .. m /\ m \in Nat OBVIOUS
  <1>3. /\ rest \in [1 .. m -> SUBSET Node] /\ rest[m] = todo[m] \ {x}
        /\ \A j \in 1 .. m : j # m => rest[j] = todo[j] BY <1>1, <1>2, Zenon
  <1> HIDE DEF rest
  <1>4. rest \in Seq(SUBSET Node) /\ Len(rest) = m BY <1>2, <1>3, FunctionIsSeq
  <1>5. Traced(ds, rest, n)
    <2>1. \A j \in 1 .. m : rest[j] \in SUBSET todo[j] BY <1>1, <1>3
    <2>2. \A j \in 1 .. m - 1 : j \in 1 .. m OBVIOUS
    <2> QED BY <1>1, <1>4, <2>1, <2>2 DEF Traced
  <1>6. ASSUME NEW v \in References, Pends(v, ds, rest, n) PROVE Pends(v, ds, todo, n)
    BY <1>6, <1>1, <1>3, Zenon DEF Pends
  <1>7. ASSUME NEW v \in References, Pends(v, ds, todo, n)
        PROVE  Pends(v, ds, rest, n) \/ (v.arg = n /\ Follows(v, ds, m) /\ Along(v, m + 1) = x)
    BY <1>7, <1>1, <1>3, Zenon DEF Pends
  <1>8. RestGone(ds, todo, rest, n, m, x)
    BY <1>4, <1>5, <1>6, <1>7, Zenon DEF Waiting, RestGone
  <1> QED BY <1>8 DEF rest

\* If it is a file, one way is gone by that.
LEMMA GoneFile ==
  ASSUME OptionsSound, NEW n \in Nat \ {0}, NEW ds, NEW todo \in Seq(SUBSET Node), Traced(ds, todo, n),
         NEW m \in Nat \ {0}, m = Len(ds), NEW x \in todo[m], x \in File
  PROVE  LET rest == [todo EXCEPT ![m] = @ \ {x}]
             w == Here(ds, n, x)
         IN  /\ Waiting(ds, todo, n) \subseteq Waiting(ds, rest, n) \cup {w}
             /\ w \in References => w \in Waiting(ds, todo, n) /\ w \notin Waiting(ds, rest, n)
  <1> DEFINE rest == [todo EXCEPT ![m] = @ \ {x}]
             w == Here(ds, n, x)
  <1>1. \A v \in Waiting(ds, todo, n) : v \in Waiting(ds, rest, n)
                                        \/ (v.arg = n /\ Follows(v, ds, m) /\ Along(v, m + 1) = x)
    <2>1. RestGone(ds, todo, rest, n, m, x) BY GoneEntry
    <2> HIDE DEF rest
    <2> QED BY <2>1 DEF RestGone
  <1>2. /\ ds \in Seq(Dir) /\ DOMAIN ds = 1 .. m /\ ds # <<>> /\ todo \in [1 .. m -> SUBSET Node]
        /\ \A j \in 1 .. m - 1 : ds[j + 1] \notin todo[j]
    <2>1. OpenDirs(ds, todo, n, m) BY TracedTop
    <2> QED BY <2>1, Zenon DEF OpenDirs
  <1>3. /\ rest[m] = todo[m] \ {x} /\ \A j \in 1 .. m : j # m => rest[j] = todo[j]
    <2>1. m \in 1 .. m OBVIOUS
    <2> QED BY <1>2, <2>1, Zenon
  <1> HIDE DEF rest
  <1>4. w.arg = n /\ w.dirs = ds /\ w.node = x /\ x \notin Dir BY TreeFacts DEF Here
  <1>5. ASSUME NEW v \in Waiting(ds, todo, n), v \notin Waiting(ds, rest, n) PROVE v = w
    <2>1. v \in References /\ Pends(v, ds, todo, n) /\ v.arg = n /\ Follows(v, ds, m) /\ Along(v, m + 1) = x
      BY <1>5, <1>1 DEF Waiting
    <2>2. v # BootWay BY <2>1, PendsArg
    <2>3. v \in Trails /\ v = Here(v.dirs, v.arg, v.node) BY <2>1, <2>2, ReferenceParts
    <2> DEFINE s == v.dirs
    <2>4. s \in Seq(Dir) /\ DOMAIN s = 1 .. Len(s) /\ Len(s) \in Nat /\ \A j \in DOMAIN s : s[j] \in Dir
      BY <2>3, WayParts
    <2>5. \A h \in 1 .. m : h \in DOMAIN s /\ s[h] = ds[h] BY <2>1 DEF Follows
    <2>6. m + 1 \notin DOMAIN s
      <3> SUFFICES ASSUME m + 1 \in DOMAIN s PROVE FALSE OBVIOUS
      <3>1. x = s[m + 1] BY <2>1 DEF Along
      <3> HIDE DEF s
      <3> QED BY <3>1, <2>4, <1>4
    <2>7. v.node = x BY <2>1, <2>6 DEF Along
    <2> HIDE DEF s
    <2>8. Len(s) = m
      <3>1. m \in 1 .. Len(s)
        <4>1. m \in 1 .. m OBVIOUS
        <4> QED BY <4>1, <2>4, <2>5
      <3>2. m + 1 \notin 1 .. Len(s) BY <2>4, <2>6
      <3>3. Len(s) \in Nat BY <2>4
      <3> QED BY <3>1, <3>2, <3>3
    <2>9. s = ds BY <2>4, <2>5, <2>8, <1>2
    <2> QED BY <2>1, <2>3, <2>7, <2>9 DEF s
  <1>6. ASSUME w \in References PROVE w \in Waiting(ds, todo, n) /\ w \notin Waiting(ds, rest, n)
    <2>1. Along(w, m + 1) = x
      <3>1. m + 1 \notin 1 .. m OBVIOUS
      <3> QED BY <3>1, <1>2, <1>4 DEF Along
    <2>2. \A j \in 1 .. m : Follows(w, ds, j) BY <1>2, <1>4 DEF Follows
    <2>3. m \in 1 .. m /\ \A j \in 1 .. m : j # m => j \in 1 .. m - 1 /\ j + 1 \in 1 .. m
      OBVIOUS
    <2>4. Pends(w, ds, todo, n) BY <1>4, <2>1, <2>2, <2>3 DEF Pends
    <2>5. \A j \in 1 .. m : Along(w, j + 1) \notin rest[j]
      <3> SUFFICES ASSUME NEW j \in 1 .. m PROVE Along(w, j + 1) \notin rest[j] OBVIOUS
      <3>1. CASE j = m BY <3>1, <2>1, <1>3
      <3>2. CASE j # m
        <4>1. Along(w, j + 1) = ds[j + 1] BY <3>2, <2>3, <1>2, <1>4 DEF Along
        <4> QED BY <4>1, <3>2, <2>3, <1>2, <1>3, Zenon
      <3> QED BY <3>1, <3>2
    <2>6. ~Pends(w, ds, rest, n)
      <3>1. ~(w.arg > n) BY <1>4
      <3> QED BY <3>1, <2>5, <1>2, Zenon DEF Pends
    <2> HIDE DEF w
    <2> QED BY <2>4, <2>6, <1>6 DEF Waiting
  <1> QED BY <1>5, <1>6, Zenon DEF rest, w

\* If it is a directory that is entered, no way is gone.
LEMMA GoneDeeper ==
  ASSUME OptionsSound, NEW n \in Nat \ {0}, NEW ds, NEW todo \in Seq(SUBSET Node), Traced(ds, todo, n),
         NEW m \in Nat \ {0}, m = Len(ds), NEW d \in todo[m], d \in Dir, fs[d] # "absent"
  PROVE  LET rest == [todo EXCEPT ![m] = @ \ {d}]
             es == Append(ds, d)
             next == Append(rest, Children[d])
         IN  Traced(es, next, n) /\ Waiting(es, next, n) = Waiting(ds, todo, n)
  <1> DEFINE rest == [todo EXCEPT ![m] = @ \ {d}]
             es == Append(ds, d)
             next == Append(rest, Children[d])
  <1>1. /\ ds \in Seq(Dir) /\ Len(ds) = Len(todo) /\ ds # <<>> /\ todo \in [1 .. m -> SUBSET Node]
        /\ \A j \in 1 .. m : todo[j] \in SUBSET Children[ds[j]] /\ fs[ds[j]] # "absent"
        /\ \A j \in 1 .. m - 1 : ds[j + 1] \in Children[ds[j]] /\ ds[j + 1] \notin todo[j]
        /\ n <= Len(opts.paths) /\ ds[1] = opts.paths[n]
    <2>1. OpenDirs(ds, todo, n, m) BY TracedTop
    <2> QED BY <2>1, Zenon DEF OpenDirs
  <1>3. /\ rest \in [1 .. m -> SUBSET Node]
        /\ rest[m] = todo[m] \ {d} /\ \A j \in 1 .. m : j # m => rest[j] = todo[j]
    <2>1. m \in 1 .. m OBVIOUS
    <2> QED BY <1>1, <2>1, Zenon
  <1>2. rest \in Seq(SUBSET Node) /\ Len(rest) = m
    <2>1. m \in Nat OBVIOUS
    <2> HIDE DEF rest
    <2> QED BY <2>1, <1>3, FunctionIsSeq
  <1>4. Children[d] \in SUBSET Node BY TreeFacts
  <1> HIDE DEF rest
  <1>5. /\ es \in Seq(Dir) /\ Len(es) = m + 1 /\ es[m + 1] = d /\ \A j \in 1 .. m : es[j] = ds[j]
        /\ Len(next) = m + 1 /\ next[m + 1] = Children[d] /\ \A j \in 1 .. m : next[j] = rest[j]
    BY <1>1, <1>2, <1>4
  <1>6. es # <<>>
    <2>1. Len(es) # 0 BY <1>5
    <2> HIDE DEF es
    <2> QED BY <2>1
  <1> HIDE DEF es, next
  <1>7. /\ \A j \in 1 .. m + 1 : j = m + 1 \/ j \in 1 .. m
        /\ \A j \in 1 .. m : j \in 1 .. m + 1 /\ (j = m \/ (j # m /\ j \in 1 .. m - 1 /\ j + 1 \in 1 .. m))
        /\ m + 1 \in 1 .. m + 1 /\ m \in 1 .. m /\ 1 \in 1 .. m /\ m + 1 \notin 1 .. m
        /\ \A j \in 1 .. m : \A h \in 1 .. j : h \in 1 .. m OBVIOUS
  <1>8. Traced(es, next, n)
    <2>1. \A j \in 1 .. Len(es) : next[j] \in SUBSET Children[es[j]] /\ fs[es[j]] # "absent"
      <3> SUFFICES ASSUME NEW j \in 1 .. m + 1 PROVE next[j] \in SUBSET Children[es[j]] /\ fs[es[j]] # "absent"
        BY <1>5
      <3>1. CASE j = m + 1 BY <3>1, <1>5
      <3>2. CASE j \in 1 .. m
        <4>1. next[j] \in SUBSET todo[j] /\ es[j] = ds[j] BY <3>2, <1>3, <1>5
        <4> QED BY <4>1, <3>2, <1>1
      <3> QED BY <3>1, <3>2, <1>7
    <2>2. \A j \in 1 .. Len(es) - 1 : es[j + 1] \in Children[es[j]] /\ es[j + 1] \notin next[j]
      <3> SUFFICES ASSUME NEW j \in 1 .. m PROVE es[j + 1] \in Children[es[j]] /\ es[j + 1] \notin next[j]
        <4>1. Len(es) - 1 = m BY <1>5
        <4> QED BY <4>1
      <3>1. CASE j = m
        <4>1. es[j + 1] = d /\ next[j] = todo[m] \ {d} /\ es[j] = ds[m]
          BY <3>1, <1>3, <1>5, <1>7
        <4> QED BY <4>1, <1>1, <1>7
      <3>2. CASE j # m
        <4>1. es[j + 1] = ds[j + 1] /\ es[j] = ds[j] /\ next[j] = todo[j]
          BY <3>2, <1>3, <1>5, <1>7
        <4> QED BY <4>1, <3>2, <1>1, <1>7
      <3> QED BY <3>1, <3>2
    <2>3. es[1] = ds[1] /\ Len(es) = Len(next) BY <1>5, <1>7
    <2> QED BY <2>1, <2>2, <2>3, <1>1, <1>5 DEF Traced
  <1>9. \A v, j : j \in 1 .. m => (Follows(v, es, j) <=> Follows(v, ds, j))
    BY <1>5, <1>7 DEF Follows
  <1>10. \A v : Follows(v, es, m + 1) <=> Follows(v, ds, m) /\ m + 1 \in DOMAIN v.dirs /\ v.dirs[m + 1] = d
    BY <1>5, <1>7, Zenon DEF Follows
  <1>11. ASSUME NEW v \in References, Pends(v, es, next, n) PROVE Pends(v, ds, todo, n)
    <2>1. CASE v.arg > n BY <2>1 DEF Pends
    <2>2. CASE ~(v.arg > n)
      <3>1. PICK j \in 1 .. m + 1 : v.arg = n /\ Follows(v, es, j) /\ Along(v, j + 1) \in next[j]
        BY <2>2, <1>11, <1>5, <1>6, Zenon DEF Pends
      <3>2. \E h \in 1 .. m : Follows(v, ds, h) /\ Along(v, h + 1) \in todo[h]
        <4>1. CASE j = m + 1
          <5>1. Follows(v, ds, m) /\ Along(v, m + 1) = d
            BY <4>1, <3>1, <1>10, Zenon DEF Along
          <5> QED BY <5>1, <1>7
        <4>2. CASE j \in 1 .. m
          <5>1. Follows(v, ds, j) /\ Along(v, j + 1) \in todo[j]
            <6>1. next[j] \in SUBSET todo[j] BY <4>2, <1>3, <1>5
            <6> QED BY <6>1, <4>2, <3>1, <1>9, Zenon
          <5> QED BY <5>1, <4>2
        <4> QED BY <4>1, <4>2, <1>7
      <3> QED BY <3>1, <3>2 DEF Pends
    <2> QED BY <2>1, <2>2
  <1>12. ASSUME NEW v \in References, Pends(v, ds, todo, n) PROVE Pends(v, es, next, n)
    <2>1. CASE v.arg > n BY <2>1 DEF Pends
    <2>2. CASE ~(v.arg > n)
      <3>1. PICK j \in 1 .. m : v.arg = n /\ Follows(v, ds, j) /\ Along(v, j + 1) \in todo[j]
        BY <2>2, <1>12, <1>1, Zenon DEF Pends
      <3>2. CASE j # m \/ Along(v, j + 1) # d
        <4>1. Along(v, j + 1) \in next[j] BY <3>1, <3>2, <1>3, <1>5
        <4>2. Follows(v, es, j) /\ j \in 1 .. m + 1 BY <3>1, <1>7, <1>9, Zenon
        <4> QED BY <4>1, <4>2, <3>1, <1>5 DEF Pends
      <3>3. CASE j = m /\ Along(v, m + 1) = d
        <4>1. v # BootWay BY <1>12, PendsArg
        <4>2. v \in Trails /\ v.node \notin Dir BY <4>1, ReferenceParts
        <4>3. m + 1 \in DOMAIN v.dirs BY <4>2, <3>3 DEF Along
        <4>4. v.dirs[m + 1] = d /\ Along(v, (m + 1) + 1) \in Children[v.dirs[m + 1]]
          BY <4>2, <4>3, <3>3, WayParts DEF Along
        <4>5. Follows(v, es, m + 1) /\ Along(v, (m + 1) + 1) \in next[m + 1]
          BY <4>3, <4>4, <3>1, <3>3, <1>5, <1>10, Zenon
        <4>6. \E h \in 1 .. Len(es) : Follows(v, es, h) /\ Along(v, h + 1) \in next[h]
          BY <4>5, <1>5, <1>7
        <4> QED BY <4>6, <3>1 DEF Pends
      <3> QED BY <3>2, <3>3
    <2> QED BY <2>1, <2>2
  <1>13. Waiting(es, next, n) = Waiting(ds, todo, n) BY <1>11, <1>12 DEF Waiting
  <1> QED BY <1>8, <1>13 DEF es, next, rest

-----------------------------------------------------------------------------
(* The entries *)

\* What is left of a text behind the prefix is the text on the other system.
LEMMA StrippedIsThere ==
  ASSUME opts \in Options, NEW text \in Seq(Piece)
  PROVE  Stripped(text) = PathThere(text) /\ Stripped(text) \in Seq(Piece)
         /\ \E k \in 1 .. Len(text) + 1 : Stripped(text) = SubSeq(text, k, Len(text))
  <1> DEFINE s == opts.strip
             rest == SubSeq(text, Len(s) + 1, Len(text))
  <1>0. s \in Seq(Piece) \cup {Unset} /\ Unset \notin Seq(Piece)
    BY TreeAssumption DEF Options
  <1>1. SubSeq(text, 1, Len(text)) = text /\ 1 \in 1 .. Len(text) + 1 OBVIOUS
  <1>2. CASE s = Unset BY <1>1, <1>2 DEF Stripped, PathThere, Given
  <1>3. CASE s # Unset /\ IsPrefix(s, text)
    <2>1. s \in Seq(Piece) BY <1>0, <1>3
    <2> HIDE DEF s
    <2>2. Len(s) <= Len(text) /\ SubSeq(text, 1, Len(s)) = s BY <1>3, <2>1 DEF IsPrefix
    <2>3. text = s \o rest BY <2>1, <2>2
    <2>4. Len(s) + 1 \in 1 .. Len(text) + 1 BY <2>1, <2>2
    <2>5. rest \in Rests(text) BY <2>4 DEF Rests
    <2>6. ASSUME NEW r \in Rests(text), text = s \o r PROVE r = rest
      <3>1. r \in Seq(Piece) BY <2>6 DEF Rests
      <3>2. rest \in Seq(Piece) BY <2>5 DEF Rests
      <3> HIDE DEF rest
      <3>3. s \o r = s \o rest BY <2>3, <2>6
      <3>4. Len(r) = Len(rest) BY <2>1, <3>1, <3>2, <3>3
      <3>5. \A j \in 1 .. Len(r) : r[j] = rest[j]
        <4> SUFFICES ASSUME NEW j \in 1 .. Len(r) PROVE r[j] = rest[j] OBVIOUS
        <4>1. (s \o r)[Len(s) + j] = r[j] BY <2>1, <3>1
        <4>2. (s \o rest)[Len(s) + j] = rest[j] BY <2>1, <3>2, <3>4
        <4> QED BY <4>1, <4>2, <3>3
      <3> QED BY <3>1, <3>2, <3>4, <3>5
    <2>7. PathThere(text) = rest
      <3>1. (CHOOSE r \in Rests(text) : text = s \o r) = rest
        <4> HIDE DEF rest
        <4> QED BY <2>3, <2>5, <2>6
      <3> HIDE DEF rest
      <3> QED BY <3>1, <2>3, <2>5, <1>3 DEF PathThere, Given, s
    <2>8. Stripped(text) = rest BY <1>3 DEF Stripped, s
    <2>9. rest \in Seq(Piece) /\ rest = SubSeq(text, Len(s) + 1, Len(text))
      BY <2>5 DEF Rests
    <2> HIDE DEF rest
    <2> QED BY <2>4, <2>7, <2>8, <2>9
  <1>4. CASE s # Unset /\ ~IsPrefix(s, text)
    <2>1. s \in Seq(Piece) BY <1>0, <1>4
    <2> HIDE DEF s
    <2>2. ASSUME NEW r \in Rests(text), text = s \o r PROVE FALSE
      <3>1. r \in Seq(Piece) BY <2>2 DEF Rests
      <3>2. Len(text) = Len(s) + Len(r) /\ Len(s) \in Nat /\ Len(r) \in Nat
        BY <2>1, <2>2, <3>1
      <3>3. Len(s) <= Len(text) BY <3>2
      <3>4. SubSeq(text, 1, Len(s)) = SubSeq(s, 1, Len(s)) BY <2>1, <2>2, <3>1
      <3> QED BY <3>3, <3>4, <1>4 DEF IsPrefix
    <2>3. PathThere(text) = text BY <2>2, <1>4, Zenon DEF PathThere, s
    <2>4. Stripped(text) = text BY <1>4 DEF Stripped, s
    <2> QED BY <2>3, <2>4, <1>1
  <1> QED BY <1>2, <1>3, <1>4

LEMMA EntryIsTyped ==
  ASSUME opts \in Options, opts.template \in Template, NEW f \in File
  PROVE  EntryOf(FileHash(f), Stripped(Path[f]), TRUE) \in EntryType
  <1> DEFINE p == Stripped(Path[f])
  <1>1. Path[f] \in Seq(Piece) BY TreeFacts
  <1>2. p \in Seq(Piece) /\ \E k \in 1 .. Len(Path[f]) + 1 : p = SubSeq(Path[f], k, Len(Path[f]))
    BY <1>1, StrippedIsThere
  <1> HIDE DEF p
  <1>3. <<opts.template, <<"content", f>>, p>> \in Digest /\ <<opts.template, <<"part", f>>, p>> \in Digest
    BY <1>2, DigestAssumption
  <1>4. TemplateHash(FileHash(f), p) \in Digest BY <1>3 DEF TemplateHash, FileHash
  <1>5. p \in Seq(Piece \cup {"boot_aggregate"}) BY <1>2
  <1> QED BY <1>4, <1>5 DEF EntryOf, EntryType, p

LEMMA EntryIsThat ==
  ASSUME opts \in Options, fs \in [Node -> FileState], NEW f \in File, NEW w, w.node = f, w # BootWay, fs[f] = "ok"
  PROVE  EntryOf(FileHash(f), Stripped(Path[f]), TRUE) = Entry(w)
  <1>1. Stripped(Path[f]) = PathThere(Path[f]) BY TreeFacts, StrippedIsThere
  <1>2. FileHash(f) = <<"content", f>> BY DEF FileHash
  <1> QED BY <1>1, <1>2 DEF EntryOf, TemplateHash, Entry, FileEntry, Measured

LEMMA BootIsTyped ==
  ASSUME opts \in Options, opts.template \in Template
  PROVE  /\ EntryOf(<<"boot">>, <<"boot_aggregate">>, FALSE) = Entry(BootWay)
         /\ Entry(BootWay) \in EntryType
  <1>1. EntryOf(<<"boot">>, <<"boot_aggregate">>, FALSE) = Entry(BootWay)
    BY DEF EntryOf, TemplateHash, Entry, BootEntry, Measured
  <1>2. <<opts.template, <<"boot">>, <<"boot_aggregate">>>> \in Digest BY DigestAssumption
  <1>3. <<"boot_aggregate">> \in Seq(Piece \cup {"boot_aggregate"}) OBVIOUS
  <1> QED BY <1>1, <1>2, <1>3 DEF Entry, BootEntry, Measured, EntryType

-----------------------------------------------------------------------------
(* What depends only on the options and the files *)

LEMMA Fixed ==
  ASSUME UNCHANGED <<opts, fs, short>>
  PROVE  /\ \A todo, n, l : WalkAt(todo, n, l) <=> WalkAt(todo, n, l)'
         /\ EntryType' = EntryType /\ Supported' = Supported
  <1>1. Trails' = Trails BY Zenon DEF Trails, Along
  <1>2. References' = References BY <1>1, Zenon DEF References, BootWay
  <1>3. \A w : Entry(w) = Entry(w)'
    <2>1. \A p : PathThere(p)' = PathThere(p) BY Zenon DEF PathThere, Given, Rests
    <2> QED BY <2>1, Zenon DEF Entry, BootEntry, FileEntry, Measured, BootWay
  <1>4. LostQuietly' = LostQuietly /\ SpoiltQuietly' = SpoiltQuietly /\ Supported' = Supported
    <2>1. SpoiltQuietly' <=> SpoiltQuietly BY Zenon DEF SpoiltQuietly
    <2>2. LostQuietly' <=> LostQuietly BY <1>1, Zenon DEF LostQuietly
    <2> QED BY <2>1, <2>2, Zenon DEF Supported, LostQuietly, SpoiltQuietly
  <1>5. \A ds, todo, n : Traced(ds, todo, n) <=> Traced(ds, todo, n)' BY Zenon DEF Traced
  <1>6. \A ds, todo, n : Waiting(ds, todo, n) = Waiting(ds, todo, n)'
    BY <1>2, Zenon DEF Waiting, Pends, Follows, Along
  <1>7. \A l, W : Ledger(l, W) <=> Ledger(l, W)'
    <2>1. Lossy <=> Lossy' BY <1>4 DEF Lossy
    <2>2. \A b, l, W : Keeps(b, l, W) <=> Keeps(b, l, W)'
      <3> SUFFICES ASSUME NEW b, NEW l, NEW W PROVE Keeps(b, l, W) <=> Keeps(b, l, W)'
        OBVIOUS
      <3>1. \A k : (b[k] \notin W /\ (SpoiltQuietly \/ l[k] = Entry(b[k])))
                   <=> (b[k] \notin W /\ (SpoiltQuietly \/ l[k] = Entry(b[k])))'
        <4> SUFFICES ASSUME NEW k PROVE (SpoiltQuietly \/ l[k] = Entry(b[k])) <=> (SpoiltQuietly \/ l[k] = Entry(b[k]))'
          OBVIOUS
        <4>1. Entry(b[k]) = Entry(b[k])' BY <1>3
        <4> QED BY <4>1, <1>4
      <3>2. (~short /\ opts.aggregate # Unset => l # <<>> /\ b[1] = BootWay)
            <=> (~short /\ opts.aggregate # Unset => l # <<>> /\ b[1] = BootWay)'
        BY DEF BootWay
      <3>3. (b \in [1 .. Len(l) -> References])' <=> b \in [1 .. Len(l) -> References]
        BY <1>2
      <3>4. (Lossy \/ \A w \in References : w \in W \/ \E k \in 1 .. Len(l) : b[k] = w)
            <=> (Lossy \/ \A w \in References : w \in W \/ \E k \in 1 .. Len(l) : b[k] = w)'
        BY <1>2, <2>1
      <3> QED BY <3>1, <3>2, <3>3, <3>4, Zenon DEF Keeps
    <2> QED BY <2>2, Zenon DEF Ledger
  <1>8. \A todo, n, l : WalkAt(todo, n, l) <=> WalkAt(todo, n, l)'
    BY <1>5, <1>6, <1>7, Zenon DEF WalkAt
  <1>9. EntryType' = EntryType BY DEF EntryType
  <1> QED BY <1>4, <1>8, <1>9

-----------------------------------------------------------------------------
(* The steps in front of the walk, and those that end the program *)

LEMMA NotPrintedYet ==
  ASSUME ImaInv, pc # "exited"
  PROVE  out = Unprinted /\ ret # 0 BY DEF ImaInv, StepSound

LEMMA Early ==
  ASSUME ImaInv, OptionsSound', pc \in {"parse", "validate"}, pc' \in {"parse", "validate", "aggregate"},
         UNCHANGED <<i, walk, log, out, ret>>, pc' = "aggregate" => opts'.template \in Template
  PROVE  ImaInv'
  <1>1. /\ i = 1 /\ walk = <<>> /\ log = <<>> /\ out = Unprinted /\ ret \in {-1, 0, 1} /\ ret # 0
        /\ walk \in Seq(SUBSET Node) BY DEF ImaInv, StepSound
  <1>2. Len(opts'.paths) \in Nat BY DEF OptionsSound, Options
  <1>3. i' \in 1 .. Len(opts'.paths) + 1 BY <1>1, <1>2
  <1>4. ~Working' BY <1>1 DEF Working
  <1>5. log' \in Seq(EntryType') BY <1>1
  <1>6. pc' \in Label BY DEF Label
  <1>7. StepSound' BY <1>1, <1>3, <1>4, <1>5, <1>6, Zenon DEF StepSound
  <1> QED BY <1>4, <1>7 DEF ImaInv, WalkSound, ReportsSound

LEMMA Stopped ==
  ASSUME ImaInv, pc # "exited", pc' \in {"exited", "crashed"}, UNCHANGED <<environment, i, walk, log, out>>,
         ret' \in {-1, ret}
  PROVE  ImaInv'
  <1>1. out = Unprinted /\ ret # 0 BY NotPrintedYet
  <1>2. OptionsSound' /\ UNCHANGED <<argv, opts, fs, short, i, walk, log, out>>
    BY DEF environment, ImaInv, OptionsSound
  <1>3. ~Working' BY <1>1, <1>2 DEF Working
  <1>4. EntryType' = EntryType /\ Supported' = Supported BY <1>2, Fixed
  <1>5. pc' \in Label /\ ret' \in {-1, 0, 1} /\ ret' # 0
    BY <1>1 DEF ImaInv, StepSound, Label
  <1>6. /\ i' \in 1 .. Len(opts'.paths) + 1 /\ walk' \in Seq(SUBSET Node) /\ log' \in Seq(EntryType')
        /\ (log # <<>> => Supported)' BY <1>2, <1>4 DEF ImaInv, StepSound
  <1>7. StepSound' BY <1>1, <1>2, <1>3, <1>5, <1>6 DEF StepSound
  <1> QED BY <1>2, <1>3, <1>7 DEF ImaInv, WalkSound, ReportsSound

LEMMA FailStep == ASSUME ImaInv, pc # "exited", Fail PROVE ImaInv'
  <1>1. pc' = "exited" /\ UNCHANGED <<environment, i, walk, log, out>> /\ ret' \in {-1, ret}
    BY DEF Fail, Exit
  <1> QED BY <1>1, Stopped

LEMMA CrashedStep == ASSUME ImaInv, pc # "exited", Crash PROVE ImaInv'
  <1>1. pc' = "crashed" /\ UNCHANGED <<environment, i, walk, log, out>> /\ ret' \in {-1, ret}
    BY DEF Crash
  <1> QED BY <1>1, Stopped

LEMMA ParsedStep ==
  ASSUME ImaInv, Parsing, NEW o \in Options, Parsed(o)
  PROVE  ImaInv'
  <1>1. argv \in Seq(Argument) /\ argv # <<>> BY DEF ImaInv, OptionsSound, Parsing
  <1>2. argv' \in Seq(Argument) BY <1>1 DEF Parsed
  <1>3. OptionsSound' BY <1>2 DEF Parsed, ImaInv, OptionsSound
  <1>4. pc' = "parse" /\ pc = "parse" /\ UNCHANGED <<i, walk, log, out, ret>>
    BY DEF Parsing, Parsed
  <1> QED BY <1>3, <1>4, Early

LEMMA ArgumentParts ==
  ASSUME ImaInv, Parsing
  PROVE  /\ opts \in Options /\ pc # "exited" /\ NextArg \in Argument
         /\ NextArg.opt = "format" => NextArg.val \in {"json", "text", "xml"}
         /\ NextArg.opt = "tpmpcr" => NextArg.val \in Int \cup {Unset}
         /\ NextArg.opt = "path" => NextArg.val \in Node \cup {Root}
         /\ NextArg.opt = "strip" => NextArg.val \in Seq(Piece)
         /\ NextArg.opt = "imatemplate" => NextArg.val \in Template
         /\ NextArg.opt = "boot_aggregate" => NextArg.val \in Aggregate
  <1>1. argv \in Seq(Argument) /\ argv # <<>> /\ opts \in Options /\ pc # "exited"
    BY DEF ImaInv, OptionsSound, Parsing
  <1>2. NextArg \in Argument BY <1>1 DEF NextArg
  <1> HIDE DEF NextArg
  <1>3. NextArg.opt = "format" => NextArg.val \in {"json", "text", "xml"}
    BY <1>2 DEF Argument
  <1>4. NextArg.opt = "tpmpcr" => NextArg.val \in Int \cup {Unset} BY <1>2 DEF Argument
  <1>5. NextArg.opt = "path" => NextArg.val \in Node \cup {Root} BY <1>2 DEF Argument
  <1>6. NextArg.opt = "strip" => NextArg.val \in Seq(Piece) BY <1>2 DEF Argument
  <1>7. NextArg.opt = "imatemplate" => NextArg.val \in Template BY <1>2 DEF Argument
  <1>8. NextArg.opt = "boot_aggregate" => NextArg.val \in Aggregate BY <1>2 DEF Argument
  <1> QED BY <1>1, <1>2, <1>3, <1>4, <1>5, <1>6, <1>7, <1>8

LEMMA ParseOptionsStep == ASSUME ImaInv, ParseOptions PROVE ImaInv'
  <1>1. CASE ParseFormat
    <2>1. Parsing /\ Parsed([opts EXCEPT !.format = NextArg.val]) BY <1>1 DEF ParseFormat
    <2>2. [opts EXCEPT !.format = NextArg.val] \in Options
      BY <1>1, <2>1, ArgumentParts DEF ParseFormat, Options
    <2> QED BY <2>1, <2>2, ParsedStep
  <1>2. CASE ParsePcr
    <2>1. Parsing /\ Parsed([opts EXCEPT !.pcr = NextArg.val]) BY <1>2 DEF ParsePcr
    <2>2. [opts EXCEPT !.pcr = NextArg.val] \in Options
      BY <1>2, <2>1, ArgumentParts DEF ParsePcr, Options
    <2> QED BY <2>1, <2>2, ParsedStep
  <1>3. CASE ParseVerbose
    <2>1. Parsing /\ Parsed(opts) BY <1>3 DEF ParseVerbose
    <2> QED BY <2>1, ArgumentParts, ParsedStep
  <1>4. CASE ParsePath
    <2>1. Parsing /\ Parsed([opts EXCEPT !.paths = Append(@, NextArg.val)])
      BY <1>4 DEF ParsePath
    <2>2. opts.paths \in Seq(Node \cup {Root}) /\ NextArg.val \in Node \cup {Root} /\ opts \in Options
      BY <1>4, <2>1, ArgumentParts DEF ParsePath, Options
    <2>3. Append(opts.paths, NextArg.val) \in Seq(Node \cup {Root}) BY <2>2
    <2>4. [opts EXCEPT !.paths = Append(@, NextArg.val)] \in Options
      BY <2>2, <2>3 DEF Options
    <2> QED BY <2>1, <2>4, ParsedStep
  <1>5. CASE ParseString("strip", "strip") \/ ParseString("imatemplate", "template")
    <2>1. ASSUME ParseString("strip", "strip") PROVE ImaInv'
      <3>1. CASE Parsed([opts EXCEPT !["strip"] = NextArg.val])
        <4>1. Parsing /\ NextArg.opt = "strip" BY <2>1 DEF ParseString
        <4>2. [opts EXCEPT !["strip"] = NextArg.val] \in Options
          BY <4>1, ArgumentParts DEF Options
        <4> QED BY <4>1, <4>2, <3>1, ParsedStep
      <3>2. CASE Fail BY <3>2, <2>1, FailStep DEF ParseString, Parsing
      <3> QED BY <2>1, <3>1, <3>2 DEF ParseString
    <2>2. ASSUME ParseString("imatemplate", "template") PROVE ImaInv'
      <3>1. CASE Parsed([opts EXCEPT !["template"] = NextArg.val])
        <4>1. Parsing /\ NextArg.opt = "imatemplate" BY <2>2 DEF ParseString
        <4>2. [opts EXCEPT !["template"] = NextArg.val] \in Options
          BY <4>1, ArgumentParts DEF Options
        <4> QED BY <4>1, <4>2, <3>1, ParsedStep
      <3>2. CASE Fail BY <3>2, <2>2, FailStep DEF ParseString, Parsing
      <3> QED BY <2>2, <3>1, <3>2 DEF ParseString
    <2> QED BY <1>5, <2>1, <2>2
  <1>6. CASE ParseAggregate
    <2>1. CASE Parsed([opts EXCEPT !.aggregate = NextArg.val])
      <3>1. Parsing /\ NextArg.opt = "boot_aggregate" BY <1>6 DEF ParseAggregate
      <3>2. [opts EXCEPT !.aggregate = NextArg.val] \in Options
        BY <3>1, ArgumentParts DEF Options
      <3> QED BY <3>1, <3>2, <2>1, ParsedStep
    <2>2. CASE Fail BY <2>2, <1>6, FailStep DEF ParseAggregate, Parsing
    <2> QED BY <1>6, <2>1, <2>2 DEF ParseAggregate
  <1>7. CASE ParseRefused BY <1>7, FailStep DEF ParseRefused, Parsing
  <1>8. CASE ParseEnd
    <2>1. pc = "parse" /\ pc' = "validate" /\ UNCHANGED <<argv, opts, fs, short, i, walk, log, out, ret>>
      BY <1>8 DEF ParseEnd, Goto, environment
    <2>2. OptionsSound' BY <2>1 DEF ImaInv, OptionsSound
    <2> QED BY <2>1, <2>2, Early
  <1>9. CASE Validate
    <2>1. CASE Fail BY <2>1, <1>9, FailStep DEF Validate
    <2>2. CASE ~Fail
      <3>1. /\ pc = "validate" /\ pc' = "aggregate"
            /\ opts' = [opts EXCEPT !.template = IF @ = Unset THEN "ima-sig" ELSE @]
            /\ UNCHANGED <<argv, fs, short, i, walk, log, out, ret>>
        BY <2>2, <1>9 DEF Validate
      <3>2. opts \in Options /\ argv \in Seq(Argument) /\ fs \in [Node -> FileState] /\ short \in BOOLEAN
        BY DEF ImaInv, OptionsSound
      <3>3. opts' \in Options /\ opts'.template \in Template
        BY <3>1, <3>2 DEF Options, Template
      <3>4. OptionsSound' BY <3>1, <3>2, <3>3 DEF OptionsSound
      <3> QED BY <3>1, <3>3, <3>4, Early
    <2> QED BY <2>1, <2>2
  <1> QED BY <1>1, <1>2, <1>3, <1>4, <1>5, <1>6, <1>7, <1>8, <1>9 DEF ParseOptions


-----------------------------------------------------------------------------
(* The steps of the walk *)

\* A step of the walk keeps the invariant if it keeps these parts of it.
LEMMA WalkOn ==
  ASSUME ImaInv, out = Unprinted, ret # 0, opts.template \in Template, pc' \in {"paths", "walk", "print"},
         UNCHANGED <<environment, out, ret>>,
         i' \in 1 .. Len(opts.paths) + 1, walk' \in Seq(SUBSET Node), log' \in Seq(EntryType),
         IF pc' = "walk" THEN walk' # <<>> /\ i' <= Len(opts.paths) ELSE walk' = <<>>,
         pc' = "print" => i' = Len(opts.paths) + 1,
         log' # <<>> => Supported, WalkAt(walk', i', log'), ReportsSound'
  PROVE  ImaInv'
  <1>1. UNCHANGED <<argv, opts, fs, short>> BY DEF environment
  <1>2. OptionsSound' BY <1>1 DEF ImaInv, OptionsSound
  <1>3. EntryType' = EntryType /\ Supported' = Supported BY <1>1, Fixed
  <1>4. WalkSound'
    <2>1. \A todo, n, l : WalkAt(todo, n, l) <=> WalkAt(todo, n, l)' BY <1>1, Fixed
    <2> QED BY <2>1, Zenon DEF WalkSound
  <1>5. ret \in {-1, 0, 1} BY DEF ImaInv, StepSound
  <1>6. /\ pc' \in Label /\ i' \in 1 .. Len(opts'.paths) + 1 /\ ret' \in {-1, 0, 1}
        /\ log' \in Seq(EntryType') /\ opts'.template \in Template /\ (log # <<>> => Supported)'
        /\ out' = Unprinted /\ ret' # 0
        /\ pc' = "walk" => i' <= Len(opts'.paths)
        /\ pc' = "print" => i' = Len(opts'.paths) + 1 BY <1>1, <1>3, <1>5 DEF Label
  <1>7. /\ pc' \notin {"parse", "validate", "aggregate"}
        /\ pc' \in {"paths", "print"} => walk' = <<>>
        /\ pc' = "walk" => walk' # <<>> BY Zenon
  <1>8. StepSound' BY <1>6, <1>7, Zenon DEF StepSound
  <1> QED BY <1>2, <1>4, <1>8 DEF ImaInv

\* What holds while the paths are gone through.
LEMMA Going ==
  ASSUME ImaInv, pc \in {"aggregate", "paths", "walk", "print"}
  PROVE  /\ OptionsSound /\ opts \in Options /\ fs \in [Node -> FileState] /\ short \in BOOLEAN
         /\ opts.paths \in Seq(Node \cup {Root}) /\ Len(opts.paths) \in Nat
         /\ pc # "exited" /\ out = Unprinted /\ ret # 0 /\ opts.template \in Template
         /\ i \in 1 .. Len(opts.paths) + 1 /\ i \in Nat \ {0}
         /\ walk \in Seq(SUBSET Node) /\ log \in Seq(EntryType) /\ (log # <<>> => Supported)
         /\ pc = "walk" => i \in 1 .. Len(opts.paths) /\ walk # <<>>
         /\ pc \in {"aggregate", "paths", "print"} => walk = <<>>
         /\ pc = "aggregate" => log = <<>> /\ i = 1
         /\ pc = "print" => i = Len(opts.paths) + 1
  <1>1. OptionsSound /\ opts \in Options /\ opts.paths \in Seq(Node \cup {Root}) /\ Len(opts.paths) \in Nat
    BY DEF ImaInv, OptionsSound, Options
  <1>2. out = Unprinted /\ ret # 0 /\ pc # "exited" BY NotPrintedYet
  <1>3. opts.template \in Template /\ walk \in Seq(SUBSET Node) /\ log \in Seq(EntryType) /\ (log # <<>> => Supported)
    BY Zenon DEF ImaInv, StepSound, Working
  <1>4. i \in 1 .. Len(opts.paths) + 1 /\ i \in Nat \ {0} BY <1>1 DEF ImaInv, StepSound
  <1>5. /\ pc = "walk" => i <= Len(opts.paths) /\ walk # <<>>
        /\ pc \in {"aggregate", "paths", "print"} => walk = <<>>
        /\ pc = "aggregate" => log = <<>> /\ i = 1
        /\ pc = "print" => i = Len(opts.paths) + 1 BY Zenon DEF ImaInv, StepSound
  <1>6. i <= Len(opts.paths) => i \in 1 .. Len(opts.paths) BY <1>1, <1>4
  <1> QED BY <1>1, <1>2, <1>3, <1>4, <1>5, <1>6, Zenon DEF OptionsSound

LEMMA BetweenPaths ==
  ASSUME ImaInv, pc = "paths"
  PROVE  Ledger(log, Waiting(<<>>, <<>>, i))
  <1>1. walk = <<>> /\ WalkAt(walk, i, log) BY Going, Zenon DEF ImaInv, WalkSound, Working
  <1>2. PICK ds : Traced(ds, <<>>, i) /\ Ledger(log, Waiting(ds, <<>>, i))
    BY <1>1, Zenon DEF WalkAt
  <1>3. ds = <<>> BY <1>2 DEF Traced
  <1> QED BY <1>2, <1>3

LEMMA InDirectories ==
  ASSUME ImaInv, pc = "walk"
  PROVE  \E ds : Traced(ds, walk, i) /\ Ledger(log, Waiting(ds, walk, i)) /\ Len(ds) = Len(walk)
                 /\ Len(walk) \in Nat \ {0}
  <1>1. walk \in Seq(SUBSET Node) /\ walk # <<>> /\ WalkAt(walk, i, log)
    BY Going, Zenon DEF ImaInv, WalkSound, Working
  <1>2. Len(walk) \in Nat \ {0} BY <1>1
  <1> QED BY <1>1, <1>2, Zenon DEF WalkAt, Traced

LEMMA PathsAt ==
  ASSUME NEW n, NEW l, Ledger(l, Waiting(<<>>, <<>>, n))
  PROVE  WalkAt(<<>>, n, l)
  <1>1. Traced(<<>>, <<>>, n) BY DEF Traced
  <1> QED BY <1>1 DEF WalkAt

\* An entry is added to the log, or the log is lost.
LEMMA Added ==
  ASSUME log \in Seq(EntryType), NEW e \in EntryType, EvlogAdd(e), NEW W, NEW V \in SUBSET W, NEW w \in References,
         Ledger(log, W), w \in W, w \notin V, W \subseteq V \cup {w}, SpoiltQuietly \/ e = Entry(w), Supported
  PROVE  Ledger(log', V) /\ log' \in Seq(EntryType) /\ (log' # <<>> => Supported)
  <1>1. CASE log' = Append(log, e)
    <2>1. Ledger(Append(log, e), V) BY LedgerAdded
    <2>2. Append(log, e) \in Seq(EntryType) OBVIOUS
    <2> QED BY <1>1, <2>1, <2>2
  <1>2. CASE short /\ log' = <<>> BY <1>2, LedgerLost
  <1> QED BY <1>1, <1>2 DEF EvlogAdd

LEMMA MeasureAggregateStep == ASSUME ImaInv, MeasureAggregate PROVE ImaInv'
  <1> DEFINE W == Waiting(<<>>, <<>>, 1)
  <1>1. pc = "aggregate" BY DEF MeasureAggregate
  <1>2. log = <<>> /\ i = 1 /\ walk = <<>> /\ opts \in Options /\ opts.template \in Template /\ OptionsSound
    BY <1>1, Going
  <1>3. \A w \in References : w = BootWay \/ w \in W
    <2> SUFFICES ASSUME NEW w \in References, w # BootWay PROVE w \in W OBVIOUS
    <2>1. w.arg \in 1 .. Len(opts.paths) BY <1>2, ReferenceParts
    <2>2. w.arg > 1 \/ w.arg = 1 BY <2>1
    <2> QED BY <2>2 DEF Waiting, Pends
  <1>4. BootWay \notin W
    <2> SUFFICES ASSUME BootWay \in W PROVE FALSE OBVIOUS
    <2>1. BootWay \in References /\ Pends(BootWay, <<>>, <<>>, 1) BY DEF Waiting
    <2> QED BY <2>1, <1>2, PendsArg
  <1>5. ReportsSound' \/ Fail
    <2>1. CASE Fail BY <2>1
    <2>2. CASE ~Fail
      <3>1. i' = 1 /\ walk' = <<>> /\ opts' = opts
        BY <2>2, <1>2 DEF MeasureAggregate, Goto, environment
      <3>2. \A k \in 1 .. Len(opts'.paths) : ~(k < i') BY <3>1
      <3>3. ~(walk' # <<>>) BY <3>1
      <3> QED BY <3>2, <3>3, Zenon DEF ReportsSound
    <2> QED BY <2>1, <2>2
  <1> HIDE DEF W
  <1>6. CASE Fail BY <1>6, <1>1, FailStep
  <1>7. CASE opts.aggregate = Unset /\ Goto("paths")
    <2> DEFINE b == [k \in 1 .. 0 |-> BootWay]
    <2>1. Len(<<>>) = 0 /\ 1 .. 0 = {} OBVIOUS
    <2>2. \A w \in References : w # BootWay
      <3> SUFFICES ASSUME NEW w \in References, w = BootWay PROVE FALSE OBVIOUS
      <3>1. w \in Trails BY <1>7 DEF References
      <3>2. w.arg \in 1 .. Len(opts.paths) BY <3>1, <1>2, WayParts DEF OptionsSound, Options
      <3> QED BY <3>2 DEF BootWay
    <2>3. Keeps(b, <<>>, W) BY <2>1, <2>2, <1>3, <1>7 DEF Keeps
    <2> HIDE DEF b
    <2>4. WalkAt(<<>>, 1, <<>>) BY <2>3, PathsAt DEF Ledger, W
    <2>5. /\ pc' = "paths" /\ i' = 1 /\ walk' = <<>> /\ log' = <<>> /\ UNCHANGED <<environment, out, ret>>
          /\ ReportsSound' \/ Fail BY <1>2, <1>5, <1>7 DEF Goto
    <2>6. ~Fail BY <2>5 DEF Fail, Exit
    <2>7. WalkAt(walk', i', log') BY <2>4, <2>5
    <2>8. i' \in 1 .. Len(opts.paths) + 1 BY <2>5, <1>2, <1>1, Going
    <2>9. walk' \in Seq(SUBSET Node) /\ log' \in Seq(EntryType) BY <2>5
    <2> QED BY <2>5, <2>6, <2>7, <2>8, <2>9, <1>1, Going, WalkOn
  <1>8. CASE /\ opts.aggregate = "sha256" /\ Supported
             /\ EvlogAdd(EntryOf(<<"boot">>, <<"boot_aggregate">>, FALSE))
             /\ pc' = "paths" /\ UNCHANGED <<environment, i, walk, out, ret>>
    <2> DEFINE e == EntryOf(<<"boot">>, <<"boot_aggregate">>, FALSE)
    <2>1. e = Entry(BootWay) /\ e \in EntryType BY <1>2, BootIsTyped
    <2> HIDE DEF e
    <2>2. BootWay \in References
      <3>1. opts.aggregate # Unset BY <1>8, TreeAssumption DEF Aggregate
      <3> QED BY <3>1 DEF References
    <2>3. Ledger(log', W) /\ log' \in Seq(EntryType)
      <3>1. CASE log' = Append(log, e)
        <4> DEFINE b == [k \in 1 .. 1 |-> BootWay]
                   l == <<e>>
        <4>1. log' = l BY <3>1, <1>2
        <4>2. /\ 1 .. Len(l) = {1} /\ l[1] = e /\ l # <<>> /\ b[1] = BootWay
              /\ b \in [1 .. Len(l) -> References] BY <2>2
        <4> HIDE DEF b
        <4>3. l \in Seq(EntryType) BY <2>1
        <4> HIDE DEF l
        <4>4. Keeps(b, l, W) BY <4>2, <1>3, <1>4, <2>1, Zenon DEF Keeps
        <4> QED BY <4>1, <4>3, <4>4 DEF Ledger
      <3>2. CASE short /\ log' = <<>> BY <3>2, LedgerLost
      <3> QED BY <3>1, <3>2, <1>8 DEF EvlogAdd, e
    <2>4. ~Fail BY <1>8 DEF Fail, Exit
    <2>5. WalkAt(<<>>, 1, log') BY <2>3, PathsAt DEF W
    <2>6. i' = 1 /\ walk' = <<>> BY <1>8, <1>2
    <2>7. WalkAt(walk', i', log') BY <2>5, <2>6
    <2>8. i' \in 1 .. Len(opts.paths) + 1 /\ walk' \in Seq(SUBSET Node)
      BY <2>6, <1>1, <1>2, Going
    <2> QED BY <2>3, <2>4, <2>6, <2>7, <2>8, <1>1, <1>5, <1>8, Going, WalkOn
  <1> QED BY <1>6, <1>7, <1>8 DEF MeasureAggregate

LEMMA MeasurePathStep == ASSUME ImaInv, MeasurePath PROVE ImaInv'
  <1> DEFINE f == Arrived
             w == Here(<<>>, i, f)
             W == Waiting(<<>>, <<>>, i)
             V == Waiting(<<>>, <<>>, i + 1)
  <1>1. /\ pc = "paths" /\ i <= Len(opts.paths) /\ f \in File /\ fs[f] # "absent"
        /\ pc' = "paths" /\ i' = i + 1 /\ UNCHANGED <<environment, walk, out, ret>>
        /\ FileMeasured(f) \/ ((FileRefused(f) \/ FileSkipped(f)) /\ log' = log)
    BY DEF MeasurePath, AtPath
  <1>2. /\ OptionsSound /\ opts \in Options /\ fs \in [Node -> FileState] /\ walk = <<>>
        /\ i \in 1 .. Len(opts.paths) /\ f = opts.paths[i] /\ i \in Nat
        /\ log \in Seq(EntryType) /\ (log # <<>> => Supported)
        /\ i + 1 \in 1 .. Len(opts.paths) + 1 /\ opts.template \in Template
    BY <1>1, Going DEF Arrived
  <1>3. f \in Node BY <1>1, TreeFacts
  <1> HIDE DEF f
  <1>4. w \in Trails BY <1>1, <1>2, <1>3, PathIsTrail
  <1>5. w.node = f /\ w.dirs = <<>> /\ w.arg = i BY DEF Here
  <1>6. w \in References /\ w # BootWay
    BY <1>1, <1>2, <1>4, <1>5, TrailIsReference DEF BootWay
  <1>7. V \in SUBSET W /\ W \subseteq V \cup {w} /\ w \in W /\ w \notin V
    BY <1>1, <1>2, <1>6, GonePath
  <1>8. Ledger(log, W) BY <1>1, BetweenPaths
  <1> HIDE DEF w, W, V
  <1>9. Ledger(log', V) /\ log' \in Seq(EntryType) /\ (log' # <<>> => Supported)
    <2>1. CASE FileMeasured(f)
      <3> DEFINE e == EntryOf(FileHash(f), Stripped(Path[f]), TRUE)
      <3>1. Readable(f) /\ Supported /\ EvlogAdd(e) BY <2>1 DEF FileMeasured
      <3>2. e \in EntryType BY <1>1, <1>2, EntryIsTyped
      <3>3. SpoiltQuietly \/ e = Entry(w)
        <4>1. CASE fs[f] = "ok" BY <4>1, <1>1, <1>2, <1>5, <1>6, EntryIsThat
        <4>2. CASE fs[f] = "failing" BY <4>2, <1>1 DEF SpoiltQuietly
        <4> QED BY <3>1, <4>1, <4>2 DEF Readable
      <3> HIDE DEF e
      <3> QED BY <3>1, <3>2, <3>3, <1>2, <1>6, <1>7, <1>8, Added
    <2>2. CASE (FileRefused(f) \/ FileSkipped(f)) /\ log' = log
      <3>1. Lossy
        <4>1. CASE fs[f] = "locked"
          <5>1. fs[w.node] = "locked" /\ w.node \in File /\ Len(w.dirs) # 1
            BY <1>1, <1>5, <4>1
          <5> QED BY <5>1, <1>4 DEF Lossy, LostQuietly
        <4>2. CASE fs[f] # "locked" BY <2>2, <4>2, <1>1 DEF FileRefused, FileSkipped, Lossy
        <4> QED BY <4>1, <4>2
      <3>2. Ledger(log, V) BY <3>1, <1>7, <1>8, LedgerSame
      <3> QED BY <3>2, <2>2, <1>2
    <2> QED BY <1>1, <2>1, <2>2
  <1>10. WalkAt(<<>>, i + 1, log') BY <1>9, PathsAt DEF V
  <1>11. i' \in 1 .. Len(opts.paths) + 1 /\ walk' = <<>> /\ walk' \in Seq(SUBSET Node) /\ WalkAt(walk', i', log')
    BY <1>1, <1>2, <1>10
  <1>12. ReportsSound'
    <2> SUFFICES ASSUME Working', ~short',
                        NEW k \in 1 .. Len(opts'.paths), k < i' \/ (k = i' /\ walk' # <<>>), opts'.paths[k] \in Dir,
                        NEW x \in Children[opts'.paths[k]] \cap File
                 PROVE  fs'[x] # "locked" BY DEF ReportsSound
    <2>1. opts' = opts /\ fs' = fs /\ short' = short BY <1>1 DEF environment
    <2>2. k < i + 1 /\ k \in 1 .. Len(opts.paths) /\ opts.paths[k] \in Dir /\ x \in Children[opts.paths[k]] \cap File
      BY <2>1, <1>11, <1>1
    <2>3. k # i BY <2>2, <1>1, <1>2, TreeFacts
    <2>4. k < i BY <2>2, <2>3, <1>2
    <2>5. Working BY <1>1 DEF Working
    <2>6. fs[x] # "locked" \/ k = i BY <2>1, <2>2, <2>4, <2>5 DEF ImaInv, ReportsSound
    <2> QED BY <2>1, <2>3, <2>6
  <1> QED BY <1>1, <1>2, <1>9, <1>11, <1>12, Going, WalkOn

LEMMA WalkPathStep == ASSUME ImaInv, WalkPath PROVE ImaInv'
  <1> DEFINE d == Arrived
  <1>1. pc = "paths" /\ i <= Len(opts.paths) /\ d \in Dir /\ fs[d] # "absent"
    BY DEF WalkPath, AtPath
  <1>2. CASE Fail BY <1>1, <1>2, FailStep
  <1>3. CASE ~Fail
    <2>1. pc' = "walk" /\ walk' = <<Children[d]>> /\ UNCHANGED <<environment, i, log, out, ret>>
      BY <1>3 DEF WalkPath
    <2>2. /\ OptionsSound /\ opts \in Options /\ i \in 1 .. Len(opts.paths) /\ d = opts.paths[i] /\ i \in Nat
          /\ log \in Seq(EntryType) /\ (log # <<>> => Supported) /\ i \in 1 .. Len(opts.paths) + 1 /\ walk = <<>>
      BY <1>1, Going DEF Arrived
    <2>3. Children[d] \in SUBSET Node BY <1>1, TreeFacts
    <2> HIDE DEF d
    <2>4. Traced(<<d>>, <<Children[d]>>, i) BY <1>1, <2>2, <2>3 DEF Traced
    <2>5. Ledger(log, Waiting(<<d>>, <<Children[d]>>, i))
      <3>1. Waiting(<<d>>, <<Children[d]>>, i) = Waiting(<<>>, <<>>, i)
        BY <1>1, <2>2, GoneInto
      <3> QED BY <3>1, <1>1, BetweenPaths
    <2>6. WalkAt(<<Children[d]>>, i, log) BY <2>4, <2>5 DEF WalkAt
    <2>7. walk' \in Seq(SUBSET Node) /\ walk' # <<>> /\ walk'[1] = Children[d] /\ WalkAt(walk', i', log')
      BY <2>1, <2>3, <2>6
    <2>8. ReportsSound'
      <3> SUFFICES ASSUME Working', ~short',
                          NEW k \in 1 .. Len(opts'.paths), k < i' \/ (k = i' /\ walk' # <<>>), opts'.paths[k] \in Dir,
                          NEW x \in Children[opts'.paths[k]] \cap File
                   PROVE  fs'[x] # "locked" \/ (k = i' /\ walk' # <<>> /\ x \in walk'[1])
        BY DEF ReportsSound
      <3>1. opts' = opts /\ fs' = fs /\ short' = short /\ i' = i BY <2>1 DEF environment
      <3>2. CASE k = i BY <3>1, <3>2, <2>2, <2>7
      <3>3. CASE k < i
        <4>1. Working BY <1>1 DEF Working
        <4>2. fs[x] # "locked" \/ (walk # <<>>) BY <3>1, <3>3, <4>1 DEF ImaInv, ReportsSound
        <4> QED BY <3>1, <4>2, <2>2
      <3> QED BY <3>1, <3>2, <3>3
    <2> QED BY <1>1, <2>1, <2>2, <2>7, <2>8, Going, WalkOn
  <1> QED BY <1>2, <1>3

LEMMA PathsDoneStep == ASSUME ImaInv, PathsDone PROVE ImaInv'
  <1>1. pc = "paths" /\ i > Len(opts.paths) /\ pc' = "print" /\ UNCHANGED <<environment, i, walk, log, out, ret>>
    BY DEF PathsDone, Goto
  <1>2. /\ walk = <<>> /\ i = Len(opts.paths) + 1 /\ i \in 1 .. Len(opts.paths) + 1
        /\ log \in Seq(EntryType) /\ (log # <<>> => Supported) /\ walk \in Seq(SUBSET Node)
    BY <1>1, Going
  <1>3. WalkAt(walk, i, log) BY <1>1, <1>2, BetweenPaths, PathsAt
  <1>4. ReportsSound'
    <2>1. ReportsSound /\ Working /\ UNCHANGED <<opts, fs, short, i, walk>>
      BY <1>1 DEF ImaInv, Working, environment
    <2> QED BY <2>1, Zenon DEF ReportsSound
  <1>5. UNCHANGED <<i, walk, log>> BY <1>1
  <1>6. WalkAt(walk', i', log') BY <1>3, <1>5, Zenon
  <1> QED BY <1>1, <1>2, <1>4, <1>6, Going, WalkOn

LEMMA PathRejectedStep == ASSUME ImaInv, PathRejected PROVE ImaInv'
  BY FailStep DEF PathRejected, AtPath

LEMMA PrintLogStep == ASSUME ImaInv, PrintLog PROVE ImaInv'
  <1>1. CASE Fail BY <1>1, FailStep DEF PrintLog
  <1>2. CASE ~Fail
    <2>1. /\ pc = "print" /\ log # <<>> /\ pc' = "exited" /\ ret' = 0 /\ out' = <<log>>
          /\ UNCHANGED <<environment, i, walk, log>> BY <1>2 DEF PrintLog, Exit
    <2>2. UNCHANGED <<argv, opts, fs, short, i, walk, log>> BY <2>1 DEF environment
    <2>3. OptionsSound' BY <2>2 DEF ImaInv, OptionsSound
    <2>4. EntryType' = EntryType /\ Supported' = Supported /\ \A todo, n, l : WalkAt(todo, n, l) <=> WalkAt(todo, n, l)'
      BY <2>2, Fixed
    <2>5. /\ i = Len(opts.paths) + 1 /\ i \in 1 .. Len(opts.paths) + 1 /\ walk = <<>> /\ walk \in Seq(SUBSET Node)
          /\ log \in Seq(EntryType) /\ Supported /\ opts.template \in Template
      BY <2>1, Going
    <2>6. Working BY <2>1 DEF Working
    <2>7. WalkSound'
      <3>1. WalkAt(walk, i, log) BY <2>6 DEF ImaInv, WalkSound
      <3>2. WalkAt(walk', i', log') BY <3>1, <2>2, Zenon
      <3> QED BY <3>2, <2>4, Zenon DEF WalkSound
    <2>8. ReportsSound' BY <2>2, <2>6, Zenon DEF ImaInv, ReportsSound
    <2>9. out' # Unprinted /\ ret' \in {-1, 0, 1} /\ pc' \in Label
      BY <2>1 DEF Unprinted, Label
    <2>10. /\ i' = Len(opts'.paths) + 1 /\ i' \in 1 .. Len(opts'.paths) + 1 /\ log' \in Seq(EntryType') /\ Supported'
           /\ opts'.template \in Template /\ out' = <<log'>> /\ log' # <<>> /\ walk' = <<>> /\ walk' \in Seq(SUBSET Node)
      BY <2>1, <2>2, <2>4, <2>5
    <2>11. StepSound' BY <2>1, <2>9, <2>10, Zenon DEF StepSound
    <2> QED BY <2>3, <2>7, <2>8, <2>11 DEF ImaInv
  <1> QED BY <1>1, <1>2

LEMMA OutOfMemoryStep == ASSUME ImaInv, OutOfMemory PROVE ImaInv'
  BY CrashedStep DEF OutOfMemory, Parsing, AtPath

\* The reports of a step that reads an entry of the directory on top of the stack.
LEMMA ReadReports ==
  ASSUME ImaInv, pc = "walk", pc' = "walk", UNCHANGED <<environment, i, out>>, walk' # <<>>,
         NEW x, walk'[1] = walk[1] \/ walk'[1] = walk[1] \ {x}, x \notin File \/ fs[x] # "locked" \/ short
  PROVE  ReportsSound'
  <1> SUFFICES ASSUME Working', ~short',
                      NEW k \in 1 .. Len(opts'.paths), k < i' \/ (k = i' /\ walk' # <<>>), opts'.paths[k] \in Dir,
                      NEW f \in Children[opts'.paths[k]] \cap File
               PROVE  fs'[f] # "locked" \/ (k = i' /\ walk' # <<>> /\ f \in walk'[1])
    BY DEF ReportsSound
  <1>1. opts' = opts /\ fs' = fs /\ short' = short /\ i' = i BY DEF environment
  <1>2. Working /\ walk # <<>> BY Going DEF Working
  <1>3. fs[f] # "locked" \/ (k = i /\ f \in walk[1]) BY <1>1, <1>2 DEF ImaInv, ReportsSound
  <1> QED BY <1>1, <1>3

\* Those of a step that leaves it for its parent.
LEMMA LeaveParts ==
  ASSUME ImaInv, pc = "walk", LeaveDirectory, Depth # 1
  PROVE  /\ pc' = "walk" /\ UNCHANGED <<environment, i, log, out, ret>> /\ walk' # <<>> /\ walk'[1] = walk[1]
         /\ walk' \in Seq(SUBSET Node) /\ walk' = SubSeq(walk, 1, Len(walk) - 1)
  <1>1. walk \in Seq(SUBSET Node) /\ walk # <<>> BY Going
  <1>2. Len(walk) \in Nat /\ Len(walk) # 0 /\ Len(walk) # 1 BY <1>1 DEF Depth
  <1>3. /\ walk' = SubSeq(walk, 1, Len(walk) - 1) /\ pc' = pc /\ i' = i /\ UNCHANGED <<environment, log, out, ret>>
    BY DEF LeaveDirectory, Depth
  <1> DEFINE n == Len(walk) - 1
             rest == SubSeq(walk, 1, n)
  <1>4. n \in Nat /\ 1 \in 1 .. n /\ n <= Len(walk)
    <2> DEFINE m == Len(walk)
    <2>1. m \in Nat /\ m # 0 /\ m # 1 BY <1>2
    <2> HIDE DEF m
    <2>2. m - 1 \in Nat /\ 1 \in 1 .. m - 1 /\ m - 1 <= m BY <2>1
    <2> QED BY <2>2 DEF m
  <1> HIDE DEF n
  <1>5. rest \in Seq(SUBSET Node) /\ Len(rest) = n /\ rest[1] = walk[1] BY <1>1, <1>4
  <1>6. rest # <<>> BY <1>4, <1>5
  <1> HIDE DEF rest
  <1>7. walk' = rest /\ rest \in Seq(SUBSET Node) /\ rest[1] = walk[1]
    BY <1>3, <1>5 DEF rest, n
  <1> QED BY <1>3, <1>6, <1>7, Zenon DEF rest, n

LEMMA EnterDirectoryStep == ASSUME ImaInv, NEW d \in Dir, EnterDirectory(d) PROVE ImaInv'
  <1> DEFINE m == Len(walk)
             rest == [walk EXCEPT ![m] = @ \ {d}]
  <1>1. /\ pc = "walk" /\ d \in walk[m] /\ pc' = "walk" /\ UNCHANGED <<environment, i, log, out, ret>>
        /\ \/ Opened(d) /\ walk' = Append(rest, Children[d])
           \/ OpenRefused(d) /\ walk' = rest BY Zenon DEF EnterDirectory, Depth, Read
  <1>2. /\ OptionsSound /\ opts \in Options /\ fs \in [Node -> FileState] /\ i \in 1 .. Len(opts.paths)
        /\ i \in 1 .. Len(opts.paths) + 1 /\ i <= Len(opts.paths)
        /\ i \in Nat \ {0} /\ log \in Seq(EntryType) /\ (log # <<>> => Supported) /\ walk \in Seq(SUBSET Node)
    BY <1>1, Going
  <1>3. PICK ds : Traced(ds, walk, i) /\ Ledger(log, Waiting(ds, walk, i)) /\ Len(ds) = m /\ m \in Nat \ {0}
    BY <1>1, InDirectories
  <1>4. d \notin File /\ Children[d] \in SUBSET Node BY TreeFacts
  <1> HIDE DEF m
  <1>5. /\ Traced(ds, rest, i) /\ rest \in Seq(SUBSET Node) /\ Len(rest) = m
        /\ Waiting(ds, rest, i) \in SUBSET Waiting(ds, walk, i)
        /\ \A v \in Waiting(ds, walk, i) : v \in Waiting(ds, rest, i)
                                           \/ (v.arg = i /\ Follows(v, ds, m) /\ Along(v, m + 1) = d)
    <2>1. OptionsSound BY <1>2
    <2>2. i \in Nat \ {0} BY <1>2
    <2>3. walk \in Seq(SUBSET Node) BY <1>2
    <2>4. Traced(ds, walk, i) BY <1>3
    <2>5. m = Len(ds) /\ m \in Nat \ {0} BY <1>3
    <2>6. d \in walk[m] BY <1>1
    <2>7. RestGone(ds, walk, rest, i, m, d) BY <2>1, <2>2, <2>3, <2>4, <2>5, <2>6, GoneEntry
    <2> HIDE DEF rest
    <2> QED BY <2>7 DEF RestGone
  <1>6. rest # <<>> /\ (rest[1] = walk[1] \/ rest[1] = walk[1] \ {d})
    BY <1>2, <1>3, <1>5 DEF m
  <1>7. CASE Opened(d) /\ walk' = Append(rest, Children[d])
    <2>1. fs[d] # "absent" BY <1>7 DEF Opened
    <2>2. /\ Traced(Append(ds, d), walk', i) /\ Waiting(Append(ds, d), walk', i) = Waiting(ds, walk, i)
      <3>1. OptionsSound BY <1>2
      <3>2. i \in Nat \ {0} BY <1>2
      <3>3. walk \in Seq(SUBSET Node) BY <1>2
      <3>4. Traced(ds, walk, i) BY <1>3
      <3>5. m = Len(ds) /\ m \in Nat \ {0} BY <1>3
      <3>6. d \in walk[m] BY <1>1
      <3> QED BY <3>1, <3>2, <3>3, <3>4, <3>5, <3>6, <2>1, <1>7, GoneDeeper
    <2>3. WalkAt(walk', i, log) BY <1>3, <2>2 DEF WalkAt
    <2>4. walk' \in Seq(SUBSET Node) /\ walk' # <<>> /\ walk'[1] = rest[1]
      BY <1>4, <1>5, <1>6, <1>7, <1>3
    <2>5. ReportsSound' BY <1>1, <1>4, <1>6, <2>4, ReadReports
    <2>6. WalkAt(walk', i', log') BY <1>1, <2>3, Zenon
    <2> QED BY <1>1, <1>2, <2>4, <2>5, <2>6, Going, WalkOn
  <1>8. CASE OpenRefused(d) /\ walk' = rest
    <2>1. Lossy \/ Waiting(ds, walk, i) \subseteq Waiting(ds, rest, i)
      <3> SUFFICES ASSUME ~Lossy, NEW v \in Waiting(ds, walk, i), v \notin Waiting(ds, rest, i) PROVE FALSE
        OBVIOUS
      <3>1. v.arg = i /\ Follows(v, ds, m) /\ Along(v, m + 1) = d /\ v \in References
        BY <1>5 DEF Waiting
      <3>2. ~short /\ ~LostQuietly BY DEF Lossy
      <3>3. fs[d] \in {"locked", "absent"} BY <3>2, <1>8 DEF OpenRefused, Opened
      <3>4. v \in Trails /\ v.node \in File /\ v.arg \in Nat BY <3>1, <1>2, ReferenceParts
      <3>5. OpenDirs(ds, walk, i, m) BY <1>2, <1>3, TracedTop
      <3>6. walk[m] \in SUBSET Children[ds[m]] /\ ds # <<>> /\ m \in 1 .. m /\ m = Len(ds)
        BY <3>5, <1>3 DEF OpenDirs
      <3>7. CASE fs[d] = "absent"
        <4>1. m \in DOMAIN v.dirs BY <3>1, <3>6 DEF Follows
        <4>2. m + 1 \in 1 .. Len(v.dirs) + 1 BY <4>1, <3>4, <1>3, WayParts
        <4> QED BY <4>2, <3>1, <3>4, <3>7, WayParts
      <3>8. CASE fs[d] = "locked"
        <4> DEFINE h == Here(ds, i, d)
        <4>1. h \in Trails BY <1>1, <1>2, <1>3, <3>6, <3>8, HereIsTrail
        <4>2. h.node = d /\ h.dirs = ds BY DEF Here
        <4> HIDE DEF h
        <4> QED BY <4>1, <4>2, <3>2, <3>6, <3>8, <1>4 DEF LostQuietly
      <3> QED BY <3>3, <3>7, <3>8
    <2>2. Ledger(log, Waiting(ds, rest, i)) BY <2>1, <1>3, <1>5, LedgerSame
    <2>3. WalkAt(rest, i, log) BY <2>2, <1>5 DEF WalkAt
    <2> HIDE DEF rest
    <2>4. walk' \in Seq(SUBSET Node) /\ walk' # <<>> /\ (walk'[1] = walk[1] \/ walk'[1] = walk[1] \ {d})
      BY <1>5, <1>6, <1>8
    <2>5. ReportsSound' BY <1>1, <1>4, <2>4, ReadReports
    <2>6. WalkAt(walk', i', log') BY <1>1, <1>8, <2>3, Zenon
    <2> QED BY <1>1, <1>2, <2>4, <2>5, <2>6, Going, WalkOn
  <1> QED BY <1>1, <1>7, <1>8

LEMMA MeasureEntryStep == ASSUME ImaInv, NEW f \in File, MeasureEntry(f) PROVE ImaInv'
  <1> DEFINE m == Len(walk)
             rest == [walk EXCEPT ![m] = @ \ {f}]
  <1>1. /\ pc = "walk" /\ f \in walk[m] /\ pc' = "walk" /\ UNCHANGED <<environment, i, out, ret>>
        /\ walk' = rest /\ (FileMeasured(f) \/ (FileSkipped(f) /\ log' = log))
    BY Zenon DEF MeasureEntry, Depth, Read
  <1>2. /\ OptionsSound /\ opts \in Options /\ fs \in [Node -> FileState] /\ i \in 1 .. Len(opts.paths)
        /\ i \in 1 .. Len(opts.paths) + 1 /\ i <= Len(opts.paths) /\ opts.template \in Template
        /\ i \in Nat \ {0} /\ log \in Seq(EntryType) /\ (log # <<>> => Supported) /\ walk \in Seq(SUBSET Node)
    BY <1>1, Going
  <1>3. PICK ds : Traced(ds, walk, i) /\ Ledger(log, Waiting(ds, walk, i)) /\ Len(ds) = m /\ m \in Nat \ {0}
    BY <1>1, InDirectories
  <1> HIDE DEF m
  <1> DEFINE w == Here(ds, i, f)
             W == Waiting(ds, walk, i)
             V == Waiting(ds, rest, i)
  <1>4. /\ Traced(ds, rest, i) /\ rest \in Seq(SUBSET Node) /\ Len(rest) = m /\ V \in SUBSET W
    <2>1. OptionsSound BY <1>2
    <2>2. i \in Nat \ {0} BY <1>2
    <2>3. walk \in Seq(SUBSET Node) BY <1>2
    <2>4. Traced(ds, walk, i) BY <1>3
    <2>5. m = Len(ds) /\ m \in Nat \ {0} BY <1>3
    <2>6. f \in walk[m] BY <1>1
    <2>7. RestGone(ds, walk, rest, i, m, f) BY <2>1, <2>2, <2>3, <2>4, <2>5, <2>6, GoneEntry
    <2> HIDE DEF rest
    <2> QED BY <2>7 DEF RestGone
  <1>5. W \subseteq V \cup {w} /\ (w \in References => w \in W /\ w \notin V)
    BY <1>1, <1>2, <1>3, GoneFile, Zenon
  <1>6. rest # <<>> /\ (rest[1] = walk[1] \/ rest[1] = walk[1] \ {f})
    BY <1>2, <1>3, <1>4 DEF m
  <1>7. w.node = f /\ w.arg = i /\ w # BootWay BY <1>2 DEF Here, BootWay
  <1>8. fs[f] # "absent" => w \in References
    <2> SUFFICES ASSUME fs[f] # "absent" PROVE w \in References OBVIOUS
    <2>1. OpenDirs(ds, walk, i, m) BY <1>2, <1>3, TracedTop
    <2>2. walk[m] \in SUBSET Children[ds[m]] /\ ds # <<>> /\ m = Len(ds)
      BY <2>1, <1>3 DEF OpenDirs
    <2>3. w \in Trails BY <2>2, <1>1, <1>2, <1>3, HereIsTrail
    <2> QED BY <2>3, <1>7, TrailIsReference
  <1> HIDE DEF w, W, V, rest
  <1>9. Ledger(log, W) BY <1>3 DEF W
  <1>10. Ledger(log', V) /\ log' \in Seq(EntryType) /\ (log' # <<>> => Supported)
         /\ (fs[f] # "locked" \/ short)
    <2>1. CASE FileMeasured(f)
      <3> DEFINE e == EntryOf(FileHash(f), Stripped(Path[f]), TRUE)
      <3>1. Readable(f) /\ Supported /\ EvlogAdd(e) BY <2>1 DEF FileMeasured
      <3>2. e \in EntryType BY <1>2, EntryIsTyped
      <3>3. SpoiltQuietly \/ e = Entry(w)
        <4>1. CASE fs[f] = "ok" BY <4>1, <1>2, <1>7, EntryIsThat
        <4>2. CASE fs[f] = "failing" BY <4>2 DEF SpoiltQuietly
        <4> QED BY <3>1, <4>1, <4>2 DEF Readable
      <3> HIDE DEF e
      <3>4. fs[f] # "absent" /\ fs[f] # "locked" BY <3>1 DEF Readable
      <3> QED BY <3>1, <3>2, <3>3, <3>4, <1>2, <1>4, <1>5, <1>8, <1>9, Added
    <2>2. CASE FileSkipped(f) /\ log' = log
      <3>1. Lossy \/ W \subseteq V
        <4>1. CASE short BY <4>1 DEF Lossy
        <4>2. CASE fs[f] = "absent"
          <5>1. w \notin W
            <6> SUFFICES ASSUME w \in W PROVE FALSE OBVIOUS
            <6>1. w \in References BY DEF W, Waiting
            <6>2. w \in Trails BY <6>1, <1>2, <1>7, ReferenceParts
            <6>3. Len(w.dirs) + 1 \in 1 .. Len(w.dirs) + 1 BY <6>2, WayParts
            <6> QED BY <6>2, <6>3, <4>2, <1>7, WayParts
          <5> QED BY <5>1, <1>5
        <4> QED BY <2>2, <4>1, <4>2 DEF FileSkipped
      <3>2. Ledger(log, V) BY <3>1, <1>4, <1>9, LedgerSame
      <3> QED BY <3>2, <2>2, <1>2 DEF FileSkipped
    <2> QED BY <1>1, <2>1, <2>2
  <1>11. WalkAt(rest, i, log') BY <1>4, <1>10 DEF WalkAt, V
  <1>12. walk' \in Seq(SUBSET Node) /\ walk' # <<>> /\ (walk'[1] = walk[1] \/ walk'[1] = walk[1] \ {f})
    BY <1>1, <1>4, <1>6
  <1>13. ReportsSound' BY <1>1, <1>10, <1>12, ReadReports
  <1>14. WalkAt(walk', i', log') BY <1>1, <1>11, Zenon
  <1> QED BY <1>1, <1>2, <1>10, <1>12, <1>13, <1>14, Going, WalkOn

\* A directory is left when it has no more entries, or entries may be lost.
LEMMA LeaveStep ==
  ASSUME ImaInv, pc = "walk", LeaveDirectory, (Depth # 1 /\ Lossy) \/ walk[Depth] = {}
  PROVE  ImaInv'
  <1> DEFINE m == Len(walk)
  <1>1. /\ OptionsSound /\ opts \in Options /\ i \in 1 .. Len(opts.paths)
        /\ i \in 1 .. Len(opts.paths) + 1 /\ i <= Len(opts.paths) /\ i + 1 \in 1 .. Len(opts.paths) + 1
        /\ i \in Nat \ {0} /\ log \in Seq(EntryType) /\ (log # <<>> => Supported) /\ walk \in Seq(SUBSET Node)
    BY Going
  <1>2. PICK ds : Traced(ds, walk, i) /\ Ledger(log, Waiting(ds, walk, i)) /\ Len(ds) = m /\ m \in Nat \ {0}
    BY InDirectories
  <1>3. UNCHANGED <<environment, log, out, ret>> BY DEF LeaveDirectory
  <1>4. CASE m = 1
    <2>1. pc' = "paths" /\ i' = i + 1 /\ walk[1] = {} /\ walk' = <<>>
      BY <1>4, <1>1 DEF LeaveDirectory, Depth
    <2>2. /\ Waiting(<<>>, <<>>, i + 1) \in SUBSET Waiting(ds, walk, i)
          /\ Waiting(ds, walk, i) \subseteq Waiting(<<>>, <<>>, i + 1)
      BY <1>1, <1>2, <1>4, <2>1, GoneBack
    <2>3. Ledger(log, Waiting(<<>>, <<>>, i + 1)) BY <2>2, <1>2, LedgerSame
    <2>4. WalkAt(walk', i', log')
      <3>1. WalkAt(<<>>, i + 1, log) BY <2>3, PathsAt
      <3> QED BY <3>1, <2>1, <1>3, Zenon
    <2>5. ReportsSound'
      <3> SUFFICES ASSUME Working', ~short',
                          NEW k \in 1 .. Len(opts'.paths), k < i' \/ (k = i' /\ walk' # <<>>), opts'.paths[k] \in Dir,
                          NEW f \in Children[opts'.paths[k]] \cap File
                   PROVE  fs'[f] # "locked" BY DEF ReportsSound
      <3>1. opts' = opts /\ fs' = fs /\ short' = short BY <1>3 DEF environment
      <3>2. Working /\ walk # <<>> BY Going DEF Working
      <3>3. k < i \/ k = i BY <2>1, <3>1, <1>1
      <3>4. fs[f] # "locked" \/ (k = i /\ f \in walk[1])
        BY <3>1, <3>2, <3>3 DEF ImaInv, ReportsSound
      <3> QED BY <3>1, <3>4, <2>1
    <2>6. walk' \in Seq(SUBSET Node) BY <2>1
    <2> QED BY <1>1, <1>3, <2>1, <2>4, <2>5, <2>6, Going, WalkOn
  <1>5. CASE m # 1
    <2> DEFINE es == SubSeq(ds, 1, m - 1)
               rest == SubSeq(walk, 1, m - 1)
    <2>1. /\ pc' = "walk" /\ UNCHANGED <<environment, i, log, out, ret>> /\ walk' # <<>> /\ walk'[1] = walk[1]
          /\ walk' \in Seq(SUBSET Node) /\ walk' = rest BY <1>5, LeaveParts DEF Depth
    <2>2. /\ Traced(es, rest, i) /\ Waiting(es, rest, i) \in SUBSET Waiting(ds, walk, i)
          /\ walk[m] = {} => Waiting(ds, walk, i) \subseteq Waiting(es, rest, i)
      BY <1>1, <1>2, <1>5, GoneBack
    <2>3. Lossy \/ walk[m] = {} BY DEF Depth
    <2> HIDE DEF es, rest
    <2>4. Ledger(log, Waiting(es, rest, i)) BY <2>2, <2>3, <1>2, LedgerSame
    <2>5. WalkAt(rest, i, log) BY <2>2, <2>4 DEF WalkAt
    <2>6. WalkAt(walk', i', log') BY <2>1, <2>5, Zenon
    <2>7. ReportsSound' BY <2>1, ReadReports, NoSetContainsEverything, Zenon
    <2> QED BY <1>1, <2>1, <2>6, <2>7, Going, WalkOn
  <1> QED BY <1>4, <1>5

LEMMA EntryRefusedStep == ASSUME ImaInv, NEW f \in File, EntryRefused(f) PROVE ImaInv'
  <1>1. pc = "walk" /\ f \in walk[Depth] /\ FileRefused(f) BY DEF EntryRefused
  <1>2. CASE Depth = 1 BY <1>1, <1>2, FailStep DEF EntryRefused
  <1>3. CASE Depth # 1
    <2>1. Lossy
      <3>1. CASE fs[f] = "locked"
        <4>1. /\ OptionsSound /\ i \in Nat \ {0} /\ walk \in Seq(SUBSET Node) BY <1>1, Going
        <4>2. PICK ds : Traced(ds, walk, i) /\ Len(ds) = Len(walk) /\ Len(walk) \in Nat \ {0}
          BY <1>1, InDirectories
        <4>3. OpenDirs(ds, walk, i, Len(walk)) BY <4>1, <4>2, TracedTop
        <4>4. walk[Len(walk)] \in SUBSET Children[ds[Len(ds)]] /\ ds # <<>>
          <5>1. Len(walk) \in 1 .. Len(walk) BY <4>2
          <5> QED BY <5>1, <4>2, <4>3, Zenon DEF OpenDirs
        <4> DEFINE h == Here(ds, i, f)
        <4>5. h \in Trails BY <1>1, <3>1, <4>1, <4>2, <4>4, HereIsTrail DEF Depth
        <4>6. h.node = f /\ h.dirs = ds BY DEF Here
        <4> HIDE DEF h
        <4>7. Len(h.dirs) # 1 BY <4>6, <4>2, <1>3 DEF Depth
        <4> QED BY <4>5, <4>6, <4>7, <3>1 DEF Lossy, LostQuietly
      <3>2. CASE fs[f] # "locked" BY <3>2, <1>1 DEF FileRefused, Lossy
      <3> QED BY <3>1, <3>2
    <2>2. LeaveDirectory BY <1>3 DEF EntryRefused
    <2> QED BY <2>1, <2>2, <1>1, <1>3, LeaveStep
  <1> QED BY <1>2, <1>3

LEMMA DirectoryDoneStep == ASSUME ImaInv, DirectoryDone PROVE ImaInv'
  BY LeaveStep DEF DirectoryDone

LEMMA CalculateStep == ASSUME ImaInv, CalculateIma PROVE ImaInv'
  <1>1. CASE ParseOptions BY <1>1, ParseOptionsStep
  <1>2. CASE CalculateEntries
    <2>1. CASE \E d \in Dir : EnterDirectory(d) BY <2>1, EnterDirectoryStep
    <2>2. CASE \E f \in File : MeasureEntry(f) \/ EntryRefused(f)
      BY <2>2, MeasureEntryStep, EntryRefusedStep
    <2> QED BY <1>2, <2>1, <2>2, MeasureAggregateStep, PathRejectedStep, MeasurePathStep, WalkPathStep,
               PathsDoneStep, DirectoryDoneStep DEF CalculateEntries
  <1> QED BY <1>1, <1>2, PrintLogStep, OutOfMemoryStep DEF CalculateIma

-----------------------------------------------------------------------------
(* What is printed *)

LEMMA Matched ==
  ASSUME NEW A, NEW B, NEW b, \A k \in A : b[k] \in B, \A j, k \in A : b[j] = b[k] => j = k
  PROVE  /\ IsFiniteSet(B) => Cardinality(A) <= Cardinality(B)
         /\ IsFiniteSet(A) /\ (\A w \in B : \E k \in A : b[k] = w) =>
              Cardinality(A) = Cardinality(B) /\ IsFiniteSet(B)
  <1> DEFINE c == [k \in A |-> b[k]]
  <1>1. c \in [A -> B] /\ \A k \in A : c[k] = b[k] OBVIOUS
  <1> HIDE DEF c
  <1>2. c \in Injection(A, B) BY <1>1, Zenon DEF Injection, IsInjective
  <1>3. ASSUME IsFiniteSet(B) PROVE Cardinality(A) <= Cardinality(B)
    BY <1>2, <1>3, FS_Injection
  <1>4. ASSUME IsFiniteSet(A), \A w \in B : \E k \in A : b[k] = w
        PROVE  Cardinality(A) = Cardinality(B) /\ IsFiniteSet(B)
    <2>1. c \in Surjection(A, B) BY <1>1, <1>4, Zenon DEF Surjection
    <2>2. ExistsBijection(A, B) BY <1>2, <2>1 DEF ExistsBijection, Bijection
    <2> QED BY <2>2, <1>4, FS_Bijection
  <1> QED BY <1>3, <1>4

LEMMA MatchedAll ==
  ASSUME NEW A, NEW B, NEW b, \A k \in A : b[k] \in B, \A j, k \in A : b[j] = b[k] => j = k,
         IsFiniteSet(A), \A w \in B : \E k \in A : b[k] = w
  PROVE  Cardinality(A) = Cardinality(B) BY Matched

LEMMA FunctionsFinite ==
  ASSUME NEW D, IsFiniteSet(D), NEW n \in Nat
  PROVE  \A m \in 0 .. n : IsFiniteSet([1 .. m -> D])
  <1> DEFINE S == {m \in 0 .. n : IsFiniteSet([1 .. m -> D])}
  <1>1. 0 \in S
    <2> DEFINE e == [k \in 1 .. 0 |-> 0]
    <2>1. 1 .. 0 = {} OBVIOUS
    <2>2. [1 .. 0 -> D] = {e} BY <2>1
    <2> HIDE DEF e
    <2>3. IsFiniteSet({e}) BY FS_Singleton
    <2>4. IsFiniteSet([1 .. 0 -> D]) BY <2>2, <2>3
    <2>5. 0 \in 0 .. n OBVIOUS
    <2> QED BY <2>4, <2>5
  <1>2. \A k \in 0 .. n - 1 : k \in S => k + 1 \in S
    <2> SUFFICES ASSUME NEW k \in 0 .. n - 1, k \in S PROVE k + 1 \in S OBVIOUS
    <2> DEFINE F == [1 .. k -> D]
               G == [1 .. k + 1 -> D]
               f == [t \in F \X D |-> [j \in 1 .. k + 1 |-> IF j = k + 1 THEN t[2] ELSE t[1][j]]]
    <2>1. IsFiniteSet(F \X D) BY FS_Product
    <2>2. k + 1 \in 1 .. k + 1 /\ k + 1 \notin 1 .. k /\ \A j \in 1 .. k + 1 : j = k + 1 \/ j \in 1 .. k
      OBVIOUS
    <2>3. \A j \in 1 .. k : j \in 1 .. k + 1 OBVIOUS
    <2>4. ASSUME NEW t \in F \X D PROVE f[t] \in G
      <3>1. t[1] \in F /\ t[2] \in D OBVIOUS
      <3>2. \A j \in 1 .. k + 1 : (IF j = k + 1 THEN t[2] ELSE t[1][j]) \in D BY <3>1, <2>2
      <3> QED BY <3>2
    <2>5. ASSUME NEW g \in G PROVE \E t \in F \X D : f[t] = g
      <3> DEFINE h == [j \in 1 .. k |-> g[j]]
                 t == <<h, g[k + 1]>>
      <3>1. h \in F /\ g[k + 1] \in D BY <2>2, <2>3
      <3>2. t \in F \X D /\ t[1] = h /\ t[2] = g[k + 1] BY <3>1
      <3>3. \A j \in 1 .. k + 1 : (IF j = k + 1 THEN t[2] ELSE t[1][j]) = g[j] BY <2>2, <3>2
      <3> HIDE DEF t
      <3>4. f[t] = [j \in 1 .. k + 1 |-> IF j = k + 1 THEN t[2] ELSE t[1][j]] BY <3>2
      <3>5. f[t] = [j \in 1 .. k + 1 |-> g[j]] BY <3>3, <3>4
      <3>6. f[t] = g BY <3>5
      <3> QED BY <3>2, <3>6
    <2>6. f \in Surjection(F \X D, G)
      <3>1. f \in [F \X D -> G] BY <2>4
      <3> HIDE DEF f, F, G
      <3> QED BY <2>5, <3>1 DEF Surjection
    <2>7. IsFiniteSet(G)
      <3> HIDE DEF f, F, G
      <3> QED BY <2>1, <2>6, FS_Surjection
    <2>8. k + 1 \in 0 .. n OBVIOUS
    <2> QED BY <2>7, <2>8
  <1> HIDE DEF S
  <1>3. \A m \in 0 .. n : m \in S BY <1>1, <1>2, InductionUpTo
  <1> QED BY <1>3 DEF S

\* There are finitely many ways down from the paths.
LEMMA ReferencesFinite == ASSUME OptionsSound PROVE IsFiniteSet(References)
  <1> DEFINE N == Cardinality(Dir)
             L == {[1 .. n -> Dir] : n \in 0 .. N}
             A == DOMAIN opts.paths
             P == A \X (Chains \X Node)
             R0 == [arg : A, dirs : Chains, node : Node]
             f == [t \in P |-> [arg |-> t[1], dirs |-> t[2][1], node |-> t[2][2]]]
  <1>1. N \in Nat /\ IsFiniteSet(Dir) /\ IsFiniteSet(Node) BY TreeFacts
  <1>2. IsFiniteSet(Chains)
    <2>1. \A n \in 0 .. N : IsFiniteSet([1 .. n -> Dir]) BY <1>1, FunctionsFinite
    <2>2. \A x \in L : IsFiniteSet(x) BY <2>1
    <2>3. IsFiniteSet(0 .. N)
      <3> HIDE DEF N
      <3> QED BY <1>1, FS_Interval
    <2>4. IsFiniteSet(L)
      <3> DEFINE g == [n \in 0 .. N |-> [1 .. n -> Dir]]
      <3>1. g \in Surjection(0 .. N, L) BY DEF Surjection
      <3> HIDE DEF g, L, N
      <3> QED BY <3>1, <2>3, FS_Surjection
    <2>5. IsFiniteSet(UNION L)
      <3> HIDE DEF L
      <3> QED BY <2>2, <2>4, FS_UNION
    <2>6. Chains \in SUBSET UNION L BY DEF Chains
    <2> QED BY <2>5, <2>6, FS_Subset
  <1>3. IsFiniteSet(A)
    <2>1. opts.paths \in Seq(Node \cup {Root}) BY DEF OptionsSound, Options
    <2>2. Len(opts.paths) \in Nat /\ A = 1 .. Len(opts.paths) BY <2>1
    <2>3. IsFiniteSet(1 .. Len(opts.paths)) BY <2>2, FS_Interval
    <2> QED BY <2>2, <2>3
  <1>4. IsFiniteSet(P)
    <2>1. IsFiniteSet(Chains \X Node) BY <1>1, <1>2, FS_Product
    <2> HIDE DEF A
    <2> QED BY <1>3, <2>1, FS_Product
  <1>5. IsFiniteSet(R0)
    <2> HIDE DEF A
    <2>1. f \in [P -> R0] OBVIOUS
    <2>2. \A r \in R0 : \E t \in P : f[t] = r
      <3> SUFFICES ASSUME NEW r \in R0 PROVE \E t \in P : f[t] = r OBVIOUS
      <3>1. r.arg \in A /\ r.dirs \in Chains /\ r.node \in Node /\ r = [arg |-> r.arg, dirs |-> r.dirs, node |-> r.node]
        OBVIOUS
      <3> DEFINE t == <<r.arg, <<r.dirs, r.node>>>>
      <3>2. t \in P /\ f[t] = r BY <3>1
      <3> HIDE DEF t, f, P
      <3> QED BY <3>2
    <2>3. f \in Surjection(P, R0)
      <3> HIDE DEF f, P, R0
      <3> QED BY <2>1, <2>2 DEF Surjection
    <2> HIDE DEF f, P, R0
    <2> QED BY <2>3, <1>4, FS_Surjection
  <1>6. Trails \in SUBSET R0 BY DEF Trails
  <1>7. IsFiniteSet(Trails)
    <2> HIDE DEF R0
    <2> QED BY <1>5, <1>6, FS_Subset
  <1>8. References \in SUBSET (Trails \cup {BootWay}) BY DEF References
  <1>9. IsFiniteSet(Trails \cup {BootWay}) BY <1>7, FS_Union, FS_Singleton
  <1> QED BY <1>8, <1>9, FS_Subset

LEMMA PrintedKeeps ==
  ASSUME ImaInv, out # Unprinted
  PROVE  /\ OptionsSound /\ out = <<log>> /\ log # <<>> /\ log \in Seq(EntryType) /\ i = Len(opts.paths) + 1
         /\ walk = <<>> /\ Supported /\ pc = "exited" /\ ret = 0
         /\ \E b : Keeps(b, log, {})
  <1>1. /\ OptionsSound /\ out = <<log>> /\ log # <<>> /\ log \in Seq(EntryType) /\ i = Len(opts.paths) + 1
        /\ walk = <<>> /\ Supported /\ pc = "exited" /\ ret = 0 BY DEF ImaInv, StepSound
  <1> DEFINE n == Len(opts.paths)
  <1>2. n \in Nat BY <1>1 DEF OptionsSound, Options
  <1>3. WalkAt(<<>>, n + 1, log) BY <1>1 DEF ImaInv, WalkSound, Working
  <1>4. PICK ds : Traced(ds, <<>>, n + 1) /\ Ledger(log, Waiting(ds, <<>>, n + 1))
    BY <1>3, Zenon DEF WalkAt
  <1>5. ds = <<>> BY <1>4 DEF Traced
  <1>6. Waiting(<<>>, <<>>, n + 1) = {}
    <2> SUFFICES ASSUME NEW v \in Waiting(<<>>, <<>>, n + 1) PROVE FALSE OBVIOUS
    <2>1. v \in References /\ Pends(v, <<>>, <<>>, n + 1) BY DEF Waiting
    <2>2. n + 1 \in Nat \ {0} BY <1>2
    <2>3. v.arg >= n + 1 BY <2>1, <2>2, <1>1, PendsArg
    <2>4. v.arg \in 1 .. n BY <2>1, <2>2, <2>3, <1>1, ReferenceParts
    <2> QED BY <2>3, <2>4, <1>2
  <1>7. Ledger(log, {}) BY <1>4, <1>5, <1>6, Zenon
  <1> QED BY <1>1, <1>7 DEF Ledger

\* A value that the references have: how often the log has it.
LEMMA Counted ==
  ASSUME ImaInv, out # Unprinted, ~SpoiltQuietly, NEW x, NEW s, DOMAIN s = 1 .. Len(log),
         NEW f, DOMAIN f = References, \A k \in 1 .. Len(log) : \A w \in References : log[k] = Entry(w) => s[k] = f[w]
  PROVE  /\ Times(x, s) <= Cardinality({w \in References : f[w] = x})
         /\ ~Lossy => Times(x, s) = Cardinality({w \in References : f[w] = x})
  <1> DEFINE n == Len(log)
             A == {k \in DOMAIN s : s[k] = x}
             B == {w \in References : f[w] = x}
  <1>1. PICK b : Keeps(b, log, {}) BY PrintedKeeps
  <1>2. /\ b \in [1 .. n -> References]
        /\ \A j, k \in 1 .. n : b[j] = b[k] => j = k
        /\ \A k \in 1 .. n : log[k] = Entry(b[k])
        /\ Lossy \/ \A w \in References : \E k \in 1 .. n : b[k] = w
    BY <1>1, Zenon DEF Keeps
  <1>3. n \in Nat BY PrintedKeeps
  <1> HIDE DEF n
  <1>4. \A k \in 1 .. n : s[k] = f[b[k]] BY <1>2 DEF n
  <1>5. \A k \in A : k \in 1 .. n /\ b[k] \in B BY <1>2, <1>4 DEF n
  <1>6. \A j, k \in A : b[j] = b[k] => j = k BY <1>2, <1>5
  <1>7. IsFiniteSet(A)
    <2>1. A \in SUBSET (1 .. n) /\ IsFiniteSet(1 .. n) BY <1>3, <1>5, FS_Interval
    <2> HIDE DEF A
    <2> QED BY <2>1, FS_Subset
  <1>8. IsFiniteSet(B)
    <2>1. IsFiniteSet(References) BY PrintedKeeps, ReferencesFinite
    <2>2. B \in SUBSET References OBVIOUS
    <2> HIDE DEF B
    <2> QED BY <2>1, <2>2, FS_Subset
  <1>9. ASSUME ~Lossy PROVE \A w \in B : \E k \in A : b[k] = w
    <2> SUFFICES ASSUME NEW w \in B PROVE \E k \in A : b[k] = w OBVIOUS
    <2>1. PICK k \in 1 .. n : b[k] = w BY <1>2, <1>9
    <2>2. k \in A BY <2>1, <1>4 DEF n
    <2> QED BY <2>1, <2>2
  <1> HIDE DEF A, B
  <1>10. Cardinality(A) <= Cardinality(B) BY <1>5, <1>6, <1>8, Matched
  <1>11. ASSUME ~Lossy PROVE Cardinality(A) = Cardinality(B)
    <2>1. \A w \in B : \E k \in A : b[k] = w BY <1>9, <1>11
    <2>2. \A k \in A : b[k] \in B BY <1>5
    <2> QED BY <2>1, <2>2, <1>6, <1>7, MatchedAll
  <1>12. Times(x, s) = Cardinality(A) BY DEF Times, A
  <1> QED BY <1>10, <1>11, <1>12 DEF B

LEMMA NotLossy ==
  ASSUME ImaInv, out # Unprinted, ~short, ~LostQuietly
  PROVE  ~Lossy BY PrintedKeeps DEF Lossy

LEMMA InvPublished == ASSUME ImaInv PROVE PublishedIsReference /\ PublishedWithinReference
  <1>1. ASSUME out # Unprinted, ~SpoiltQuietly
        PROVE  /\ out[1] # <<>> /\ ListsSome(out[1], References, Entry)
               /\ ~short /\ ~LostQuietly => ListsAll(out[1], References, Entry)
               /\ ~short /\ ~LostQuietly => (opts.aggregate # Unset => Head(out[1]) = BootEntry)
    <2>1. out[1] = log /\ log # <<>> /\ log \in Seq(EntryType) BY <1>1, PrintedKeeps
    <2> DEFINE f == [w \in References |-> Entry(w)]
    <2>2. ASSUME NEW x PROVE /\ Times(x, log) <= Expected(x, References, Entry)
                             /\ ~short /\ ~LostQuietly => Times(x, log) = Expected(x, References, Entry)
      <3>1. DOMAIN log = 1 .. Len(log) BY <2>1
      <3>2. DOMAIN f = References /\ \A w \in References : f[w] = Entry(w) OBVIOUS
      <3> HIDE DEF f
      <3>3. \A k \in 1 .. Len(log) : \A w \in References : log[k] = Entry(w) => log[k] = f[w]
        BY <3>2
      <3>4. ~SpoiltQuietly /\ out # Unprinted /\ DOMAIN f = References BY <1>1, <3>2
      <3>5. /\ Times(x, log) <= Cardinality({w \in References : f[w] = x})
            /\ ~Lossy => Times(x, log) = Cardinality({w \in References : f[w] = x})
        BY <3>1, <3>3, <3>4, Counted
      <3>6. {w \in References : f[w] = x} = {w \in References : Entry(w) = x} BY <3>2
      <3>7. Expected(x, References, Entry) = Cardinality({w \in References : f[w] = x})
        BY <3>6 DEF Expected
      <3> QED BY <3>5, <3>7, <1>1, NotLossy
    <2> HIDE DEF f
    <2>3. ListsSome(log, References, Entry) BY <2>2 DEF ListsSome
    <2>4. ~short /\ ~LostQuietly => ListsAll(log, References, Entry) BY <2>2 DEF ListsAll
    <2>5. ASSUME ~short, opts.aggregate # Unset PROVE Head(log) = BootEntry
      <3>1. PICK b : Keeps(b, log, {}) BY <1>1, PrintedKeeps
      <3>2. b[1] = BootWay /\ Len(log) \in Nat /\ Len(log) # 0 BY <3>1, <2>1, <2>5 DEF Keeps
      <3>3. log[1] = Entry(BootWay) BY <3>1, <3>2, <1>1 DEF Keeps
      <3> QED BY <3>3, <2>1 DEF Entry
    <2> QED BY <2>1, <2>3, <2>4, <2>5
  <1> QED BY <1>1 DEF PublishedIsReference, PublishedWithinReference

LEMMA InvFirstLevel == ASSUME ImaInv PROVE FirstLevelComplete
  <1> SUFFICES ASSUME out # Unprinted, ~short, NEW k \in DOMAIN opts.paths, opts.paths[k] \in Dir,
                      NEW f \in Children[opts.paths[k]] \cap File
               PROVE  fs[f] # "locked" BY DEF FirstLevelComplete
  <1>1. walk = <<>> /\ i = Len(opts.paths) + 1 /\ opts.paths \in Seq(Node \cup {Root})
    BY PrintedKeeps DEF OptionsSound, Options
  <1>2. k \in 1 .. Len(opts.paths) /\ k < i BY <1>1
  <1>3. Working BY DEF Working
  <1> QED BY <1>1, <1>2, <1>3 DEF ImaInv, ReportsSound

-----------------------------------------------------------------------------
(* calculate-ima-pcr as a part of the system *)

LEMMA ImaInitSound == ASSUME Init PROVE ImaInv
  <1>1. PICK e \in Environments : fs = e.fs /\ short = e.short BY DEF Init, ImaInit
  <1>2. fs \in [Node -> FileState] /\ short \in BOOLEAN BY <1>1, RunsAssumption
  <1>3. opts = [format |-> "json", pcr |-> 10, strip |-> Unset, template |-> Unset, aggregate |-> Unset,
                paths |-> <<>>] BY DEF Init, ImaInit
  <1>4. opts \in Options /\ opts.paths = <<>> BY <1>3 DEF Options
  <1>5. argv \in Seq(Argument)
    <2>1. argv \in CommandLines \/ argv = <<>> BY DEF Init
    <2>2. CommandLines \subseteq Seq(Argument) BY RunsAssumption
    <2>3. CASE argv \in CommandLines BY <2>2, <2>3, Zenon
    <2>4. CASE argv = <<>> BY <2>4
    <2> QED BY <2>1, <2>3, <2>4
  <1>6. i = 1 /\ walk = <<>> /\ log = <<>> /\ out = Unprinted /\ ret = 1 /\ pc \in {"parse", "exited"}
    BY DEF Init, ImaInit
  <1>7. ~Working BY <1>6 DEF Working
  <1>8. i \in 1 .. Len(opts.paths) + 1 /\ walk \in Seq(SUBSET Node) /\ log \in Seq(EntryType)
    BY <1>4, <1>6
  <1>9. pc \in Label /\ ret \in {-1, 0, 1} /\ ret # 0 BY <1>6 DEF Label
  <1>10. StepSound BY <1>6, <1>7, <1>8, <1>9 DEF StepSound
  <1> QED BY <1>2, <1>4, <1>5, <1>7, <1>10 DEF ImaInv, OptionsSound, WalkSound, ReportsSound

LEMMA Kept == ASSUME ImaInv, UNCHANGED imaVars PROVE ImaInv'
  <1>1. UNCHANGED <<argv, opts, fs, short>> /\ UNCHANGED <<pc, i, walk, log, out, ret>>
    BY DEF imaVars
  <1>2. OptionsSound' BY <1>1 DEF ImaInv, OptionsSound
  <1>3. EntryType' = EntryType /\ Supported' = Supported /\ \A todo, n, l : WalkAt(todo, n, l) <=> WalkAt(todo, n, l)'
    BY <1>1, Fixed
  <1>4. WalkSound'
    <2>1. Working => WalkAt(walk, i, log) BY DEF ImaInv, WalkSound
    <2>2. Working' <=> Working BY <1>1, Zenon DEF Working, Unprinted
    <2>3. Working' => WalkAt(walk', i', log') BY <2>1, <2>2, <1>1, Zenon
    <2> QED BY <2>3, <1>3, Zenon DEF WalkSound
  <1>5. ReportsSound' BY <1>1, Zenon DEF ImaInv, ReportsSound, Working, Unprinted
  <1>6. StepSound' BY <1>1, <1>3, Zenon DEF ImaInv, StepSound, Working, Unprinted
  <1> QED BY <1>2, <1>4, <1>5, <1>6 DEF ImaInv

LEMMA NotEnded == ASSUME CalculateIma PROVE pc \notin {"exited", "crashed"}
  <1>1. CASE ParseOptions
    BY <1>1 DEF ParseOptions, ParseFormat, ParsePcr, ParseVerbose, ParsePath, ParseString, ParseAggregate,
                ParseRefused, ParseEnd, Validate, Parsing
  <1>2. CASE CalculateEntries
    BY <1>2 DEF CalculateEntries, MeasureAggregate, PathRejected, MeasurePath, WalkPath, PathsDone, EnterDirectory,
                MeasureEntry, EntryRefused, DirectoryDone, AtPath
  <1>3. CASE PrintLog BY <1>3 DEF PrintLog
  <1>4. CASE OutOfMemory BY <1>4 DEF OutOfMemory, Parsing, AtPath
  <1> QED BY <1>1, <1>2, <1>3, <1>4 DEF CalculateIma

\* The stack is deeper only while the walk goes on.
LEMMA StackStays == ASSUME CalculateIma, ~Working' PROVE walk' = walk
  <1>0. pc' \notin {"paths", "walk", "print"} BY DEF Working
  <1>1. CASE ParseOptions
    BY <1>1 DEF ParseOptions, ParseFormat, ParsePcr, ParseVerbose, ParsePath, ParseString, ParseAggregate,
                ParseRefused, ParseEnd, Validate, Parsed, Fail, Exit, Goto
  <1>2. CASE Fail BY <1>2 DEF Fail, Exit
  <1>3. CASE CalculateEntries /\ ~Fail
    <2>1. CASE LeaveDirectory /\ pc = "walk"
      <3>1. pc' = "paths" \/ pc' = pc BY <2>1, Zenon DEF LeaveDirectory
      <3> QED BY <3>1, <2>1, <1>0
    <2> QED BY <1>0, <1>3, <2>1 DEF CalculateEntries, MeasureAggregate, PathRejected, MeasurePath, WalkPath, PathsDone,
               EnterDirectory, MeasureEntry, EntryRefused, DirectoryDone, AtPath, Goto
  <1>4. CASE PrintLog BY <1>4 DEF PrintLog, Fail, Exit
  <1>5. CASE OutOfMemory BY <1>5 DEF OutOfMemory, Crash
  <1> QED BY <1>1, <1>2, <1>3, <1>4, <1>5 DEF CalculateIma

DepthSound == Len(walk) <= Cardinality(Dir)

LEMMA WorkingDepth == ASSUME ImaInv, Working PROVE DepthSound
  <1>1. PICK ds : Traced(ds, walk, i) BY Zenon DEF ImaInv, WalkSound, WalkAt
  <1>2. ds \in Seq(Dir) /\ Len(ds) = Len(walk) /\ \A j \in 1 .. Len(ds) - 1 : ds[j + 1] \in Children[ds[j]]
    BY <1>1, Zenon DEF Traced
  <1>3. Len(ds) <= Cardinality(Dir) BY <1>2, ChainBound
  <1> QED BY <1>2, <1>3, Zenon DEF DepthSound

LEMMA ImaNext == ASSUME ImaInv, [Next]_vars PROVE ImaInv'
  <1>1. CASE Calculate BY <1>1, CalculateStep DEF Calculate
  <1>2. CASE UNCHANGED imaVars BY <1>2, Kept
  <1>3. CASE ~Calculate
    <2>1. UNCHANGED imaVars
      BY <1>3 DEF Next, StartExtend, Simulate, Terminated, vars, imaVars
    <2> QED BY <2>1, Kept
  <1> QED BY <1>1, <1>3

LEMMA DepthNext ==
  ASSUME DepthSound, [Next]_vars, (ImaInv /\ Working => DepthSound)', ImaInv'
  PROVE  DepthSound'
  <1>1. CASE Working' BY <1>1
  <1>2. CASE ~Working'
    <2>1. walk' = walk
      <3>1. CASE Calculate BY <3>1, <1>2, StackStays DEF Calculate
      <3>2. CASE ~Calculate
        BY <3>2 DEF Next, StartExtend, Simulate, Terminated, vars, imaVars
      <3> QED BY <3>1, <3>2
    <2> QED BY <2>1 DEF DepthSound
  <1> QED BY <1>1, <1>2

-----------------------------------------------------------------------------
(* pcr-extend: the invariant *)

ExtendElement == (Shape \X Digest) \cup {<<"refused", Garbage>>}

ExtendSound ==
  /\ line \in Seq(ExtendArgument) /\ tokens \in Seq(Token) /\ at \in ExtendLabel /\ status \in {-1, 0}
  /\ inputs \in Seq(ExtendElement) /\ pcr \in Seq(ExtendElement) /\ lens \in Nat /\ Len(inputs) + Len(pcr) <= lens
  /\ at = "waiting" => line = <<>> /\ tokens = <<>> /\ inputs = <<>> /\ pcr = <<>> /\ lens = 0
  /\ at # "waiting" => pc = "exited"
  /\ at \in {"waiting", "parse", "tokens", "extend"} => printed = NotPrinted
  /\ at \in {"parse", "tokens"} => pcr = <<>>
  /\ at \in {"parse", "extend"} => tokens = <<>>
  /\ at = "extend" => line = <<>>
  /\ printed # NotPrinted =>
       at = "exited" /\ printed = pcr /\ inputs = <<>> /\ tokens = <<>> /\ line = <<>>

\* The digest of an entry as pcr-extend receives it, and as it keeps it.
TokenOf(e) == [shape |-> "sha256", digest |-> e.sha256]

InputOf(e) == <<"sha256", e.sha256>>

InOf(ts) == [opt |-> "in", val |-> ts]

\* The entries l are in the register, the array and on the command line, in
\* this order and none twice.
Fed(l) ==
  /\ lens = Len(pcr) + Len(inputs)
  /\ \A k \in 1 .. Len(pcr) : pcr[k] = InputOf(l[k])
  /\ \A k \in 1 .. Len(inputs) : inputs[k] = InputOf(l[Len(pcr) + k])
  /\ \A k \in 1 .. Len(tokens) : tokens[k] = TokenOf(l[lens + k])
  /\ \/ /\ line = <<InOf([k \in DOMAIN l |-> TokenOf(l[k])])>>
        /\ lens = 0 /\ tokens = <<>>
     \/ /\ lens + Len(tokens) + Len(line) = Len(l)
        /\ \A k \in 1 .. Len(line) : line[k] = InOf(<<TokenOf(l[lens + Len(tokens) + k])>>)

FeedSound == out # Unprinted /\ at # "waiting" /\ Len(log) <= FittingLens => Fed(log)

LEMMA ConvertedIsTyped == ASSUME NEW t \in Token PROVE Converted(t) \in ExtendElement
  <1>1. t.shape \in Shape /\ t.digest \in Digest BY DEF Token
  <1> QED BY <1>1 DEF Converted, ExtendElement

LEMMA EntryDigests ==
  ASSUME NEW l \in Seq(EntryType), NEW k \in 1 .. Len(l)
  PROVE  l[k].sha256 \in Digest /\ TokenOf(l[k]) \in Token /\ l[k].pcr = opts.pcr
  <1>1. l[k] \in EntryType OBVIOUS
  <1>2. l[k].sha256 \in Digest /\ l[k].pcr = opts.pcr BY <1>1 DEF EntryType
  <1> QED BY <1>2 DEF TokenOf, Token, Shape

LEMMA InIsArgument == ASSUME NEW ts \in Seq(Token) PROVE InOf(ts) \in ExtendArgument
  BY DEF InOf, ExtendArgument

LEMMA InParts ==
  ASSUME NEW a \in ExtendArgument, a.opt = "in"
  PROVE  a.val \in Seq(Token) BY DEF ExtendArgument

-----------------------------------------------------------------------------
(* pcr-extend: its steps *)

LEMMA ExtendInitSound == ASSUME Init PROVE ExtendSound /\ FeedSound
  <1>1. line \in Seq(ExtendArgument) /\ at \in {"waiting", "parse"} /\ (at = "waiting" => line = <<>>)
        /\ (at # "waiting" => pc = "exited")
    <2>1. ExtendLines \subseteq Seq(ExtendArgument) BY DigestAssumption
    <2>2. /\ line = <<>> \/ line \in ExtendLines
          /\ at \in {"waiting", "parse"} /\ (at = "waiting" => line = <<>>) /\ (at # "waiting" => pc = "exited")
      BY DEF Init
    <2>3. CASE line = <<>> BY <2>2, <2>3
    <2>4. CASE line \in ExtendLines
      <3>1. line \in Seq(ExtendArgument) BY <2>1, <2>4, Zenon
      <3> QED BY <3>1, <2>2
    <2> QED BY <2>2, <2>3, <2>4
  <1>2. tokens = <<>> /\ inputs = <<>> /\ lens = 0 /\ pcr = <<>> /\ printed = NotPrinted /\ status = -1
    BY DEF Init, ExtendInit, Unextended
  <1>3. out = Unprinted BY DEF Init, ImaInit
  <1> QED BY <1>1, <1>2, <1>3 DEF ExtendSound, FeedSound, ExtendLabel

\* Nothing of pcr-extend changes but where it is, at the end.
LEMMA EndsSound ==
  ASSUME ExtendSound, FeedSound, UNCHANGED imaVars, at \in {"parse", "tokens", "extend"}, Leave \/ Abort
  PROVE  ExtendSound' /\ FeedSound'
  <1>1. UNCHANGED <<line, tokens, scarce, inputs, lens, pcr, printed, status>> /\ at' \in {"exited", "crashed"}
    BY DEF Leave, Abort
  <1>2. UNCHANGED <<out, log, pc>> BY DEF imaVars
  <1>3. ExtendSound' BY <1>1, <1>2 DEF ExtendSound, ExtendLabel
  <1>4. Fed(log) => Fed(log)' BY <1>1, <1>2, Zenon DEF Fed, TokenOf, InputOf, InOf
  <1> QED BY <1>1, <1>2, <1>3, <1>4 DEF FeedSound

LEMMA StartExtendStep ==
  ASSUME ImaInv, ExtendSound, StartExtend
  PROVE  ExtendSound' /\ FeedSound'
  <1> DEFINE l == out[1]
  <1>1. /\ at = "waiting" /\ pc = "exited" /\ ret = 0 /\ at' = "parse" /\ line' \in LinesOf(l)
        /\ UNCHANGED <<imaVars, tokens, scarce, inputs, lens, pcr, printed, status>>
    BY DEF StartExtend
  <1>2. out # Unprinted BY <1>1 DEF ImaInv, StepSound
  <1>3. l = log /\ log \in Seq(EntryType) /\ Len(log) \in Nat /\ DOMAIN log = 1 .. Len(log)
    BY <1>2, PrintedKeeps
  <1>4. UNCHANGED <<out, log, pc>> BY <1>1 DEF imaVars
  <1> HIDE DEF l
  <1> DEFINE whole == [k \in DOMAIN log |-> TokenOf(log[k])]
             single == [k \in DOMAIN log |-> InOf(<<TokenOf(log[k])>>)]
  <1>5. line' = <<InOf(whole)>> \/ line' = single BY <1>1, <1>3 DEF LinesOf, InOf, TokenOf
  <1>6. whole \in Seq(Token) /\ Len(whole) = Len(log)
    <2>1. \A k \in 1 .. Len(log) : TokenOf(log[k]) \in Token BY <1>3, EntryDigests
    <2>2. whole \in [1 .. Len(log) -> Token] BY <2>1, <1>3
    <2> HIDE DEF whole
    <2> QED BY <2>2, <1>3, FunctionIsSeq
  <1>7. single \in Seq(ExtendArgument) /\ Len(single) = Len(log)
        /\ \A k \in 1 .. Len(log) : single[k] = InOf(<<TokenOf(log[k])>>)
    <2>1. \A k \in 1 .. Len(log) : InOf(<<TokenOf(log[k])>>) \in ExtendArgument
      <3> SUFFICES ASSUME NEW k \in 1 .. Len(log) PROVE InOf(<<TokenOf(log[k])>>) \in ExtendArgument
        OBVIOUS
      <3>1. <<TokenOf(log[k])>> \in Seq(Token) BY <1>3, EntryDigests
      <3> QED BY <3>1, InIsArgument
    <2>2. single \in [1 .. Len(log) -> ExtendArgument] BY <2>1, <1>3
    <2>3. \A k \in 1 .. Len(log) : single[k] = InOf(<<TokenOf(log[k])>>) BY <1>3
    <2> HIDE DEF single
    <2> QED BY <2>2, <2>3, <1>3, FunctionIsSeq
  <1>8. <<InOf(whole)>> \in Seq(ExtendArgument)
    <2>1. InOf(whole) \in ExtendArgument BY <1>6, InIsArgument
    <2> QED BY <2>1
  <1>9. line' \in Seq(ExtendArgument)
    <2> HIDE DEF whole, single
    <2> QED BY <1>5, <1>7, <1>8
  <1>10. /\ tokens' = <<>> /\ inputs' = <<>> /\ pcr' = <<>> /\ lens' = 0 /\ printed' = NotPrinted /\ status' \in {-1, 0}
         /\ pc' = "exited" /\ at' = "parse" BY <1>1, <1>4 DEF ExtendSound
  <1>11. ExtendSound' BY <1>9, <1>10 DEF ExtendSound, ExtendLabel
  <1>12. Fed(log)'
    <2>1. log' = log BY <1>4
    <2>2. lens' = Len(pcr') + Len(inputs') BY <1>10
    <2>3. Len(pcr') = 0 /\ Len(inputs') = 0 /\ Len(tokens') = 0 /\ 1 .. 0 = {} BY <1>10
    <2>4. CASE line' = <<InOf(whole)>> BY <2>1, <2>2, <2>3, <2>4, <1>10, Zenon DEF Fed
    <2>5. CASE line' = single
      <3>1. Len(line') = Len(log) /\ \A k \in 1 .. Len(log) : line'[k] = InOf(<<TokenOf(log[k])>>)
        <4> HIDE DEF single
        <4> QED BY <2>5, <1>7
      <3>2. lens' + Len(tokens') + Len(line') = Len(log) BY <3>1, <2>3, <1>10, <1>3
      <3>3. \A k \in 1 .. Len(line') : lens' + Len(tokens') + k = k BY <2>3, <1>10
      <3>4. \A k \in 1 .. Len(line') : line'[k] = InOf(<<TokenOf(log[lens' + Len(tokens') + k])>>)
        BY <3>1, <3>3
      <3> QED BY <2>1, <2>2, <2>3, <3>2, <3>4, Zenon DEF Fed, InOf, TokenOf
    <2> HIDE DEF whole, single
    <2> QED BY <2>4, <2>5, <1>5
  <1> QED BY <1>11, <1>12 DEF FeedSound

\* The first of a sequence and the others.
LEMMA HeadTail ==
  ASSUME NEW T, NEW s \in Seq(T), s # <<>>
  PROVE  /\ Head(s) = s[1] /\ Head(s) \in T /\ Tail(s) \in Seq(T) /\ Len(s) \in Nat \ {0} /\ 1 \in 1 .. Len(s)
         /\ Len(Tail(s)) = Len(s) - 1
         /\ \A k \in 1 .. Len(Tail(s)) : Tail(s)[k] = s[k + 1] /\ k + 1 \in 1 .. Len(s)
  OBVIOUS

LEMMA LastAdded ==
  ASSUME NEW T, NEW s \in Seq(T), NEW e \in T
  PROVE  /\ Append(s, e) \in Seq(T) /\ Len(Append(s, e)) = Len(s) + 1 /\ Len(s) \in Nat
         /\ \A k \in 1 .. Len(Append(s, e)) : k = Len(s) + 1 \/ k \in 1 .. Len(s)
         /\ Append(s, e)[Len(s) + 1] = e /\ \A k \in 1 .. Len(s) : Append(s, e)[k] = s[k]
  OBVIOUS

LEMMA TakeInStep ==
  ASSUME ExtendSound, UNCHANGED imaVars, at = "parse", line # <<>>, Head(line).opt = "in",
         at' = "tokens", tokens' = Head(line).val, line' = Tail(line),
         UNCHANGED <<scarce, inputs, lens, pcr, printed, status>>
  PROVE  ExtendSound' /\ \A l : Len(l) \in Nat /\ DOMAIN l = 1 .. Len(l) /\ Fed(l) => Fed(l)'
  <1>1. /\ line \in Seq(ExtendArgument) /\ tokens = <<>> /\ pc = "exited" /\ pcr = <<>> /\ printed = NotPrinted
        /\ lens \in Nat /\ pc' = pc BY DEF ExtendSound, imaVars
  <1>2. /\ Head(line) = line[1] /\ Head(line) \in ExtendArgument /\ line' \in Seq(ExtendArgument)
        /\ Len(line) \in Nat \ {0} /\ 1 \in 1 .. Len(line) /\ Len(line') = Len(line) - 1
        /\ \A k \in 1 .. Len(line') : line'[k] = line[k + 1] /\ k + 1 \in 1 .. Len(line)
    BY <1>1, HeadTail
  <1>3. tokens' \in Seq(Token) BY <1>2, InParts
  <1>4. ExtendSound' BY <1>1, <1>2, <1>3 DEF ExtendSound, ExtendLabel
  <1>5. ASSUME NEW l, Len(l) \in Nat, DOMAIN l = 1 .. Len(l), Fed(l) PROVE Fed(l)'
    <2>1. /\ lens' = Len(pcr') + Len(inputs')
          /\ \A k \in 1 .. Len(pcr') : pcr'[k] = InputOf(l[k])
          /\ \A k \in 1 .. Len(inputs') : inputs'[k] = InputOf(l[Len(pcr') + k])
      BY <1>5 DEF Fed
    <2>2. CASE line = <<InOf([k \in DOMAIN l |-> TokenOf(l[k])])>> /\ lens = 0
      <3> DEFINE whole == [k \in 1 .. Len(l) |-> TokenOf(l[k])]
      <3>1. line = <<InOf(whole)>> /\ lens' = 0 BY <2>2, <1>5
      <3>2. line[1].val = whole BY <3>1 DEF InOf
      <3>3. tokens' = whole BY <3>2, <1>2
      <3>4. Len(line') = 0 /\ 1 .. 0 = {} BY <3>1, <1>2
      <3>5. Len(whole) = Len(l) /\ \A k \in 1 .. Len(l) : whole[k] = TokenOf(l[k]) BY <1>5
      <3> HIDE DEF whole
      <3>6. \A k \in 1 .. Len(tokens') : tokens'[k] = TokenOf(l[lens' + k])
        BY <3>1, <3>3, <3>5
      <3>7. lens' + Len(tokens') + Len(line') = Len(l) BY <3>1, <3>3, <3>4, <3>5, <1>5
      <3>8. \A k \in 1 .. Len(line') : line'[k] = InOf(<<TokenOf(l[lens' + Len(tokens') + k])>>)
        BY <3>4
      <3> QED BY <2>1, <3>6, <3>7, <3>8, Zenon DEF Fed, TokenOf, InOf, InputOf
    <2>3. CASE /\ lens + Len(tokens) + Len(line) = Len(l)
               /\ \A k \in 1 .. Len(line) : line[k] = InOf(<<TokenOf(l[lens + Len(tokens) + k])>>)
      <3>0. Len(tokens) = 0 /\ lens' = lens BY <1>1
      <3>1. lens + Len(line) = Len(l) /\ \A k \in 1 .. Len(line) : line[k] = InOf(<<TokenOf(l[lens + k])>>)
        BY <3>0, <2>3, <1>1
      <3>2. line[1] = InOf(<<TokenOf(l[lens + 1])>>) BY <3>1, <1>2
      <3>3. tokens' = <<TokenOf(l[lens + 1])>>
        <4>1. line[1].val = <<TokenOf(l[lens + 1])>> BY <3>2 DEF InOf
        <4> QED BY <4>1, <1>2
      <3>4. Len(tokens') = 1 /\ \A k \in 1 .. Len(tokens') : tokens'[k] = TokenOf(l[lens' + k])
        BY <3>0, <3>3
      <3>7. Len(tokens') = 1 /\ lens' = lens /\ lens \in Nat BY <3>0, <3>4, <1>1
      <3>8. Len(line) \in Nat \ {0} /\ Len(line') = Len(line) - 1 /\ lens + Len(line) = Len(l)
        BY <3>1, <1>2
      <3>9. \A a, b, c, m : m \in Nat /\ a = m /\ b = 1 => a + b + c = m + 1 + c OBVIOUS
      <3>10. \A c : lens' + Len(tokens') + c = lens + 1 + c BY <3>7, <3>9, Zenon
      <3>11. lens + 1 + Len(line') = Len(l) BY <3>7, <3>8
      <3>5. lens' + Len(tokens') + Len(line') = Len(l) BY <3>10, <3>11, Zenon
      <3>6. \A k \in 1 .. Len(line') : line'[k] = InOf(<<TokenOf(l[lens' + Len(tokens') + k])>>)
        <4> SUFFICES ASSUME NEW k \in 1 .. Len(line')
                     PROVE  line'[k] = InOf(<<TokenOf(l[lens' + Len(tokens') + k])>>)
          OBVIOUS
        <4>1. line'[k] = line[k + 1] /\ k + 1 \in 1 .. Len(line) BY <1>2
        <4>2. line[k + 1] = InOf(<<TokenOf(l[lens + (k + 1)])>>) BY <4>1, <3>1
        <4>3. lens + (k + 1) = lens' + Len(tokens') + k
          <5>1. lens + 1 + k = lens + (k + 1) BY <3>7
          <5> QED BY <5>1, <3>10, Zenon
        <4> QED BY <4>1, <4>2, <4>3, Zenon
      <3> QED BY <2>1, <3>4, <3>5, <3>6, Zenon DEF Fed, TokenOf, InOf, InputOf
    <2> QED BY <1>5, <2>2, <2>3 DEF Fed
  <1> QED BY <1>4, <1>5

LEMMA TakeTokenStep ==
  ASSUME ExtendSound, UNCHANGED imaVars, at = "tokens", tokens # <<>>,
         inputs' = Append(inputs, Converted(Head(tokens))), lens' = lens + 1, tokens' = Tail(tokens),
         status' = IF Head(tokens).shape = "refused" THEN -1 ELSE 0,
         UNCHANGED <<line, scarce, at, pcr, printed>>
  PROVE  ExtendSound' /\ \A l : Len(l) \in Nat /\ Fed(l) => Fed(l)'
  <1> DEFINE e == Converted(Head(tokens))
  <1>1. /\ line \in Seq(ExtendArgument) /\ tokens \in Seq(Token) /\ pc = "exited" /\ pcr = <<>> /\ printed = NotPrinted
        /\ lens \in Nat /\ inputs \in Seq(ExtendElement) /\ pcr \in Seq(ExtendElement) /\ Len(inputs) + Len(pcr) <= lens
        /\ pc' = pc BY DEF ExtendSound, imaVars
  <1>2. /\ Head(tokens) = tokens[1] /\ Head(tokens) \in Token /\ tokens' \in Seq(Token)
        /\ Len(tokens) \in Nat \ {0} /\ 1 \in 1 .. Len(tokens) /\ Len(tokens') = Len(tokens) - 1
        /\ \A k \in 1 .. Len(tokens') : tokens'[k] = tokens[k + 1] /\ k + 1 \in 1 .. Len(tokens)
    BY <1>1, HeadTail
  <1>3. e \in ExtendElement BY <1>2, ConvertedIsTyped
  <1> HIDE DEF e
  <1>4. /\ inputs' \in Seq(ExtendElement) /\ Len(inputs') = Len(inputs) + 1 /\ Len(inputs) \in Nat
        /\ \A k \in 1 .. Len(inputs') : k = Len(inputs) + 1 \/ k \in 1 .. Len(inputs)
        /\ inputs'[Len(inputs) + 1] = e /\ \A k \in 1 .. Len(inputs) : inputs'[k] = inputs[k]
    <2>1. inputs' = Append(inputs, e) BY DEF e
    <2> QED BY <2>1, <1>1, <1>3, LastAdded
  <1>5. Len(inputs') + Len(pcr') <= lens' /\ lens' \in Nat /\ status' \in {-1, 0}
    BY <1>1, <1>4
  <1>6. ExtendSound' BY <1>1, <1>2, <1>4, <1>5 DEF ExtendSound, ExtendLabel
  <1>7. ASSUME NEW l, Len(l) \in Nat, Fed(l) PROVE Fed(l)'
    <2>1. /\ lens = Len(pcr) + Len(inputs) /\ Len(pcr) = 0 /\ Len(pcr') = 0
          /\ \A k \in 1 .. Len(pcr') : pcr'[k] = InputOf(l[k])
          /\ \A k \in 1 .. Len(inputs) : inputs[k] = InputOf(l[k])
          /\ \A k \in 1 .. Len(tokens) : tokens[k] = TokenOf(l[lens + k])
      BY <1>1, <1>7 DEF Fed
    <2>2. lens = Len(inputs) /\ lens' = Len(pcr') + Len(inputs') BY <2>1, <1>1, <1>4
    <2>3. e = InputOf(l[lens + 1])
      <3>1. Head(tokens) = TokenOf(l[lens + 1]) BY <2>1, <1>2
      <3> QED BY <3>1 DEF e, Converted, InputOf, TokenOf
    <2>4. \A k \in 1 .. Len(inputs') : inputs'[k] = InputOf(l[k]) BY <1>4, <2>1, <2>2, <2>3
    <2>5. \A k \in 1 .. Len(inputs') : inputs'[k] = InputOf(l[Len(pcr') + k]) BY <2>1, <2>4
    <2>6. \A k \in 1 .. Len(tokens') : tokens'[k] = TokenOf(l[lens' + k])
      <3> SUFFICES ASSUME NEW k \in 1 .. Len(tokens') PROVE tokens'[k] = TokenOf(l[lens' + k])
        OBVIOUS
      <3>1. tokens'[k] = tokens[k + 1] /\ k + 1 \in 1 .. Len(tokens) BY <1>2
      <3>2. tokens[k + 1] = TokenOf(l[lens + (k + 1)]) BY <3>1, <2>1
      <3>3. lens + (k + 1) = lens' + k BY <1>1
      <3> QED BY <3>1, <3>2, <3>3, Zenon
    <2>7. /\ lens + Len(tokens) + Len(line) = Len(l)
          /\ \A k \in 1 .. Len(line) : line[k] = InOf(<<TokenOf(l[lens + Len(tokens) + k])>>)
      BY <1>7 DEF Fed
    <2>8. lens' + Len(tokens') = lens + Len(tokens) /\ line' = line BY <1>1, <1>2
    <2>9. /\ lens' + Len(tokens') + Len(line') = Len(l)
          /\ \A k \in 1 .. Len(line') : line'[k] = InOf(<<TokenOf(l[lens' + Len(tokens') + k])>>)
      BY <2>7, <2>8
    <2> QED BY <2>1, <2>2, <2>5, <2>6, <2>9, Zenon DEF Fed, TokenOf, InOf, InputOf
  <1> QED BY <1>6, <1>7

LEMMA FedBound ==
  ASSUME ExtendSound, NEW l, Len(l) \in Nat, Fed(l), Len(l) <= FittingLens
  PROVE  ~Overrun
  <1>1. lens \in Nat /\ FittingLens \in Nat /\ Len(tokens) \in Nat /\ Len(line) \in Nat
    BY LengthsAssumption DEF ExtendSound
  <1>2. lens = 0 \/ lens + Len(tokens) + Len(line) = Len(l) BY DEF Fed
  <1> QED BY <1>1, <1>2 DEF Overrun

LEMMA ExtendStep ==
  ASSUME ExtendSound, UNCHANGED imaVars, Extend
  PROVE  ExtendSound' /\ \A l : Len(l) \in Nat /\ Len(l) <= FittingLens /\ Fed(l) => Fed(l)'
  <1>1. /\ at = "extend" /\ inputs # <<>> /\ inputs' = Tail(inputs)
        /\ UNCHANGED <<line, tokens, scarce, at, lens, printed, status, pc>>
        /\ tokens = <<>> /\ line = <<>> /\ printed = NotPrinted
        /\ inputs \in Seq(ExtendElement) /\ pcr \in Seq(ExtendElement) /\ lens \in Nat /\ Len(inputs) + Len(pcr) <= lens
        /\ line \in Seq(ExtendArgument) /\ tokens \in Seq(Token) /\ status \in {-1, 0} /\ pc = "exited"
    BY DEF ExtendSound, Extend, imaVars
  <1>2. /\ Head(inputs) = inputs[1] /\ Head(inputs) \in ExtendElement /\ inputs' \in Seq(ExtendElement)
        /\ Len(inputs) \in Nat \ {0} /\ 1 \in 1 .. Len(inputs) /\ Len(inputs') = Len(inputs) - 1
        /\ \A k \in 1 .. Len(inputs') : inputs'[k] = inputs[k + 1] /\ k + 1 \in 1 .. Len(inputs)
    BY <1>1, HeadTail
  <1> DEFINE e == Head(inputs)
  <1> HIDE DEF e
  <1>3. e \in ExtendElement /\ e = inputs[1] BY <1>2 DEF e
  <1>4. pcr' = Append(pcr, e) \/ (Overrun /\ pcr' = <<Overwritten>>) BY DEF Extend, e
  <1>5. /\ Append(pcr, e) \in Seq(ExtendElement) /\ Len(Append(pcr, e)) = Len(pcr) + 1 /\ Len(pcr) \in Nat
        /\ \A k \in 1 .. Len(Append(pcr, e)) : k = Len(pcr) + 1 \/ k \in 1 .. Len(pcr)
        /\ Append(pcr, e)[Len(pcr) + 1] = e /\ \A k \in 1 .. Len(pcr) : Append(pcr, e)[k] = pcr[k]
    BY <1>1, <1>3, LastAdded
  <1>6. pcr' \in Seq(ExtendElement) /\ Len(inputs') + Len(pcr') <= lens
    <2>1. CASE pcr' = Append(pcr, e) BY <2>1, <1>1, <1>2, <1>5
    <2>2. CASE pcr' = <<Overwritten>>
      <3>1. Overwritten \in ExtendElement BY DEF Overwritten, ExtendElement
      <3>2. pcr' \in Seq(ExtendElement) /\ Len(pcr') = 1 BY <2>2, <3>1
      <3> QED BY <3>2, <1>1, <1>2, <1>5
    <2> QED BY <1>4, <2>1, <2>2
  <1>7. ExtendSound' BY <1>1, <1>2, <1>6 DEF ExtendSound, ExtendLabel
  <1>8. ASSUME NEW l, Len(l) \in Nat, Len(l) <= FittingLens, Fed(l) PROVE Fed(l)'
    <2>1. pcr' = Append(pcr, e) BY <1>4, <1>8, FedBound
    <2>2. /\ lens = Len(pcr) + Len(inputs)
          /\ \A k \in 1 .. Len(pcr) : pcr[k] = InputOf(l[k])
          /\ \A k \in 1 .. Len(inputs) : inputs[k] = InputOf(l[Len(pcr) + k])
      BY <1>8 DEF Fed
    <2>3. e = InputOf(l[Len(pcr) + 1]) BY <2>2, <1>2, <1>3
    <2>4. lens' = Len(pcr') + Len(inputs') /\ Len(pcr') = Len(pcr) + 1
      BY <2>1, <2>2, <1>1, <1>2, <1>5
    <2>5. \A k \in 1 .. Len(pcr') : pcr'[k] = InputOf(l[k])
      <3> SUFFICES ASSUME NEW k \in 1 .. Len(pcr') PROVE pcr'[k] = InputOf(l[k]) OBVIOUS
      <3>1. CASE k = Len(pcr) + 1 BY <3>1, <2>1, <2>3, <1>5
      <3>2. CASE k \in 1 .. Len(pcr) BY <3>2, <2>1, <2>2, <1>5
      <3> QED BY <3>1, <3>2, <2>1, <1>5
    <2>6. \A k \in 1 .. Len(inputs') : inputs'[k] = InputOf(l[Len(pcr') + k])
      <3> SUFFICES ASSUME NEW k \in 1 .. Len(inputs') PROVE inputs'[k] = InputOf(l[Len(pcr') + k])
        OBVIOUS
      <3>1. inputs'[k] = inputs[k + 1] /\ k + 1 \in 1 .. Len(inputs) BY <1>2
      <3>2. inputs[k + 1] = InputOf(l[Len(pcr) + (k + 1)]) BY <3>1, <2>2
      <3>3. Len(pcr) + (k + 1) = Len(pcr') + k BY <2>4, <1>5
      <3> QED BY <3>1, <3>2, <3>3, Zenon
    <2>7. Len(tokens') = 0 /\ Len(tokens) = 0 /\ 1 .. 0 = {} BY <1>1
    <2>8. \A k \in 1 .. Len(tokens') : tokens'[k] = TokenOf(l[lens' + k]) BY <2>7
    <2>9. line # <<InOf([k \in DOMAIN l |-> TokenOf(l[k])])>> BY <1>1
    <2>10. /\ lens + Len(tokens) + Len(line) = Len(l)
           /\ \A k \in 1 .. Len(line) : line[k] = InOf(<<TokenOf(l[lens + Len(tokens) + k])>>)
      BY <1>8, <2>9 DEF Fed
    <2>11. UNCHANGED <<lens, tokens, line>> BY <1>1
    <2>12. /\ lens' + Len(tokens') + Len(line') = Len(l)
           /\ \A k \in 1 .. Len(line') : line'[k] = InOf(<<TokenOf(l[lens' + Len(tokens') + k])>>)
      BY <2>10, <2>11, Zenon
    <2> QED BY <2>4, <2>5, <2>6, <2>8, <2>12, Zenon DEF Fed, TokenOf, InOf, InputOf
  <1> QED BY <1>7, <1>8

\* A step that leaves what is fed as it is.
LEMMA FedStays ==
  ASSUME UNCHANGED <<line, tokens, inputs, lens, pcr>>
  PROVE  \A l : Fed(l) => Fed(l)' BY Zenon DEF Fed, TokenOf, InOf, InputOf

LEMMA SimulateStep ==
  ASSUME ImaInv, ExtendSound, FeedSound, SimulateExtend, UNCHANGED imaVars
  PROVE  ExtendSound' /\ FeedSound'
  <1>1. UNCHANGED <<out, log, pc>> BY DEF imaVars
  <1>2. ASSUME at # "waiting", \A l : Len(l) \in Nat /\ DOMAIN l = 1 .. Len(l) /\ Len(l) <= FittingLens /\ Fed(l) => Fed(l)'
        PROVE  FeedSound'
    <2> SUFFICES ASSUME out' # Unprinted, Len(log') <= FittingLens PROVE Fed(log)'
      BY DEF FeedSound
    <2>1. out # Unprinted /\ Len(log) <= FittingLens BY <1>1
    <2>2. Len(log) \in Nat /\ DOMAIN log = 1 .. Len(log) BY <2>1, PrintedKeeps
    <2>3. Fed(log) BY <1>2, <2>1 DEF FeedSound
    <2>4. PICK l : l = log OBVIOUS
    <2>5. Fed(l)' BY <1>2, <2>1, <2>2, <2>3, <2>4
    <2>6. log' = l BY <1>1, <2>4
    <2> QED BY <2>5, <2>6, Zenon
  <1>3. CASE (Leave \/ Abort) /\ at \in {"parse", "tokens", "extend"} BY <1>3, EndsSound
  <1>4. CASE StopParsing \/ ExtendFails
    BY <1>3, <1>4 DEF StopParsing, ExtendFails, ReadingLine
  <1>5. CASE TakeIn /\ ~Leave
    <2>1. /\ at = "parse" /\ line # <<>> /\ Head(line).opt = "in"
          /\ at' = "tokens" /\ tokens' = Head(line).val /\ line' = Tail(line)
          /\ UNCHANGED <<scarce, inputs, lens, pcr, printed, status>>
      BY <1>5 DEF TakeIn, ReadingLine
    <2>2. ExtendSound' /\ \A l : Len(l) \in Nat /\ DOMAIN l = 1 .. Len(l) /\ Fed(l) => Fed(l)'
      BY <2>1, TakeInStep
    <2>3. at # "waiting" BY <2>1
    <2> QED BY <2>2, <2>3, <1>2
  <1>6. CASE TakeToken /\ ~Leave /\ ~Abort
    <2>1. /\ at = "tokens" /\ tokens # <<>>
          /\ inputs' = Append(inputs, Converted(Head(tokens))) /\ lens' = lens + 1 /\ tokens' = Tail(tokens)
          /\ status' = IF Head(tokens).shape = "refused" THEN -1 ELSE 0
          /\ UNCHANGED <<line, scarce, at, pcr, printed>> BY <1>6 DEF TakeToken
    <2>2. ExtendSound' /\ \A l : Len(l) \in Nat /\ Fed(l) => Fed(l)' BY <2>1, TakeTokenStep
    <2>3. at # "waiting" BY <2>1
    <2> QED BY <2>2, <2>3, <1>2
  <1>7. CASE TokensDone \/ LineDone \/ PrintPcr
    <2>1. UNCHANGED <<line, tokens, inputs, lens, pcr>> /\ at # "waiting"
      BY <1>7 DEF TokensDone, LineDone, PrintPcr
    <2>2. FeedSound' BY <2>1, FedStays, <1>2
    <2>3. ExtendSound'
      BY <1>1, <1>7 DEF ExtendSound, ExtendLabel, TokensDone, LineDone, PrintPcr
    <2> QED BY <2>2, <2>3
  <1>8. CASE Extend
    <2>1. ExtendSound' /\ \A l : Len(l) \in Nat /\ Len(l) <= FittingLens /\ Fed(l) => Fed(l)'
      BY <1>8, ExtendStep
    <2>2. at # "waiting" BY <1>8 DEF Extend
    <2> QED BY <2>1, <2>2, <1>2
  <1>9. TakeIn => at = "parse" BY DEF TakeIn, ReadingLine
  <1>10. TakeToken => at = "tokens" BY DEF TakeToken
  <1> QED BY <1>3, <1>4, <1>5, <1>6, <1>7, <1>8, <1>9, <1>10 DEF SimulateExtend

LEMMA ExtendNext ==
  ASSUME ImaInv, ExtendSound, FeedSound, [Next]_vars
  PROVE  ExtendSound' /\ FeedSound'
  <1>1. CASE Calculate
    <2>1. pc # "exited" /\ UNCHANGED <<line, tokens, scarce, at, inputs, lens, pcr, printed, status>>
      BY <1>1, NotEnded DEF Calculate, extendVars
    <2>2. at = "waiting" /\ at' = "waiting" BY <2>1 DEF ExtendSound
    <2>3. ExtendSound' BY <2>1, <2>2 DEF ExtendSound
    <2> QED BY <2>2, <2>3 DEF FeedSound
  <1>2. CASE StartExtend BY <1>2, StartExtendStep
  <1>3. CASE Simulate BY <1>3, SimulateStep DEF Simulate
  <1>4. CASE UNCHANGED vars
    <2>1. UNCHANGED <<line, tokens, scarce, at, inputs, lens, pcr, printed, status, pc, out, log>>
      BY <1>4 DEF vars
    <2>2. ExtendSound' BY <2>1 DEF ExtendSound
    <2>3. Fed(log) => Fed(log)' BY <2>1, Zenon DEF Fed, TokenOf, InOf, InputOf
    <2> QED BY <2>1, <2>2, <2>3 DEF FeedSound
  <1> QED BY <1>1, <1>2, <1>3, <1>4 DEF Next, Terminated

-----------------------------------------------------------------------------
(* What follows from the invariants *)

LEMMA InvTypes == ASSUME ImaInv, ExtendSound, DepthSound PROVE TypeOK
  <1>1. \A k \in DOMAIN argv : argv[k] \in Argument
    <2>1. argv \in Seq(Argument) BY DEF ImaInv, OptionsSound
    <2> QED BY <2>1
  <1>2. pc \in Label /\ i \in 1 .. Len(opts.paths) + 1 /\ ret \in {-1, 0, 1} /\ walk \in Seq(SUBSET Node)
    BY DEF ImaInv, StepSound
  <1>3. Len(walk) <= Cardinality(Dir) BY DEF DepthSound
  <1>4. pc = "walk" <=> (walk # <<>> /\ pc \notin {"exited", "crashed"})
    BY DEF ImaInv, StepSound, Label
  <1>5. \A k \in DOMAIN log : log[k].pcr = opts.pcr
    <2>1. log \in Seq(EntryType) BY DEF ImaInv, StepSound
    <2>2. DOMAIN log = 1 .. Len(log) BY <2>1
    <2> QED BY <2>1, <2>2, EntryDigests
  <1>6. at \in ExtendLabel /\ status \in {-1, 0} /\ lens \in Nat /\ Len(inputs) + Len(pcr) <= lens
    BY DEF ExtendSound
  <1>7. \A k \in DOMAIN line : line[k] \in ExtendArgument
    <2>1. line \in Seq(ExtendArgument) BY DEF ExtendSound
    <2> QED BY <2>1
  <1> QED BY <1>1, <1>2, <1>3, <1>4, <1>5, <1>6, <1>7, Zenon DEF TypeOK

\* When the register is printed, all entries are in it.
LEMMA AllExtended ==
  ASSUME ImaInv, ExtendSound, FeedSound, printed # NotPrinted, out # Unprinted, Len(log) <= FittingLens
  PROVE  printed \in Seq(ExtendElement) /\ Len(printed) = Len(log) /\ \A k \in 1 .. Len(log) : printed[k] = InputOf(log[k])
  <1>1. /\ at # "waiting" /\ printed = pcr /\ inputs = <<>> /\ tokens = <<>> /\ line = <<>>
        /\ pcr \in Seq(ExtendElement) /\ lens \in Nat BY DEF ExtendSound
  <1>2. Fed(log) BY <1>1 DEF FeedSound
  <1>3. line # <<InOf([k \in DOMAIN log |-> TokenOf(log[k])])>> BY <1>1
  <1>4. /\ lens = Len(pcr) + Len(inputs) /\ lens + Len(tokens) + Len(line) = Len(log)
        /\ \A k \in 1 .. Len(pcr) : pcr[k] = InputOf(log[k]) BY <1>2, <1>3 DEF Fed
  <1>5. Len(inputs) = 0 /\ Len(tokens) = 0 /\ Len(line) = 0 /\ Len(pcr) \in Nat BY <1>1
  <1>6. Len(pcr) = Len(log) BY <1>4, <1>5
  <1> QED BY <1>1, <1>4, <1>6

LEMMA InvRegister == ASSUME ImaInv, ExtendSound, FeedSound PROVE RegisterOfSystem
  <1> DEFINE extended == [k \in DOMAIN printed |-> printed[k][2]]
  <1> SUFFICES ASSUME printed # NotPrinted, out # Unprinted, ~short, ~LostQuietly, ~SpoiltQuietly,
                      Cardinality(References) <= FittingLens
               PROVE  /\ ListsAll(extended, References, EntryDigest)
                      /\ opts.aggregate # Unset => Head(extended) = BootEntry.sha256
    BY DEF RegisterOfSystem
  <1>1. /\ OptionsSound /\ log # <<>> /\ log \in Seq(EntryType) /\ ~Lossy
    BY PrintedKeeps, NotLossy
  <1>2. PICK b : Keeps(b, log, {}) BY PrintedKeeps
  <1> DEFINE n == Len(log)
  <1>3. n \in Nat /\ DOMAIN log = 1 .. n /\ n # 0 BY <1>1
  <1>4. /\ b \in [1 .. n -> References]
        /\ \A j, k \in 1 .. n : b[j] = b[k] => j = k
        /\ \A k \in 1 .. n : log[k] = Entry(b[k])
        /\ \A w \in References : \E k \in 1 .. n : b[k] = w
        /\ opts.aggregate # Unset => b[1] = BootWay BY <1>1, <1>2, Zenon DEF Keeps
  <1>5. n = Cardinality(References)
    <2> HIDE DEF n
    <2> DEFINE A == 1 .. n
    <2>1. IsFiniteSet(A) /\ Cardinality(A) = n BY <1>3, FS_Interval
    <2>2. \A k \in A : b[k] \in References BY <1>4
    <2>3. \A j, k \in A : b[j] = b[k] => j = k BY <1>4
    <2>4. \A w \in References : \E k \in A : b[k] = w BY <1>4
    <2> HIDE DEF A
    <2>5. Cardinality(A) = Cardinality(References) BY <2>1, <2>2, <2>3, <2>4, MatchedAll
    <2> QED BY <2>1, <2>5
  <1>6. printed \in Seq(ExtendElement) /\ Len(printed) = n /\ \A k \in 1 .. n : printed[k] = InputOf(log[k])
    BY <1>5, AllExtended
  <1>7. DOMAIN extended = 1 .. n /\ \A k \in 1 .. n : extended[k] = log[k].sha256
    BY <1>3, <1>6 DEF InputOf
  <1>8. Head(extended) = extended[1]
    <2>1. \A k \in 1 .. n : log[k].sha256 \in Digest BY <1>1, EntryDigests
    <2>2. extended \in [1 .. n -> Digest]
      <3>1. extended = [k \in 1 .. n |-> log[k].sha256] BY <1>3, <1>6 DEF InputOf
      <3> HIDE DEF extended, n
      <3> QED BY <2>1, <3>1
    <2> HIDE DEF extended, n
    <2>3. extended \in Seq(Digest) /\ Len(extended) = n BY <2>2, <1>3, FunctionIsSeq
    <2> QED BY <2>3, <1>3
  <1> HIDE DEF extended
  <1> DEFINE f == [w \in References |-> EntryDigest(w)]
  <1>9. DOMAIN f = References /\ \A w \in References : f[w] = EntryDigest(w) OBVIOUS
  <1> HIDE DEF f
  <1>10. \A k \in 1 .. Len(log) : \A w \in References : log[k] = Entry(w) => extended[k] = f[w]
    BY <1>7, <1>9 DEF EntryDigest
  <1>11. ASSUME NEW x PROVE Times(x, extended) = Expected(x, References, EntryDigest)
    <2>1. DOMAIN extended = 1 .. Len(log) /\ DOMAIN f = References BY <1>7, <1>9
    <2>2. ~Lossy => Times(x, extended) = Cardinality({w \in References : f[w] = x})
      BY <2>1, <1>10, Counted
    <2>3. {w \in References : f[w] = x} = {w \in References : EntryDigest(w) = x} BY <1>9
    <2>4. Expected(x, References, EntryDigest) = Cardinality({w \in References : f[w] = x})
      BY <2>3 DEF Expected
    <2> QED BY <2>2, <2>4, <1>1
  <1>12. ListsAll(extended, References, EntryDigest) BY <1>11 DEF ListsAll
  <1>13. ASSUME opts.aggregate # Unset PROVE Head(extended) = BootEntry.sha256
    <2>1. 1 \in 1 .. n /\ b[1] = BootWay BY <1>3, <1>4, <1>13
    <2>2. log[1] = BootEntry BY <2>1, <1>4 DEF Entry
    <2> QED BY <2>1, <2>2, <1>7, <1>8
  <1> QED BY <1>12, <1>13

\* The invariants of both programs hold (calculate-ima-pcr/main.c:60-119,
\* 202-312, pcr-extend/main.c:32-91).
LEMMA ImaInvariants == Spec => [](ImaInv /\ ExtendSound /\ FeedSound /\ DepthSound)
  <1>1. Init => ImaInv /\ ExtendSound /\ FeedSound /\ DepthSound
    <2> SUFFICES ASSUME Init PROVE ImaInv /\ ExtendSound /\ FeedSound /\ DepthSound OBVIOUS
    <2>1. walk = <<>> BY DEF Init, ImaInit
    <2>2. DepthSound BY <2>1, TreeFacts DEF DepthSound
    <2> QED BY <2>2, ImaInitSound, ExtendInitSound
  <1>2. ImaInv /\ Working => DepthSound BY WorkingDepth
  <1>3. ImaInv /\ ExtendSound /\ FeedSound /\ [Next]_vars => ImaInv' /\ ExtendSound' /\ FeedSound'
    BY ImaNext, ExtendNext
  <1>4. DepthSound /\ [Next]_vars /\ (ImaInv /\ Working => DepthSound)' /\ ImaInv' => DepthSound'
    BY DepthNext
  <1> QED BY <1>1, <1>2, <1>3, <1>4, PTL DEF Spec

-----------------------------------------------------------------------------

\* Whatever is locked, cannot be read or allocated, the printed entries are
\* those of files below the paths, none more often than there are ways to it,
\* and a file of a directory of the command line that is lost is reported
\* (calculate-ima-pcr/main.c:60-119, 230-312).
THEOREM LossesAreBounded == Spec => []LossesBounded
  <1>1. ImaInv /\ ExtendSound /\ FeedSound /\ DepthSound => LossesBounded
    BY InvTypes, InvPublished, InvFirstLevel DEF LossesBounded
  <1> QED BY <1>1, ImaInvariants, PTL

\* Without such losses the entries are those of the files, once for each way,
\* and the register that pcr-extend prints for them is that of the system
\* (calculate-ima-pcr/main.c:202-312, pcr-extend/main.c:80-87).
THEOREM EntriesAndRegisterAreReference == Spec => []ResultsAreReference
  <1>1. ImaInv /\ ExtendSound /\ FeedSound => ResultsAreReference
    BY InvPublished, InvRegister DEF ResultsAreReference
  <1> QED BY <1>1, ImaInvariants, PTL

-----------------------------------------------------------------------------
(* pcr-extend implements a register with a journal *)

LEMMA TimesInPrefix ==
  ASSUME NEW T, NEW s \in Seq(T), NEW t \in Seq(T)
  PROVE  R!Accounts(s \o t, s)
  <1> SUFFICES ASSUME NEW d PROVE R!Times(d, s) <= R!Times(d, s \o t) BY DEF R!Accounts
  <1> DEFINE u == s \o t
             A == {k \in DOMAIN s : s[k] = d}
             B == {k \in DOMAIN u : u[k] = d}
  <1>1. /\ DOMAIN s = 1 .. Len(s) /\ DOMAIN u = 1 .. Len(s) + Len(t) /\ Len(s) \in Nat /\ Len(t) \in Nat
        /\ \A k \in 1 .. Len(s) : u[k] = s[k] /\ k \in 1 .. Len(s) + Len(t) OBVIOUS
  <1> HIDE DEF u
  <1>2. A \in SUBSET B BY <1>1
  <1>3. IsFiniteSet(B)
    <2>1. Len(s) + Len(t) \in Int BY <1>1
    <2>2. IsFiniteSet(1 .. Len(s) + Len(t)) BY <2>1, FS_Interval
    <2>3. B \in SUBSET (1 .. Len(s) + Len(t)) BY <1>1
    <2> HIDE DEF B
    <2> QED BY <2>2, <2>3, FS_Subset
  <1>4. Cardinality(A) <= Cardinality(B)
    <2> HIDE DEF A, B
    <2> QED BY <1>2, <1>3, FS_Subset
  <1>5. R!Times(d, s) = Cardinality(A) /\ R!Times(d, u) = Cardinality(B)
    BY Zenon DEF R!Times, R!Cardinality, Cardinality
  <1> QED BY <1>4, <1>5 DEF u

LEMMA AddedToEnd ==
  ASSUME NEW T, NEW s \in Seq(T), NEW e \in T
  PROVE  R!Added(s, Append(s, e)) = <<e>> /\ s \o <<e>> = Append(s, e) /\ R!Added(s, s) = <<>> /\ s \o <<>> = s
  <1> DEFINE t == Append(s, e)
             n == Len(s)
  <1>1. t \in Seq(T) /\ n \in Nat /\ Len(t) = n + 1 /\ t[n + 1] = e OBVIOUS
  <1>2. SubSeq(t, n + 1, n + 1) = <<e>>
    <2> HIDE DEF t, n
    <2>1. /\ SubSeq(t, n + 1, n + 1) \in Seq(T) /\ Len(SubSeq(t, n + 1, n + 1)) = 1
          /\ SubSeq(t, n + 1, n + 1)[1] = t[n + 1] BY <1>1
    <2>2. \A x \in Seq(T) : Len(x) = 1 => x = <<x[1]>> OBVIOUS
    <2>3. SubSeq(t, n + 1, n + 1) = <<t[n + 1]>> BY <2>1, <2>2, Zenon
    <2> QED BY <1>1, <2>3
  <1>3. SubSeq(s, n + 1, n) = <<>> OBVIOUS
  <1>4. s \o <<e>> = Append(s, e) /\ s \o <<>> = s OBVIOUS
  <1> HIDE DEF t
  <1> QED BY <1>1, <1>2, <1>3, <1>4 DEF R!Added, t

LEMMA NeverUnset == ASSUME NEW s \in Seq(ExtendElement) PROVE s # NotPrinted
  <1> SUFFICES ASSUME s = NotPrinted PROVE FALSE OBVIOUS
  <1>1. s = <<<<"nothing">>>> BY DEF NotPrinted
  <1>2. s[1] = <<"nothing">> /\ Len(s) = 1 BY <1>1
  <1>3. s[1] \in ExtendElement BY <1>2
  <1>4. \A x \in ExtendElement : x # <<"nothing">> BY DEF ExtendElement, Shape
  <1> QED BY <1>2, <1>3, <1>4

\* The register and its journal grow by these digests.
Grows(js, es) ==
  /\ RegisterValue[10] # NotPrinted /\ 10 \notin RegisterShown
  /\ R!Accounts(RegisterJournal[10] \o js, RegisterValue[10] \o es)
  /\ RegisterJournal' = [RegisterJournal EXCEPT ![10] = @ \o js]
  /\ RegisterValue' = [RegisterValue EXCEPT ![10] = @ \o es]
  /\ UNCHANGED RegisterShown

LEMMA GrowsIsNext ==
  ASSUME Grows(R!Added(RegisterJournal[10], RegisterJournal'[10]), R!Added(RegisterValue[10], RegisterValue'[10]))
  PROVE  R!AbsNext
  <1> DEFINE Adds(r) ==
               /\ RegisterValue[r] # NotPrinted
               /\ RegisterValue[r] # NotPrinted /\ r \notin RegisterShown
               /\ R!Accounts(RegisterJournal[r] \o R!Added(RegisterJournal[r], RegisterJournal'[r]),
                             RegisterValue[r] \o R!Added(RegisterValue[r], RegisterValue'[r]))
               /\ RegisterJournal' = [RegisterJournal EXCEPT ![r] = @ \o R!Added(RegisterJournal[r], RegisterJournal'[r])]
               /\ RegisterValue' = [RegisterValue EXCEPT ![r] = @ \o R!Added(RegisterValue[r], RegisterValue'[r])]
               /\ UNCHANGED RegisterShown
  <1>1. Adds(10) BY Zenon DEF Grows
  <1>2. \E r \in {10} : Adds(r) BY <1>1, Zenon
  <1> QED BY <1>2, Zenon DEF R!AbsNext, R!Advance, RegisterValue, RegisterJournal, RegisterShown

LEMMA OneRegister ==
  ASSUME NEW v, NEW w
  PROVE  [[r \in {10} |-> v] EXCEPT ![10] = w] = [r \in {10} |-> w] /\ [r \in {10} |-> v][10] = v
  OBVIOUS

LEMMA TakeTokenGrows ==
  ASSUME ExtendSound, TakeToken, ~Leave, ~Abort
  PROVE  R!AbsNext
  <1> DEFINE e == Converted(Head(tokens))
  <1>1. /\ at = "tokens" /\ tokens # <<>> /\ inputs' = Append(inputs, e)
        /\ UNCHANGED <<line, scarce, at, pcr, printed>> BY DEF TakeToken
  <1>2. tokens \in Seq(Token) /\ pcr = <<>> /\ inputs \in Seq(ExtendElement) /\ printed = NotPrinted
    BY <1>1 DEF ExtendSound
  <1>3. e \in ExtendElement
    <2>1. Head(tokens) \in Token BY <1>1, <1>2
    <2> QED BY <2>1, ConvertedIsTyped
  <1> HIDE DEF e
  <1>4. pcr \o inputs = inputs /\ pcr \o Append(inputs, e) = Append(inputs, e) BY <1>2, <1>3
  <1>5. RegisterValue = [r \in {10} |-> pcr] /\ RegisterValue' = [r \in {10} |-> pcr]
    BY <1>1 DEF RegisterValue
  <1>6. RegisterJournal = [r \in {10} |-> inputs] /\ RegisterJournal' = [r \in {10} |-> Append(inputs, e)]
    BY <1>1, <1>4, <1>2 DEF RegisterJournal
  <1>7. /\ RegisterValue[10] = <<>> /\ RegisterValue'[10] = <<>>
        /\ RegisterJournal[10] = inputs /\ RegisterJournal'[10] = Append(inputs, e)
    BY <1>2, <1>5, <1>6
  <1>8. /\ R!Added(RegisterJournal[10], RegisterJournal'[10]) = <<e>> /\ inputs \o <<e>> = Append(inputs, e)
        /\ R!Added(RegisterValue[10], RegisterValue'[10]) = <<>>
    <2>1. R!Added(inputs, Append(inputs, e)) = <<e>> /\ inputs \o <<e>> = Append(inputs, e)
      BY <1>2, <1>3, AddedToEnd
    <2>2. R!Added(<<>>, <<>>) = <<>>
      <3>1. <<>> \in Seq(ExtendElement) OBVIOUS
      <3> QED BY <3>1, <1>3, AddedToEnd
    <2> QED BY <2>1, <2>2, <1>7
  <1>9. Grows(<<e>>, <<>>)
    <2>1. <<>> # NotPrinted
      <3>1. <<>> \in Seq(ExtendElement) OBVIOUS
      <3> QED BY <3>1, NeverUnset
    <2>2. R!Accounts(inputs \o <<e>>, <<>> \o <<>>) BY DEF R!Accounts, R!Elements
    <2>3. /\ RegisterJournal' = [RegisterJournal EXCEPT ![10] = inputs \o <<e>>]
          /\ RegisterValue' = [RegisterValue EXCEPT ![10] = <<>> \o <<>>]
      <3>1. <<>> \o <<>> = <<>> OBVIOUS
      <3> QED BY <3>1, <1>2, <1>5, <1>6, <1>8, OneRegister
    <2>4. RegisterShown = {} /\ RegisterShown' = {} BY <1>1, <1>2 DEF RegisterShown
    <2> QED BY <2>1, <2>2, <2>3, <2>4, <1>7, Zenon DEF Grows
  <1> QED BY <1>8, <1>9, GrowsIsNext

LEMMA ExtendGrows ==
  ASSUME ExtendSound, Extend, ~Overrun
  PROVE  R!AbsNext
  <1> DEFINE e == Head(inputs)
             rest == Tail(inputs)
             whole == pcr \o inputs
  <1>1. /\ at = "extend" /\ inputs # <<>> /\ pcr' = Append(pcr, e) /\ inputs' = rest
        /\ UNCHANGED <<line, tokens, scarce, at, lens, printed, status>> BY DEF Extend
  <1>2. inputs \in Seq(ExtendElement) /\ pcr \in Seq(ExtendElement) /\ printed = NotPrinted
    BY <1>1 DEF ExtendSound
  <1>3. e \in ExtendElement /\ rest \in Seq(ExtendElement) /\ whole \in Seq(ExtendElement) /\ Append(pcr, e) \in Seq(ExtendElement)
    BY <1>1, <1>2
  <1>4. Append(pcr, e) \o rest = whole
    <2> DEFINE u == Append(pcr, e) \o rest
               m == Len(pcr)
               n == Len(inputs)
    <2>1. m \in Nat /\ n \in Nat \ {0} /\ Len(rest) = n - 1 /\ \A k \in 1 .. n - 1 : rest[k] = inputs[k + 1]
      BY <1>1, <1>2
    <2>2. Len(Append(pcr, e)) = m + 1 BY <1>2
    <2>3. u \in Seq(ExtendElement) /\ Len(u) = m + n /\ Len(whole) = m + n
      BY <1>2, <1>3, <2>1, <2>2
    <2>4. ASSUME NEW k \in 1 .. m + n PROVE u[k] = whole[k]
      <3>1. CASE k \in 1 .. m BY <3>1, <1>2, <1>3
      <3>2. CASE k = m + 1
        <4>1. u[k] = e BY <3>2, <1>2, <1>3
        <4>2. whole[k] = inputs[1] BY <3>2, <1>2, <2>1
        <4> QED BY <4>1, <4>2, <1>1, <1>2
      <3>3. CASE k \notin 1 .. m /\ k # m + 1
        <4>1. k - (m + 1) \in 1 .. n - 1 /\ k - m \in 1 .. n /\ (k - (m + 1)) + 1 = k - m
          BY <3>3, <2>1
        <4>2. u[k] = rest[k - (m + 1)] BY <4>1, <2>1, <2>2, <1>2, <1>3
        <4>3. whole[k] = inputs[k - m] BY <4>1, <2>1, <1>2
        <4> QED BY <4>1, <4>2, <4>3, <2>1
      <3> QED BY <3>1, <3>2, <3>3
    <2> HIDE DEF u, whole, m, n
    <2>5. u = whole BY <2>3, <2>4, <1>3
    <2> QED BY <2>5 DEF u
  <1> HIDE DEF e, rest, whole
  <1>5. RegisterValue = [r \in {10} |-> pcr] /\ RegisterValue' = [r \in {10} |-> Append(pcr, e)]
    BY <1>1 DEF RegisterValue
  <1>6. RegisterJournal = [r \in {10} |-> whole] /\ RegisterJournal' = [r \in {10} |-> whole]
    BY <1>1, <1>4 DEF RegisterJournal, whole
  <1>7. /\ RegisterValue[10] = pcr /\ RegisterValue'[10] = Append(pcr, e)
        /\ RegisterJournal[10] = whole /\ RegisterJournal'[10] = whole BY <1>5, <1>6
  <1>8. /\ R!Added(RegisterValue[10], RegisterValue'[10]) = <<e>> /\ pcr \o <<e>> = Append(pcr, e)
        /\ R!Added(RegisterJournal[10], RegisterJournal'[10]) = <<>> /\ whole \o <<>> = whole
    <2>1. R!Added(pcr, Append(pcr, e)) = <<e>> /\ pcr \o <<e>> = Append(pcr, e)
      BY <1>2, <1>3, AddedToEnd
    <2>2. R!Added(whole, whole) = <<>> /\ whole \o <<>> = whole BY <1>3, AddedToEnd
    <2> QED BY <2>1, <2>2, <1>7
  <1>9. Grows(<<>>, <<e>>)
    <2>1. pcr # NotPrinted BY <1>2, NeverUnset
    <2>2. R!Accounts(whole \o <<>>, pcr \o <<e>>)
      <3>1. R!Accounts(Append(pcr, e) \o rest, Append(pcr, e)) BY <1>3, TimesInPrefix
      <3> QED BY <3>1, <1>4, <1>8
    <2>3. /\ RegisterJournal' = [RegisterJournal EXCEPT ![10] = whole \o <<>>]
          /\ RegisterValue' = [RegisterValue EXCEPT ![10] = pcr \o <<e>>]
      BY <1>5, <1>6, <1>8, OneRegister
    <2>4. RegisterShown = {} /\ RegisterShown' = {} BY <1>1, <1>2 DEF RegisterShown
    <2> QED BY <2>1, <2>2, <2>3, <2>4, <1>7, Zenon DEF Grows
  <1> QED BY <1>8, <1>9, GrowsIsNext

LEMMA StartResets == ASSUME ExtendSound, StartExtend PROVE R!AbsNext
  <1>1. /\ at = "waiting" /\ at' = "parse" /\ pcr = <<>> /\ UNCHANGED <<pcr, inputs, printed>>
    BY DEF StartExtend, ExtendSound
  <1>2. RegisterValue = [r \in {10} |-> NotPrinted] /\ RegisterValue' = [r \in {10} |-> <<>>]
    BY <1>1 DEF RegisterValue
  <1>3. RegisterValue[10] = NotPrinted /\ RegisterValue' = [RegisterValue EXCEPT ![10] = <<>>]
    BY <1>2, OneRegister
  <1>4. UNCHANGED <<RegisterJournal, RegisterShown>>
    BY <1>1 DEF RegisterJournal, RegisterShown
  <1>5. R!Reset(10)
    BY <1>3, <1>4, Zenon DEF R!Reset, RegisterValue, RegisterJournal, RegisterShown
  <1> QED BY <1>5, Zenon DEF R!AbsNext

LEMMA PrintShows == ASSUME ExtendSound, PrintPcr PROVE R!AbsNext
  <1>1. /\ at = "extend" /\ at' = "exited" /\ inputs = <<>> /\ pcr \in Seq(ExtendElement) /\ printed = NotPrinted
        /\ printed' = pcr /\ UNCHANGED <<pcr, inputs>> BY DEF PrintPcr, ExtendSound
  <1>2. RegisterValue = [r \in {10} |-> pcr] /\ UNCHANGED RegisterValue
    BY <1>1 DEF RegisterValue
  <1>3. UNCHANGED RegisterJournal BY <1>1 DEF RegisterJournal
  <1>4. RegisterJournal[10] = pcr /\ RegisterValue[10] = pcr
    <2>1. pcr \o inputs = pcr BY <1>1
    <2> QED BY <2>1, <1>2, OneRegister DEF RegisterJournal
  <1>5. pcr # NotPrinted BY <1>1, NeverUnset
  <1>6. RegisterShown = {} /\ RegisterShown' = {10} BY <1>1, <1>5 DEF RegisterShown
  <1>7. R!Balanced(pcr, pcr)
    <2>1. R!Accounts(pcr \o <<>>, pcr)
      <3>1. <<>> \in Seq(ExtendElement) /\ pcr \in Seq(ExtendElement) BY <1>1
      <3> QED BY <3>1, TimesInPrefix
    <2>2. pcr \o <<>> = pcr BY <1>1
    <2> QED BY <2>1, <2>2 DEF R!Balanced
  <1>8. R!Publish({10})
    <2>1. \A r \in {10} : RegisterValue[r] # NotPrinted /\ R!Balanced(RegisterValue[r], RegisterJournal[r])
      BY <1>4, <1>5, <1>7
    <2>2. RegisterShown' = RegisterShown \cup {10} BY <1>6
    <2> QED BY <2>1, <2>2, <1>2, <1>3, Zenon DEF R!Publish, RegisterValue, RegisterJournal, RegisterShown
  <1> QED BY <1>8, Zenon DEF R!AbsNext

LEMMA RegisterStep ==
  ASSUME ExtendSound, [Next]_vars
  PROVE  [Overrun' \/ R!AbsNext]_(R!absVars)
  <1>1. ASSUME UNCHANGED <<pcr, inputs, printed>>, at' = at \/ (at # "waiting" /\ at' # "waiting")
        PROVE  UNCHANGED R!absVars
    <2>1. UNCHANGED <<RegisterValue, RegisterJournal, RegisterShown>>
      BY <1>1 DEF RegisterValue, RegisterJournal, RegisterShown
    <2> QED BY <2>1, Zenon DEF R!absVars, RegisterValue, RegisterJournal, RegisterShown
  <1>2. CASE Calculate BY <1>1, <1>2 DEF Calculate, extendVars
  <1>3. CASE StartExtend BY <1>3, StartResets
  <1>4. CASE Simulate
    <2>1. CASE Leave \/ Abort
      <3>1. at # "waiting"
        BY <1>4 DEF Simulate, SimulateExtend, StopParsing, TakeIn, TakeToken, TokensDone, LineDone, Extend, PrintPcr,
                    ExtendFails, ReadingLine, Overrun
      <3> QED BY <2>1, <3>1, <1>1 DEF Leave, Abort
    <2>2. CASE StopParsing \/ ExtendFails BY <2>1, <2>2 DEF StopParsing, ExtendFails
    <2>3. CASE TakeIn \/ TokensDone \/ LineDone
      BY <2>1, <2>3, <1>1 DEF TakeIn, TokensDone, LineDone, ReadingLine
    <2>4. CASE TakeToken BY <2>1, <2>4, TakeTokenGrows
    <2>5. CASE Extend
      <3>1. CASE Overrun BY <2>5, <3>1 DEF Extend, Overrun
      <3>2. CASE ~Overrun BY <2>5, <3>2, ExtendGrows
      <3> QED BY <3>1, <3>2
    <2>6. CASE PrintPcr BY <2>6, PrintShows
    <2> QED BY <1>4, <2>2, <2>3, <2>4, <2>5, <2>6 DEF Simulate, SimulateExtend
  <1>5. CASE UNCHANGED vars BY <1>1, <1>5 DEF vars
  <1> QED BY <1>2, <1>3, <1>4, <1>5 DEF Next, Terminated

\* pcr-extend implements a register with a journal: every digest it is given
\* is extended once and in its order, and the register is printed when all are,
\* as long as the lengths fit (pcr-extend/main.c:43-89).
THEOREM ImplementsRegister == Spec => ImplementsRegisters
  <1>1. Init => R!AbsInit \/ at # "waiting"
    <2> SUFFICES ASSUME Init, at = "waiting" PROVE R!AbsInit OBVIOUS
    <2>1. pcr = <<>> /\ inputs = <<>> /\ printed = NotPrinted
      BY DEF Init, ExtendInit, Unextended
    <2>2. pcr \o inputs = <<>> BY <2>1
    <2>3. RegisterValue = [r \in {10} |-> NotPrinted] /\ RegisterJournal = [r \in {10} |-> <<>>] /\ RegisterShown = {}
      BY <2>1, <2>2 DEF RegisterValue, RegisterJournal, RegisterShown
    <2> QED BY <2>3, Zenon DEF R!AbsInit, RegisterValue, RegisterJournal, RegisterShown
  <1>2. ExtendSound /\ [Next]_vars => [Overrun' \/ R!AbsNext]_(R!absVars) BY RegisterStep
  <1> QED BY <1>1, <1>2, ImaInvariants, PTL DEF Spec, ImplementsRegisters
=============================================================================
