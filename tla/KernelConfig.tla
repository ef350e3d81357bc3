----------------------------- MODULE KernelConfig -----------------------------
(***************************************************************************)
(* kernel_config.c: the fields of the setup header that the boot loader    *)
(* writes into the kernel are read from a configuration file and written   *)
(* into the image before it is measured.                                   *)
(*                                                                         *)
(* A line of the file is the field it names with a number.  Here the image *)
(* is its size and the bytes written to it; KernelImage says what becomes  *)
(* of its headers.  A byte has Byte values, a long has LongSize bytes.     *)
(***************************************************************************)
EXTENDS Integers, Sequences

CONSTANTS Files,    \* the configuration files
          None,     \* no file given on the command line
          Absent,   \* no file at the path given
          Byte,     \* the values of a byte: 256
          LongSize  \* sizeof(long): 8

\* kernel_setup_hdr_t: the place and the width of the fields that are written.
\* ramdisk_max behind them is not.
At == [type_of_loader |-> 528, loadflags |-> 529, setup_move_size |-> 530, code32_start |-> 532,
       ramdisk_image |-> 536, ramdisk_size |-> 540, bootsect_kludge |-> 544, heap_end_ptr |-> 548,
       ext_loader_ver |-> 550, ext_loader_type |-> 551, cmd_line_ptr |-> 552]

Width == [type_of_loader |-> 1, loadflags |-> 1, setup_move_size |-> 2, code32_start |-> 4,
          ramdisk_image |-> 4, ramdisk_size |-> 4, bootsect_kludge |-> 4, heap_end_ptr |-> 2,
          ext_loader_ver |-> 1, ext_loader_type |-> 1, cmd_line_ptr |-> 4]

HeaderSize == 560

Field == {"type_of_loader", "loadflags", "setup_move_size", "code32_start", "ramdisk_image",
          "ramdisk_size", "bootsect_kludge", "heap_end_ptr", "ext_loader_ver", "ext_loader_type",
          "cmd_line_ptr"}

Place(f) == At[f] .. At[f] + Width[f] - 1
Written == UNION {Place(f) : f \in Field}

\* var: the field, "unknown" for another name, or "none" for a line that has no
\* name or no value, such as an empty one.  val: the number as it is written,
\* of any size.  lead: the line begins with the sign that separates the two.
Line == [var : Field \cup {"unknown", "none"}, val : Int, lead : BOOLEAN]

ASSUME ByteAssumption == Byte \in Nat /\ Byte > 1
ASSUME LongAssumption == LongSize \in 4 .. 8
ASSUME FilesAssumption == Files \subseteq Seq(Line) \cup {None, Absent} /\ None # Absent

VARIABLES
  file,    \* the configuration file
  size,    \* the size of the image
  step,    \* the next step
  next,    \* the line read next
  config,  \* kernel_setup_hdr of config_t
  patch    \* the bytes written to the image, by their place

kvars == <<file, size, step, next, config, patch>>

ConfigStart ==
  /\ step = "open" /\ next = 1
  /\ config = [f \in Field |-> 0]
  /\ patch = <<>>

ConfigInit == file \in Files /\ size \in Nat /\ ConfigStart

Go(s) == step' = s /\ UNCHANGED <<file, size, next, config, patch>>

-----------------------------------------------------------------------------
(* config_load *)

NoFile == step = "open" /\ file = None /\ Go("measure")
OpenFails == step = "open" /\ file = Absent /\ Go("failed")
Open == step = "open" /\ file \notin {None, Absent} /\ Go("read")

Reading == step = "read" /\ next <= Len(file)

\* What is freed is the name, which strtok finds behind the signs it begins
\* with: not what strdup has returned.
AfterLine(l) == step' = (IF l.lead THEN "crashed" ELSE "read") /\ next' = next + 1

SkipLine ==
  /\ Reading /\ file[next].var = "none"
  /\ AfterLine(file[next])
  /\ UNCHANGED <<file, size, config, patch>>

\* How many values n bytes have.
Values[n \in 0 .. LongSize] == IF n = 0 THEN 1 ELSE Byte * Values[n - 1]

\* strtol: a number beyond a long is the nearest one.
LongEnd == Values[LongSize] \div 2
Strtol(n) == IF n >= LongEnd THEN LongEnd - 1 ELSE IF n < -LongEnd THEN -LongEnd ELSE n

\* [fault] A number that does not fit becomes the largest that does.
SaturatedValue(f, n) == IF n \in 0 .. Values[Width[f]] - 1 THEN n ELSE Values[Width[f]] - 1

\* set_val: the cast cuts the number to the width of the field.
FieldValue(f, n) == Strtol(n) % Values[Width[f]]

SetField ==
  /\ Reading /\ file[next].var \in Field
  /\ config' = [config EXCEPT ![file[next].var] = FieldValue(file[next].var, file[next].val)]
  /\ AfterLine(file[next])
  /\ UNCHANGED <<file, size, patch>>

UnknownField == Reading /\ file[next].var = "unknown" /\ Go("failed")

\* Also where getline fails.
EndOfFile == step = "read" /\ next > Len(file) /\ Go("prepare")

-----------------------------------------------------------------------------
(* config_prepare_kernel_pecoff *)

\* [fault] The fields must begin in the image.
HeaderBegins == size > At["type_of_loader"]

HeaderFits == size >= HeaderSize

ImageTooSmall == step = "prepare" /\ ~HeaderFits /\ Go("failed")

\* A number of the field f as its bytes, the lowest first.
ByteOf(f, p) == (config[f] \div Values[p - At[f]]) % Byte

Patch == [p \in Written |-> ByteOf(CHOOSE f \in Field : p \in Place(f), p)]

Prepare ==
  /\ step = "prepare" /\ HeaderFits
  /\ patch' = Patch
  /\ step' = "measure"
  /\ UNCHANGED <<file, size, next, config>>

-----------------------------------------------------------------------------

ConfigLoad == Open \/ SkipLine \/ SetField \/ EndOfFile

ConfigFails == OpenFails \/ UnknownField \/ ImageTooSmall

ConfigNext == NoFile \/ ConfigLoad \/ ConfigFails \/ Prepare

ConfigSpec == ConfigInit /\ [][ConfigNext]_kvars
=============================================================================
