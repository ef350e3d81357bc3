------------------------------ MODULE PcrExtend ------------------------------
(***************************************************************************)
(* pcr-extend: extends the digests of its command line into a register of  *)
(* zeroes and prints it.  The register is the sequence of what was hashed  *)
(* into it; a digest that was not parsed leaves its buffer uninitialised.  *)
(***************************************************************************)
EXTENDS Integers, Sequences, FiniteSets

CONSTANTS Digest,       \* the digests given on command lines
          FittingLens,  \* the lengths the array for them has room for: its
                        \* size is computed for a narrower type, and the
                        \* smallest block of the allocator is larger
          Garbage,      \* uninitialised bytes
          NoDigest      \* an option without a value

\* The text of a digest: 64 hexadecimal digits; fewer, but whole bytes; of an
\* odd number, after 0X or not hexadecimal; a single character.
Shape == {"sha256", "shorter", "refused", "single"}

Token == [shape : Shape, digest : Digest]

ExtendArgument ==
  [opt : {"in"}, val : Seq(Token)] \cup [opt : {"help", "unknown"}, val : {NoDigest}]

ExtendLabel == {"waiting", "parse", "tokens", "extend", "exited", "crashed"}

ASSUME LengthsAssumption == FittingLens \in Nat

VARIABLES
  line,     \* the arguments not parsed yet
  tokens,   \* the digests of the current argument not parsed yet
  scarce,   \* allocations may fail in this run
  at,       \* the next step
  inputs,   \* inputs[k], with input_lens[k]: whole SHA-256 digest or not
  lens,     \* the number of lengths that were ever written
  pcr,      \* the register
  printed,  \* the register that was printed last, if one was
  status    \* ret, which main sets before it knows how it ends

extendVars == <<line, tokens, scarce, at, inputs, lens, pcr, printed, status>>

Unextended == <<>>
NotPrinted == <<<<"nothing">>>>

ExtendInit ==
  /\ tokens = <<>> /\ inputs = <<>> /\ lens = 0
  /\ pcr = Unextended /\ printed = NotPrinted /\ status = -1

\* The program ends and returns what ret holds.
Leave == at' = "exited" /\ UNCHANGED <<line, tokens, scarce, inputs, lens, pcr, printed, status>>

Abort == at' = "crashed" /\ UNCHANGED <<line, tokens, scarce, inputs, lens, pcr, printed, status>>

ReadingLine == at = "parse" /\ line # <<>>

\* After a digest the status of "help" and of a wrong option is that of the
\* last conversion.
StopParsing == ReadingLine /\ Head(line).opt \in {"help", "unknown"} /\ Leave

TakeIn ==
  /\ ReadingLine /\ Head(line).opt = "in"
  /\ \/ /\ at' = "tokens" /\ tokens' = Head(line).val /\ line' = Tail(line)
        /\ UNCHANGED <<scarce, inputs, lens, pcr, printed, status>>
     \/ scarce /\ Leave

\* convert_hex_to_bin leaves the buffer as it is when it refuses the text.
Converted(t) == IF t.shape = "refused" THEN <<"refused", Garbage>> ELSE <<t.shape, t.digest>>

\* [fault] A digest replaces the one in front of it.
TakeTokenLast ==
  /\ at = "tokens" /\ tokens # <<>> /\ Head(tokens).shape # "single"
  /\ inputs' = <<Converted(Head(tokens))>>
  /\ lens' = lens + 1 /\ tokens' = Tail(tokens)
  /\ status' = 0
  /\ UNCHANGED <<line, scarce, at, pcr, printed>>

\* convert_hex_to_bin asserts two characters; its result is only kept in ret.
TakeToken ==
  /\ at = "tokens" /\ tokens # <<>>
  /\ LET t == Head(tokens)
     IN  \/ /\ t.shape # "single"
            /\ inputs' = Append(inputs, Converted(t))
            /\ lens' = lens + 1
            /\ tokens' = Tail(tokens)
            /\ status' = IF t.shape = "refused" THEN -1 ELSE 0
            /\ UNCHANGED <<line, scarce, at, pcr, printed>>
         \/ t.shape = "single" /\ Abort
         \/ scarce /\ (Leave \/ Abort)

TokensDone ==
  /\ at = "tokens" /\ tokens = <<>> /\ at' = "parse"
  /\ UNCHANGED <<line, tokens, scarce, inputs, lens, pcr, printed, status>>

LineDone ==
  /\ at = "parse" /\ line = <<>> /\ at' = "extend"
  /\ UNCHANGED <<line, tokens, scarce, inputs, lens, pcr, printed, status>>

Overrun == lens > FittingLens

\* A length or an input overwritten by the ones in excess.
Overwritten == <<"refused", Garbage>>

\* hash_extend takes as many bytes of the register as the digest has.
Extend ==
  /\ at = "extend" /\ inputs # <<>>
  /\ \/ pcr' = Append(pcr, Head(inputs))
     \/ Overrun /\ pcr' = <<Overwritten>>
  /\ inputs' = Tail(inputs)
  /\ UNCHANGED <<line, tokens, scarce, at, lens, printed, status>>

PrintPcr ==
  /\ at = "extend" /\ inputs = <<>>
  /\ at' = "exited" /\ printed' = pcr /\ status' = 0
  /\ UNCHANGED <<line, tokens, scarce, inputs, lens, pcr>>

\* hash_extend uses its context, and print_data a digest, without a look at
\* the pointer; overwritten lengths and blocks may end the program anywhere.
ExtendFails ==
  /\ \/ at = "extend" /\ inputs # <<>> /\ scarce
     \/ Overrun /\ at \in {"parse", "tokens", "extend"}
  /\ Abort

SimulateExtend ==
  StopParsing \/ TakeIn \/ TakeToken \/ TokensDone \/ LineDone \/ Extend \/ PrintPcr \/ ExtendFails
=============================================================================
