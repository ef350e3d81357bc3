---------------------------- MODULE LzmaReference ----------------------------
(***************************************************************************)
(* What the decoder has to give: the text the symbols stand for, however   *)
(* it is cut into pieces.                                                  *)
(***************************************************************************)
EXTENDS LzmaStream

-----------------------------------------------------------------------------
(* LZ77 with an unbounded history *)

\* A text that is continued by len bytes from the distance.
Repeated(text, distance, len) ==
  FoldLeft(LAMBDA t, k : Append(t, t[Len(t) + 1 - distance]), text, [k \in 1 .. len |-> k])

Valid(text, distance) == distance <= Len(text) /\ distance <= DicSize

\* The text, the recent distances, and whether the stream goes on behind s.
Step(e, s) ==
  LET distance == IF s.kind = "match" THEN s.arg + 1
                  ELSE IF s.kind = "rep" THEN e.recent[s.arg + 1] ELSE e.recent[1]
      others   == IF s.kind = "match" THEN SubSeq(e.recent, 1, 3) ELSE RemoveAt(e.recent, s.arg + 1)
  IN  IF e.state # "open" THEN e
      ELSE CASE s.kind = "literal" -> [e EXCEPT !.text = Append(@, s.arg)]
             [] s.kind = "end mark" -> [e EXCEPT !.state = "closed"]
             [] s.kind \notin {"literal", "end mark"} /\ ~Valid(e.text, distance) ->
                  [e EXCEPT !.state = "bad"]
             [] s.kind = "short rep" /\ Valid(e.text, distance) ->
                  [e EXCEPT !.text = Repeated(@, distance, 1)]
             [] s.kind \in {"match", "rep"} /\ Valid(e.text, distance) ->
                  [e EXCEPT !.text = Repeated(@, distance, s.len), !.recent = <<distance>> \o others]

\* What the symbols stand for.
Expansion(symbols) ==
  FoldLeft(Step, [text |-> <<>>, recent |-> <<1, 1, 1, 1>>, state |-> "open"], symbols)

\* The symbols whose bytes are all there.
Present ==
  LET upto == CHOOSE k \in 0 .. Len(stream.symbols) :
                /\ BytesOf(SubSeq(stream.symbols, 1, k)) <= stream.size
                /\ k < Len(stream.symbols) =>
                     BytesOf(SubSeq(stream.symbols, 1, k + 1)) > stream.size
  IN  SubSeq(stream.symbols, 1, upto)

Whole == Expansion(stream.symbols)

-----------------------------------------------------------------------------
(* Invariants *)

\* Every field of CLzmaDec keeps its type; what is held back fits into tempBuf.
TypeOK ==
  /\ p.dicPos \in 0 .. Len(p.dic) /\ \A i \in DOMAIN p.dic : p.dic[i] \in Byte \cup {0}
  /\ p.checkDicSize \in {0, p.dicSize} /\ \A k \in 1 .. 4 : p.reps[k] \in Nat \ {0}
  /\ p.remainLen \in 0 .. NeedInit /\ p.tempBufSize \in 0 .. RequiredInputMax
  /\ p.symbol \in 1 .. Len(stream.symbols) + 1
  /\ call.mode \in {"any", "end"} /\ taken \in 0 .. stream.size
  /\ result \in {"", "ok", "input eof", "unsupported", "memory", "data", "fail"}
  /\ delivered \in Seq(Byte \cup {0})

\* However the input and the output are cut, the caller gets the text of the
\* symbols from its beginning, and never a byte that was not written: the
\* dictionary that wraps around at dicBufSize (LzmaDec.c:1025), the rest of a
\* match that did not fit (WriteRem) and the bytes kept in tempBuf lose nothing.
DeliveredIsText == IsPrefix(delivered, Whole.text)

\* Nothing is read beyond the input of the call, and every byte the decoder has
\* taken is decoded or in tempBuf (LzmaDec.c:920-995): the margin of
\* LZMA_REQUIRED_INPUT_MAX bytes is enough for the symbol that is decoded
\* without a trial, and the two internal errors do not happen.
InputAccounted ==
  /\ p.buf <= call.end /\ taken <= call.end /\ result # "fail"
  /\ (pc = "returned" /\ result = "ok" /\ p.remainLen # NeedInit) => taken = p.buf + p.tempBufSize
  /\ status = "needs more input" /\ pc = "returned" => taken = call.end

\* A symbol is not decoded into more than what the dictionary has room for,
\* nor from what was never written (LzmaDec.c:509-541, 1025-1036).
OutputInside ==
  /\ p.dicPos <= Len(p.dic)
  /\ pc \in {"loop", "DecodeReal2", "DecodeReal", "decoded"} => p.dicPos <= call.dicLimit
  /\ p.processedPos <= Len(Whole.text)

\* The decoder keeps to the input of the call, to the buffer for the text and to
\* tempBuf (LzmaDec.c:509-541, 920-1036).
BuffersSound == TypeOK /\ InputAccounted /\ OutputInside

\* LzmaDecode reports success only when the buffer is full or the stream has an
\* end mark; the buffer interface reports the end only when everything in front
\* of it is delivered or ready (LzmaDec.c:901-905, 998-1003, 1235-1237).
SuccessIsComplete ==
  /\ stream.user = "one call" /\ pc = "returned" /\ result = "ok" =>
       Len(delivered) = stream.outSize \/ (Whole.state = "closed" /\ delivered = Whole.text)
  /\ status = "finished with mark" /\ pc = "returned" => delivered = Whole.text

\* A stream is refused with SZ_ERROR_DATA for what is wrong with it: its first
\* byte, a rep in front, a distance beyond the text or the dictionary, an end
\* mark with a code that is not 0, or a text that does not end where its size
\* says (LzmaDec.c:496-499, 616-618, 864, 901-936, 998).
RefusedForReason ==
  result = "data" =>
    \/ ~stream.first
    \/ Expansion(Present).state = "bad"
    \/ Whole.state = "closed" /\ ~Last(stream.symbols).zero
    \/ Len(Expansion(Present).text) > stream.outSize
    \/ \E k \in DOMAIN Present : Len(Expansion(SubSeq(Present, 1, k - 1)).text) = stream.outSize
                                 /\ Present[k].kind # "end mark"

\* Success means the whole text, refusal that something is wrong with the stream
\* (LzmaDec.c:496-499, 864, 901-1003, 1235-1237).
ResultHasReason == SuccessIsComplete /\ RefusedForReason
=============================================================================
