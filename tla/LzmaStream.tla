----------------------------- MODULE LzmaStream -----------------------------
(***************************************************************************)
(* The LZMA decoder of LzmaDec.c, symbol by symbol, in its one call        *)
(* interface (LzmaDecode, that of the firmware volumes) and its buffer     *)
(* interface (LzmaDec_DecodeToBuf), which takes its input and gives its    *)
(* output in pieces.                                                       *)
(*                                                                         *)
(* A stream is the header, the bytes that start the range coder and the    *)
(* symbols the bytes behind them decode to.  A symbol says how many bytes  *)
(* the range coder reads for it; positions in the input are numbers of     *)
(* bytes behind the header.  The sizes of the format are constants, so     *)
(* that small instances reach each limit.                                  *)
(***************************************************************************)
EXTENDS Integers, Sequences, FiniteSets, SequencesExt

CONSTANTS Byte,               \* the bytes literals are of; 0 is not written yet
          Streams,            \* the streams, with the callers of each
          RequiredInputMax,   \* LZMA_REQUIRED_INPUT_MAX
          RcInitSize,         \* RC_INIT_SIZE
          DicMin,             \* LZMA_DIC_MIN
          MatchMinLen,        \* kMatchMinLen
          MatchSpecLenStart   \* kMatchSpecLenStart, beyond every length

Least(x, y) == IF x < y THEN x ELSE y

\* arg: the byte of a literal, the distance of a match, the index of a rep.
\* late: the last byte is read by the normalisation behind the symbol.  zero:
\* the code of the range coder is 0 behind it.
Symbol == [kind : {"literal", "match", "rep", "short rep", "end mark"}, arg : Nat,
           len : {0} \cup (MatchMinLen .. MatchSpecLenStart - 1),
           bytes : 0 .. RequiredInputMax, late : BOOLEAN, zero : BOOLEAN]

\* first: the first byte is 0, as it has to be.  props: lc, lp and pb are in
\* range.  size: the bytes behind the header.  outSize: the size of the result
\* by the header.
Stream == [first : BOOLEAN, zero : BOOLEAN, props : BOOLEAN, dicSize : Nat, outSize : Nat,
           symbols : Seq(Symbol), size : Nat, user : {"one call", "buffer"}, memory : BOOLEAN]

\* The bytes that are left behind the last symbol are no symbol.
BytesOf(ss) == FoldLeft(LAMBDA n, s : n + s.bytes, RcInitSize, ss)

ASSUME StreamsAssumption ==
  /\ Streams \subseteq Stream
  /\ \A s \in Streams :
       \/ s.symbols # <<>> /\ Last(s.symbols).kind = "end mark"
       \/ s.size < BytesOf(s.symbols) + RequiredInputMax

VARIABLES
  stream,    \* the stream to decode
  pc,        \* the next step
  p,         \* the CLzmaDec: buf, symbol (the next one) and its other fields
  call,      \* arguments and locals of LzmaDec_DecodeToDic
  dest,      \* locals of LzmaDec_DecodeToBuf: the room left and where it began
  taken,     \* src, the bytes the decoder has taken
  delivered, \* the bytes the caller has got
  status,    \* *status
  result     \* what the last call has returned, "" before and while it runs

vars == <<stream, pc, p, call, dest, taken, delivered, status, result>>

NoCall == [dicLimit |-> 0, end |-> 0, mode |-> "any", checkEndMark |-> FALSE, limit2 |-> 0,
           bufLimit |-> 0]

NeedInit == MatchSpecLenStart + 2

\* LzmaDec_Construct and LzmaDec_Init.
Init ==
  /\ stream \in Streams
  /\ pc = IF stream.user = "one call" THEN "LzmaDecode" ELSE "LzmaDec_Allocate"
  /\ p = [dic |-> <<>>, dicSize |-> 0, dicPos |-> 0, processedPos |-> 0, checkDicSize |-> 0,
          reps |-> <<1, 1, 1, 1>>, remainLen |-> NeedInit, tempBufSize |-> 0, symbol |-> 1,
          buf |-> 0]
  /\ call = NoCall /\ dest = [room |-> 0, from |-> 0, mode |-> "end"]
  /\ taken = 0 /\ delivered = <<>> /\ status = "not specified" /\ result = ""

Return(r) ==
  /\ result' = r /\ pc' = "returned"
  /\ UNCHANGED <<stream, p, call, dest, taken, delivered, status>>

-----------------------------------------------------------------------------
(* The header and the memory *)

Unsupported == ~stream.props

\* LzmaProps_Decode
DicSize == IF stream.dicSize < DicMin THEN DicMin ELSE stream.dicSize

\* LzmaDec_Allocate rounds the size of its dictionary up; for dictionaries
\* from 4 MB on, to larger blocks.
DicBufSize == ((DicSize + DicMin - 1) \div DicMin) * DicMin

NewDic(size) == [i \in 1 .. size |-> 0]

RefuseInput ==
  /\ \/ pc = "LzmaDecode" /\ stream.size < RcInitSize /\ Return("input eof")
     \/ /\ pc = "LzmaDec_Allocate" \/ (pc = "LzmaDecode" /\ stream.size >= RcInitSize)
        /\ \/ Unsupported /\ Return("unsupported")
           \/ ~Unsupported /\ ~stream.memory /\ Return("memory")

\* LzmaDecode: the buffer of the caller is the dictionary.
LzmaDecode ==
  /\ pc = "LzmaDecode" /\ stream.size >= RcInitSize /\ ~Unsupported /\ stream.memory
  /\ p' = [p EXCEPT !.dic = NewDic(stream.outSize), !.dicSize = DicSize]
  /\ call' = [NoCall EXCEPT !.dicLimit = stream.outSize, !.end = stream.size, !.mode = "end"]
  /\ pc' = "init range coder"
  /\ UNCHANGED <<stream, dest, taken, delivered, status, result>>

LzmaDecAllocate ==
  /\ pc = "LzmaDec_Allocate" /\ ~Unsupported /\ stream.memory
  /\ p' = [p EXCEPT !.dic = NewDic(DicBufSize), !.dicSize = DicSize]
  /\ pc' = "returned" /\ result' = "ok"
  /\ UNCHANGED <<stream, call, dest, taken, delivered, status>>

-----------------------------------------------------------------------------
(* LzmaDec_DecodeToBuf *)

Size == Len(p.dic)

\* The caller goes on until the stream is finished or refused; it asks for the
\* end when its buffer has room for what it knows to be left.
DecodeToBuf ==
  /\ stream.user = "buffer" /\ pc = "returned" /\ result = "ok"
  /\ status # "finished with mark"
  /\ Len(delivered) < stream.outSize \/ (status # "maybe finished" /\ taken < stream.size)
  /\ \E in \in 0 .. stream.size - taken, room \in 1 .. 3 :
       /\ in = 0 => status # "needs more input"
       /\ \E mode \in {"any"} \cup (IF Len(delivered) + room >= stream.outSize THEN {"end"} ELSE {}) :
            dest' = [room |-> room, from |-> 0, mode |-> mode]
       /\ call' = [NoCall EXCEPT !.end = taken + in]
  /\ pc' = "buffer" /\ result' = ""
  /\ UNCHANGED <<stream, p, taken, delivered, status>>

\* The mode of the caller counts when its buffer ends before the dictionary.
DecodeToBufPiece ==
  /\ pc = "buffer"
  /\ LET dicPos == IF p.dicPos = Size THEN 0 ELSE p.dicPos
         wraps  == dest.room > Size - dicPos
     IN  /\ p' = [p EXCEPT !.dicPos = dicPos]
         /\ dest' = [dest EXCEPT !.from = dicPos]
         /\ call' = [call EXCEPT !.dicLimit = IF wraps THEN Size ELSE dicPos + dest.room,
                                 !.mode = IF wraps THEN "any" ELSE dest.mode,
                                 !.checkEndMark = FALSE]
  /\ pc' = "init range coder"
  /\ UNCHANGED <<stream, taken, delivered, status, result>>

\* LzmaDec_DecodeToDic returns r; LzmaDecode has no result for a stream that
\* ends too early, its caller sees the dictionary.
Give(r) ==
  LET piece == SubSeq(p'.dic, dest.from + 1, p'.dicPos)
      left  == dest.room - Len(piece)
  IN  /\ delivered' = delivered \o piece
      /\ dest' = [dest EXCEPT !.room = left]
      /\ CASE stream.user = "one call" ->
                /\ pc' = "returned"
                /\ result' = IF r = "ok" /\ status' = "needs more input" THEN "input eof" ELSE r
           [] stream.user = "buffer" /\ r = "ok" /\ piece # <<>> /\ left # 0 ->
                pc' = "buffer" /\ UNCHANGED result
           [] OTHER -> pc' = "returned" /\ result' = r
      /\ UNCHANGED <<stream, call>>

-----------------------------------------------------------------------------
(* LzmaDec_WriteRem and the copy of a match *)

\* [fault] A distance up to the position itself wraps around.
CopyByteAround(q) ==
  LET at == q.dicPos - q.reps[1] + (IF q.dicPos <= q.reps[1] THEN Len(q.dic) ELSE 0)
  IN  [q EXCEPT !.dic[q.dicPos + 1] = IF at < Len(q.dic) THEN q.dic[at + 1] ELSE 0,
                !.dicPos = @ + 1, !.processedPos = @ + 1]

\* A byte copied from the distance rep0, which may lie behind the end of the
\* dictionary.
CopyByte(q) ==
  LET at == q.dicPos - q.reps[1] + (IF q.dicPos < q.reps[1] THEN Len(q.dic) ELSE 0)
  IN  [q EXCEPT !.dic[q.dicPos + 1] = q.dic[at + 1], !.dicPos = @ + 1, !.processedPos = @ + 1]

Copied(q, len) == FoldLeft(LAMBDA r, k : CopyByte(r), q, [k \in 1 .. len |-> k])

\* checkDicSize is the size of the dictionary as soon as it is full.
Checked(q, full) == IF q.checkDicSize = 0 /\ full THEN [q EXCEPT !.checkDicSize = q.dicSize] ELSE q

\* LzmaDec_WriteRem
Written(q, limit) ==
  IF q.remainLen = 0 \/ q.remainLen >= MatchSpecLenStart THEN q
  ELSE LET len == Least(q.remainLen, limit - q.dicPos)
       IN  [Copied(Checked(q, q.dicSize - q.processedPos <= len), len) EXCEPT !.remainLen = @ - len]

-----------------------------------------------------------------------------
(* LzmaDec_DecodeToDic *)

Available == call.end - taken

\* Whether the code of the range coder is 0.
CodeZero == IF p.symbol = 1 THEN stream.zero ELSE stream.symbols[p.symbol - 1].zero

Finished == p.remainLen = MatchSpecLenStart

Stop(r, s) == status' = s /\ p' = p /\ taken' = taken /\ Give(r)

NeedInput(q, bytes) ==
  /\ p' = q /\ taken' = taken + bytes /\ status' = "needs more input" /\ Give("ok")

InitRangeCoder ==
  /\ pc = "init range coder" /\ p.remainLen > MatchSpecLenStart
  /\ LET n == Least(Available, RcInitSize - p.tempBufSize)
         q == [p EXCEPT !.tempBufSize = @ + n]
     IN  \/ /\ q.tempBufSize # 0 /\ ~stream.first
            /\ p' = q /\ taken' = taken + n /\ status' = "not specified" /\ Give("data")
         \/ /\ q.tempBufSize = 0 \/ stream.first
            /\ q.tempBufSize < RcInitSize
            /\ NeedInput(q, n)
         \/ /\ stream.first /\ q.tempBufSize = RcInitSize
            /\ p' = [q EXCEPT !.tempBufSize = 0, !.remainLen = 0, !.buf = RcInitSize,
                              !.reps = <<1, 1, 1, 1>>]
            /\ taken' = taken + n /\ status' = "not specified" /\ pc' = "write rem"
            /\ UNCHANGED <<stream, call, dest, delivered, result>>

SkipInit ==
  /\ pc = "init range coder" /\ p.remainLen <= MatchSpecLenStart
  /\ status' = "not specified" /\ pc' = "write rem"
  /\ UNCHANGED <<stream, p, call, dest, taken, delivered, result>>

WriteRem ==
  /\ pc = "write rem" /\ pc' = "loop" /\ p' = Written(p, call.dicLimit)
  /\ UNCHANGED <<stream, call, dest, taken, delivered, status, result>>

EndMark ==
  /\ pc = "loop" /\ Finished
  /\ \/ CodeZero /\ Stop("ok", "finished with mark")
     \/ ~CodeZero /\ Stop("data", status)

AtLimit == pc = "loop" /\ ~Finished /\ p.dicPos >= call.dicLimit

MaybeFinished == p.remainLen = 0 /\ CodeZero

LimitReached ==
  /\ AtLimit
  /\ \/ MaybeFinished /\ Stop("ok", "maybe finished")
     \/ /\ ~MaybeFinished
        /\ \/ call.mode = "any" /\ Stop("ok", "not finished")
           \/ call.mode = "end" /\ p.remainLen # 0 /\ Stop("data", "not finished")

MustEnd == AtLimit /\ ~MaybeFinished /\ call.mode = "end" /\ p.remainLen = 0

\* What LzmaDec_TryDummy finds in the next n bytes.
TryDummy(n) ==
  IF p.symbol > Len(stream.symbols) \/ stream.symbols[p.symbol].bytes > n THEN "error"
  ELSE IF stream.symbols[p.symbol].kind \in {"match", "end mark"} THEN "match"
  ELSE "other"

\* [fault] Without the margin.
BulkLimitOfInput == call.end - 1

\* From here on a symbol may read beyond the input.
BulkLimit == call.end - RequiredInputMax

\* The next symbols are decoded from the input, or the next one from tempBuf,
\* filled up.  Without REQUIRED_INPUT_MAX bytes it is tried first.
DecodeNext ==
  /\ pc = "loop" /\ ~Finished /\ (MustEnd \/ p.dicPos < call.dicLimit)
  /\ LET fresh == p.tempBufSize = 0
         ahead == Least(RequiredInputMax - p.tempBufSize, Available)
         bytes == IF fresh THEN Available ELSE p.tempBufSize + ahead
         tried == bytes < RequiredInputMax \/ MustEnd
         dummy == IF tried THEN TryDummy(bytes) ELSE "match"
     IN  \/ /\ dummy = "error"
            /\ NeedInput([p EXCEPT !.tempBufSize = bytes], IF fresh THEN Available ELSE ahead)
         \/ dummy = "other" /\ MustEnd /\ Stop("data", "not finished")
         \/ /\ dummy = "match" \/ (dummy = "other" /\ ~MustEnd)
            /\ p' = IF fresh THEN [p EXCEPT !.buf = taken]
                    ELSE [p EXCEPT !.buf = taken - p.tempBufSize, !.tempBufSize = bytes]
            /\ call' = [call EXCEPT !.bufLimit = IF fresh /\ ~tried THEN BulkLimit
                                                 ELSE p'.buf]
            /\ pc' = "DecodeReal2"
            /\ UNCHANGED <<stream, dest, taken, delivered, status, result>>

-----------------------------------------------------------------------------
(* LzmaDec_DecodeReal2 *)

IsRep(s) == s.kind \in {"rep", "short rep"}

\* The first symbol must not be a rep: the code is not below kBadRepCode.
BadRep == p.checkDicSize = 0 /\ p.processedPos = 0 /\ IsRep(stream.symbols[p.symbol])

\* [fault] The decoding goes on when the dictionary is full.
DecodeReal2Beyond ==
  /\ pc = "DecodeReal2"
  /\ \/ BadRep /\ Stop("data", status)
     \/ /\ ~BadRep
        /\ call' = [call EXCEPT !.limit2 = call.dicLimit]
        /\ pc' = "DecodeReal"
        /\ UNCHANGED <<stream, p, dest, taken, delivered, status, result>>

\* The decoding stops when the dictionary is full for the first time, as from
\* then on other distances are valid.
DecodeReal2 ==
  /\ pc = "DecodeReal2"
  /\ \/ BadRep /\ Stop("data", status)
     \/ /\ ~BadRep
        /\ call' = [call EXCEPT !.limit2 = IF p.checkDicSize # 0 THEN call.dicLimit
                                           ELSE Least(call.dicLimit, p.dicPos + p.dicSize - p.processedPos)]
        /\ pc' = "DecodeReal"
        /\ UNCHANGED <<stream, p, dest, taken, delivered, status, result>>

\* The recent distances behind a rep of index k and behind a match.
ToFront(reps, k) == <<reps[k + 1]>> \o RemoveAt(reps, k + 1)
Pushed(reps, distance) == <<distance + 1>> \o SubSeq(reps, 1, 3)

\* What a distance may reach.
History == IF p.checkDicSize = 0 THEN p.processedPos ELSE p.checkDicSize

\* [fault] The distance that is one less than the one in the stream.
BadDistanceEarly(s) == s.kind = "match" /\ s.arg + 1 >= History

BadDistance(s) == s.kind = "match" /\ s.arg >= History

\* The CLzmaDec behind the next symbol, which is no error.
After(s) ==
  LET next == [p EXCEPT !.symbol = @ + 1, !.buf = @ + s.bytes]
      reps == IF s.kind = "match" THEN Pushed(p.reps, s.arg)
              ELSE IF s.kind = "rep" THEN ToFront(p.reps, s.arg) ELSE p.reps
      now  == Least(s.len, call.limit2 - p.dicPos)
  IN  CASE s.kind = "literal" ->
             [next EXCEPT !.dic[p.dicPos + 1] = s.arg, !.dicPos = @ + 1, !.processedPos = @ + 1]
        [] s.kind = "short rep" -> CopyByte(next)
        [] s.kind = "end mark" -> [next EXCEPT !.remainLen = MatchSpecLenStart]
        [] OTHER -> [Copied([next EXCEPT !.reps = reps], now) EXCEPT !.remainLen = s.len - now]

\* The bytes that are read when the limit is compared: the code is normalised
\* behind it.
ReadBytes(s, buf) == IF s.late THEN buf - 1 ELSE buf

\* A turn of the loop of LzmaDec_DecodeReal; one that continues does not look at
\* the rest of a match, which is 0 there.
DecodeReal ==
  /\ pc = "DecodeReal"
  /\ LET s   == stream.symbols[p.symbol]
         bad == \/ BadDistance(s)
                \/ s.kind \in {"match", "rep"} /\ p.dicPos = call.limit2
     IN  \/ bad /\ Stop("data", status)
         \/ /\ ~bad
            /\ p' = After(s)
            /\ pc' = IF /\ s.kind # "end mark" /\ p'.dicPos < call.limit2
                        /\ ReadBytes(s, p'.buf) < call.bufLimit
                     THEN "DecodeReal" ELSE "decoded"
            /\ UNCHANGED <<stream, call, dest, taken, delivered, status, result>>

\* The rest of DecodeReal2, and of the loop of DecodeToDic, with its two checks
\* of what was read from tempBuf.
InternalError(q) ==
  p.tempBufSize # 0 /\ (q.buf > call.bufLimit + p.tempBufSize \/ q.buf < taken)

Decoded ==
  /\ pc = "decoded"
  /\ LET q == Written(Checked(p, p.processedPos >= p.dicSize), call.dicLimit)
     IN  \/ /\ q.dicPos < call.dicLimit /\ q.buf < call.bufLimit /\ q.remainLen < MatchSpecLenStart
            /\ p' = q /\ pc' = "DecodeReal2"
            /\ UNCHANGED <<stream, call, dest, taken, delivered, status, result>>
         \/ /\ q.dicPos >= call.dicLimit \/ q.buf >= call.bufLimit \/ q.remainLen = MatchSpecLenStart
            /\ IF InternalError(q) THEN Stop("fail", status)
               ELSE /\ p' = [q EXCEPT !.tempBufSize = 0] /\ taken' = q.buf /\ pc' = "loop"
                    /\ UNCHANGED <<stream, call, dest, delivered, status, result>>

-----------------------------------------------------------------------------

Decoder ==
  \/ RefuseInput \/ LzmaDecode \/ LzmaDecAllocate \/ DecodeToBufPiece
  \/ InitRangeCoder \/ SkipInit \/ WriteRem \/ EndMark \/ LimitReached \/ DecodeNext
  \/ DecodeReal2 \/ DecodeReal \/ Decoded

Terminated == pc = "returned" /\ UNCHANGED vars

Next == DecodeToBuf \/ Decoder \/ Terminated

Spec == Init /\ [][Next]_vars
=============================================================================
