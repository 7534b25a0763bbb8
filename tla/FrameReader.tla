---------------------------- MODULE FrameReader ----------------------------
(***************************************************************************)
(* The frames of protocol.go as bytes: who writes them (StreamWriter), who *)
(* reads them from a stream (readFrameFlags under httpStream.Recv), and    *)
(* who reads them from a slice (countFrames, readSingleFrame in Dispatch). *)
(*                                                                         *)
(* Framing and Negotiation talk of frames; here a body is any sequence of  *)
(* bytes, a foreign server's as well, and the consumer may go on calling   *)
(* Recv after it was told the end or an error.  A byte is a digit below    *)
(* Base, of which the flags need two bits.                                 *)
(***************************************************************************)
EXTENDS Integers, Sequences

CONSTANTS Base,              \* values of a byte, 256 in the code
          MaxMessageBytes,   \* DefaultMaxMessageBytes
          Bodies,            \* response bodies of a foreign server, and request bodies
          Payloads,          \* what the StreamWriter's user may write
          Codes,             \* what it may end the stream with
          MaxWrites,         \* bound on the calls of Write
          MaxRecv            \* bound on the calls of Recv

ASSUME BaseAssumption == Base \in Nat /\ Base >= 4
ASSUME CodesAssumption == Codes \subseteq 0..(Base - 1)

Byte == 0..(Base - 1)

\* What make([]byte, n) and []byte hold; the cap is far below what a length can say.
ASSUME BytesAssumption == Bodies \subseteq Seq(Byte) /\ Payloads \subseteq Seq(Byte)
ASSUME CapAssumption == MaxMessageBytes \in 1..(Base * Base * Base * Base - 1)

VARIABLES
  foreign,  \* whether another server wrote the body, and not a StreamWriter
  wire,     \* the bytes of the body so far
  conn,     \* "up", "eof" (the body ends here), "reset"
  wend,     \* StreamWriter.end
  written,  \* history: the payloads it was given, and the code it was ended with
  pos,      \* how many bytes have been read
  ended,    \* httpStream.ended
  log       \* history: the results of Recv

vars == << foreign, wire, conn, wend, written, pos, ended, log >>

-----------------------------------------------------------------------------
(* A frame: one byte of flags, four of length, the payload.                *)

HeaderBytes == 5

shift(n) == n \div Base   \* n >> 8

PutUint32(n) ==
  << shift(shift(shift(n))) % Base, shift(shift(n)) % Base, shift(n) % Base, n % Base >>
Uint32(b) == ((b[1] * Base + b[2]) * Base + b[3]) * Base + b[4]

Frame(payload, endStream) ==
  << IF endStream THEN 2 ELSE 0 >> \o PutUint32(Len(payload)) \o payload

Compressed(flags) == flags % 2 = 1
EndStream(flags) == (flags \div 2) % 2 = 1

\* gzip stands for a codec that knows its own output by its first byte.
Magic == 3
IsGzip(b) == b # << >> /\ Head(b) = Magic
GzipDecompress(b) == Tail(b)

\* The END payload: nothing for a clean end, otherwise the JSON of an error, for
\* which one byte stands.  What is not such a JSON decodes to a clean end.
EncodeEnd(code) == IF code = 0 THEN << >> ELSE << code >>
DecodeEnd(b) == IF Len(b) = 1 THEN b[1] ELSE 0

-----------------------------------------------------------------------------
(* Reading from a stream whose bytes b are all that is left of it; tail is *)
(* the error behind the last byte, io.EOF or a transport error.            *)

ReadFull(b, want, tail) ==
  IF Len(b) >= want THEN "ok"
  ELSE IF tail = "EOF" /\ b # << >> THEN "unexpected EOF" ELSE tail

Length(b) == Uint32(SubSeq(b, 2, HeaderBytes))
Payload(b) == SubSeq(b, HeaderBytes + 1, HeaderBytes + Length(b))

\* used: how many bytes the reader has consumed when it returns.
readResult(err, used) == [err |-> err, used |-> used, flags |-> 0, payload |-> << >>]

\* Mutation: Read in place of io.ReadFull for the payload, a short one passes.
readFrameFlagsShort(b, tail) ==
  IF Len(b) < HeaderBytes THEN readResult(ReadFull(b, HeaderBytes, tail), Len(b))
  ELSE IF Length(b) > MaxMessageBytes THEN readResult("too large", HeaderBytes)
  ELSE LET p == SubSeq(b, HeaderBytes + 1, Len(b))
           n == IF Len(p) < Length(b) THEN Len(p) ELSE Length(b)
       IN  [readResult("ok", HeaderBytes + n) EXCEPT !.flags = b[1], !.payload = SubSeq(p, 1, n)]

\* Mutation: a payload that is cut short counts as consumed.
readFrameFlagsAhead(b, tail) ==
  IF Len(b) < HeaderBytes THEN readResult(ReadFull(b, HeaderBytes, tail), Len(b))
  ELSE IF Length(b) > MaxMessageBytes THEN readResult("too large", HeaderBytes)
  ELSE IF Len(b) < HeaderBytes + Length(b)
  THEN readResult("unexpected EOF", HeaderBytes + Length(b))
  ELSE [readResult("ok", HeaderBytes + Length(b))
          EXCEPT !.flags = b[1], !.payload = Payload(b)]

readFrameFlags(b, tail) ==
  LET rest == SubSeq(b, HeaderBytes + 1, Len(b))
  IN  IF Len(b) < HeaderBytes THEN readResult(ReadFull(b, HeaderBytes, tail), Len(b))
      ELSE IF Length(b) > MaxMessageBytes THEN readResult("too large", HeaderBytes)
      ELSE IF Len(rest) < Length(b) THEN readResult(ReadFull(rest, Length(b), tail), Len(b))
      ELSE [readResult("ok", HeaderBytes + Length(b))
              EXCEPT !.flags = b[1], !.payload = Payload(b)]

ReadFrameDecompressed(b, tail) ==
  LET r == readFrameFlags(b, tail)
  IN  IF r.err # "ok" \/ ~Compressed(r.flags) THEN r
      ELSE IF IsGzip(r.payload) THEN [r EXCEPT !.payload = GzipDecompress(@)]
      ELSE [r EXCEPT !.err = "corrupt gzip"]

-----------------------------------------------------------------------------
(* Reading a request body that is there as a whole.  A result is           *)
(* [code, value], code 0 for success.                                      *)

Fail(code) == [code |-> code, value |-> << >>]

\* Mutation: off + 5 >= len(body), which takes a last empty frame for a cut one.
countFramesOffByOne(body) ==
  LET from[off \in Nat] ==
        IF off >= Len(body) THEN [code |-> 0, value |-> 0]
        ELSE IF off + HeaderBytes >= Len(body) THEN Fail(13)
        ELSE LET length == Uint32(SubSeq(body, off + 2, off + HeaderBytes))
                 more == from[off + HeaderBytes + length]
             IN  IF length > MaxMessageBytes THEN Fail(8)
                 ELSE IF more.code # 0 THEN more
                 ELSE [more EXCEPT !.value = @ + 1]
  IN  from[0]

countFrames(body) ==
  LET from[off \in Nat] ==
        IF off >= Len(body) THEN [code |-> 0, value |-> 0]
        ELSE IF off + HeaderBytes > Len(body) THEN Fail(13)
        ELSE LET length == Uint32(SubSeq(body, off + 2, off + HeaderBytes))
                 more == from[off + HeaderBytes + length]
             IN  IF length > MaxMessageBytes THEN Fail(8)
                 ELSE IF more.code # 0 THEN more
                 ELSE [more EXCEPT !.value = @ + 1]
  IN  from[0]

\* Mutation: the check for a truncated payload left out.
readSingleFrameUnchecked(body) ==
  IF Len(body) < HeaderBytes THEN Fail(13)
  ELSE IF Length(body) > MaxMessageBytes THEN Fail(8)
  ELSE [code |-> 0, value |-> SubSeq(body, HeaderBytes + 1, Len(body))]

readSingleFrame(body) ==
  IF Len(body) < HeaderBytes THEN Fail(13)
  ELSE IF Length(body) > MaxMessageBytes THEN Fail(8)
  ELSE IF Len(body) < HeaderBytes + Length(body) THEN Fail(13)
  ELSE IF ~Compressed(body[1]) THEN [code |-> 0, value |-> Payload(body)]
  ELSE IF IsGzip(Payload(body)) THEN [code |-> 0, value |-> GzipDecompress(Payload(body))]
  ELSE Fail(13)

\* Mutation: the cap applied to the message instead of the body.
tooLargeMessage(body) == Len(body) > MaxMessageBytes + HeaderBytes

tooLarge(body) == Len(body) > MaxMessageBytes

\* What Dispatch makes of the body of a server-stream request.
requestMessage(body) ==
  LET n == countFrames(body)
  IN  IF tooLarge(body) THEN Fail(8)
      ELSE IF n.code # 0 THEN n
      ELSE IF n.value # 1 THEN Fail(12)
      ELSE readSingleFrame(body)

-----------------------------------------------------------------------------
(* The writer.                                                             *)

\* Either the user of a StreamWriter writes the body, or it is a foreign one.
Init ==
  /\ foreign \in BOOLEAN
  /\ \/ ~foreign /\ wire = << >> /\ conn = "up"
     \/ foreign /\ wire \in Bodies /\ conn \in {"eof", "reset"}
  /\ wend = FALSE /\ written = [payloads |-> << >>, code |-> -1]
  /\ pos = 0 /\ ended = FALSE /\ log = << >>

reader == << pos, ended, log >>

\* w.Write(b): all of it, or a part before the connection fails.
write(b) ==
  \/ wire' = wire \o b /\ UNCHANGED conn
  \/ \E n \in 0..(Len(b) - 1) : wire' = wire \o SubSeq(b, 1, n) /\ conn' \in {"eof", "reset"}

writeOrFail(b) == IF conn = "up" THEN write(b) ELSE UNCHANGED << wire, conn >>

\* Mutation: Write without its test of end.
mayWriteAlways == TRUE

mayWrite == ~wend   \* afterwards Write returns io.ErrClosedPipe

Write(p) ==
  /\ ~foreign /\ mayWrite
  /\ Len(written.payloads) < MaxWrites
  /\ writeOrFail(Frame(p, FALSE))
  /\ written' = [written EXCEPT !.payloads = Append(@, p)]
  /\ UNCHANGED << foreign, wend, reader >>

\* End sets end also when its write fails; a second End does nothing.
End(code) ==
  /\ ~foreign /\ ~wend
  /\ writeOrFail(Frame(EncodeEnd(code), TRUE))
  /\ wend' = TRUE
  /\ written' = [written EXCEPT !.code = code]
  /\ UNCHANGED << foreign, reader >>

\* The handler returns: the body ends.
CloseBody ==
  /\ conn = "up" /\ conn' = "eof"
  /\ UNCHANGED << foreign, wire, wend, written, reader >>

-----------------------------------------------------------------------------
(* The reader.                                                             *)

Result(kind, value) == [kind |-> kind, value |-> value]

left == SubSeq(wire, pos + 1, Len(wire))

\* Mutation: every io.EOF is passed on.
recvErrorTrusting(err) ==
  CASE err = "too large" -> Result("rpc", 8)
    [] err = "corrupt gzip" -> Result("rpc", 13)
    [] err = "EOF" -> Result("eof", 0)
    [] OTHER -> Result("raw", 0)

recvError(err) ==
  CASE err = "too large" -> Result("rpc", 8)
    [] err = "corrupt gzip" -> Result("rpc", 13)
    [] err = "EOF" -> IF ended THEN Result("eof", 0) ELSE Result("rpc", 13)
    [] OTHER -> Result("raw", 0)

\* Recv waits for a whole frame, or for the end of the body.
arrived ==
  \/ conn # "up"
  \/ /\ Len(left) >= HeaderBytes
     /\ Length(left) > MaxMessageBytes \/ Len(left) >= HeaderBytes + Length(left)

Recv ==
  /\ Len(log) < MaxRecv
  /\ arrived
  /\ LET r == ReadFrameDecompressed(left, IF conn = "reset" THEN "reset" ELSE "EOF")
         c == DecodeEnd(r.payload)
         isEnd == r.err = "ok" /\ EndStream(r.flags)
     IN  /\ pos' = pos + r.used
         /\ ended' = (ended \/ isEnd)
         /\ log' = Append(log,
              IF r.err # "ok" THEN recvError(r.err)
              ELSE IF ~isEnd THEN Result("message", r.payload)
              ELSE IF c # 0 THEN Result("rpc", c) ELSE Result("eof", 0))
  /\ UNCHANGED << foreign, wire, conn, wend, written >>

Next ==
  \/ \E p \in Payloads : Write(p)
  \/ \E c \in Codes : End(c)
  \/ CloseBody
  \/ Recv

Spec == Init /\ [][Next]_vars

-----------------------------------------------------------------------------
\* Every variable keeps to its values.
TypeOK ==
  /\ foreign \in BOOLEAN /\ wend \in BOOLEAN /\ ended \in BOOLEAN
  /\ wire \in Seq(Byte) /\ pos \in 0..Len(wire)
  /\ conn \in {"up", "eof", "reset"}
  /\ written.code \in Codes \cup {-1}
  /\ \A i \in DOMAIN log : log[i].kind \in {"message", "eof", "rpc", "raw"}

\* How many messages Recv returned before it returned anything else.
delivered == CHOOSE n \in 0..Len(log) :
  /\ \A i \in 1..n : log[i].kind = "message"
  /\ n < Len(log) => log[n + 1].kind # "message"

\* The place of frame k + 1, if the headers of the frames before it are there.
offset[k \in Nat] ==
  IF k = 0 THEN 0
  ELSE LET before == offset[k - 1]
       IN  IF Len(wire) < before + HeaderBytes THEN before
           ELSE before + HeaderBytes + Length(SubSeq(wire, before + 1, before + HeaderBytes))

\* Whatever a server sends, io.EOF is the first thing Recv returns after the messages
\* only if a whole END frame stood behind them: not at the end of the body, behind a
\* header, or where the connection broke.
EofNeedsEnd ==
  delivered < Len(log) /\ log[delivered + 1].kind = "eof" =>
    /\ Len(wire) >= offset[delivered] + HeaderBytes
    /\ Len(wire) >= offset[delivered + 1]
    /\ EndStream(wire[offset[delivered] + 1])

\* What was written with a StreamWriter is read in order and without gaps, however
\* the writes fail; io.EOF and the code of an error come after all of it, and are those
\* it was ended with.  8 and 13 may also be the reader's own.
WriterRoundTrip ==
  ~foreign =>
    /\ delivered <= Len(written.payloads)
    /\ \A i \in 1..delivered : log[i].value = written.payloads[i]
    /\ delivered < Len(log) =>
         LET verdict == log[delivered + 1]
         IN  verdict.kind = "eof" \/ (verdict.kind = "rpc" /\ verdict.value \notin {8, 13})
               => delivered = Len(written.payloads) /\ written.code = verdict.value

\* A consumer that calls Recv again after the end or after an error gets no more
\* messages, unless the error was an oversized frame, whose payload is still there.
NoMessageAfterVerdict ==
  ~foreign /\ (\A i \in DOMAIN written.payloads : Len(written.payloads[i]) <= MaxMessageBytes)
    => \A i \in DOMAIN log : i > delivered => log[i].kind # "message"

\* Dispatch, which reads a request out of a slice, takes exactly what a reader of the
\* stream would read as one message and nothing behind it.  Its cap is on the body,
\* the frame header counted in, so the largest messages the cap names do not fit.
OneMessageRequests ==
  LET r == ReadFrameDecompressed(wire, "EOF")
      m == requestMessage(wire)
  IN  /\ m.code = 0 <=> r.err = "ok" /\ r.used = Len(wire) /\ Len(wire) <= MaxMessageBytes
      /\ m.code = 0 => m.value = r.payload

-----------------------------------------------------------------------------
(* The request body as Negotiation sees it.                                *)

Negotiation == INSTANCE Negotiation
  WITH Methods <- << >>, CompressMinBytes <- 1, EndSize <- 1

abstractBody ==
  LET from[off \in Nat] ==
        LET b == SubSeq(wire, off + 1, Len(wire))
            more == from[off + HeaderBytes + Length(b)]
            have == IF Len(b) < HeaderBytes + Length(b) THEN Len(b) - HeaderBytes ELSE Length(b)
            f == [len |-> Length(b), have |-> have, flagged |-> Compressed(b[1]),
                  gzip |-> have = Length(b) /\ IsGzip(Payload(b))]
        IN  IF Len(b) < HeaderBytes THEN [frames |-> << >>, extra |-> Len(b), gzip |-> FALSE]
            ELSE [more EXCEPT !.frames = << f >> \o @]
  IN  from[0]

\* The frame-level checks of module Negotiation decide every body of bytes as the
\* code's loops over offsets do.
NegotiationIsExact ==
  LET m == requestMessage(wire)
  IN  /\ Negotiation!BodyBytes(abstractBody) = Len(wire)
      /\ Len(wire) <= MaxMessageBytes => Negotiation!streamBodyError(abstractBody) = m.code
=============================================================================
