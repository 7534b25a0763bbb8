-------------------------- MODULE StreamCallProofs --------------------------
(***************************************************************************)
(* Safety of a server-stream call for every value of the constants: any    *)
(* messages, errors, requests, keys and bounds.                            *)
(***************************************************************************)
EXTENDS StreamCall, CommonProofs

(* Frames. *)

\* The frames emit writes for the message p, and the END frames.
FramesOf(p) == { Frame(p, FALSE), FrameCompressed(GzipCompress(p)) }
Details == { << >> } \cup { e.details : e \in Errors }
EndFrames == { EndFrame(c, d, t) : c \in Nat, d \in Details, t \in SUBSET TrailerKeys }
MessageFrames == UNION { FramesOf(p) : p \in Payloads }
Frames == MessageFrames \cup EndFrames

LEMMA MessageFrameIsFrame ==
  ASSUME NEW req, NEW p \in Payloads
  PROVE  /\ messageFrame(req, p) \in FramesOf(p)
         /\ messageFrame(req, p) \in MessageFrames /\ messageFrame(req, p) \in Frames
BY DEF messageFrame, FramesOf, MessageFrames, Frames

LEMMA MessageFrameIsNoEnd ==
  ASSUME NEW p \in Payloads, NEW f \in FramesOf(p)
  PROVE  ~EndStream(f)
BY DEF FramesOf, Frame, FrameCompressed, EndStream

LEMMA EndFrameIsEnd ==
  ASSUME NEW c, NEW d, NEW t
  PROVE  EndStream(EndFrame(c, d, t)) /\ ~Compressed(EndFrame(c, d, t))
BY DEF EndFrame, Frame, EndStream, Compressed

\* A compressed frame carries the message under two layers of gzip: emit compresses
\* it, and so does FrameCompressed.
LEMMA CompressedFrame ==
  ASSUME NEW p \in Payloads
  PROVE  FrameCompressed(GzipCompress(p)) =
           [flags |-> {"compressed"},
            payload |-> [id |-> p.id, size |-> p.size, zsize |-> p.zsize, gz |-> 2]]
<1> DEFINE q(n) == [id |-> p.id, size |-> p.size, zsize |-> p.zsize, gz |-> n]
<1>1. p = q(0)
  BY PayloadsAssumption
<1>2. GzipCompress(q(0)) = q(1) /\ GzipCompress(q(1)) = q(2)
  BY DEF GzipCompress
<1>3. GzipCompress(GzipCompress(p)) = q(2)
  BY <1>1, <1>2
<1>4. Frame(q(2), FALSE) = [flags |-> {}, payload |-> q(2)]
  BY DEF Frame
<1>5. ASSUME NEW x
      PROVE  [[flags |-> {}, payload |-> x] EXCEPT !.flags = @ \cup {"compressed"}]
               = [flags |-> {"compressed"}, payload |-> x]
  <2>1. {} \cup {"compressed"} = {"compressed"}
    OBVIOUS
  <2> QED
    BY <2>1
<1> HIDE DEF q
<1>6. FrameCompressed(GzipCompress(p)) =
        [[flags |-> {}, payload |-> q(2)] EXCEPT !.flags = @ \cup {"compressed"}]
  BY <1>3, <1>4 DEF FrameCompressed
<1> QED
  BY <1>5, <1>6 DEF q

\* The length field of a frame is a number.
LEMMA FrameLength ==
  ASSUME NEW f \in Frames
  PROVE  Len5(f) \in Nat
<1>1. CASE f \in EndFrames
  <2>1. PICK c \in Nat, d \in Details, t \in SUBSET TrailerKeys : f = EndFrame(c, d, t)
    BY <1>1 DEF EndFrames
  <2>2. EndStream(f)
    BY <2>1, EndFrameIsEnd
  <2> QED
    BY <2>2, SizesAssumption DEF Len5
<1>2. CASE f \in MessageFrames
  <2>1. PICK p \in Payloads : f \in FramesOf(p)
    BY <1>2 DEF MessageFrames
  <2>2. p.size \in Nat /\ p.zsize \in Nat
    BY PayloadsAssumption
  <2>3. CASE f = Frame(p, FALSE)
    BY <2>2, <2>3 DEF Frame, Len5, EndStream
  <2>4. CASE f = FrameCompressed(GzipCompress(p))
    BY <2>2, <2>4, CompressedFrame DEF Len5, EndStream
  <2> QED
    BY <2>1, <2>3, <2>4 DEF FramesOf
<1> QED
  BY <1>1, <1>2 DEF Frames

\* A frame of which a part is missing is never read successfully.
LEMMA ShortReadFails ==
  ASSUME NEW f \in Frames, NEW have \in Nat, have < FrameBytes(f)
  PROVE  ReadFrameDecompressed(f, have).err # "ok"
<1>1. Len5(f) \in Nat
  BY FrameLength
<1>2. readFrameFlags(f, have) # "ok"
  <2>1. CASE have < 5
    BY <2>1 DEF readFrameFlags, ReadFull, HeaderBytes
  <2>2. CASE have >= 5
    BY <1>1, <2>2 DEF readFrameFlags, ReadFull, FrameBytes, HeaderBytes
  <2> QED
    BY <2>1, <2>2
<1> QED
  BY <1>2 DEF ReadFrameDecompressed

\* A whole message frame, if it is accepted, yields the message; the message may
\* still carry a layer of compression, but it is that message.
LEMMA ReadMessage ==
  ASSUME NEW p \in Payloads, NEW f \in FramesOf(p),
         ReadFrameDecompressed(f, FrameBytes(f)).err = "ok"
  PROVE  LET r == ReadFrameDecompressed(f, FrameBytes(f))
         IN  ~r.end /\ r.payload.id = p.id /\ r.payload.size = p.size
<1>2. f \in Frames /\ Len5(f) \in Nat
  BY FrameLength DEF Frames, MessageFrames
<1>3. arrived(f, FrameBytes(f)) = f.payload
  BY <1>2 DEF arrived, FrameBytes, HeaderBytes
<1>4. readFrameFlags(f, FrameBytes(f)) = "ok"
  BY DEF ReadFrameDecompressed
<1>5. CASE f = Frame(p, FALSE)
  BY <1>3, <1>4, <1>5 DEF ReadFrameDecompressed, Frame, Compressed, EndStream
<1>6. CASE f = FrameCompressed(GzipCompress(p))
  <2>1. f = [flags |-> {"compressed"},
             payload |-> [id |-> p.id, size |-> p.size, zsize |-> p.zsize, gz |-> 2]]
    BY <1>6, CompressedFrame
  <2>2. GzipDecompress(f.payload) =
          [id |-> p.id, size |-> p.size, zsize |-> p.zsize, gz |-> 1]
    BY <2>1 DEF GzipDecompress
  <2>3. ~EndStream(f) /\ Compressed(f) /\ IsGzip(f.payload)
    BY <2>1 DEF EndStream, Compressed, IsGzip
  <2>4. ReadFrameDecompressed(f, FrameBytes(f)).payload = GzipDecompress(f.payload)
    BY <1>3, <1>4, <2>3 DEF ReadFrameDecompressed
  <2>5. ~ReadFrameDecompressed(f, FrameBytes(f)).end
    BY <1>3, <1>4, <2>3 DEF ReadFrameDecompressed
  <2> QED
    BY <2>2, <2>4, <2>5
<1> QED
  BY <1>5, <1>6 DEF FramesOf

\* A whole END frame is always accepted and yields its JSON.
LEMMA ReadEnd ==
  ASSUME NEW f \in EndFrames
  PROVE  ReadFrameDecompressed(f, FrameBytes(f)) =
           [err |-> "ok", payload |-> f.payload, end |-> TRUE]
<1>0. PICK c \in Nat, d \in Details, t \in SUBSET TrailerKeys : f = EndFrame(c, d, t)
  BY DEF EndFrames
<1>1. EndStream(f) /\ ~Compressed(f)
  BY <1>0, EndFrameIsEnd
<1>2. Len5(f) = EndSize
  BY <1>1 DEF Len5
<1>3. readFrameFlags(f, FrameBytes(f)) = "ok"
  BY <1>2, SizesAssumption DEF readFrameFlags, FrameBytes, HeaderBytes, ReadFull
<1>4. arrived(f, FrameBytes(f)) = f.payload
  BY <1>2, SizesAssumption DEF arrived, FrameBytes, HeaderBytes
<1> QED
  BY <1>1, <1>3, <1>4 DEF ReadFrameDecompressed

-----------------------------------------------------------------------------
(* The inductive invariant.  The wire carries one frame for every message  *)
(* emitted so far, in order, then the END frame once the stream is         *)
(* concluded; a connection that has failed holds a prefix of that.         *)

ServerType ==
  /\ phase \in {"idle", "handler", "returned"}
  /\ ended \in BOOLEAN /\ applied \in BOOLEAN
  /\ hdr \subseteq HeaderKeys /\ early \subseteq HeaderKeys /\ trl \subseteq TrailerKeys
  /\ ctx \in {"live", "done"}
  /\ emits \in Seq(Payloads)
  /\ fate.kind \in {"running", "clean", "error", "reject"} /\ fate.code \in Code
  /\ fate.trailers \subseteq TrailerKeys

ConnType ==
  /\ conn \in {"up", "eof", "reset", "closed"}
  /\ head.keys \subseteq HeaderKeys /\ head.status \in Nat

ClientType ==
  /\ cTrailers \subseteq TrailerKeys
  /\ cl \in {"idle", "connecting", "open", "failed", "closed"}
  /\ pos \in 0..Len(wire)
  /\ cEnded \in BOOLEAN
  /\ result.kind \in {"pending", "eof", "rpc", "raw", "cancelled"}
  /\ result.code \in Code
  /\ timer \in {"off", "armed", "fired", "released"}

concluded == fate.kind \in {"clean", "error"}
EndOf == EndFrame(fate.code, fate.details, fate.trailers)
Received == { ReadFrameDecompressed(f, FrameBytes(f)).payload : f \in MessageFrames }

ServerInv ==
  /\ fate.details \in Details
  /\ fate.kind = "clean" => fate.code = 0 /\ fate.details = << >>
  /\ request = NoRequest => phase = "idle"
  /\ phase = "idle" => emits = << >> /\ fate.kind = "running"
  /\ phase = "handler" => fate.kind # "reject"
  /\ phase = "handler" /\ concluded => ended
  /\ ended => concluded
  /\ phase \in {"idle", "handler"} \/ head.status \in {0, 200, Negotiate(request).status}
  /\ phase \in {"idle", "handler"} => head.status \in {0, 200}

WireInv ==
  /\ wire \in Seq(Frames)
  /\ \A i \in 1..Len(wire) :
       \/ i <= Len(emits) /\ wire[i] = messageFrame(request, emits[i])
       \/ i = Len(emits) + 1 /\ concluded /\ wire[i] = EndOf
  /\ conn = "up" => Len(wire) = Len(emits) + (IF concluded THEN 1 ELSE 0)
  /\ \/ cut = << >>
     \/ /\ conn # "up"
        /\ \E f \in Frames, n \in Nat : n < FrameBytes(f) /\ cut = << [frame |-> f, have |-> n] >>

ClientInv ==
  /\ cl = "idle" => request = NoRequest
  /\ cl \in {"idle", "connecting"} => result = Pending
  /\ got \in Seq(Received)
  /\ Len(got) <= pos
  /\ result = Pending => pos = Len(got) /\ ~cEnded
  /\ result.kind = "pending" => result = Pending
  /\ DeliveredInOrder

\* Where an RPC error comes from, as far as the code it has tells.
Attributed ==
  result.kind = "rpc" =>
    \/ fate.kind = "error" /\ result.code = WireCode(fate.code) /\ Len(got) = Len(emits)
    \/ cl = "failed" /\ result.code = ConnectFromStatus(Negotiate(request).status)
    \/ result.code \in {8, 13}

OutcomeInv ==
  /\ result.kind = "eof" =>
       /\ concluded /\ fate.code = 0 /\ fate.details = << >>
       /\ Len(got) = Len(emits) /\ cTrailers = fate.trailers
  /\ Attributed
  /\ phase = "idle" /\ result.kind = "rpc" => result.code \in {8, 13}
  /\ pos = Len(emits) + 1 =>
       /\ concluded
       /\ result = IF fate.code = 0 /\ fate.details = << >>
                   THEN Result("eof", 0) ELSE Result("rpc", WireCode(fate.code))

IInv ==
  /\ ServerType /\ ConnType /\ ClientType
  /\ ServerInv /\ WireInv /\ ClientInv /\ OutcomeInv

LEMMA IInvTypeOK == IInv => TypeOK
BY DEF IInv, TypeOK, ServerType, ConnType, ClientType

-----------------------------------------------------------------------------
(* What the wire goes through.                                             *)

LEMMA AppendFrame ==
  ASSUME NEW S, NEW s \in Seq(S), NEW x \in S
  PROVE  /\ Append(s, x) \in Seq(S)
         /\ Len(Append(s, x)) = Len(s) + 1
         /\ \A i \in 1..Len(s) : Append(s, x)[i] = s[i]
         /\ Append(s, x)[Len(s) + 1] = x
OBVIOUS

\* Nothing of it changes, except that the body may stop growing.
LEMMA WireStays ==
  ASSUME WireInv, UNCHANGED << request, wire, cut, emits, fate >>,
         conn' = conn \/ conn' # "up"
  PROVE  WireInv'
BY DEF WireInv, concluded, EndOf

\* A message is emitted: it goes to the end of the wire, or nowhere once the
\* connection is gone.
LEMMA WireGetsMessage ==
  ASSUME WireInv, emits \in Seq(Payloads), ~concluded, NEW p \in Payloads, NEW h,
         WriteFrame(h, messageFrame(request, p)), emits' = Append(emits, p),
         UNCHANGED << request, conn, cut, fate >>
  PROVE  WireInv'
<1> USE DEF WireInv
<1>1. /\ emits' \in Seq(Payloads) /\ Len(emits') = Len(emits) + 1
      /\ \A i \in 1..Len(emits) : emits'[i] = emits[i]
      /\ emits'[Len(emits) + 1] = p
  BY AppendFrame
<1>3. ~concluded' /\ EndOf' = EndOf
  BY DEF concluded, EndOf
<1>4. messageFrame(request, p) \in Frames
  BY MessageFrameIsFrame
<1>5. \A i \in 1..Len(wire) : i <= Len(emits) /\ wire[i] = messageFrame(request, emits[i])
  OBVIOUS
<1>6. CASE conn = "up"
  <2>1. wire' = Append(wire, messageFrame(request, p)) /\ Len(wire) = Len(emits)
    BY <1>6 DEF WriteFrame
  <2>2. /\ wire' \in Seq(Frames) /\ Len(wire') = Len(wire) + 1
        /\ \A i \in 1..Len(wire) : wire'[i] = wire[i]
        /\ wire'[Len(wire) + 1] = messageFrame(request, p)
    BY <1>4, <2>1, AppendFrame
  <2>3. \A i \in 1..Len(wire') : i <= Len(emits') /\ wire'[i] = messageFrame(request, emits'[i])
    BY <1>1, <1>5, <2>1, <2>2
  <2> QED
    BY <1>1, <1>3, <1>6, <2>1, <2>2, <2>3
<1>7. CASE conn # "up"
  <2>1. wire' = wire
    BY <1>7 DEF WriteFrame
  <2>2. \A i \in 1..Len(wire') : i <= Len(emits') /\ wire'[i] = messageFrame(request, emits'[i])
    BY <1>1, <1>5, <2>1
  <2> QED
    BY <1>1, <1>3, <1>7, <2>1, <2>2
<1> QED
  BY <1>6, <1>7

\* The stream is concluded by its END frame, and the connection may end with it.
LEMMA WireGetsEnd ==
  ASSUME WireInv, ~concluded, concluded', NEW h, WriteFrame(h, EndOf'), EndOf' \in Frames,
         conn' = conn \/ conn' # "up", UNCHANGED << request, cut, emits >>
  PROVE  WireInv'
<1> USE DEF WireInv
<1>1. \A i \in 1..Len(wire) : i <= Len(emits) /\ wire[i] = messageFrame(request, emits[i])
  OBVIOUS
<1>2. CASE conn = "up"
  <2>1. wire' = Append(wire, EndOf') /\ Len(wire) = Len(emits)
    BY <1>2 DEF WriteFrame
  <2>2. /\ wire' \in Seq(Frames) /\ Len(wire') = Len(wire) + 1
        /\ \A i \in 1..Len(wire) : wire'[i] = wire[i]
        /\ wire'[Len(wire) + 1] = EndOf'
    BY <2>1, AppendFrame
  <2>3. \A i \in 1..Len(wire') :
           \/ i <= Len(emits') /\ wire'[i] = messageFrame(request', emits'[i])
           \/ i = Len(emits') + 1 /\ concluded' /\ wire'[i] = EndOf'
    BY <1>1, <2>1, <2>2
  <2> QED
    BY <1>2, <2>1, <2>2, <2>3
<1>3. CASE conn # "up"
  <2>1. wire' = wire
    BY <1>3 DEF WriteFrame
  <2>2. \A i \in 1..Len(wire') : i <= Len(emits') /\ wire'[i] = messageFrame(request', emits'[i])
    BY <1>1, <2>1
  <2> QED
    BY <1>3, <2>1, <2>2
<1> QED
  BY <1>2, <1>3

\* The connection fails: a prefix of the wire is left, and perhaps a part of the
\* next frame.
LEMMA WireTruncate ==
  ASSUME WireInv, NEW k \in 0..Len(wire), NEW how \in {"eof", "reset"}, Truncate(k, how),
         UNCHANGED << emits, fate >>
  PROVE  WireInv' /\ Len(wire') = k
<1> USE DEF WireInv
<1>1. wire' = SubSeq(wire, 1, k) /\ conn' = how /\ request' = request
  BY DEF Truncate
<1>2. wire' \in Seq(Frames) /\ Len(wire') = k /\ \A i \in 1..k : wire'[i] = wire[i]
  BY <1>1
<1>3. (concluded <=> concluded') /\ EndOf' = EndOf
  BY DEF concluded, EndOf
<1>4. \A i \in 1..Len(wire') :
        \/ i <= Len(emits') /\ wire'[i] = messageFrame(request', emits'[i])
        \/ i = Len(emits') + 1 /\ concluded' /\ wire'[i] = EndOf'
  BY <1>1, <1>2, <1>3
<1>5. \/ cut' = << >>
      \/ \E f \in Frames, n \in Nat : n < FrameBytes(f) /\ cut' = << [frame |-> f, have |-> n] >>
  <2>1. SUFFICES ASSUME k < Len(wire),
                        NEW n \in 1..(FrameBytes(wire[k + 1]) - 1),
                        cut' = << [frame |-> wire[k + 1], have |-> n] >>
                 PROVE  \E f \in Frames, m \in Nat :
                          m < FrameBytes(f) /\ cut' = << [frame |-> f, have |-> m] >>
    BY DEF Truncate
  <2>2. wire[k + 1] \in Frames
    BY <2>1
  <2>3. FrameBytes(wire[k + 1]) \in Nat
    BY <2>2, FrameLength DEF FrameBytes, HeaderBytes
  <2>4. n \in Nat /\ n < FrameBytes(wire[k + 1])
    BY <2>3
  <2> QED
    BY <2>1, <2>2, <2>4
<1> QED
  BY <1>1, <1>2, <1>4, <1>5

-----------------------------------------------------------------------------
(* Dispatch's decisions.                                                   *)

LEMMA Negotiates ==
  ASSUME NEW req
  PROVE  LET n == Negotiate(req)
         IN  /\ n.to \in {"http", "end", "handler"}
             /\ n.code \in Nat /\ n.status \in Nat
             /\ n.to = "end" => n.code # 0
<1> DEFINE Proper(n) == /\ n.to \in {"http", "end", "handler"}
                        /\ n.code \in Nat /\ n.status \in Nat
                        /\ n.to = "end" => n.code # 0
<1>1. streamBodyError(req.body) = 0 \/ streamBodyError(req.body) \in {8, 12, 13}
  BY DEF streamBodyError, countFramesError, readSingleFrameError
<1>2. unaryBodyError(req) = 0 \/ unaryBodyError(req) = 13
  BY DEF unaryBodyError
<1>3. \A c \in {5, 8, 12, 13} : Proper(writeError(c))
  <2>1. \A c \in {5, 8, 12, 13} : HTTPStatus(c) \in Nat
    BY DEF HTTPStatus, StatusTable, KnownCodes
  <2> QED
    BY <2>1 DEF writeError, writeErrorStatus
<1>4. \A c \in {2, 12}, status \in {404, 405, 415} : Proper(writeErrorStatus(c, status))
  BY DEF writeErrorStatus
<1>5. \A c \in {8, 12, 13} : Proper(streamFail(c))
  BY DEF streamFail
<1>6. Proper(runHandler)
  BY DEF runHandler
<1> HIDE DEF Proper
<1>7. Proper(NegotiateStream(req))
  BY <1>1, <1>5, <1>6 DEF NegotiateStream
<1>8. Proper(NegotiateUnary(req))
  BY <1>2, <1>3, <1>6 DEF NegotiateUnary
<1>9. Proper(Negotiate(req))
  <2>1. /\ Proper(writeError(12)) /\ Proper(writeError(8))
        /\ Proper(writeErrorStatus(2, 405)) /\ Proper(writeErrorStatus(12, 404))
        /\ Proper(writeErrorStatus(2, 415))
    BY <1>3, <1>4
  <2> DEFINE served == IF spec(req).serverStream THEN NegotiateStream(req) ELSE NegotiateUnary(req)
             encoded == IF requestEncoding(req) \notin {"", "gzip"} THEN writeError(12) ELSE served
             typed == IF wrongContentType(req) THEN writeErrorStatus(2, 415) ELSE encoded
             known == IF req.path \notin DOMAIN Methods THEN writeErrorStatus(12, 404) ELSE typed
             posted == IF req.httpMethod \notin {"", "POST"} THEN writeErrorStatus(2, 405) ELSE known
  <2>2. Proper(served)
    BY <1>7, <1>8
  <2> HIDE DEF served
  <2>3. Proper(encoded)
    BY <2>1, <2>2
  <2> HIDE DEF encoded
  <2>4. Proper(typed)
    BY <2>1, <2>3
  <2> HIDE DEF typed
  <2>5. Proper(known)
    BY <2>1, <2>4
  <2> HIDE DEF known
  <2>6. Proper(posted)
    BY <2>1, <2>5
  <2> HIDE DEF posted
  <2>7. Negotiate(req) = IF req.version \notin {"", "1"} THEN writeError(12)
                         ELSE IF BodyBytes(req.body) > MaxMessageBytes THEN writeError(8) ELSE posted
    BY DEF Negotiate, posted, known, typed, encoded, served
  <2> QED
    BY <2>1, <2>6, <2>7, ZenonT(30)
<1> QED
  BY <1>9 DEF Proper

LEMMA HandlerErrors ==
  ASSUME NEW err \in Errors
  PROVE  asRPCError(err).code \in Nat /\ asRPCError(err).details \in Details
BY ErrorsAssumption DEF asRPCError, Details

LEMMA ClientStatuses == ASSUME NEW s PROVE ConnectFromStatus(s) \in Nat
BY DEF ConnectFromStatus

LEMMA InitIInv == Init => IInv
<1> SUFFICES ASSUME Init PROVE IInv
  OBVIOUS
<1> USE DEF Init, WireInit, ServerInit, ClientInit
<1>1. ServerType /\ ConnType /\ ClientType
  <2>1. emits \in Seq(Payloads) /\ pos \in 0..Len(wire)
    OBVIOUS
  <2>2. head.keys = {} /\ head.status = 0
    BY DEF NoHead
  <2>3. fate.kind = "running" /\ fate.code = 0 /\ fate.trailers = {}
    BY DEF Fate
  <2>4. result.kind = "pending" /\ result.code = 0
    BY DEF Pending, Result
  <2>5. /\ hdr \subseteq HeaderKeys /\ early \subseteq HeaderKeys
        /\ trl \subseteq TrailerKeys /\ cTrailers \subseteq TrailerKeys
    OBVIOUS
  <2>6. ended \in BOOLEAN /\ applied \in BOOLEAN /\ cEnded \in BOOLEAN
    OBVIOUS
  <2>7. /\ conn \in {"up", "eof", "reset", "closed"} /\ phase \in {"idle", "handler", "returned"}
        /\ ctx \in {"live", "done"} /\ timer \in {"off", "armed", "fired", "released"}
        /\ cl \in {"idle", "connecting", "open", "failed", "closed"}
    OBVIOUS
  <2> QED
    BY <2>1, <2>2, <2>3, <2>4, <2>5, <2>6, <2>7 DEF ServerType, ConnType, ClientType, Code
<1>2. ServerInv
  BY DEF ServerInv, Fate, Details, concluded, NoHead
<1>3. WireInv
  BY DEF WireInv, concluded, Fate
<1>4. ClientInv
  BY DEF ClientInv, DeliveredInOrder
<1>5. OutcomeInv
  BY DEF OutcomeInv, Attributed, Pending, Result
<1> QED
  BY <1>1, <1>2, <1>3, <1>4, <1>5 DEF IInv

-----------------------------------------------------------------------------
(* The steps of the server.                                                *)

\* A step of the server leaves what the client knows valid: it only appends.
LEMMA ClientTypeKept ==
  ASSUME ClientType, UNCHANGED clientVars,
         wire' = wire \/ (Len(wire) \in Nat /\ Len(wire') = Len(wire) + 1)
  PROVE  ClientType'
BY DEF ClientType, clientVars

LEMMA ClientInvKept ==
  ASSUME ClientInv, UNCHANGED << clientVars, request >>, emits \in Seq(Payloads),
         emits' = emits \/ \E p \in Payloads : emits' = Append(emits, p)
  PROVE  ClientInv'
<1>1. /\ Len(emits') >= Len(emits) /\ Len(emits) \in Nat /\ Len(emits') \in Nat
      /\ \A i \in 1..Len(emits) : emits'[i] = emits[i]
  BY AppendFrame
<1>2. Len(got) \in Nat
  BY DEF ClientInv
<1>3. DeliveredInOrder'
  BY <1>1, <1>2 DEF ClientInv, DeliveredInOrder, clientVars
<1> QED
  BY <1>3 DEF ClientInv, clientVars

\* A step that adds nothing to the answer of the server.
LEMMA OutcomeKept ==
  ASSUME OutcomeInv, UNCHANGED << clientVars, request, fate, emits >>,
         phase' = "idle" => phase = "idle"
  PROVE  OutcomeInv'
BY DEF OutcomeInv, clientVars, concluded, Attributed

\* A step that does, while the stream is not concluded.
LEMMA OutcomeGrows ==
  ASSUME OutcomeInv, ~concluded, UNCHANGED << clientVars, request >>,
         phase' = phase \/ phase' # "idle",
         pos \in Nat, Len(emits) \in Nat, Len(emits') \in Nat,
         pos <= Len(emits), Len(emits) <= Len(emits')
  PROVE  OutcomeInv'
<1>1. result.kind # "eof" /\ pos' # Len(emits') + 1 /\ result' = result
  BY DEF OutcomeInv, clientVars
<1>2. Attributed'
  BY DEF OutcomeInv, Attributed, clientVars, concluded
<1>3. phase' = "idle" /\ result'.kind = "rpc" => result'.code \in {8, 13}
  BY <1>1 DEF OutcomeInv
<1> QED
  BY <1>1, <1>2, <1>3 DEF OutcomeInv

\* While the stream is not concluded, every frame of the wire is a message.
LEMMA WireIsBehind ==
  ASSUME WireInv, ClientType, ServerType, ~concluded
  PROVE  /\ pos \in Nat /\ Len(wire) \in Nat /\ Len(emits) \in Nat
         /\ pos <= Len(wire) /\ Len(wire) <= Len(emits)
<1>1. pos \in Nat /\ Len(wire) \in Nat /\ Len(emits) \in Nat /\ pos <= Len(wire)
  BY DEF WireInv, ClientType, ServerType
<1>2. CASE Len(wire) = 0
  BY <1>1, <1>2
<1>3. CASE Len(wire) # 0
  BY <1>1, <1>3 DEF WireInv
<1> QED
  BY <1>1, <1>2, <1>3

\* Steps that write nothing: setting headers and trailers, the end of the context,
\* a panic, the call of the handler.
LEMMA QuietStep ==
  ASSUME IInv, UNCHANGED << clientVars, request, head, wire, cut, emits, fate, ended >>,
         conn' = conn \/ conn' \in {"eof", "reset"},
         \/ phase' = phase
         \/ phase = "idle" /\ phase' = "handler" /\ request # NoRequest
         \/ phase = "handler" /\ phase' = "returned",
         ServerType'
  PROVE  IInv'
<1> USE DEF IInv
<1>1. ConnType' /\ ClientType' /\ ServerType
  BY ClientTypeKept DEF ConnType
<1>2. ServerInv'
  BY <1>1 DEF ServerInv, ServerType, concluded
<1>3. WireInv'
  BY WireStays
<1>4. ClientInv'
  BY <1>1, ClientInvKept DEF ServerType
<1>5. OutcomeInv'
  BY OutcomeKept
<1> QED
  BY <1>1, <1>2, <1>3, <1>4, <1>5

LEMMA RunHandlerStep ==
  ASSUME IInv, UNCHANGED clientVars, phase = "idle", request # NoRequest, NEW n, RunHandler(n)
  PROVE  IInv'
<1>1. ServerType'
  BY DEF IInv, ServerType, RunHandler
<1> QED
  BY <1>1, QuietStep DEF RunHandler, wireVars

LEMMA SetHeaderStep ==
  ASSUME IInv, UNCHANGED clientVars, NEW k \in HeaderKeys, SetHeader(k)
  PROVE  IInv'
<1>1. ServerType'
  BY DEF IInv, ServerType, SetHeader
<1> QED
  BY <1>1, QuietStep DEF SetHeader, wireVars

LEMMA SetTrailerStep ==
  ASSUME IInv, UNCHANGED clientVars, NEW k \in TrailerKeys, SetTrailer(k)
  PROVE  IInv'
<1>1. ServerType'
  BY DEF IInv, ServerType, SetTrailer
<1> QED
  BY <1>1, QuietStep DEF SetTrailer, wireVars

LEMMA PanicStep ==
  ASSUME IInv, UNCHANGED clientVars, Panic
  PROVE  IInv'
<1>1. ServerType'
  BY DEF IInv, ServerType, Panic
<1> QED
  BY <1>1, QuietStep DEF Panic, EndBody

LEMMA ContextDoneStep ==
  ASSUME IInv, UNCHANGED clientVars, ContextDone
  PROVE  IInv'
<1>1. ServerType'
  BY DEF IInv, ServerType, ContextDone
<1> QED
  BY <1>1, QuietStep DEF ContextDone, wireVars

\* emit(p, false): the message is the next frame.
LEMMA EmitStep ==
  ASSUME IInv, UNCHANGED clientVars, NEW p \in Payloads, Emit(p)
  PROVE  IInv'
<1> USE DEF IInv, Emit, applyAndWrite
<1>0. ServerType /\ ConnType /\ ClientType /\ ~concluded /\ request' = request
  BY DEF ServerInv, mayEmit
<1>1. Len(emits) \in Nat /\ Len(emits') = Len(emits) + 1 /\ emits' \in Seq(Payloads)
  BY <1>0, AppendFrame DEF ServerType
<1>2. ServerType'
  BY <1>0, <1>1 DEF ServerType
<1>3. ConnType'
  BY <1>0 DEF ConnType, WriteFrame, ResponseHead, ServerType
<1>4. wire' = wire \/ (Len(wire) \in Nat /\ Len(wire') = Len(wire) + 1)
  BY MessageFrameIsFrame, AppendFrame DEF WriteFrame, WireInv
<1>5. ClientType'
  BY <1>0, <1>4, ClientTypeKept
<1>6. ServerInv'
  BY <1>0 DEF ServerInv, ServerType, concluded, WriteFrame, ResponseHead
<1>7. WireInv'
  BY <1>0, WireGetsMessage DEF ServerType
<1>8. ClientInv'
  BY <1>0, ClientInvKept DEF ServerType
<1>9. OutcomeInv'
  BY <1>0, <1>1, WireIsBehind, OutcomeGrows
<1> QED
  BY <1>2, <1>3, <1>5, <1>6, <1>7, <1>8, <1>9

\* Steps that conclude the stream: an END frame follows the messages.
LEMMA ConcludingStep ==
  ASSUME IInv, UNCHANGED << clientVars, request, emits, cut, hdr, trl, ctx, early >>,
         phase # "returned", ~concluded, request # NoRequest,
         NEW kind \in {"clean", "error"}, NEW c \in Nat, NEW d \in Details,
         kind = "clean" => c = 0 /\ d = << >>,
         fate' = Fate(kind, c, d, trl),
         WriteFrame(ResponseHead(200, hdr), EndFrame(c, d, trl)),
         conn' = conn \/ conn' = "eof",
         ended' \in BOOLEAN, applied' \in BOOLEAN,
         phase' = "returned" \/ (phase' = "handler" /\ ended')
  PROVE  IInv'
<1> USE DEF IInv
<1>0. fate'.kind = kind /\ fate'.code = c /\ fate'.details = d /\ fate'.trailers = trl
  BY DEF Fate
<1>1. ServerType'
  BY <1>0 DEF ServerType, Code
<1>2. EndOf' = EndFrame(c, d, trl) /\ concluded'
  BY <1>0 DEF EndOf, concluded
<1>3. EndOf' \in Frames
  BY <1>2 DEF ServerType, Frames, EndFrames
<1>4. ConnType'
  BY DEF ConnType, WriteFrame, ResponseHead, ServerType
<1>5. ClientType'
  <2>1. wire' = wire \/ (Len(wire) \in Nat /\ Len(wire') = Len(wire) + 1)
    BY <1>2, <1>3, AppendFrame DEF WriteFrame, WireInv
  <2> QED
    BY <2>1, ClientTypeKept
<1>6. ServerInv'
  <2>1. head'.status \in {0, 200}
    BY DEF ServerInv, ServerType, WriteFrame, ResponseHead
  <2> QED
    BY <1>0, <1>2, <2>1 DEF ServerInv
<1>7. WireInv'
  BY <1>2, <1>3, WireGetsEnd
<1>8. ClientInv'
  BY ClientInvKept DEF ServerType
<1>9. OutcomeInv'
  <2>1. Len(emits) \in Nat /\ emits' = emits /\ pos \in Nat /\ pos <= Len(emits)
    BY WireIsBehind
  <2> QED
    BY <2>1, OutcomeGrows
<1> QED
  BY <1>1, <1>4, <1>5, <1>6, <1>7, <1>8, <1>9

LEMMA EmitEndStep ==
  ASSUME IInv, UNCHANGED clientVars, EmitEnd
  PROVE  IInv'
<1>1. phase = "handler" /\ ~concluded /\ request # NoRequest
  BY DEF IInv, ServerInv, EmitEnd, mayEmit
<1>2. << >> \in Details
  BY DEF Details
<1> QED
  BY <1>1, <1>2, ConcludingStep DEF EmitEnd, applyAndWrite

LEMMA ReturnNilStep ==
  ASSUME IInv, UNCHANGED clientVars, ReturnNil
  PROVE  IInv'
<1>1. phase = "handler" /\ phase' = "returned" /\ request # NoRequest
  BY DEF IInv, ServerInv, ReturnNil
<1>2. CASE ended
  <2>1. conn' = conn \/ conn' = "eof"
    BY DEF ReturnNil, EndBody
  <2>2. ServerType'
    BY <1>2 DEF IInv, ServerType, ReturnNil
  <2>3. UNCHANGED << clientVars, request, head, wire, cut, emits, fate, ended >>
    BY <1>2 DEF ReturnNil, IInv, ServerType
  <2> QED
    BY <1>1, <2>1, <2>2, <2>3, QuietStep
<1>3. CASE ~ended
  <2>1. ~concluded /\ << >> \in Details
    BY <1>1, <1>3 DEF IInv, ServerInv, Details
  <2>2. conn' = conn \/ conn' = "eof"
    BY DEF ReturnNil, EndBody
  <2>3. ended' \in BOOLEAN
    BY DEF ReturnNil, IInv, ServerType
  <2> QED
    BY <1>1, <1>3, <2>1, <2>2, <2>3, ConcludingStep DEF ReturnNil, applyAndWrite
<1> QED
  BY <1>2, <1>3

LEMMA ReturnErrorStep ==
  ASSUME IInv, UNCHANGED clientVars, NEW err \in Errors, ReturnError(err)
  PROVE  IInv'
<1>1. phase = "handler" /\ phase' = "returned" /\ request # NoRequest
  BY DEF IInv, ServerInv, ReturnError
<1>2. CASE ended
  <2>1. conn' = conn \/ conn' = "eof"
    BY DEF ReturnError, EndBody
  <2>2. ServerType'
    BY <1>2 DEF IInv, ServerType, ReturnError
  <2>3. UNCHANGED << clientVars, request, head, wire, cut, emits, fate, ended >>
    BY <1>2 DEF ReturnError, IInv, ServerType
  <2> QED
    BY <1>1, <2>1, <2>2, <2>3, QuietStep
<1>3. CASE ~ended
  <2> DEFINE re == asRPCError(err)
  <2>1. ~concluded /\ re.code \in Nat /\ re.details \in Details
    BY <1>1, <1>3, HandlerErrors DEF IInv, ServerInv
  <2>2. conn' = conn \/ conn' = "eof"
    BY DEF ReturnError, EndBody
  <2>3. /\ fate' = Fate("error", re.code, re.details, trl)
        /\ WriteFrame(ResponseHead(200, hdr), EndFrame(re.code, re.details, trl))
        /\ applied' \in BOOLEAN /\ ended' \in BOOLEAN
    BY <1>3 DEF ReturnError, applyAndWrite
  <2>4. UNCHANGED << clientVars, request, emits, cut, hdr, trl, ctx, early >>
    BY DEF ReturnError
  <2> HIDE DEF re
  <2> QED
    BY <1>1, <2>1, <2>2, <2>3, <2>4, ConcludingStep
<1> QED
  BY <1>2, <1>3

\* Dispatch turns the request down.
LEMMA RejectStep ==
  ASSUME IInv, UNCHANGED clientVars, phase = "idle", request # NoRequest,
         Reject(Negotiate(request))
  PROVE  IInv'
<1> DEFINE n == Negotiate(request)
<1>0. /\ n.to \in {"http", "end", "handler"} /\ n.code \in Nat /\ n.status \in Nat
  BY Negotiates
<1>1. ~concluded /\ << >> \in Details
  BY DEF IInv, ServerInv, concluded, Details
<1>2. conn' = conn \/ conn' = "eof"
  BY DEF Reject, EndBody
<1>3. ended' \in BOOLEAN /\ applied' \in BOOLEAN /\ phase' = "returned"
  BY DEF Reject, IInv, ServerType
<1>4. UNCHANGED << clientVars, request, emits, cut, hdr, trl, ctx, early, ended, applied >>
  BY DEF Reject
<1>5. CASE n.to = "end"
  <2>1. /\ fate' = Fate("error", n.code, << >>, trl)
        /\ WriteFrame(ResponseHead(200, hdr), EndFrame(n.code, << >>, trl))
    BY <1>5 DEF Reject
  <2> HIDE DEF n
  <2> QED
    BY <1>0, <1>1, <1>2, <1>3, <1>4, <2>1, ConcludingStep
<1>6. CASE n.to = "http"
  <2>1. /\ fate' = Fate("reject", n.code, << >>, {}) /\ wire' = wire
        /\ head' = IF conn = "up" THEN ResponseHead(n.status, {}) ELSE head
    BY <1>6 DEF Reject
  <2>2. /\ fate'.kind = "reject" /\ fate'.code = n.code /\ fate'.details = << >>
        /\ fate'.trailers = {} /\ ~concluded'
    BY <2>1 DEF Fate, concluded
  <2>3. head' = head \/ (head'.status = n.status /\ head'.keys = {})
    BY <2>1 DEF ResponseHead
  <2>4. ServerType' /\ ConnType' /\ ClientType'
    BY <1>0, <1>2, <1>3, <1>4, <2>1, <2>2, <2>3, ClientTypeKept
    DEF IInv, ServerType, ConnType, Code
  <2>5. ServerInv'
    BY <1>1, <1>3, <1>4, <2>2, <2>3 DEF IInv, ServerInv
  <2>6. WireInv'
    BY <1>1, <1>2, <1>4, <2>1, <2>2 DEF IInv, WireInv
  <2>7. ClientInv'
    BY <1>4, ClientInvKept DEF IInv, ServerType
  <2>8. OutcomeInv'
    <3>1. Len(emits) \in Nat /\ emits' = emits /\ pos \in Nat /\ pos <= Len(emits)
      BY <1>1, <1>4, WireIsBehind DEF IInv
    <3> QED
      BY <1>1, <1>3, <1>4, <3>1, OutcomeGrows DEF IInv
  <2> QED
    BY <2>4, <2>5, <2>6, <2>7, <2>8 DEF IInv
<1>7. n.to # "handler"
  BY DEF Reject
<1> QED
  BY <1>0, <1>5, <1>6, <1>7

LEMMA ServerStep == IInv /\ Server => IInv'
<1> SUFFICES ASSUME IInv, ServerNext, UNCHANGED clientVars PROVE IInv'
  BY DEF Server
<1>1. CASE Serve
  BY <1>1, RejectStep, RunHandlerStep DEF Serve
<1> QED
  BY <1>1, SetHeaderStep, SetTrailerStep, EmitStep, EmitEndStep, ReturnNilStep,
     ReturnErrorStep, PanicStep, ContextDoneStep DEF ServerNext

-----------------------------------------------------------------------------
(* The steps of the client.                                                *)

LEMMA Results ==
  /\ \A kind, c : Result(kind, c).kind = kind /\ Result(kind, c).code = c
  /\ Pending.kind = "pending"
BY DEF Result, Pending

LEMMA ServerKept ==
  ASSUME ServerType, ConnType, ServerInv, UNCHANGED << serverVars, request, head >>,
         conn' = conn \/ conn' = "closed"
  PROVE  ServerType' /\ ConnType' /\ ServerInv'
<1>1. ServerType' /\ ConnType'
  BY DEF ServerType, ConnType, serverVars
<1>2. ServerInv'
  BY DEF ServerInv, serverVars, concluded
<1> QED
  BY <1>1, <1>2

LEMMA Releases ==
  ASSUME ClientType, release
  PROVE  timer' \in {"off", "armed", "fired", "released"}
BY DEF ClientType, release

\* Steps that read nothing: what the consumer has is kept, and if it is told anything
\* now it is an error of its own end or the reading of a rejection.
LEMMA QuietClientStep ==
  ASSUME IInv, UNCHANGED << serverVars, request, head, wire, cut, pos, got, cEnded, cTrailers >>,
         conn' = conn \/ conn' = "closed",
         timer' \in {"off", "armed", "fired", "released"},
         cl' = cl \/ (cl \in {"connecting", "open"} /\ cl' \in {"open", "failed", "closed"}),
         \/ result' = result
         \/ result = Pending /\ cl' # "connecting" /\ cl' # "idle"
             /\ result' \in {Result("raw", 0), Result("cancelled", 0)}
         \/ /\ result = Pending /\ cl' = "failed" /\ head.status >= 300
            /\ result' = Result("rpc", ConnectFromStatus(head.status))
  PROVE  IInv'
<1> USE DEF IInv
<1>1. ServerType' /\ ConnType' /\ ServerInv'
  BY ServerKept
<1>2. WireInv'
  BY WireStays DEF serverVars
<1>3. result' = result \/ result'.kind \in {"raw", "cancelled"} \/ result'.kind = "rpc"
  BY Results
<1>4. result'.code \in Code /\ result'.kind \in {"pending", "eof", "rpc", "raw", "cancelled"}
  BY Results, ClientStatuses DEF ClientType, Code
<1>5. ClientType'
  BY <1>4 DEF ClientType
<1>6. result' = result \/ (result = Pending /\ result' # Pending /\ result'.kind # "pending")
  BY Results
<1>7. ClientInv'
  BY <1>6 DEF ClientInv, DeliveredInOrder, serverVars, ClientType
<1>8. OutcomeInv'
  <2>1. CASE result' = result
    BY <2>1 DEF OutcomeInv, Attributed, concluded, serverVars, ClientType
  <2>2. CASE result = Pending /\ result' \in {Result("raw", 0), Result("cancelled", 0)}
    <3>1. result'.kind \notin {"eof", "rpc"}
      BY <2>2, Results
    <3>2. pos # Len(emits) + 1
      BY <2>2, Results DEF OutcomeInv
    <3>3. pos' = pos /\ emits' = emits
      BY DEF serverVars
    <3> QED
      BY <3>1, <3>2, <3>3 DEF OutcomeInv, Attributed
  <2>3. CASE /\ result = Pending /\ cl' = "failed" /\ head.status >= 300
             /\ result' = Result("rpc", ConnectFromStatus(head.status))
    <3>1. result'.kind = "rpc" /\ result'.code = ConnectFromStatus(head.status)
      BY <2>3, Results
    <3>2. pos # Len(emits) + 1
      BY <2>3, Results DEF OutcomeInv
    <3>3. pos' = pos /\ emits' = emits /\ phase' = phase /\ request' = request
      BY DEF serverVars
    <3>4. phase = "returned" /\ head.status = Negotiate(request).status
      BY <2>3 DEF ServerInv, ServerType, ConnType
    <3> QED
      BY <2>3, <3>1, <3>2, <3>3, <3>4 DEF OutcomeInv, Attributed
  <2> QED
    BY <2>1, <2>2, <2>3
<1> QED
  BY <1>1, <1>2, <1>5, <1>7, <1>8

LEMMA OpenStep ==
  ASSUME IInv, UNCHANGED serverVars, NEW r \in Requests, NEW d \in BOOLEAN, Open(r, d)
  PROVE  IInv'
<1> USE DEF IInv
<1>0. /\ UNCHANGED << pos, cEnded, cTrailers, got, result, head, wire, conn, cut, serverVars >>
      /\ cl = "idle" /\ cl' = "connecting" /\ timer' \in {"off", "armed", "fired", "released"}
  BY DEF Open, startTimer
<1>1. phase = "idle" /\ emits = << >> /\ ~concluded
  BY <1>0 DEF ClientInv, ServerInv, concluded
<1>2. ServerType' /\ ConnType' /\ ClientType'
  BY <1>0 DEF ServerType, ConnType, ClientType, serverVars
<1>3. phase' = phase /\ emits' = emits /\ fate' = fate /\ ended' = ended /\ ~concluded'
  BY <1>1 DEF serverVars, concluded
<1>4. ServerInv'
  BY <1>0, <1>1, <1>3 DEF ServerInv
<1>5. WireInv'
  BY <1>0, <1>1, <1>3 DEF WireInv
<1>6. ClientInv'
  BY <1>0, <1>1, <1>3 DEF ClientInv, DeliveredInOrder
<1>7. OutcomeInv'
  BY <1>0, <1>1, <1>3, Results DEF OutcomeInv, Attributed, ClientInv
<1> QED
  BY <1>2, <1>4, <1>5, <1>6, <1>7

LEMMA OpenOKStep ==
  ASSUME IInv, UNCHANGED serverVars, OpenOK
  PROVE  IInv'
BY QuietClientStep DEF OpenOK, wireVars, IInv, ClientType

LEMMA OpenRejectedStep ==
  ASSUME IInv, UNCHANGED serverVars, OpenRejected
  PROVE  IInv'
<1>1. result = Pending
  BY DEF IInv, ClientInv, OpenRejected
<1> QED
  BY <1>1, QuietClientStep, Releases DEF OpenRejected, failOpen, releaseOnOpenError, wireVars, IInv

LEMMA OpenFailsStep ==
  ASSUME IInv, UNCHANGED serverVars, OpenFails
  PROVE  IInv'
<1>1. result = Pending
  BY DEF IInv, ClientInv, OpenFails
<1> QED
  BY <1>1, QuietClientStep, Releases DEF OpenFails, failOpen, releaseOnOpenError, wireVars, IInv

LEMMA CloseStep ==
  ASSUME IInv, UNCHANGED serverVars, Cancel \/ Close
  PROVE  IInv'
BY QuietClientStep, Releases DEF Cancel, Close, closeBody, EndBody, IInv

LEMMA TimerExpiresStep ==
  ASSUME IInv, UNCHANGED serverVars, TimerExpires
  PROVE  IInv'
BY QuietClientStep DEF TimerExpires, EndBody

LEMMA RecvDeadlineStep ==
  ASSUME IInv, UNCHANGED serverVars, RecvDeadline
  PROVE  IInv'
BY QuietClientStep DEF RecvDeadline, wireVars, IInv, ClientType

LEMMA EndOfIsFrame ==
  ASSUME ServerType, ServerInv
  PROVE  EndOf \in EndFrames
<1>1. fate.code \in Nat /\ fate.details \in Details /\ fate.trailers \in SUBSET TrailerKeys
  BY DEF ServerType, ServerInv, Code
<1> QED
  BY <1>1 DEF EndOf, EndFrames

\* Where a waiting consumer stands: it has read one frame for each message it has.
LEMMA Waiting ==
  ASSUME IInv, result = Pending
  PROVE  /\ pos \in Nat /\ Len(wire) \in Nat /\ Len(emits) \in Nat /\ pos <= Len(wire)
         /\ pos = Len(got) /\ got \in Seq(Received) /\ emits \in Seq(Payloads)
         /\ ~cEnded /\ pos # Len(emits) + 1
BY Results DEF IInv, ClientType, ServerType, WireInv, ClientInv, OutcomeInv

\* The next frame, if there is one, is that of the next message or the END.
LEMMA NextFrame ==
  ASSUME IInv, result = Pending, pos < Len(wire)
  PROVE  \/ /\ pos + 1 <= Len(emits) /\ emits[pos + 1] \in Payloads
            /\ wire[pos + 1] = messageFrame(request, emits[pos + 1])
         \/ /\ pos = Len(emits) /\ concluded /\ wire[pos + 1] = EndOf /\ EndOf \in EndFrames
<1>1. pos + 1 \in 1..Len(wire) /\ pos \in Nat /\ Len(emits) \in Nat /\ emits \in Seq(Payloads)
  BY Waiting
<1>2. EndOf \in EndFrames
  BY EndOfIsFrame DEF IInv
<1>3. \/ pos + 1 <= Len(emits) /\ wire[pos + 1] = messageFrame(request, emits[pos + 1])
      \/ pos + 1 = Len(emits) + 1 /\ concluded /\ wire[pos + 1] = EndOf
  BY <1>1 DEF IInv, WireInv
<1> QED
  BY <1>1, <1>2, <1>3

\* What Recv makes of it.
LEMMA ReadNext ==
  ASSUME IInv, result = Pending, readNext.err = "ok"
  PROVE  /\ pos < Len(wire)
         /\ \/ /\ ~readNext.end
               /\ pos + 1 <= Len(emits)
               /\ readNext.payload \in Received
               /\ readNext.payload.id = emits[pos + 1].id
               /\ readNext.payload.size = emits[pos + 1].size
            \/ /\ readNext.end
               /\ pos = Len(emits) /\ concluded
               /\ readNext.payload = EndOf.payload
<1>1. pos < Len(wire)
  <2>1. SUFFICES ASSUME ~(pos < Len(wire)) PROVE FALSE
    OBVIOUS
  <2>2. cut # << >>
    BY <2>1 DEF readNext
  <2>3. PICK f \in Frames, n \in Nat : n < FrameBytes(f) /\ cut = << [frame |-> f, have |-> n] >>
    BY <2>2 DEF IInv, WireInv
  <2>4. readNext = ReadFrameDecompressed(f, n)
    BY <2>1, <2>3 DEF readNext
  <2> QED
    BY <2>3, <2>4, ShortReadFails
<1> DEFINE f == wire[pos + 1]
<1>2. readNext = ReadFrameDecompressed(f, FrameBytes(f))
  BY <1>1 DEF readNext
<1>3. CASE pos + 1 <= Len(emits) /\ emits[pos + 1] \in Payloads
           /\ f = messageFrame(request, emits[pos + 1])
  <2> DEFINE p == emits[pos + 1]
  <2>1. p \in Payloads /\ f \in FramesOf(p) /\ f \in MessageFrames
    BY <1>3, MessageFrameIsFrame
  <2>2. readNext.payload \in Received
    BY <1>2, <2>1 DEF Received
  <2> HIDE DEF p, f
  <2>3. ~readNext.end /\ readNext.payload.id = p.id /\ readNext.payload.size = p.size
    BY <1>2, <2>1, ReadMessage
  <2> QED
    BY <1>1, <1>3, <2>2, <2>3 DEF p
<1>4. CASE pos = Len(emits) /\ concluded /\ f = EndOf /\ EndOf \in EndFrames
  <2>1. readNext = [err |-> "ok", payload |-> EndOf.payload, end |-> TRUE]
    BY <1>2, <1>4, ReadEnd
  <2> QED
    BY <1>1, <1>4, <2>1
<1> QED
  BY <1>1, <1>3, <1>4, NextFrame

LEMMA RecvMessageStep ==
  ASSUME IInv, UNCHANGED serverVars, RecvMessage
  PROVE  IInv'
<1> USE DEF IInv
<1>0. /\ result = Pending /\ readNext.err = "ok" /\ ~readNext.end
      /\ got' = Append(got, readNext.payload) /\ cl = "open"
      /\ UNCHANGED << cl, result, cEnded, cTrailers, timer, wireVars, serverVars >>
  BY DEF RecvMessage, receiving
<1>1. /\ pos < Len(wire) /\ pos + 1 <= Len(emits) /\ readNext.payload \in Received
      /\ readNext.payload.id = emits[pos + 1].id /\ readNext.payload.size = emits[pos + 1].size
  BY <1>0, ReadNext
<1>2. pos' = pos + 1
  BY <1>1 DEF RecvMessage, advance
<1>3. /\ pos \in Nat /\ pos = Len(got) /\ Len(emits) \in Nat /\ got \in Seq(Received)
      /\ Len(wire) \in Nat
  BY <1>0, Waiting
<1>4. /\ got' \in Seq(Received) /\ Len(got') = pos + 1
      /\ \A i \in 1..pos : got'[i] = got[i]
      /\ got'[pos + 1] = readNext.payload
  BY <1>0, <1>1, <1>3, AppendFrame
<1>5. ServerType' /\ ConnType' /\ ServerInv'
  BY <1>0, ServerKept DEF wireVars
<1>6. ClientType'
  BY <1>0, <1>1, <1>2, <1>3 DEF ClientType, wireVars
<1>7. WireInv'
  BY <1>0, WireStays DEF wireVars, serverVars
<1>8. ClientInv'
  <2>1. DeliveredInOrder'
    BY <1>0, <1>1, <1>3, <1>4 DEF DeliveredInOrder, ClientInv, serverVars
  <2> QED
    BY <1>0, <1>2, <1>3, <1>4, <2>1 DEF ClientInv, wireVars
<1>9. OutcomeInv'
  <2>1. result' = Pending /\ pos' # Len(emits') + 1
    BY <1>0, <1>1, <1>2, <1>3 DEF serverVars
  <2> QED
    BY <2>1, Results DEF OutcomeInv, Attributed
<1> QED
  BY <1>5, <1>6, <1>7, <1>8, <1>9

\* The END frame tells the consumer how the handler concluded the stream.
LEMMA RecvEndStep ==
  ASSUME IInv, UNCHANGED serverVars, RecvEnd
  PROVE  IInv'
<1> USE DEF IInv
<1> DEFINE m == DecodeEndStream(readNext.payload)
<1>0. /\ result = Pending /\ readNext.err = "ok" /\ readNext.end /\ cl = "open"
      /\ cEnded' = TRUE /\ result' = endResult(m)
      /\ cTrailers' = IF m.code = 0 THEN m.metadata ELSE cTrailers
      /\ UNCHANGED << cl, got, timer, wireVars, serverVars >>
  BY DEF RecvEnd, receiving
<1>1. pos < Len(wire) /\ pos = Len(emits) /\ concluded /\ readNext.payload = EndOf.payload
  BY <1>0, ReadNext
<1>2. pos' = pos + 1
  BY <1>1 DEF RecvEnd, advance
<1>3. /\ pos \in Nat /\ pos = Len(got) /\ Len(emits) \in Nat /\ Len(wire) \in Nat
  BY <1>0, Waiting
<1> DEFINE bare == fate.code = 0 /\ fate.details = << >>
<1>4. m.metadata = fate.trailers /\ m.code = IF bare THEN 0 ELSE WireCode(fate.code)
  <2>1. EndOf.payload = EncodeEndStream(EndStreamMessage(fate.code, fate.details, fate.trailers))
    BY DEF EndOf, EndFrame, Frame
  <2>2. fate.code \in Nat
    BY DEF ServerType, Code
  <2> QED
    BY <1>1, <2>1, <2>2, EndStreamRoundTrip DEF Canonical, WireCode
<1>5. WireCode(fate.code) # 0 /\ WireCode(fate.code) \in Nat
  BY DEF WireCode, KnownCodes
<1> HIDE DEF m
<1>6. result' = IF bare THEN Result("eof", 0) ELSE Result("rpc", WireCode(fate.code))
  BY <1>0, <1>4, <1>5 DEF endResult
<1>7. ServerType' /\ ConnType' /\ ServerInv'
  BY <1>0, ServerKept DEF wireVars
<1>8. ClientType'
  <2>1. result'.kind \in {"eof", "rpc"} /\ result'.code \in Code
    BY <1>5, <1>6, Results DEF Code
  <2>2. cTrailers' \subseteq TrailerKeys
    BY <1>0, <1>4 DEF ClientType, ServerType
  <2> QED
    BY <1>0, <1>1, <1>2, <1>3, <2>1, <2>2 DEF ClientType, wireVars
<1>9. WireInv'
  BY <1>0, WireStays DEF wireVars, serverVars
<1>10. ClientInv'
  <2>1. result' # Pending /\ result'.kind # "pending"
    BY <1>6, Results
  <2> QED
    BY <1>0, <1>2, <1>3, <2>1 DEF ClientInv, DeliveredInOrder, serverVars, wireVars
<1>11. OutcomeInv'
  <2>0. fate' = fate /\ emits' = emits /\ phase' = phase /\ got' = got /\ concluded'
    BY <1>0, <1>1 DEF serverVars, concluded
  <2>1. CASE bare
    <3>1. result' = Result("eof", 0) /\ result'.kind = "eof" /\ cTrailers' = fate.trailers
      BY <1>0, <1>4, <1>6, <2>1, Results
    <3> QED
      BY <1>1, <1>3, <2>0, <2>1, <3>1 DEF OutcomeInv, Attributed
  <2>2. CASE ~bare
    <3>1. /\ result' = Result("rpc", WireCode(fate.code)) /\ result'.kind = "rpc"
          /\ result'.code = WireCode(fate.code)
      BY <1>6, <2>2, Results
    <3>2. fate.kind = "error" /\ phase # "idle"
      BY <1>1, <2>2 DEF ServerInv, concluded
    <3> QED
      BY <1>1, <1>2, <1>3, <2>0, <2>2, <3>1, <3>2 DEF OutcomeInv, Attributed
  <2> QED
    BY <2>1, <2>2
<1> QED
  BY <1>7, <1>8, <1>9, <1>10, <1>11

\* A Recv that fails never looks like a clean end.
LEMMA RecvFailsStep ==
  ASSUME IInv, UNCHANGED serverVars, RecvFails
  PROVE  IInv'
<1> USE DEF IInv
<1>0. /\ result = Pending /\ readNext.err # "ok" /\ cl = "open"
      /\ result' = recvError(readNext.err)
      /\ UNCHANGED << cl, got, cEnded, cTrailers, timer, wireVars, serverVars >>
  BY DEF RecvFails, receiving
<1>1. /\ pos \in Nat /\ Len(wire) \in Nat /\ Len(emits) \in Nat /\ pos <= Len(wire)
      /\ pos = Len(got) /\ ~cEnded /\ pos # Len(emits) + 1
  BY <1>0, Waiting
<1>2. result' \in {Result("rpc", 8), Result("rpc", 13), Result("raw", 0)}
  BY <1>0, <1>1 DEF recvError
<1>3. pos' \in {pos, pos + 1} /\ pos' <= Len(wire) /\ pos' # Len(emits) + 1
  <2>1. CASE pos < Len(wire)
    <3>1. pos + 1 <= Len(emits)
      <4>1. SUFFICES ASSUME wire[pos + 1] = EndOf, EndOf \in EndFrames PROVE FALSE
        BY <1>0, <2>1, NextFrame
      <4>2. readNext.err = "ok"
        BY <2>1, <4>1, ReadEnd DEF readNext
      <4> QED
        BY <1>0, <4>2
    <3>2. pos' = pos + 1
      BY <2>1 DEF RecvFails, advance
    <3> QED
      BY <1>1, <2>1, <3>1, <3>2
  <2>2. CASE ~(pos < Len(wire))
    BY <1>1, <2>2 DEF RecvFails, advance
  <2> QED
    BY <2>1, <2>2
<1>4. ServerType' /\ ConnType' /\ ServerInv'
  BY <1>0, ServerKept DEF wireVars
<1>5. /\ result'.kind \in {"rpc", "raw"} /\ result'.code \in Nat /\ result' # Pending
      /\ result'.kind = "rpc" => result'.code \in {8, 13}
  BY <1>2, Results
<1>6. ClientType'
  BY <1>0, <1>1, <1>3, <1>5 DEF ClientType, Code, wireVars
<1>7. WireInv'
  BY <1>0, WireStays DEF wireVars, serverVars
<1>8. ClientInv'
  BY <1>0, <1>1, <1>3, <1>5 DEF ClientInv, DeliveredInOrder, serverVars, wireVars
<1>9. OutcomeInv'
  <2>1. emits' = emits
    BY <1>0 DEF serverVars
  <2> QED
    BY <1>3, <1>5, <2>1 DEF OutcomeInv, Attributed
<1> QED
  BY <1>4, <1>6, <1>7, <1>8, <1>9

LEMMA ClientStep == IInv /\ Client => IInv'
<1> SUFFICES ASSUME IInv, ClientNext, UNCHANGED serverVars PROVE IInv'
  BY DEF Client
<1> QED
  BY OpenStep, OpenOKStep, OpenRejectedStep, OpenFailsStep, RecvMessageStep, RecvEndStep,
     RecvFailsStep, RecvDeadlineStep, CloseStep, TimerExpiresStep DEF ClientNext, Recv

-----------------------------------------------------------------------------
(* The network.                                                            *)

LEMMA BreakStep == IInv /\ Break => IInv'
<1> SUFFICES ASSUME IInv, Break PROVE IInv'
  OBVIOUS
<1> USE DEF IInv
<1>1. PICK k \in pos..Len(wire), how \in {"eof", "reset"} :
        /\ Truncate(k, how)
        /\ UNCHANGED head \/ head' = NoHead
  BY DEF Break
<1>2. UNCHANGED << serverVars, clientVars >> /\ request # NoRequest
  BY DEF Break
<1>3. /\ pos \in Nat /\ Len(wire) \in Nat /\ k \in 0..Len(wire) /\ pos <= k
  BY DEF ClientType, WireInv
<1>4. WireInv' /\ Len(wire') = k
  BY <1>1, <1>2, <1>3, WireTruncate DEF serverVars
<1>5. request' = request /\ conn' = how
  BY <1>1 DEF Truncate
<1>6. head' = head \/ (head'.status = 0 /\ head'.keys = {})
  BY <1>1 DEF NoHead
<1>7. ServerType' /\ ConnType'
  BY <1>2, <1>5, <1>6 DEF ServerType, ConnType, serverVars
<1>8. ServerInv'
  BY <1>2, <1>5, <1>6 DEF ServerInv, serverVars, concluded
<1>9. ClientType'
  BY <1>2, <1>3, <1>4 DEF ClientType, clientVars
<1>10. ClientInv'
  BY <1>2, <1>5 DEF ClientInv, DeliveredInOrder, clientVars, serverVars
<1>11. OutcomeInv'
  BY <1>2, <1>5, OutcomeKept DEF serverVars
<1> QED
  BY <1>4, <1>7, <1>8, <1>9, <1>10, <1>11

LEMMA CutRequestStep == IInv /\ CutRequest => IInv'
<1> SUFFICES ASSUME IInv, CutRequest PROVE IInv'
  OBVIOUS
<1> USE DEF IInv
<1>1. /\ UNCHANGED << head, wire, cut, serverVars, clientVars >> /\ phase = "idle"
      /\ conn' = "reset" /\ request # NoRequest
  BY DEF CutRequest
<1>2. emits = << >> /\ emits' = emits /\ ~concluded /\ ~concluded' /\ phase' = phase
      /\ fate' = fate /\ ended' = ended
  BY <1>1 DEF ServerInv, concluded, serverVars
<1>3. ServerType' /\ ConnType' /\ ClientType'
  BY <1>1 DEF ServerType, ConnType, ClientType, serverVars, clientVars
<1>4. ServerInv'
  BY <1>1, <1>2 DEF ServerInv
<1>5. WireInv'
  BY <1>1, <1>2 DEF WireInv
<1>6. ClientInv'
  BY <1>1, <1>2 DEF ClientInv, DeliveredInOrder, clientVars
<1>7. OutcomeInv'
  BY <1>1, <1>2 DEF OutcomeInv, Attributed, clientVars
<1> QED
  BY <1>3, <1>4, <1>5, <1>6, <1>7

LEMMA NextIInv == IInv /\ [Next]_vars => IInv'
<1> SUFFICES ASSUME IInv, [Next]_vars PROVE IInv'
  OBVIOUS
<1>1. CASE UNCHANGED vars
  <2>1. UNCHANGED << wireVars, serverVars, clientVars >>
    BY <1>1 DEF vars
  <2>2. ServerType' /\ ConnType' /\ ServerInv' /\ WireInv'
    BY <2>1, ServerKept, WireStays DEF IInv, wireVars, serverVars
  <2>3. ClientType' /\ ClientInv' /\ OutcomeInv'
    BY <2>1, ClientTypeKept, ClientInvKept, OutcomeKept
    DEF IInv, wireVars, serverVars, ServerType
  <2> QED
    BY <2>2, <2>3 DEF IInv
<1>2. CASE Next
  <2>1. CASE Done
    BY <1>1, <2>1 DEF Done
  <2> QED
    BY <1>2, <2>1, ServerStep, ClientStep, BreakStep, CutRequestStep DEF Next
<1> QED
  BY <1>1, <1>2

-----------------------------------------------------------------------------
(* What holds of every stream call.                                        *)

\* The strengthened invariant that everything below follows from: the wire mirrors
\* what the handler asked for, and the client mirrors the wire.
THEOREM Invariant == Spec => []IInv
BY InitIInv, NextIInv, PTL DEF Spec

\* Every variable keeps to its type (TypeOK), whatever handler and network do.
THEOREM TypeCorrect == Spec => []TypeOK
BY Invariant, IInvTypeOK, PTL

LEMMA IInvEndIsLast == IInv => EndIsLast
<1> SUFFICES ASSUME IInv, NEW i \in 1..Len(wire), EndStream(wire[i]) PROVE i = Len(wire)
  BY DEF EndIsLast
<1>1. emits \in Seq(Payloads) /\ Len(emits) \in Nat /\ Len(wire) \in Nat
  BY DEF IInv, ServerType, WireInv
<1>2. \/ i <= Len(emits) /\ wire[i] = messageFrame(request, emits[i])
      \/ i = Len(emits) + 1
  BY DEF IInv, WireInv
<1>3. i = Len(emits) + 1
  <2>1. SUFFICES ASSUME i <= Len(emits), wire[i] = messageFrame(request, emits[i]) PROVE FALSE
    BY <1>2
  <2>2. emits[i] \in Payloads
    BY <1>1, <2>1
  <2> QED
    BY <2>1, <2>2, MessageFrameIsFrame, MessageFrameIsNoEnd
<1>4. Len(wire) <= Len(emits) + 1
  BY <1>1 DEF IInv, WireInv
<1> QED
  BY <1>1, <1>3, <1>4

\* Nothing follows an END frame, in whatever order the handler emits, ends, fails
\* and returns (EndIsLast).
THEOREM EndFrameIsLast == Spec => []EndIsLast
BY Invariant, IInvEndIsLast, PTL

LEMMA IInvDelivered == IInv => DeliveredInOrder
BY DEF IInv, ClientInv

\* What the consumer receives is a prefix of what was emitted (DeliveredInOrder).
THEOREM DeliveryIsAPrefix == Spec => []DeliveredInOrder
BY Invariant, IInvDelivered, PTL

-----------------------------------------------------------------------------
(* A clean end.  An error with code 0 and no details is encoded as a clean *)
(* end (run code_zero), so what a clean end means can only be said of      *)
(* handlers that do not return one.                                        *)

CodedErrors == \A e \in Errors : asRPCError(e).code # 0 \/ asRPCError(e).details # << >>

FateInv == fate.kind = "error" => fate.code # 0 \/ fate.details # << >>

LEMMA InitFate == Init => FateInv
BY DEF Init, ServerInit, Fate, FateInv

LEMMA NextFate == ASSUME CodedErrors PROVE FateInv /\ [Next]_vars => FateInv'
<1> SUFFICES ASSUME FateInv, [Next]_vars PROVE FateInv'
  OBVIOUS
<1>0. \A kind, c, d, t : /\ Fate(kind, c, d, t).kind = kind /\ Fate(kind, c, d, t).code = c
                          /\ Fate(kind, c, d, t).details = d
  BY DEF Fate
<1>1. ASSUME fate' = fate PROVE FateInv'
  BY <1>1 DEF FateInv
<1>2. CASE Serve
  <2>1. CASE RunHandler(Negotiate(request))
    BY <1>1, <2>1 DEF RunHandler
  <2>2. CASE Reject(Negotiate(request))
    BY <1>0, <2>2, Negotiates DEF Reject, FateInv
  <2> QED
    BY <1>2, <2>1, <2>2 DEF Serve
<1>3. CASE EmitEnd \/ ReturnNil
  BY <1>0, <1>1, <1>3 DEF EmitEnd, ReturnNil, FateInv
<1>4. ASSUME NEW err \in Errors, ReturnError(err) PROVE FateInv'
  <2>1. \/ fate' = fate
        \/ fate' = Fate("error", asRPCError(err).code, asRPCError(err).details, trl)
    BY <1>4 DEF ReturnError
  <2> QED
    BY <1>0, <1>1, <2>1 DEF CodedErrors, FateInv
<1>5. CASE ServerNext
  BY <1>1, <1>2, <1>3, <1>4, <1>5
  DEF ServerNext, SetHeader, SetTrailer, Emit, Panic, ContextDone
<1>6. CASE UNCHANGED serverVars
  BY <1>1, <1>6 DEF serverVars
<1> QED
  BY <1>5, <1>6 DEF Next, Server, Client, Break, CutRequest, Done, vars

LEMMA CleanEnds == IInv /\ FateInv => CleanEndMeansComplete /\ HandlerErrorSurfaced
<1> SUFFICES ASSUME IInv, FateInv PROVE CleanEndMeansComplete /\ HandlerErrorSurfaced
  OBVIOUS
<1>1. concluded => (fate.kind = "error" <=> ~(fate.code = 0 /\ fate.details = << >>))
  BY DEF IInv, ServerInv, FateInv, concluded
<1>2. CleanEndMeansComplete
  BY <1>1 DEF CleanEndMeansComplete, IInv, OutcomeInv, concluded
<1>3. HandlerErrorSurfaced
  BY <1>1 DEF HandlerErrorSurfaced, IInv, OutcomeInv
<1> QED
  BY <1>2, <1>3

\* io.EOF from Recv means that the handler ended its stream without an error and that
\* every message and all trailers were received (CleanEndMeansComplete).
THEOREM CleanEndIsComplete ==
  ASSUME CodedErrors
  PROVE  Spec => []CleanEndMeansComplete
<1>1. Init => FateInv
  BY InitFate
<1>2. FateInv /\ [Next]_vars => FateInv'
  BY NextFate
<1> QED
  BY <1>1, <1>2, Invariant, CleanEnds, PTL DEF Spec

\* A consumer that reads the END frame learns the code of the handler's error
\* (HandlerErrorSurfaced).
THEOREM ErrorReachesConsumer ==
  ASSUME CodedErrors
  PROVE  Spec => []HandlerErrorSurfaced
<1>1. Init => FateInv
  BY InitFate
<1>2. FateInv /\ [Next]_vars => FateInv'
  BY NextFate
<1> QED
  BY <1>1, <1>2, Invariant, CleanEnds, PTL DEF Spec

-----------------------------------------------------------------------------
(* The deadline.  No strengthening is needed: a timer is armed when the    *)
(* call opens and nothing arms it later.                                   *)

LEMMA InitReleased == Init => DeadlineReleased
BY DEF Init, ClientInit, DeadlineReleased

LEMMA NextReleased == DeadlineReleased /\ [Next]_vars => DeadlineReleased'
<1> SUFFICES ASSUME DeadlineReleased, [Next]_vars PROVE DeadlineReleased'
  OBVIOUS
<1> USE DEF DeadlineReleased
<1>1. ASSUME UNCHANGED << cl, timer >> PROVE DeadlineReleased'
  BY <1>1
<1>2. ASSUME release PROVE timer' \in {"off", "released"}
  BY <1>2 DEF release
<1>3. CASE ClientNext
  <2>1. ASSUME NEW r \in Requests, NEW d \in BOOLEAN, Open(r, d) PROVE DeadlineReleased'
    BY <2>1 DEF Open
  <2>2. CASE OpenOK
    BY <2>2 DEF OpenOK
  <2>3. CASE OpenRejected \/ OpenFails
    BY <1>2, <2>3 DEF OpenRejected, OpenFails, failOpen, releaseOnOpenError
  <2>4. CASE Recv
    BY <1>1, <2>4 DEF Recv, RecvMessage, RecvEnd, RecvFails, RecvDeadline
  <2>5. CASE Cancel \/ Close
    BY <1>2, <2>5 DEF Cancel, Close, closeBody
  <2>6. CASE TimerExpires
    BY <2>6 DEF TimerExpires
  <2> QED
    BY <1>3, <2>1, <2>2, <2>3, <2>4, <2>5, <2>6 DEF ClientNext
<1>4. CASE UNCHANGED clientVars
  BY <1>1, <1>4 DEF clientVars
<1> QED
  BY <1>3, <1>4 DEF Next, Server, Client, Break, CutRequest, Done, vars

\* However a call ends, its deadline context is released (DeadlineReleased): the
\* cancel of DeadlineInterceptor and of cancelOnClose.
THEOREM DeadlineIsReleased == Spec => []DeadlineReleased
BY InitReleased, NextReleased, PTL DEF Spec

-----------------------------------------------------------------------------
(* The headers.  Dispatch applies them at the first write, so before it    *)
(* the handler's head has not been sent, and with it go all that were set  *)
(* so far.                                                                 *)

HeadInv ==
  /\ phase = "idle" => head = NoHead /\ hdr = {} /\ early = {}
  /\ phase = "handler" /\ ~applied => head = NoHead
  /\ early \subseteq hdr
  /\ EarlyHeadersArrive

LEMMA InitHead == Init => HeadInv
BY DEF Init, WireInit, ServerInit, HeadInv, EarlyHeadersArrive, NoHead

\* A write sends the headers set so far, or finds a head that was sent before.
LEMMA HeadWritten ==
  ASSUME HeadInv, NEW f, applyAndWrite(f), UNCHANGED << hdr, early >>, phase' # "idle"
  PROVE  HeadInv'
<1>1. head' = head \/ head' = [status |-> 200, keys |-> hdr]
  BY DEF applyAndWrite, WriteFrame, ResponseHead
<1> QED
  BY <1>1 DEF HeadInv, EarlyHeadersArrive, applyAndWrite

LEMMA NextHead == HeadInv /\ [Next]_vars => HeadInv'
<1> SUFFICES ASSUME HeadInv, [Next]_vars PROVE HeadInv'
  OBVIOUS
<1> USE DEF HeadInv, EarlyHeadersArrive
<1>1. CASE UNCHANGED << head, serverVars >>
  BY <1>1 DEF serverVars
<1>2. CASE ServerNext
  <2>1. CASE Serve
    <3>1. phase = "idle" /\ head = NoHead /\ hdr = {} /\ early = {}
      BY <2>1 DEF Serve
    <3>2. CASE RunHandler(Negotiate(request))
      BY <3>1, <3>2 DEF RunHandler, wireVars
    <3>3. CASE Reject(Negotiate(request))
      <4>1. phase' = "returned" /\ UNCHANGED << hdr, early >>
        BY <3>3 DEF Reject
      <4> QED
        BY <3>1, <4>1
    <3> QED
      BY <2>1, <3>2, <3>3 DEF Serve
  <2>2. ASSUME NEW k \in HeaderKeys, SetHeader(k) PROVE HeadInv'
    <3>1. CASE applied
      BY <2>2, <3>1 DEF SetHeader, wireVars
    <3>2. CASE ~applied
      BY <2>2, <3>2 DEF SetHeader, wireVars, NoHead
    <3> QED
      BY <3>1, <3>2
  <2>3. ASSUME NEW p \in Payloads, Emit(p) PROVE HeadInv'
    BY <2>3, HeadWritten DEF Emit
  <2>4. CASE EmitEnd
    BY <2>4, HeadWritten DEF EmitEnd
  <2>5. CASE ReturnNil
    <3>1. CASE ended
      BY <2>5, <3>1 DEF ReturnNil
    <3>2. CASE ~ended
      BY <2>5, <3>2, HeadWritten DEF ReturnNil
    <3> QED
      BY <3>1, <3>2
  <2>6. ASSUME NEW err \in Errors, ReturnError(err) PROVE HeadInv'
    <3>1. CASE ended
      BY <2>6, <3>1 DEF ReturnError
    <3>2. CASE ~ended
      BY <2>6, <3>2, HeadWritten DEF ReturnError
    <3> QED
      BY <3>1, <3>2
  <2>7. CASE Panic \/ ContextDone \/ \E k \in TrailerKeys : SetTrailer(k)
    BY <2>7 DEF Panic, ContextDone, SetTrailer, wireVars
  <2> QED
    BY <1>2, <2>1, <2>2, <2>3, <2>4, <2>5, <2>6, <2>7 DEF ServerNext
<1>3. CASE Break
  BY <1>3 DEF Break, serverVars, NoHead
<1>4. CASE Client
  <2>1. UNCHANGED head
    BY <1>4 DEF Client, ClientNext, Open, OpenOK, OpenRejected, OpenFails, failOpen, Recv,
       RecvMessage, RecvEnd, RecvFails, RecvDeadline, Cancel, Close, closeBody, TimerExpires,
       wireVars
  <2> QED
    BY <1>1, <1>4, <2>1 DEF Client
<1>5. CASE CutRequest \/ Done \/ UNCHANGED vars
  BY <1>1, <1>5 DEF CutRequest, Done, vars, wireVars
<1> QED
  BY <1>2, <1>3, <1>4, <1>5 DEF Next, Server

\* A response of a stream carries every header the handler set before its first write
\* (EarlyHeadersArrive), whatever it writes first and however late.
THEOREM HeadersAreApplied == Spec => []EarlyHeadersArrive
<1>1. HeadInv => EarlyHeadersArrive
  BY DEF HeadInv
<1> QED
  BY <1>1, InitHead, NextHead, PTL DEF Spec

-----------------------------------------------------------------------------
(* The two errors Recv raises itself.  A frame that arrived in part is the *)
(* next one of the wire; while the server has not looked at the request,   *)
(* there is no stream that could fail.                                     *)

CutInv ==
  cut # << >> =>
    \/ /\ Len(wire) < Len(emits)
       /\ cut[1].frame = messageFrame(request, emits[Len(wire) + 1])
    \/ Len(wire) = Len(emits) /\ concluded /\ cut[1].frame = EndOf

UnservedInv ==
  phase = "idle" =>
    head = NoHead /\ cl \in {"idle", "connecting", "failed"} /\ result.kind \in {"pending", "raw"}

OriginInv == CutInv /\ UnservedInv /\ ErrorsAreAuthentic

LEMMA InitOrigin == Init => OriginInv
BY DEF Init, WireInit, ServerInit, ClientInit, OriginInv, CutInv, UnservedInv,
   ErrorsAreAuthentic, Pending, Result

\* Once the stream is concluded the server adds nothing to it, and what it emitted
\* stays where it is.
LEMMA ServerOnlyAppends ==
  ASSUME IInv, ServerNext
  PROVE  /\ UNCHANGED << request, cut >> /\ emits \in Seq(Payloads)
         /\ emits' = emits \/ \E p \in Payloads : emits' = Append(emits, p)
         /\ concluded => UNCHANGED << emits, fate >>
         /\ conn # "up" => UNCHANGED << wire, conn >>
<1>0. /\ concluded => phase # "idle"
      /\ concluded /\ phase = "handler" => ended
      /\ emits \in Seq(Payloads)
  BY DEF IInv, ServerInv, ServerType, concluded
<1>1. CASE Serve
  <2>1. phase = "idle" /\ (Reject(Negotiate(request)) \/ RunHandler(Negotiate(request)))
    BY <1>1 DEF Serve
  <2>2. UNCHANGED << request, cut, emits >>
    BY <2>1 DEF Reject, RunHandler, wireVars
  <2>3. conn # "up" => UNCHANGED << wire, conn >>
    BY <2>1 DEF Reject, RunHandler, wireVars, WriteFrame, EndBody
  <2> QED
    BY <1>0, <2>1, <2>2, <2>3
<1>2. ASSUME NEW p \in Payloads, Emit(p)
      PROVE  /\ UNCHANGED << request, cut, conn >> /\ emits' = Append(emits, p) /\ ~concluded
             /\ conn # "up" => UNCHANGED wire
  BY <1>0, <1>2 DEF Emit, mayEmit, applyAndWrite, WriteFrame
<1>3. CASE EmitEnd
  BY <1>0, <1>3 DEF EmitEnd, mayEmit, applyAndWrite, WriteFrame
<1>4. CASE ReturnNil
  <2>1. phase = "handler" /\ UNCHANGED << request, cut, emits >> /\ (ended => UNCHANGED fate)
    BY <1>4 DEF ReturnNil
  <2>2. conn # "up" => UNCHANGED << wire, conn >>
    BY <1>4 DEF ReturnNil, applyAndWrite, WriteFrame, EndBody
  <2> QED
    BY <1>0, <2>1, <2>2
<1>5. ASSUME NEW err \in Errors, ReturnError(err)
      PROVE  /\ UNCHANGED << request, cut, emits >> /\ (concluded => UNCHANGED fate)
             /\ conn # "up" => UNCHANGED << wire, conn >>
  <2>1. phase = "handler" /\ UNCHANGED << request, cut, emits >> /\ (ended => UNCHANGED fate)
    BY <1>5 DEF ReturnError
  <2>2. conn # "up" => UNCHANGED << wire, conn >>
    BY <1>5 DEF ReturnError, applyAndWrite, WriteFrame, EndBody
  <2> QED
    BY <1>0, <2>1, <2>2
<1>6. CASE \/ \E k \in HeaderKeys : SetHeader(k)
           \/ \E k \in TrailerKeys : SetTrailer(k)
           \/ ContextDone
  BY <1>0, <1>6 DEF SetHeader, SetTrailer, ContextDone, wireVars
<1>7. CASE Panic
  BY <1>0, <1>7 DEF Panic, EndBody
<1> QED
  BY <1>0, <1>1, <1>2, <1>3, <1>4, <1>5, <1>6, <1>7 DEF ServerNext

LEMMA ServerKeepsOrigin ==
  ASSUME IInv, OriginInv, Server
  PROVE  OriginInv'
<1>1. /\ UNCHANGED << request, cut >> /\ emits \in Seq(Payloads)
      /\ emits' = emits \/ \E p \in Payloads : emits' = Append(emits, p)
      /\ concluded => UNCHANGED << emits, fate >>
      /\ conn # "up" => UNCHANGED << wire, conn >>
  BY ServerOnlyAppends DEF Server
<1>2. /\ Len(emits) \in Nat /\ Len(emits') \in Nat /\ Len(emits) <= Len(emits')
      /\ \A i \in 1..Len(emits) : emits'[i] = emits[i]
  BY <1>1, AppendFrame
<1>3. UNCHANGED << cl, pos, cEnded, cTrailers, got, result, timer >>
  BY DEF Server, clientVars
<1>4. CutInv'
  <2>1. CASE cut = << >>
    BY <1>1, <2>1 DEF CutInv
  <2>2. CASE cut # << >>
    <3>1. conn # "up" /\ wire' = wire /\ cut' = cut /\ request' = request /\ Len(wire) \in Nat
      BY <1>1, <2>2 DEF IInv, WireInv
    <3>2. CASE /\ Len(wire) < Len(emits)
               /\ cut[1].frame = messageFrame(request, emits[Len(wire) + 1])
      BY <1>2, <3>1, <3>2 DEF CutInv
    <3>3. CASE Len(wire) = Len(emits) /\ concluded /\ cut[1].frame = EndOf
      BY <1>1, <3>1, <3>3 DEF CutInv, concluded, EndOf
    <3> QED
      BY <2>2, <3>2, <3>3 DEF OriginInv, CutInv
  <2> QED
    BY <2>1, <2>2
<1>5. UnservedInv'
  <2>1. phase' # "idle"
    BY DEF Server, ServerNext, Serve, Reject, RunHandler, SetHeader, SetTrailer, Emit, EmitEnd,
       ReturnNil, ReturnError, Panic, ContextDone
  <2> QED
    BY <2>1 DEF UnservedInv
<1>6. ErrorsAreAuthentic'
  <2>1. SUFFICES ASSUME result.kind = "rpc" PROVE ErrorsAreAuthentic'
    BY <1>3 DEF ErrorsAreAuthentic
  <2>2. CASE fate.kind = "error" /\ result.code = WireCode(fate.code) /\ Len(got) = Len(emits)
    BY <1>1, <1>3, <2>2 DEF ErrorsAreAuthentic, concluded
  <2>3. CASE cl = "failed" /\ result.code = ConnectFromStatus(Negotiate(request).status)
    BY <1>1, <1>3, <2>3 DEF ErrorsAreAuthentic
  <2>4. CASE result.code = 8 /\ Len(got) < Len(emits) /\ Oversized(Len(got) + 1)
    <3>1. Len(got) \in Nat
      BY DEF IInv, ClientInv
    <3>2. Len(got) + 1 \in 1..Len(emits) /\ Len(got') < Len(emits')
      BY <1>2, <1>3, <2>4, <3>1
    <3>3. Oversized(Len(got) + 1)'
      BY <1>1, <1>2, <1>3, <2>4, <3>2 DEF Oversized
    <3> QED
      BY <1>3, <2>4, <3>2, <3>3 DEF ErrorsAreAuthentic
  <2>5. CASE result.code = 13 /\ conn # "up" /\ \A i \in 1..Len(wire) : ~EndStream(wire[i])
    BY <1>1, <1>3, <2>5 DEF ErrorsAreAuthentic
  <2> QED
    BY <2>1, <2>2, <2>3, <2>4, <2>5 DEF OriginInv, ErrorsAreAuthentic
<1> QED
  BY <1>4, <1>5, <1>6 DEF OriginInv

IsTooLarge(e) == e = "too large"
IsShort(e) == e \in {"EOF", "unexpected EOF"}

LEMMA ErrorNames ==
  ASSUME NEW e, IsTooLarge(e) \/ IsShort(e)
  PROVE  e # "ok"
BY Zenon DEF IsTooLarge, IsShort

LEMMA ReadFullErrors ==
  ASSUME NEW have, NEW want
  PROVE  IF have >= want THEN ReadFull(have, want) = "ok" ELSE IsShort(ReadFull(have, want))
BY Zenon DEF ReadFull, IsShort

\* Why a frame of which have bytes arrived cannot be read.
LEMMA ReadErrors ==
  ASSUME NEW f \in Frames, NEW have \in Nat, readFrameFlags(f, have) # "ok"
  PROVE  LET e == ReadFrameDecompressed(f, have).err
         IN  \/ IsTooLarge(e) /\ Len5(f) > MaxMessageBytes
             \/ IsShort(e) /\ have < FrameBytes(f)
<1>1. Len5(f) \in Nat
  BY FrameLength
<1> DEFINE e == readFrameFlags(f, have)
<1>2. ReadFrameDecompressed(f, have) = [err |-> e]
  BY Zenon DEF ReadFrameDecompressed
<1>3. ReadFrameDecompressed(f, have).err = e
  BY <1>2
<1>4. CASE have < HeaderBytes
  <2>1. ~(have >= HeaderBytes) /\ have < FrameBytes(f)
    BY <1>1, <1>4 DEF FrameBytes, HeaderBytes
  <2>2. e = ReadFull(have, HeaderBytes)
    BY <1>4, Zenon DEF readFrameFlags
  <2>3. IsShort(ReadFull(have, HeaderBytes))
    BY <2>1, ReadFullErrors, Zenon
  <2> QED
    BY <1>3, <2>1, <2>2, <2>3, Zenon
<1>5. CASE ~(have < HeaderBytes) /\ Len5(f) > MaxMessageBytes
  BY <1>3, <1>5, Zenon DEF readFrameFlags, IsTooLarge
<1>6. CASE ~(have < HeaderBytes) /\ ~(Len5(f) > MaxMessageBytes)
  <2>1. e = ReadFull(have - HeaderBytes, Len5(f))
    BY <1>6, Zenon DEF readFrameFlags
  <2>2. ~(have - HeaderBytes >= Len5(f)) /\ IsShort(e)
    BY <2>1, ReadFullErrors, Zenon
  <2>3. have < FrameBytes(f)
    BY <1>1, <2>2 DEF FrameBytes, HeaderBytes
  <2> QED
    BY <1>3, <2>2, <2>3, Zenon
<1> QED
  BY <1>4, <1>5, <1>6, Zenon

\* A whole message frame fails to be read for its size only: what is compressed in
\* it is gzip.
LEMMA WholeFrameErrors ==
  ASSUME NEW p \in Payloads, NEW f \in FramesOf(p),
         ReadFrameDecompressed(f, FrameBytes(f)).err # "ok"
  PROVE  IsTooLarge(ReadFrameDecompressed(f, FrameBytes(f)).err) /\ Len5(f) > MaxMessageBytes
<1>1. f \in Frames /\ Len5(f) \in Nat
  BY FrameLength DEF Frames, MessageFrames
<1>2. FrameBytes(f) \in Nat /\ ~(FrameBytes(f) < FrameBytes(f))
  BY <1>1 DEF FrameBytes, HeaderBytes
<1>3. arrived(f, FrameBytes(f)) = f.payload
  BY <1>1 DEF arrived, FrameBytes, HeaderBytes
<1>4. Compressed(f) => IsGzip(f.payload)
  <2>1. CASE f = Frame(p, FALSE)
    BY <2>1 DEF Frame, Compressed
  <2>2. CASE f = FrameCompressed(GzipCompress(p))
    BY <2>2, CompressedFrame DEF IsGzip
  <2> QED
    BY <2>1, <2>2 DEF FramesOf
<1>5. readFrameFlags(f, FrameBytes(f)) # "ok"
  BY <1>3, <1>4 DEF ReadFrameDecompressed
<1> QED
  BY <1>1, <1>2, <1>5, ReadErrors

LEMMA CutFrameErrors ==
  ASSUME NEW f \in Frames, NEW have \in Nat, have < FrameBytes(f)
  PROVE  LET e == ReadFrameDecompressed(f, have).err
         IN  IsShort(e) \/ (IsTooLarge(e) /\ Len5(f) > MaxMessageBytes)
<1>1. Len5(f) \in Nat
  BY FrameLength
<1>2. readFrameFlags(f, have) # "ok"
  <2>1. CASE have < 5
    BY <2>1 DEF readFrameFlags, ReadFull, HeaderBytes
  <2>2. CASE have >= 5
    BY <1>1, <2>2 DEF readFrameFlags, ReadFull, FrameBytes, HeaderBytes
  <2> QED
    BY <2>1, <2>2
<1> QED
  BY <1>2, ReadErrors

\* What a failing Recv has found: a message above the cap, the plain end of a body
\* without its END, or an error of the transport.
LEMMA ReadNextFails ==
  ASSUME IInv, OriginInv, result = Pending, readNext.err # "ok"
  PROVE  \/ /\ IsTooLarge(readNext.err)
            /\ Len(got) < Len(emits) /\ Oversized(Len(got) + 1)
         \/ /\ IsShort(readNext.err)
            /\ \A i \in 1..Len(wire) : ~EndStream(wire[i])
<1>1. /\ pos \in Nat /\ Len(wire) \in Nat /\ Len(emits) \in Nat /\ pos <= Len(wire)
      /\ pos = Len(got) /\ emits \in Seq(Payloads) /\ pos # Len(emits) + 1
  BY Waiting
<1>2. CASE pos < Len(wire)
  <2>1. pos + 1 <= Len(emits) /\ emits[pos + 1] \in Payloads
        /\ wire[pos + 1] = messageFrame(request, emits[pos + 1])
    <3>1. SUFFICES ASSUME wire[pos + 1] = EndOf, EndOf \in EndFrames PROVE FALSE
      BY <1>2, NextFrame
    <3> QED
      BY <1>2, <3>1, ReadEnd DEF readNext
  <2> DEFINE f == wire[pos + 1]
  <2>2. f \in FramesOf(emits[pos + 1])
    BY <2>1, MessageFrameIsFrame
  <2>3. readNext = ReadFrameDecompressed(f, FrameBytes(f))
    BY <1>2 DEF readNext
  <2>4. IsTooLarge(readNext.err) /\ Len5(f) > MaxMessageBytes
    BY <2>1, <2>2, <2>3, WholeFrameErrors
  <2> QED
    BY <1>1, <2>1, <2>4 DEF Oversized
<1>3. CASE ~(pos < Len(wire))
  <2>1. pos = Len(wire) /\ Len(wire) <= Len(emits)
    <3>1. Len(wire) <= Len(emits) + 1
      BY <1>1 DEF IInv, WireInv
    <3> QED
      BY <1>1, <1>3, <3>1
  <2>2. \A i \in 1..Len(wire) : ~EndStream(wire[i])
    <3>1. SUFFICES ASSUME NEW i \in 1..Len(wire) PROVE ~EndStream(wire[i])
      OBVIOUS
    <3>2. wire[i] = messageFrame(request, emits[i]) /\ emits[i] \in Payloads
      BY <1>1, <2>1 DEF IInv, WireInv
    <3> QED
      BY <3>2, MessageFrameIsFrame, MessageFrameIsNoEnd
  <2>3. CASE cut = << >>
    <3>1. readNext = [err |-> "EOF"]
      BY <1>3, <2>3 DEF readNext
    <3>2. readNext.err = "EOF"
      BY <3>1
    <3>3. IsShort(readNext.err)
      BY <3>2, Zenon DEF IsShort
    <3> QED
      BY <2>2, <3>3
  <2>4. CASE cut # << >> /\ ~IsShort(readNext.err)
    <3>1. PICK f \in Frames, n \in Nat : n < FrameBytes(f) /\ cut = << [frame |-> f, have |-> n] >>
      BY <2>4 DEF IInv, WireInv
    <3>2. readNext = ReadFrameDecompressed(f, n) /\ cut[1].frame = f
      BY <1>3, <3>1 DEF readNext
    <3>3. IsTooLarge(readNext.err) /\ Len5(f) > MaxMessageBytes
      BY <2>4, <3>1, <3>2, CutFrameErrors
    <3>4. f # EndOf
      <4>1. SUFFICES ASSUME f = EndOf PROVE FALSE
        OBVIOUS
      <4>2. Len5(f) = EndSize
        BY <4>1, EndFrameIsEnd DEF EndOf, Len5
      <4> QED
        BY <3>3, <4>2, SizesAssumption
    <3>5. Len(wire) < Len(emits) /\ f = messageFrame(request, emits[Len(wire) + 1])
      BY <2>4, <3>2, <3>4 DEF OriginInv, CutInv
    <3> QED
      BY <1>1, <2>1, <3>3, <3>5 DEF Oversized
  <2> QED
    BY <2>2, <2>3, <2>4
<1> QED
  BY <1>2, <1>3

LEMMA ErrorCodes ==
  ASSUME NEW e, IsTooLarge(e) \/ IsShort(e),
         recvError(e).kind = "rpc"
  PROVE  \/ IsTooLarge(e) /\ recvError(e).code = 8
         \/ IsShort(e) /\ conn = "eof" /\ recvError(e).code = 13
<1>1. CASE IsTooLarge(e)
  <2>1. recvError(e) = Result("rpc", 8)
    BY <1>1, Zenon DEF recvError, IsTooLarge
  <2> QED
    BY <1>1, <2>1, Results
<1>2. CASE IsShort(e)
  <2>1. \/ conn = "eof" /\ recvError(e) = Result("rpc", 13)
        \/ recvError(e) \in {Result("eof", 0), Result("raw", 0)}
    BY <1>2, Zenon DEF recvError, IsShort
  <2> QED
    BY <1>2, <2>1, Results
<1> QED
  BY <1>1, <1>2

\* A Recv that fails has one of the two reasons.
LEMMA FailureHasAnOrigin ==
  ASSUME IInv, OriginInv, RecvFails, UNCHANGED serverVars
  PROVE  ErrorsAreAuthentic'
<1>1. /\ result = Pending /\ readNext.err # "ok" /\ result' = recvError(readNext.err)
      /\ UNCHANGED << got, cl, request, wire, conn, emits >>
  BY DEF RecvFails, receiving, wireVars, serverVars
<1>2. \/ /\ IsTooLarge(readNext.err)
         /\ Len(got) < Len(emits) /\ Oversized(Len(got) + 1)
      \/ /\ IsShort(readNext.err)
         /\ \A i \in 1..Len(wire) : ~EndStream(wire[i])
  BY <1>1, ReadNextFails
<1>3. SUFFICES ASSUME result'.kind = "rpc" PROVE ErrorsAreAuthentic'
  BY DEF ErrorsAreAuthentic
<1>4. \/ IsTooLarge(readNext.err) /\ result'.code = 8
      \/ IsShort(readNext.err) /\ conn = "eof" /\ result'.code = 13
  BY <1>1, <1>2, <1>3, ErrorCodes
<1>5. ~(IsTooLarge(readNext.err) /\ IsShort(readNext.err))
  BY Zenon DEF IsTooLarge, IsShort
<1>6. CASE IsTooLarge(readNext.err)
  BY <1>1, <1>2, <1>4, <1>5, <1>6 DEF ErrorsAreAuthentic, Oversized
<1>7. CASE IsShort(readNext.err)
  BY <1>1, <1>2, <1>4, <1>5, <1>7 DEF ErrorsAreAuthentic
<1> QED
  BY <1>2, <1>6, <1>7

\* What ErrorsAreAuthentic speaks of, once the consumer has an RPC error, changes no
\* more, but for the stream being closed.
LEMMA VerdictStays ==
  ASSUME ErrorsAreAuthentic,
         UNCHANGED << result, fate, emits, got, request, wire >>,
         cl' = cl \/ cl # "failed",
         conn' = conn \/ conn' # "up"
  PROVE  ErrorsAreAuthentic'
BY DEF ErrorsAreAuthentic, Oversized

LEMMA ClientKeepsOrigin ==
  ASSUME IInv, OriginInv, Client
  PROVE  OriginInv'
<1> USE DEF OriginInv
<1>0. ClientNext /\ UNCHANGED << serverVars, phase, fate, emits >>
  BY DEF Client, serverVars
<1>1. UNCHANGED << head, wire, cut >>
  BY <1>0 DEF ClientNext, Open, OpenOK, OpenRejected, OpenFails, failOpen, Recv, RecvMessage,
     RecvEnd, RecvFails, RecvDeadline, Cancel, Close, closeBody, TimerExpires, wireVars
<1>2. ASSUME NEW r \in Requests, NEW d \in BOOLEAN, Open(r, d)
      PROVE  OriginInv'
  <2>1. /\ cl' = "connecting" /\ result' = result /\ result = Pending
        /\ phase = "idle" /\ emits = << >> /\ ~concluded
    BY <1>2, Results DEF Open, IInv, ClientInv, ServerInv, concluded
  <2>2. Len(wire) \in Nat
    BY DEF IInv, WireInv
  <2>3. cut = << >>
    BY <2>1, <2>2 DEF CutInv
  <2>4. result'.kind = "pending"
    BY <2>1, Results
  <2> QED
    BY <1>0, <1>1, <2>1, <2>3, <2>4 DEF CutInv, UnservedInv, ErrorsAreAuthentic
<1>3. ASSUME request' = request PROVE CutInv'
  BY <1>0, <1>1, <1>3 DEF CutInv, concluded, EndOf
<1>4. CASE OpenOK
  <2>1. UNCHANGED << request, result, got, conn, pos >> /\ cl = "connecting" /\ phase # "idle"
    BY <1>4 DEF OpenOK, wireVars, UnservedInv
  <2> QED
    BY <1>0, <1>1, <1>3, <2>1, VerdictStays DEF UnservedInv
<1>5. CASE OpenRejected
  <2>1. UNCHANGED request /\ cl' = "failed" /\ phase # "idle"
    BY <1>5 DEF OpenRejected, failOpen, wireVars, UnservedInv
  <2>2. IInv'
    BY <1>5, OpenRejectedStep DEF Client
  <2>3. result' = Result("rpc", ConnectFromStatus(head.status))
    BY <1>5 DEF OpenRejected, failOpen
  <2>4. head.status >= 300 /\ phase \in {"idle", "handler", "returned"}
    BY <1>5 DEF OpenRejected, IInv, ServerType
  <2>5. head.status = Negotiate(request).status
    BY <2>1, <2>4 DEF IInv, ServerInv, ConnType
  <2>6. ErrorsAreAuthentic'
    BY <2>1, <2>3, <2>5, Results DEF ErrorsAreAuthentic
  <2> QED
    BY <1>0, <1>3, <2>1, <2>6 DEF UnservedInv
<1>6. CASE OpenFails
  <2>1. UNCHANGED << request, head >> /\ cl' = "failed" /\ result' = Result("raw", 0)
    BY <1>6 DEF OpenFails, failOpen, wireVars
  <2> QED
    BY <1>0, <1>3, <2>1, Results DEF UnservedInv, ErrorsAreAuthentic
<1>7. CASE cl = "open"
  <2>1. phase # "idle"
    BY <1>7 DEF UnservedInv
  <2>2. UNCHANGED request
    BY <1>0, <1>7 DEF ClientNext, Open, OpenOK, OpenRejected, OpenFails, Recv, RecvMessage,
       RecvEnd, RecvFails, RecvDeadline, Cancel, Close, closeBody, TimerExpires, wireVars
  <2>3. CASE RecvMessage \/ RecvDeadline \/ Cancel
    <3>1. result' \in {Pending, Result("raw", 0), Result("cancelled", 0)}
      BY <2>3 DEF RecvMessage, receiving, RecvDeadline, Cancel
    <3>2. ErrorsAreAuthentic'
      BY <3>1, Results DEF ErrorsAreAuthentic
    <3> QED
      BY <1>0, <1>3, <2>1, <2>2, <3>2 DEF UnservedInv
  <2>4. CASE RecvEnd
    <3>1. IInv' /\ result = Pending /\ readNext.err = "ok" /\ readNext.end
      BY <1>0, <2>4, RecvEndStep DEF RecvEnd, receiving
    <3>2. pos < Len(wire) /\ pos = Len(emits) /\ pos \in Nat
      BY <3>1, ReadNext, Waiting
    <3>3. pos' = Len(emits') + 1 /\ got' = got /\ pos = Len(got)
      BY <1>0, <2>4, <3>1, <3>2, Waiting DEF RecvEnd, advance
    <3>4. /\ (concluded /\ (fate.kind = "clean" => fate.code = 0 /\ fate.details = << >>))'
          /\ result' = IF fate'.code = 0 /\ fate'.details = << >>
                        THEN Result("eof", 0) ELSE Result("rpc", WireCode(fate'.code))
      BY <3>1, <3>3 DEF IInv, OutcomeInv, ServerInv
    <3>5. ErrorsAreAuthentic'
      BY <1>0, <3>2, <3>3, <3>4, Results DEF ErrorsAreAuthentic, concluded
    <3> QED
      BY <1>0, <1>3, <2>1, <2>2, <3>5 DEF UnservedInv
  <2>5. CASE RecvFails
    BY <1>0, <1>3, <2>1, <2>2, <2>5, FailureHasAnOrigin DEF UnservedInv
  <2>6. CASE Close \/ TimerExpires
    <3>1. UNCHANGED << result, got >> /\ (conn' = conn \/ conn' # "up")
      BY <2>6 DEF Close, closeBody, TimerExpires, EndBody
    <3> QED
      BY <1>0, <1>1, <1>3, <1>7, <2>1, <2>2, <3>1, VerdictStays DEF UnservedInv
  <2> QED
    BY <1>0, <1>7, <2>3, <2>4, <2>5, <2>6
    DEF ClientNext, Open, OpenOK, OpenRejected, OpenFails, Recv
<1>8. CASE TimerExpires /\ cl # "open"
  <2>1. UNCHANGED << request, result, got, cl >> /\ (conn' = conn \/ conn' # "up")
    BY <1>8 DEF TimerExpires, EndBody
  <2> QED
    BY <1>0, <1>1, <1>3, <2>1, VerdictStays DEF UnservedInv
<1> QED
  BY <1>0, <1>2, <1>4, <1>5, <1>6, <1>7, <1>8
  DEF ClientNext, Recv, RecvMessage, RecvEnd, RecvFails, RecvDeadline, receiving, Cancel, Close

LEMMA NextOrigin == IInv /\ OriginInv /\ [Next]_vars => OriginInv'
<1> SUFFICES ASSUME IInv, OriginInv, [Next]_vars PROVE OriginInv'
  OBVIOUS
<1> USE DEF OriginInv
<1>1. CASE Break
  <2>1. PICK k \in pos..Len(wire), how \in {"eof", "reset"} :
          Truncate(k, how) /\ (UNCHANGED head \/ head' = NoHead)
    BY <1>1 DEF Break
  <2>2. UNCHANGED << serverVars, clientVars >>
    BY <1>1 DEF Break
  <2>3. UNCHANGED << phase, fate, emits, cl, got, result >>
    BY <2>2 DEF serverVars, clientVars
  <2>4. /\ request' = request /\ conn' # "up" /\ wire' = SubSeq(wire, 1, k)
        /\ cut' = << >> \/ (k < Len(wire) /\ cut' # << >> /\ cut'[1].frame = wire[k + 1])
    BY <2>1 DEF Truncate
  <2>5. Len(wire) \in Nat /\ Len(emits) \in Nat /\ pos \in Nat /\ k \in 0..Len(wire)
    BY DEF IInv, WireInv, ServerType, ClientType
  <2>6. Len(wire') = k /\ \A i \in 1..k : wire'[i] = wire[i]
    BY <2>4, <2>5 DEF IInv, WireInv
  <2>7. CutInv'
    <3>1. CASE cut' = << >>
      BY <3>1 DEF CutInv
    <3>2. CASE k < Len(wire) /\ cut'[1].frame = wire[k + 1]
      <4>1. \/ k + 1 <= Len(emits) /\ wire[k + 1] = messageFrame(request, emits[k + 1])
            \/ k + 1 = Len(emits) + 1 /\ concluded /\ wire[k + 1] = EndOf
        BY <2>5, <3>2 DEF IInv, WireInv
      <4> QED
        BY <2>3, <2>4, <2>5, <2>6, <3>2, <4>1 DEF CutInv, concluded, EndOf
    <3> QED
      BY <2>4, <3>1, <3>2
  <2>8. UnservedInv'
    BY <2>1, <2>3 DEF UnservedInv
  <2>9. ErrorsAreAuthentic'
    BY <2>3, <2>4, <2>5, <2>6 DEF ErrorsAreAuthentic, Oversized
  <2> QED
    BY <2>7, <2>8, <2>9
<1>2. CASE CutRequest
  <2>1. /\ UNCHANGED << head, wire, cut, phase, fate, emits, cl, got, result >>
        /\ phase = "idle" /\ emits = << >> /\ ~concluded
    BY <1>2 DEF CutRequest, serverVars, clientVars, IInv, ServerInv, concluded
  <2>2. Len(wire) \in Nat
    BY DEF IInv, WireInv
  <2>3. cut = << >> /\ result.kind # "rpc"
    BY <2>1, <2>2 DEF CutInv, UnservedInv
  <2> QED
    BY <2>1, <2>3 DEF CutInv, UnservedInv, ErrorsAreAuthentic
<1>3. CASE Done \/ UNCHANGED vars
  <2>1. UNCHANGED << request, head, wire, conn, cut, phase, fate, emits, cl, got, result >>
    BY <1>3 DEF Done, vars, wireVars, serverVars, clientVars
  <2> QED
    BY <2>1 DEF CutInv, UnservedInv, ErrorsAreAuthentic, Oversized, concluded, EndOf
<1> QED
  BY <1>1, <1>2, <1>3, ServerKeepsOrigin, ClientKeepsOrigin DEF Next

\* The consumer never sees an RPC error that nobody raised: it is the handler's, a
\* rejection, the cap on a message that is above it, or a body without its END
\* (ErrorsAreAuthentic).
THEOREM ErrorsHaveAnOrigin == Spec => []ErrorsAreAuthentic
<1>1. OriginInv => ErrorsAreAuthentic
  BY DEF OriginInv
<1> QED
  BY <1>1, Invariant, InitOrigin, NextOrigin, PTL DEF Spec

-----------------------------------------------------------------------------
(* The request.  The bytes of a client hold whole messages, but a          *)
(* connection that fails may leave a part of them.                         *)

Envelope == [len : Nat, have : Nat, flagged : BOOLEAN, gzip : BOOLEAN]
RequestShape ==
  [version : STRING, httpMethod : STRING, path : STRING, ctype : STRING, ce : STRING,
   cce : STRING, accept : STRING, timeout : BOOLEAN,
   body : [frames : Seq(Envelope), extra : Nat, gzip : BOOLEAN]]
NotOverfull(req) == \A i \in 1..Len(req.body.frames) :
                      req.body.frames[i].have <= req.body.frames[i].len
ShapedRequests == \A r \in Requests : r \in RequestShape /\ NotOverfull(r)

RequestInv ==
  request # NoRequest =>
    /\ request \in RequestShape /\ NotOverfull(request)
    /\ IsStreamContentType(request.ctype)
    /\ phase = "handler" => Negotiate(request).to = "handler"

LEMMA InitRequest == Init => RequestInv
BY DEF Init, WireInit, RequestInv

LEMMA NextRequest ==
  ASSUME ShapedRequests
  PROVE  RequestInv /\ IInv /\ [Next]_vars => RequestInv'
<1> SUFFICES ASSUME RequestInv, IInv, [Next]_vars PROVE RequestInv'
  OBVIOUS
<1>1. ASSUME request' = request, phase' = phase \/ phase' # "handler" PROVE RequestInv'
  BY <1>1 DEF RequestInv
<1>2. CASE Server
  <2>1. ASSUME RunHandler(Negotiate(request)) PROVE RequestInv'
    BY <2>1 DEF RunHandler, RequestInv, wireVars
  <2>2. ASSUME Reject(Negotiate(request)) PROVE RequestInv'
    BY <1>1, <2>2 DEF Reject
  <2> QED
    BY <1>1, <1>2, <2>1, <2>2
    DEF Server, ServerNext, Serve, SetHeader, SetTrailer, Emit, EmitEnd, ReturnNil,
        ReturnError, Panic, ContextDone, wireVars
<1>3. CASE Client
  <2>1. ASSUME NEW r \in Requests, NEW d \in BOOLEAN, Open(r, d), UNCHANGED serverVars
        PROVE  RequestInv'
    <3>1. r \in RequestShape /\ NotOverfull(r) /\ IsStreamContentType(r.ctype)
      BY RequestsAssumption DEF ShapedRequests
    <3>2. request' = [r EXCEPT !.timeout = d]
      BY <2>1 DEF Open
    <3>3. request' \in RequestShape /\ request'.body = r.body /\ request'.ctype = r.ctype
      BY <3>1, <3>2 DEF RequestShape
    <3>4. phase' # "handler"
      BY <2>1 DEF Open, IInv, ClientInv, ServerInv, serverVars
    <3> QED
      BY <3>1, <3>3, <3>4 DEF RequestInv, NotOverfull
  <2> QED
    BY <1>1, <1>3, <2>1
    DEF Client, ClientNext, OpenOK, OpenRejected, OpenFails, failOpen, Recv,
        RecvMessage, RecvEnd, RecvFails, RecvDeadline, Cancel, Close, closeBody, TimerExpires,
        wireVars, serverVars
<1>4. CASE Break
  BY <1>1, <1>4 DEF Break, Truncate, serverVars
<1>5. CASE CutRequest
  <2>1. /\ request # NoRequest /\ phase' = "idle" /\ Len(request.body.frames) = 1
        /\ request \in RequestShape /\ NotOverfull(request) /\ IsStreamContentType(request.ctype)
    BY <1>5 DEF CutRequest, serverVars, RequestInv
  <2> DEFINE b == request.body
             f == b.frames[1]
  <2>2. /\ b \in [frames : Seq(Envelope), extra : Nat, gzip : BOOLEAN]
        /\ b.frames \in Seq(Envelope) /\ Len(b.frames) = 1
        /\ f \in Envelope /\ f.have \in Nat /\ f.len \in Nat /\ f.have <= f.len
    <3>1. /\ b \in [frames : Seq(Envelope), extra : Nat, gzip : BOOLEAN]
          /\ b.frames \in Seq(Envelope) /\ Len(b.frames) = 1
      BY <2>1 DEF RequestShape
    <3>2. f \in Envelope
      BY <3>1
    <3> QED
      BY <2>1, <3>1, <3>2 DEF Envelope, NotOverfull
  <2>3. ASSUME NEW c \in [frames : Seq(Envelope), extra : Nat, gzip : BOOLEAN],
               request' = [request EXCEPT !.body = c],
               \A i \in 1..Len(c.frames) : c.frames[i].have <= c.frames[i].len
        PROVE  RequestInv'
    <3>1. request' \in RequestShape /\ request'.body = c /\ request'.ctype = request.ctype
      BY <2>1, <2>3 DEF RequestShape
    <3> QED
      BY <2>1, <2>3, <3>1 DEF RequestInv, NotOverfull
  <2>4. ASSUME NEW n \in 0..(f.have - 1), request' = [request EXCEPT !.body.frames[1].have = n]
        PROVE  RequestInv'
    <3> DEFINE g == [f EXCEPT !.have = n]
               fs == [b.frames EXCEPT ![1] = g]
               c == [b EXCEPT !.frames = fs]
    <3>1. g \in Envelope /\ g.have <= g.len
      <4>1. n \in Nat /\ n <= f.len
        BY <2>2
      <4>2. g = [len |-> f.len, have |-> n, flagged |-> f.flagged, gzip |-> f.gzip]
        BY <2>2 DEF Envelope
      <4>3. f.len \in Nat /\ f.flagged \in BOOLEAN /\ f.gzip \in BOOLEAN
        BY <2>2 DEF Envelope
      <4> HIDE DEF f, g
      <4> QED
        BY <4>1, <4>2, <4>3 DEF Envelope
    <3> HIDE DEF g
    <3>2. fs \in Seq(Envelope) /\ Len(fs) = 1 /\ fs[1] = g
      BY <2>2, <3>1
    <3> HIDE DEF fs
    <3>3. c \in [frames : Seq(Envelope), extra : Nat, gzip : BOOLEAN] /\ c.frames = fs
      BY <2>2, <3>2
    <3>4. request' = [request EXCEPT !.body = c]
      BY <2>4 DEF g, fs
    <3> HIDE DEF c
    <3> QED
      BY <2>3, <3>1, <3>2, <3>3, <3>4
  <2>5. ASSUME NEW n \in 0..(HeaderBytes - 1),
               request' = [request EXCEPT !.body.frames = << >>, !.body.extra = n]
        PROVE  RequestInv'
    <3> DEFINE c == [b EXCEPT !.frames = << >>, !.extra = n]
    <3>1. n \in Nat
      BY DEF HeaderBytes
    <3>2. c \in [frames : Seq(Envelope), extra : Nat, gzip : BOOLEAN] /\ c.frames = << >>
      <4>1. << >> \in Seq(Envelope)
        OBVIOUS
      <4>2. [b EXCEPT !.frames = << >>] \in [frames : Seq(Envelope), extra : Nat, gzip : BOOLEAN]
        BY <2>2, <4>1
      <4> QED
        BY <2>2, <3>1, <4>1, <4>2
    <3>3. request' = [request EXCEPT !.body = c]
      <4>1. request' = [request EXCEPT !.body = [[b EXCEPT !.frames = << >>] EXCEPT !.extra = n]]
        BY <2>1, <2>5 DEF RequestShape
      <4> QED
        BY <4>1
    <3> HIDE DEF c
    <3> QED
      BY <2>3, <3>2, <3>3
  <2> QED
    BY <1>5, <2>4, <2>5 DEF CutRequest
<1>6. CASE Done \/ UNCHANGED vars
  BY <1>1, <1>6 DEF Done, vars, wireVars, serverVars
<1> QED
  BY <1>2, <1>3, <1>4, <1>5, <1>6 DEF Next

LEMMA ServedWhole ==
  ASSUME IInv, RequestInv, phase = "handler"
  PROVE  HandlerGetsWholeMessage
<1>1. /\ request \in RequestShape /\ NotOverfull(request)
      /\ IsStreamContentType(request.ctype) /\ Negotiate(request).to = "handler"
  BY DEF RequestInv, IInv, ServerInv
<1>2. NegotiateStream(request) = runHandler
  <2> DEFINE Served(n) == n.to = "handler"
  <2>1. /\ ~Served(writeErrorStatus(2, 405)) /\ ~Served(writeErrorStatus(12, 404))
        /\ ~Served(writeErrorStatus(2, 415)) /\ ~Served(writeError(8)) /\ ~Served(writeError(12))
    BY DEF writeErrorStatus, writeError
  <2>2. Served(Negotiate(request))
    BY <1>1
  <2> HIDE DEF Served
  <2>4. /\ ~wrongContentType(request)
        /\ Negotiate(request) = IF spec(request).serverStream THEN NegotiateStream(request)
                                ELSE NegotiateUnary(request)
    BY <2>1, <2>2 DEF Negotiate
  <2>5. Negotiate(request) = NegotiateStream(request)
    BY <1>1, <2>4 DEF wrongContentType, IsStreamContentType
  <2> QED
    BY <1>1, <2>5 DEF NegotiateStream, streamFail
<1>3. streamBodyError(request.body) = 0
  BY <1>2 DEF NegotiateStream, streamFail, runHandler
<1>4. /\ countFramesError(request.body) = 0 /\ Len(request.body.frames) = 1
      /\ readSingleFrameError(request.body) = 0
  BY <1>3 DEF streamBodyError
<1>5. request.body.extra \in Nat /\ request.body.frames \in Seq(Envelope)
  BY <1>1 DEF RequestShape
<1>6. request.body.frames[1] \in Envelope
  BY <1>4, <1>5
<1>7. request.body.extra = 0
  BY <1>4, <1>5 DEF countFramesError
<1>8. /\ request.body.frames[1].have \in Nat /\ request.body.frames[1].len \in Nat
      /\ request.body.frames[1].have <= request.body.frames[1].len
      /\ ~(request.body.frames[1].have < request.body.frames[1].len)
  BY <1>1, <1>4, <1>6 DEF Envelope, NotOverfull, readSingleFrameError
<1> QED
  BY <1>4, <1>7, <1>8 DEF HandlerGetsWholeMessage

\* A handler never sees part of a message (HandlerGetsWholeMessage), although the
\* adapter passes on a body it could not read to its end.
THEOREM HandlerIsGivenWholeMessage ==
  ASSUME ShapedRequests
  PROVE  Spec => []HandlerGetsWholeMessage
<1>1. IInv /\ RequestInv => HandlerGetsWholeMessage
  BY ServedWhole DEF HandlerGetsWholeMessage
<1>2. RequestInv /\ IInv /\ [Next]_vars => RequestInv'
  BY NextRequest
<1> QED
  BY <1>1, <1>2, InitRequest, Invariant, PTL DEF Spec

-----------------------------------------------------------------------------
(* Compression.  net/http puts the keys of a request in canonical form,    *)
(* and then no answer is compressed; a server that is handed the lower-    *)
(* case key compresses every large message twice (run double_gzip).        *)

CanonicalKeys == \A r \in Requests : ~acceptsGzip(r)

GzipInv ==
  /\ request # NoRequest => ~acceptsGzip(request)
  /\ NoRawGzip

LEMMA InitGzip == Init => GzipInv
BY DEF Init, WireInit, ClientInit, GzipInv, NoRawGzip

\* What Recv reads next is a message as the handler gave it.
LEMMA ReadNextPlain ==
  ASSUME IInv, GzipInv, RecvMessage
  PROVE  readNext.payload.gz = 0
<1>1. result = Pending /\ readNext.err = "ok" /\ ~readNext.end
  BY DEF RecvMessage, receiving
<1>2. pos < Len(wire)
  BY <1>1, ReadNext
<1> DEFINE f == wire[pos + 1]
           p == emits[pos + 1]
<1>3. readNext = ReadFrameDecompressed(f, FrameBytes(f))
  BY <1>2 DEF readNext
<1>4. p \in Payloads /\ f = messageFrame(request, p)
  <2>1. SUFFICES ASSUME f = EndOf, EndOf \in EndFrames PROVE FALSE
    BY <1>1, <1>2, NextFrame
  <2> QED
    BY <1>1, <1>3, <2>1, ReadEnd
<1>5. p.gz = 0
  <2> DEFINE q == [id |-> p.id, size |-> p.size, zsize |-> p.zsize, gz |-> 0]
  <2>1. p = q
    BY <1>4, PayloadsAssumption
  <2>2. q.gz = 0
    OBVIOUS
  <2> QED
    BY <2>1, <2>2
<1>6. f = Frame(p, FALSE)
  <2>1. request # NoRequest
    <3>1. pos \in Nat /\ pos + 1 <= Len(emits)
      BY <1>1, ReadNext, Waiting
    <3>2. request = NoRequest => emits = << >>
      BY DEF IInv, ServerInv
    <3> QED
      BY <3>1, <3>2
  <2> QED
    BY <1>4, <2>1 DEF GzipInv, messageFrame
<1>7. f \in Frames /\ Len5(f) \in Nat
  BY <1>4, MessageFrameIsFrame, FrameLength
<1>8. ~Compressed(f) /\ f.payload = p
  BY <1>6 DEF Frame, Compressed
<1>9. arrived(f, FrameBytes(f)) = f.payload
  BY <1>7 DEF arrived, FrameBytes, HeaderBytes
<1> QED
  BY <1>1, <1>3, <1>5, <1>8, <1>9 DEF ReadFrameDecompressed

LEMMA NextGzip ==
  ASSUME ShapedRequests, CanonicalKeys
  PROVE  RequestInv /\ IInv /\ GzipInv /\ [Next]_vars => GzipInv'
<1> SUFFICES ASSUME RequestInv, IInv, GzipInv, [Next]_vars PROVE GzipInv'
  OBVIOUS
<1>1. ASSUME UNCHANGED << request, got >> PROVE GzipInv'
  BY <1>1 DEF GzipInv, NoRawGzip
<1>2. ASSUME NEW r \in Requests, NEW d \in BOOLEAN, Open(r, d) PROVE GzipInv'
  <2>1. request' = [r EXCEPT !.timeout = d] /\ got' = got
    BY <1>2 DEF Open
  <2>2. request'.accept = r.accept
    BY <2>1 DEF ShapedRequests, RequestShape
  <2> QED
    BY <2>1, <2>2 DEF GzipInv, NoRawGzip, CanonicalKeys, acceptsGzip
<1>3. CASE RecvMessage
  <2>1. got' = Append(got, readNext.payload) /\ readNext.payload.gz = 0 /\ request' = request
    BY <1>3, ReadNextPlain DEF RecvMessage, wireVars
  <2>2. got \in Seq(Received) /\ Len(got) \in Nat
    BY DEF IInv, ClientInv
  <2>3. \A i \in 1..Len(got') : got'[i].gz = 0
    BY <2>1, <2>2 DEF GzipInv, NoRawGzip
  <2> QED
    BY <2>1, <2>3 DEF GzipInv, NoRawGzip
<1>4. CASE CutRequest
  <2>1. request # NoRequest /\ request \in RequestShape /\ got' = got
    BY <1>4 DEF CutRequest, RequestInv, clientVars
  <2>2. request'.accept = request.accept
    <3>1. ASSUME NEW c, request' = [request EXCEPT !.body = c]
          PROVE  request'.accept = request.accept
      BY <2>1, <3>1 DEF RequestShape
    <3>2. \E c : request' = [request EXCEPT !.body = c]
      <4> DEFINE b == request.body
      <4>1. CASE \E n \in 0..(b.frames[1].have - 1) :
                   request' = [request EXCEPT !.body.frames[1].have = n]
        BY <4>1
      <4>2. CASE \E n \in 0..(HeaderBytes - 1) :
                   request' = [request EXCEPT !.body.frames = << >>, !.body.extra = n]
        <5>1. PICK n \in 0..(HeaderBytes - 1) :
                request' = [request EXCEPT !.body.frames = << >>, !.body.extra = n]
          BY <4>2
        <5>2. request' = [request EXCEPT !.body = [[b EXCEPT !.frames = << >>] EXCEPT !.extra = n]]
          BY <2>1, <5>1 DEF RequestShape
        <5> QED
          BY <5>2
      <4> QED
        BY <1>4, <4>1, <4>2 DEF CutRequest
    <3> QED
      BY <3>1, <3>2
  <2> QED
    BY <2>1, <2>2 DEF GzipInv, NoRawGzip, acceptsGzip
<1>5. CASE Server \/ Break \/ Done \/ UNCHANGED vars
  <2>1. UNCHANGED << request, got >>
    BY <1>5
    DEF Server, ServerNext, Serve, Reject, RunHandler, SetHeader, SetTrailer, Emit, EmitEnd,
        ReturnNil, ReturnError, Panic, ContextDone, Break, Truncate, Done, vars, wireVars, clientVars
  <2> QED
    BY <1>1, <2>1
<1>6. CASE Client
  BY <1>1, <1>2, <1>3, <1>6
  DEF Client, ClientNext, OpenOK, OpenRejected, OpenFails, failOpen, Recv, RecvEnd, RecvFails,
      RecvDeadline, Cancel, Close, closeBody, TimerExpires, wireVars
<1> QED
  BY <1>4, <1>5, <1>6 DEF Next

\* A consumer behind net/http never gets a message still compressed (NoRawGzip).
THEOREM MessagesArePlain ==
  ASSUME ShapedRequests, CanonicalKeys
  PROVE  Spec => []NoRawGzip
<1>1. GzipInv => NoRawGzip
  BY DEF GzipInv
<1>2. RequestInv /\ IInv /\ [Next]_vars => RequestInv'
  BY NextRequest
<1>3. RequestInv /\ IInv /\ GzipInv /\ [Next]_vars => GzipInv'
  BY NextGzip
<1> QED
  BY <1>1, <1>2, <1>3, InitRequest, InitGzip, Invariant, PTL DEF Spec

-----------------------------------------------------------------------------
(* The refinement: a server-stream call implements the abstract stream of  *)
(* RpcStream; each of its steps is a step of the abstract stream, or none. *)

(* Messages by their names. *)

LEMMA IdsOf ==
  ASSUME NEW S, NEW s \in Seq(S)
  PROVE  /\ ids(s) \in Seq({x.id : x \in S}) /\ Len(ids(s)) = Len(s)
         /\ \A i \in 1..Len(s) : ids(s)[i] = s[i].id
BY DEF ids

LEMMA IdsAppend ==
  ASSUME NEW S, NEW s \in Seq(S), NEW x \in S
  PROVE  ids(Append(s, x)) = Append(ids(s), x.id)
<1> DEFINE T == {y.id : y \in S}
           a == ids(Append(s, x))
           b == Append(ids(s), x.id)
<1>1. Append(s, x) \in Seq(S) /\ Len(Append(s, x)) = Len(s) + 1
  OBVIOUS
<1>2. a \in Seq(T) /\ Len(a) = Len(s) + 1 /\ \A i \in 1..(Len(s) + 1) : a[i] = Append(s, x)[i].id
  BY <1>1, IdsOf
<1>3. x.id \in T /\ ids(s) \in Seq(T) /\ Len(ids(s)) = Len(s)
  BY IdsOf
<1> HIDE DEF T
<1>4. /\ b \in Seq(T) /\ Len(b) = Len(s) + 1
      /\ \A i \in 1..Len(s) : b[i] = ids(s)[i]
      /\ b[Len(s) + 1] = x.id
  BY <1>3, AppendFrame
<1>5. Len(s) \in Nat /\ \A i \in 1..Len(s) : a[i] = s[i].id /\ ids(s)[i] = s[i].id
  <2>1. Len(s) \in Nat /\ \A i \in 1..Len(s) : i \in 1..(Len(s) + 1) /\ Append(s, x)[i] = s[i]
    OBVIOUS
  <2>2. \A i \in 1..Len(s) : ids(s)[i] = s[i].id
    BY IdsOf
  <2> HIDE DEF a
  <2> QED
    BY <1>2, <2>1, <2>2
<1>6. a[Len(s) + 1] = x.id
  BY <1>2, <1>5, AppendFrame
<1> HIDE DEF a, b
<1>7. \A i \in 1..(Len(s) + 1) : a[i] = b[i]
  <2> SUFFICES ASSUME NEW i \in 1..(Len(s) + 1) PROVE a[i] = b[i]
    OBVIOUS
  <2>1. CASE i \in 1..Len(s)
    BY <1>4, <1>5, <2>1
  <2>2. CASE i = Len(s) + 1
    BY <1>4, <1>6, <2>2
  <2> QED
    BY <1>5, <2>1, <2>2
<1>8. a = [i \in 1..(Len(s) + 1) |-> a[i]] /\ b = [i \in 1..(Len(s) + 1) |-> b[i]]
  BY <1>2, <1>4
<1>9. a = b
  BY <1>7, <1>8
<1> QED
  BY <1>9 DEF a, b

\* Two sequences that name the same messages are the same to the abstract stream.
LEMMA IdsEqual ==
  ASSUME NEW S, NEW s \in Seq(S), NEW T, NEW t \in Seq(T), Len(s) = Len(t),
         \A i \in 1..Len(s) : s[i].id = t[i].id
  PROVE  ids(s) = ids(t)
BY DEF ids

-----------------------------------------------------------------------------
(* The outcome and the status.                                             *)

\* An HTTP error is only sent when the call is rejected, before any message.
RejectInv ==
  /\ fate.kind = "reject" => phase = "returned"
  /\ head.status >= 300 => fate.kind = "reject" /\ emits = << >>

LEMMA FateFields ==
  \A kind, c, d, t : Fate(kind, c, d, t).kind = kind /\ Fate(kind, c, d, t).code = c
BY DEF Fate

LEMMA InitReject == Init => RejectInv
BY FateFields DEF Init, WireInit, ServerInit, RejectInv, NoHead

\* A write of the handler sends status 200, if it sends any.
LEMMA WriteKeepsReject ==
  ASSUME RejectInv, IInv, phase = "handler", NEW f, applyAndWrite(f)
  PROVE  ~(head'.status >= 300)
<1>1. ~(head.status >= 300)
  BY DEF IInv, ServerInv
<1>2. head' = head \/ head' = [status |-> 200, keys |-> hdr]
  BY DEF applyAndWrite, WriteFrame, ResponseHead
<1> QED
  BY <1>1, <1>2

LEMMA NextReject == RejectInv /\ IInv /\ [Next]_vars => RejectInv'
<1> SUFFICES ASSUME RejectInv, IInv, [Next]_vars PROVE RejectInv'
  OBVIOUS
<1> USE DEF RejectInv
<1>1. ASSUME UNCHANGED << emits, fate >>, head' = head \/ head' = NoHead,
             phase' = phase \/ phase' = "returned" \/ phase = "idle"
      PROVE  RejectInv'
  <2>1. phase = "idle" => fate.kind = "running"
    BY DEF IInv, ServerInv
  <2> QED
    BY <1>1, <2>1 DEF NoHead
<1>2. ASSUME phase = "handler", NEW f, applyAndWrite(f),
             fate' = fate \/ (fate'.kind \in {"clean", "error"})
      PROVE  RejectInv'
  <2>1. fate.kind # "reject"
    BY <1>2 DEF IInv, ServerInv
  <2> QED
    BY <1>2, <2>1, WriteKeepsReject
<1>3. CASE ServerNext
  <2>1. CASE Reject(Negotiate(request)) /\ phase = "idle"
    <3>1. emits' = << >> /\ phase' = "returned" /\ ~(head.status >= 300)
      BY <2>1 DEF Reject, IInv, ServerInv
    <3>2. CASE Negotiate(request).to = "http"
      BY <2>1, <3>1, <3>2, FateFields DEF Reject
    <3>3. CASE Negotiate(request).to # "http"
      <4>1. fate'.kind = "error" /\ (head' = head \/ head' = [status |-> 200, keys |-> hdr])
        BY <2>1, <3>3, FateFields DEF Reject, WriteFrame, ResponseHead
      <4> QED
        BY <3>1, <4>1
    <3> QED
      BY <3>2, <3>3
  <2>2. CASE RunHandler(Negotiate(request)) /\ phase = "idle"
    BY <1>1, <2>2 DEF RunHandler, wireVars
  <2>3. ASSUME NEW p \in Payloads, Emit(p) PROVE RejectInv'
    BY <1>2, <2>3 DEF Emit
  <2>4. CASE EmitEnd
    BY <1>2, <2>4, FateFields DEF EmitEnd
  <2>5. CASE ReturnNil
    BY <1>1, <1>2, <2>5, FateFields DEF ReturnNil
  <2>6. ASSUME NEW err \in Errors, ReturnError(err) PROVE RejectInv'
    BY <1>1, <1>2, <2>6, FateFields DEF ReturnError
  <2> QED
    BY <1>1, <1>3, <2>1, <2>2, <2>3, <2>4, <2>5, <2>6
    DEF ServerNext, Serve, SetHeader, SetTrailer, Panic, ContextDone, wireVars
<1>4. CASE Break \/ CutRequest
  BY <1>1, <1>4 DEF Break, CutRequest, serverVars
<1>5. CASE Client
  BY <1>1, <1>5
  DEF Client, ClientNext, Open, OpenOK, OpenRejected, OpenFails, failOpen, Recv, RecvMessage,
      RecvEnd, RecvFails, RecvDeadline, Cancel, Close, closeBody, TimerExpires, wireVars, serverVars
<1>6. CASE Done \/ UNCHANGED vars
  BY <1>1, <1>6 DEF Done, vars, wireVars, serverVars
<1> QED
  BY <1>3, <1>4, <1>5, <1>6 DEF Next, Server

-----------------------------------------------------------------------------
(* The steps of the abstract stream, and when a step is one of them.       *)

absVars == << ids(emits), abstractStatus, ids(got), abstractOutcome >>

LEMMA Stutters ==
  ASSUME UNCHANGED << emits, fate, got, result >>,
         request' = request \/ fate.kind # "reject"
  PROVE  UNCHANGED absVars
BY DEF absVars, ids, abstractStatus, abstractOutcome

LEMMA Running ==
  ASSUME IInv, ~concluded, fate.kind # "reject"
  PROVE  abstractStatus = << >>
BY DEF IInv, ServerType, concluded, abstractStatus

LEMMA Outcomes ==
  /\ result.kind = "pending" => abstractOutcome = << >>
  /\ result.kind \in {"eof", "rpc"} => abstractOutcome = << result.code >>
  /\ result.kind = "raw" => abstractOutcome = << -1 >>
  /\ result.kind = "cancelled" => abstractOutcome = << -2 >>
BY DEF abstractOutcome

\* The stream is concluded, by an END frame or by an HTTP error.
LEMMA Finishes ==
  ASSUME IInv, ~concluded, fate.kind # "reject", UNCHANGED << emits, got, result, request >>,
         NEW s \in KnownCodes \cup {0}, abstractStatus' = << s >>
  PROVE  Abstract!Finish(s) /\ Abstract!Next
<1>1. abstractStatus = << >>
  BY Running
<1>2. ids(emits)' = ids(emits) /\ ids(got)' = ids(got) /\ abstractOutcome' = abstractOutcome
  BY DEF ids, abstractOutcome
<1>3. Abstract!Finish(s)
  BY <1>1, <1>2 DEF Abstract!Finish
<1> QED
  BY <1>3 DEF Abstract!Next

LEMMA FinishesWith ==
  ASSUME IInv, ~concluded, fate.kind # "reject", UNCHANGED << emits, got, result, request >>,
         \/ fate'.kind = "clean"
         \/ fate'.kind = "error"
         \/ fate'.kind = "reject"
  PROVE  Abstract!Next
<1>1. CASE fate'.kind = "clean"
  BY <1>1, Finishes DEF abstractStatus
<1>2. CASE fate'.kind = "error"
  <2>1. abstractStatus' = << WireCode(fate'.code) >> /\ WireCode(fate'.code) \in KnownCodes
    BY <1>2 DEF abstractStatus, WireCode, KnownCodes
  <2> QED
    BY <2>1, Finishes
<1>3. CASE fate'.kind = "reject"
  <2>1. /\ abstractStatus' = << ConnectFromStatus(Negotiate(request).status) >>
        /\ ConnectFromStatus(Negotiate(request).status) \in KnownCodes
    BY <1>3 DEF abstractStatus, ConnectFromStatus, KnownCodes
  <2> QED
    BY <2>1, Finishes
<1> QED
  BY <1>1, <1>2, <1>3

\* The consumer is told the status of the server after all its messages.
LEMMA Concludes ==
  ASSUME IInv, result = Pending, UNCHANGED << emits, fate, got, request >>, Len(got) = Len(emits),
         abstractStatus # << >>, abstractOutcome' = abstractStatus
  PROVE  Abstract!Next
<1>1. abstractOutcome = << >>
  BY Outcomes, Results
<1>2. ids(got) = ids(emits)
  <2>1. got \in Seq(Received) /\ emits \in Seq(Payloads) /\ \A i \in 1..Len(got) : got[i].id = emits[i].id
    BY DEF IInv, ClientInv, DeliveredInOrder, ServerType
  <2> QED
    BY <2>1, IdsEqual
<1>3. ids(emits)' = ids(emits) /\ ids(got)' = ids(got) /\ abstractStatus' = abstractStatus
  BY DEF ids, abstractStatus
<1>4. Abstract!Conclude
  BY <1>1, <1>2, <1>3 DEF Abstract!Conclude
<1> QED
  BY <1>4 DEF Abstract!Next

\* The consumer's own end of the stream gives it the error e.
LEMMA FailsWith ==
  ASSUME result = Pending, UNCHANGED << emits, fate, got, request >>,
         NEW e \in {-1, -2, 8, 13}, abstractOutcome' = << e >>
  PROVE  Abstract!Next
<1>1. abstractOutcome = << >>
  BY Outcomes, Results
<1>2. ids(emits)' = ids(emits) /\ ids(got)' = ids(got) /\ abstractStatus' = abstractStatus
  BY DEF ids, abstractStatus
<1>3. Abstract!Fail(e)
  BY <1>1, <1>2 DEF Abstract!Fail
<1> QED
  BY <1>3 DEF Abstract!Next

-----------------------------------------------------------------------------
(* The steps of the call.                                                  *)

\* emit sends a message.
LEMMA EmitSends ==
  ASSUME IInv, NEW p \in Payloads, Emit(p), UNCHANGED << got, result >>
  PROVE  Abstract!Next
<1>1. /\ emits' = Append(emits, p) /\ fate' = fate /\ request' = request
      /\ ~concluded /\ fate.kind # "reject" /\ emits \in Seq(Payloads)
  BY DEF Emit, mayEmit, IInv, ServerInv, ServerType
<1>2. abstractStatus = << >> /\ abstractStatus' = abstractStatus
  BY <1>1, Running DEF abstractStatus
<1>3. ids(emits)' = Append(ids(emits), p.id)
  <2>1. ids(Append(emits, p)) = Append(ids(emits), p.id)
    BY <1>1, IdsAppend
  <2>2. ids(emits)' = ids(Append(emits, p))
    BY <1>1 DEF ids
  <2> QED
    BY <2>1, <2>2
<1>4. ids(got)' = ids(got) /\ abstractOutcome' = abstractOutcome
  BY DEF ids, abstractOutcome
<1>5. p.id \in {q.id : q \in Payloads} /\ Abstract!Send(p.id)
  BY <1>2, <1>3, <1>4 DEF Abstract!Send
<1> QED
  BY <1>5 DEF Abstract!Next

LEMMA ServerRefines ==
  ASSUME IInv, ServerNext, UNCHANGED clientVars
  PROVE  Abstract!Next \/ UNCHANGED absVars
<1>1. UNCHANGED << got, result >>
  BY DEF clientVars
<1>2. ASSUME UNCHANGED << emits, fate, request >> PROVE UNCHANGED absVars
  BY <1>1, <1>2, Stutters
<1>3. ASSUME phase = "handler", ~ended, UNCHANGED << emits, request >>,
             fate'.kind \in {"clean", "error"}
      PROVE  Abstract!Next
  <2>1. ~concluded /\ fate.kind # "reject"
    BY <1>3 DEF IInv, ServerInv
  <2> QED
    BY <1>1, <1>3, <2>1, FinishesWith
<1>4. CASE Serve
  <2>1. ~concluded /\ fate.kind # "reject"
    BY <1>4 DEF Serve, IInv, ServerInv, concluded
  <2>2. CASE Reject(Negotiate(request))
    <3>1. fate'.kind \in {"reject", "error"}
      BY <2>2, FateFields DEF Reject
    <3>2. UNCHANGED << emits, request >>
      BY <2>2 DEF Reject
    <3> QED
      BY <1>1, <2>1, <3>1, <3>2, FinishesWith
  <2>3. CASE RunHandler(Negotiate(request))
    BY <1>2, <2>3 DEF RunHandler, wireVars
  <2> QED
    BY <1>4, <2>2, <2>3 DEF Serve
<1>5. ASSUME NEW p \in Payloads, Emit(p) PROVE Abstract!Next
  BY <1>1, <1>5, EmitSends
<1>6. CASE EmitEnd
  BY <1>3, <1>6, FateFields DEF EmitEnd, mayEmit
<1>7. CASE ReturnNil
  <2>1. CASE ended
    BY <1>2, <1>7, <2>1 DEF ReturnNil
  <2>2. CASE ~ended
    BY <1>3, <1>7, <2>2, FateFields DEF ReturnNil
  <2> QED
    BY <2>1, <2>2
<1>8. ASSUME NEW err \in Errors, ReturnError(err) PROVE Abstract!Next \/ UNCHANGED absVars
  <2>1. CASE ended
    BY <1>2, <1>8, <2>1 DEF ReturnError
  <2>2. CASE ~ended
    BY <1>3, <1>8, <2>2, FateFields DEF ReturnError
  <2> QED
    BY <2>1, <2>2
<1>9. CASE Panic \/ ContextDone \/ (\E k \in HeaderKeys : SetHeader(k))
           \/ (\E k \in TrailerKeys : SetTrailer(k))
  BY <1>2, <1>9 DEF Panic, ContextDone, SetHeader, SetTrailer, wireVars
<1> QED
  BY <1>4, <1>5, <1>6, <1>7, <1>8, <1>9 DEF ServerNext

\* Recv returns the next message.
LEMMA RecvDelivers ==
  ASSUME IInv, RecvMessage, UNCHANGED serverVars
  PROVE  Abstract!Next
<1>1. /\ result = Pending /\ readNext.err = "ok" /\ ~readNext.end
      /\ got' = Append(got, readNext.payload)
      /\ UNCHANGED << result, request, emits, fate >>
  BY DEF RecvMessage, receiving, wireVars, serverVars
<1>2. /\ pos + 1 <= Len(emits) /\ readNext.payload \in Received
      /\ readNext.payload.id = emits[pos + 1].id
  BY <1>1, ReadNext
<1>3. /\ pos \in Nat /\ pos = Len(got) /\ got \in Seq(Received)
      /\ emits \in Seq(Payloads) /\ Len(emits) \in Nat
  BY <1>1, Waiting
<1>4. ids(got)' = Append(ids(got), readNext.payload.id)
  <2>1. ids(Append(got, readNext.payload)) = Append(ids(got), readNext.payload.id)
    BY <1>2, <1>3, IdsAppend
  <2>2. ids(got)' = ids(Append(got, readNext.payload))
    BY <1>1 DEF ids
  <2> QED
    BY <2>1, <2>2
<1>5. /\ Len(ids(got)) = pos /\ Len(ids(emits)) = Len(emits)
      /\ ids(emits)[pos + 1] = emits[pos + 1].id
  <2>1. Len(ids(got)) = Len(got)
    BY <1>3, IdsOf
  <2>2. Len(ids(emits)) = Len(emits) /\ \A i \in 1..Len(emits) : ids(emits)[i] = emits[i].id
    BY <1>3, IdsOf
  <2> QED
    BY <1>2, <1>3, <2>1, <2>2
<1>6. abstractOutcome = << >> /\ abstractOutcome' = abstractOutcome
  BY <1>1, Outcomes, Results DEF abstractOutcome
<1>7. ids(emits)' = ids(emits) /\ abstractStatus' = abstractStatus
  BY <1>1 DEF ids, abstractStatus
<1>8. Abstract!Deliver
  BY <1>2, <1>3, <1>4, <1>5, <1>6, <1>7 DEF Abstract!Deliver
<1> QED
  BY <1>8 DEF Abstract!Next

\* Recv reads the END frame.
LEMMA RecvEndConcludes ==
  ASSUME IInv, IInv', FateInv', RecvEnd, UNCHANGED serverVars
  PROVE  Abstract!Next
<1>1. /\ result = Pending /\ readNext.err = "ok" /\ readNext.end /\ cl' = "open"
      /\ UNCHANGED << got, request, emits, fate >>
  BY DEF RecvEnd, receiving, wireVars, serverVars
<1>2. pos < Len(wire) /\ pos = Len(emits) /\ concluded
  BY <1>1, ReadNext
<1>3. pos = Len(got) /\ pos' = pos + 1
  BY <1>1, <1>2, Waiting DEF RecvEnd, advance
<1>4. HandlerErrorSurfaced'
  BY CleanEnds, PTL
<1>5. result' = IF fate.kind = "error" THEN Result("rpc", WireCode(fate.code)) ELSE Result("eof", 0)
  BY <1>1, <1>2, <1>3, <1>4 DEF HandlerErrorSurfaced
<1>6. abstractStatus = << result'.code >> /\ result'.kind \in {"eof", "rpc"}
  BY <1>2, <1>5, Results DEF abstractStatus, concluded
<1>7. abstractOutcome' = << result'.code >>
  BY <1>6 DEF abstractOutcome
<1> QED
  BY <1>1, <1>2, <1>3, <1>6, <1>7, Concludes

\* The caller reads a rejection off the status of the response.
LEMMA OpenRejectedConcludes ==
  ASSUME IInv, RejectInv, OpenRejected, UNCHANGED serverVars
  PROVE  Abstract!Next
<1>1. /\ head.status >= 300 /\ result = Pending
      /\ result' = Result("rpc", ConnectFromStatus(head.status))
      /\ UNCHANGED << got, request, emits, fate >>
  BY DEF OpenRejected, failOpen, IInv, ClientInv, wireVars, serverVars
<1>2. fate.kind = "reject" /\ emits = << >> /\ phase = "returned"
  BY <1>1 DEF RejectInv
<1>3. head.status = Negotiate(request).status
  BY <1>1, <1>2 DEF IInv, ServerInv, ConnType
<1>4. Len(got) = Len(emits)
  BY <1>2 DEF IInv, ClientInv, DeliveredInOrder
<1>5. abstractStatus = << ConnectFromStatus(head.status) >>
  BY <1>2, <1>3 DEF abstractStatus
<1>6. abstractOutcome' = << ConnectFromStatus(head.status) >>
  BY <1>1, Results DEF abstractOutcome
<1> QED
  BY <1>1, <1>4, <1>5, <1>6, Concludes

LEMMA ClientRefines ==
  ASSUME IInv, IInv', RejectInv, FateInv', ClientNext, UNCHANGED serverVars
  PROVE  Abstract!Next \/ UNCHANGED absVars
<1>1. UNCHANGED << emits, fate >>
  BY DEF serverVars
<1>2. ASSUME UNCHANGED << got, result, request >> PROVE UNCHANGED absVars
  BY <1>1, <1>2, Stutters
<1>3. ASSUME result = Pending, UNCHANGED << got, request >>,
             result' \in {Result("raw", 0), Result("cancelled", 0), Result("rpc", 8), Result("rpc", 13)}
      PROVE  Abstract!Next
  <2>1. \E e \in {-1, -2, 8, 13} : abstractOutcome' = << e >>
    BY <1>3, Results DEF abstractOutcome
  <2> QED
    BY <1>1, <1>3, <2>1, FailsWith
<1>4. ASSUME NEW r \in Requests, NEW d \in BOOLEAN, Open(r, d) PROVE UNCHANGED absVars
  <2>1. fate.kind # "reject" /\ UNCHANGED << got, result >>
    BY <1>4 DEF Open, IInv, ClientInv, ServerInv
  <2> QED
    BY <1>1, <2>1, Stutters
<1>5. CASE OpenOK \/ TimerExpires \/ Close
  BY <1>2, <1>5 DEF OpenOK, TimerExpires, Close, closeBody, wireVars
<1>6. CASE OpenRejected
  BY <1>6, OpenRejectedConcludes
<1>7. CASE OpenFails
  BY <1>3, <1>7 DEF OpenFails, failOpen, IInv, ClientInv, wireVars
<1>8. CASE RecvMessage
  BY <1>8, RecvDelivers
<1>9. CASE RecvEnd
  BY <1>9, RecvEndConcludes
<1>10. CASE RecvFails
  <2>1. result = Pending /\ result' = recvError(readNext.err) /\ UNCHANGED << got, request >>
    BY <1>10 DEF RecvFails, receiving, wireVars
  <2>2. ~cEnded
    BY <2>1, Waiting
  <2>3. result' \in {Result("rpc", 8), Result("rpc", 13), Result("raw", 0)}
    BY <2>1, <2>2 DEF recvError
  <2> QED
    BY <1>3, <2>1, <2>3
<1>11. CASE RecvDeadline
  BY <1>3, <1>11 DEF RecvDeadline, wireVars
<1>12. CASE Cancel
  BY <1>3, <1>12 DEF Cancel, closeBody
<1> QED
  BY <1>4, <1>5, <1>6, <1>7, <1>8, <1>9, <1>10, <1>11, <1>12 DEF ClientNext, Recv

LEMMA NextRefines ==
  ASSUME IInv, IInv', RejectInv, FateInv', [Next]_vars
  PROVE  Abstract!Next \/ UNCHANGED absVars
<1>1. CASE Server
  BY <1>1, ServerRefines DEF Server
<1>2. CASE Client
  BY <1>2, ClientRefines DEF Client
<1>3. CASE Break
  BY <1>3, Stutters DEF Break, Truncate, serverVars, clientVars
<1>4. CASE CutRequest
  <2>1. fate.kind # "reject"
    BY <1>4 DEF CutRequest, IInv, ServerInv
  <2> QED
    BY <1>4, <2>1, Stutters DEF CutRequest, serverVars, clientVars
<1>5. CASE Done \/ UNCHANGED vars
  BY <1>5, Stutters DEF Done, vars, wireVars, serverVars, clientVars
<1> QED
  BY <1>1, <1>2, <1>3, <1>4, <1>5 DEF Next

\* The call, with everything that can go wrong with its connection, its handler and its
\* deadline, is the stream of RpcStream to its caller (ImplementsRpcStream), for
\* handlers that return no error indistinguishable from success.
THEOREM StreamCallImplementsRpcStream ==
  ASSUME CodedErrors
  PROVE  Spec => ImplementsRpcStream
<1>1. Init => Abstract!Init
  BY FateFields, Results
  DEF Init, WireInit, ServerInit, ClientInit, Abstract!Init, ids, abstractStatus, abstractOutcome
<1>2. IInv /\ IInv' /\ RejectInv /\ FateInv' /\ [Next]_vars => [Abstract!Next]_(Abstract!vars)
  BY NextRefines DEF absVars, Abstract!vars
<1>3. FateInv /\ [Next]_vars => FateInv'
  BY NextFate
<1> QED
  BY <1>1, <1>2, <1>3, Invariant, InitFate, InitReject, NextReject, PTL
  DEF Spec, ImplementsRpcStream, Abstract!Spec
=============================================================================
