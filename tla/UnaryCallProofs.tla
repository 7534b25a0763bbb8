--------------------------- MODULE UnaryCallProofs ---------------------------
(***************************************************************************)
(* What a unary call tells its caller, for every value of the constants:   *)
(* a success is one, an error is the one the server failed with, all       *)
(* headers and trailers arrive, and the deadline does not outlive the      *)
(* call.                                                                   *)
(***************************************************************************)
EXTENDS UnaryCall, CommonProofs

-----------------------------------------------------------------------------
(* The deadline.                                                           *)

LEMMA InitReleased == Init => DeadlineReleased
BY DEF Init, DeadlineReleased

LEMMA NextReleased == DeadlineReleased /\ (reply # << >> => request # NoRequest) /\ [Next]_vars
                        => DeadlineReleased'
<1> SUFFICES ASSUME DeadlineReleased, reply # << >> => request # NoRequest, [Next]_vars
             PROVE  DeadlineReleased'
  OBVIOUS
<1> USE DEF DeadlineReleased
<1>1. ASSUME UNCHANGED << reply, timer >> PROVE DeadlineReleased'
  BY <1>1
<1>2. CASE \E r \in Requests, d \in BOOLEAN : Send(r, d)
  BY <1>2 DEF Send
<1>3. CASE SendReturns \/ SendFails
  BY <1>3 DEF SendReturns, SendFails, release
<1>4. CASE TimerExpires
  BY <1>4 DEF TimerExpires
<1> QED
  BY <1>1, <1>2, <1>3, <1>4
  DEF Next, Serve, SetHeader, SetTrailer, ReturnMessage, ReturnError, Panic, Break, CutRequest,
      ProxyAnswers, Done, vars

-----------------------------------------------------------------------------
(* Dispatch's decisions.                                                   *)

\* A rejection names a code of the protocol and a status that is an error.
LEMMA Rejections ==
  ASSUME NEW req, Negotiate(req).to = "http"
  PROVE  LET n == Negotiate(req)
         IN  n.code \in KnownCodes /\ n.status \in Nat /\ n.status >= 400
<1> DEFINE Proper(n) == n.to = "http" => n.code \in KnownCodes /\ n.status \in Nat /\ n.status >= 400
<1>1. unaryBodyError(req) = 0 \/ unaryBodyError(req) = 13
  BY DEF unaryBodyError
<1>2. \A c \in {5, 8, 12, 13} : Proper(writeError(c))
  BY StatusIsError DEF writeError, writeErrorStatus, KnownCodes
<1>3. \A c \in {2, 12}, status \in {404, 405, 415} : Proper(writeErrorStatus(c, status))
  BY DEF writeErrorStatus, KnownCodes
<1>4. \A c : Proper(streamFail(c))
  BY DEF streamFail
<1>5. Proper(runHandler)
  BY DEF runHandler
<1> HIDE DEF Proper
<1>6. Proper(NegotiateStream(req))
  BY <1>4, <1>5 DEF NegotiateStream
<1>7. Proper(NegotiateUnary(req))
  BY <1>1, <1>2, <1>5 DEF NegotiateUnary
<1>8. Proper(Negotiate(req))
  <2>1. /\ Proper(writeError(12)) /\ Proper(writeError(8))
        /\ Proper(writeErrorStatus(2, 405)) /\ Proper(writeErrorStatus(12, 404))
        /\ Proper(writeErrorStatus(2, 415))
    BY <1>2, <1>3
  <2> DEFINE served == IF spec(req).serverStream THEN NegotiateStream(req) ELSE NegotiateUnary(req)
             encoded == IF requestEncoding(req) \notin {"", "gzip"} THEN writeError(12) ELSE served
             typed == IF wrongContentType(req) THEN writeErrorStatus(2, 415) ELSE encoded
             known == IF req.path \notin DOMAIN Methods THEN writeErrorStatus(12, 404) ELSE typed
             posted == IF req.httpMethod \notin {"", "POST"} THEN writeErrorStatus(2, 405) ELSE known
  <2>2. Proper(served)
    BY <1>6, <1>7
  <2> HIDE DEF served
  <2>3. Proper(encoded)
    BY <2>1, <2>2
  <2> HIDE DEF encoded
  <2>4. Proper(typed)
    BY <2>1, <2>3
  <2> HIDE DEF typed
  <2>5. Proper(known)
    BY <2>1, <2>4
  <2> HIDE DEF known
  <2>6. Proper(posted)
    BY <2>1, <2>5
  <2> HIDE DEF posted
  <2>7. Negotiate(req) = IF req.version \notin {"", "1"} THEN writeError(12)
                         ELSE IF BodyBytes(req.body) > MaxMessageBytes THEN writeError(8) ELSE posted
    BY DEF Negotiate, posted, known, typed, encoded, served
  <2> QED
    BY <2>1, <2>6, <2>7, ZenonT(30)
<1> QED
  BY <1>8 DEF Proper

-----------------------------------------------------------------------------
(* The inductive invariant: a response on its way is an intermediary's or  *)
(* says what the server answered, and the reply is the reading of the      *)
(* response, which stays as it is from then on.                            *)

IsPlain(p) == p = [id |-> p.id, size |-> p.size, zsize |-> p.zsize, gz |-> 0]
PlainPayloads == \A p \in Payloads : IsPlain(p)

Intermediary(r) == r.status \in Nat /\ r.status >= 300 /\ r.code = -1 /\ r.body = [form |-> "text"]

CarriesMessage(r, p) ==
  /\ p \in Payloads /\ r.status = 200
  /\ \/ r.encoding = "gzip" /\ r.body = Message(GzipCompress(p))
     \/ r.encoding = "" /\ r.body = Message(p)

CarriesError(r, code, details) ==
  /\ code \in Nat /\ r.status \in Nat /\ r.status >= 400
  /\ r.body = EncodeErrorJSON(code, details)
  /\ \/ r.code = code /\ code \in KnownCodes /\ details = << >>
     \/ r.code = -1 /\ r.status = HTTPStatus(code)

FromServer(r) ==
  /\ outcome # << >>
  /\ \/ outcome[1].kind = "ok" /\ CarriesMessage(r, outcome[1].payload)
     \/ outcome[1].kind = "error" /\ CarriesError(r, outcome[1].code, outcome[1].details)

FlowInv ==
  /\ conn \in {"up", "down"} /\ phase \in {"idle", "handler", "returned"}
  /\ request = NoRequest => phase = "idle" /\ response = NoResponse /\ reply = << >>
  /\ phase # "returned" => outcome = << >>
  /\ timer = "fired" => conn = "down"
  /\ whole \/ (conn = "down" /\ response = NoResponse)
  /\ response # NoResponse => conn = "down" \/ phase = "returned"
  /\ reply # << >> => conn = "down" \/ phase = "returned"

ContentInv ==
  /\ response = NoResponse \/ Intermediary(response) \/ FromServer(response)
  /\ \/ reply = << >>
     \/ reply = << TransportError >>
     \/ response # NoResponse /\ reply = << Response(response) >>

UInv == FlowInv /\ ContentInv

LEMMA InitUInv == Init => UInv
BY DEF Init, UInv, FlowInv, ContentInv

\* The server answers, and the answer is sent unless the connection is gone.
LEMMA Answers ==
  ASSUME UInv, request # NoRequest, phase # "returned", phase' = "returned",
         NEW r, respond(r), outcome' # << >>, FromServer(r)', r # NoResponse,
         UNCHANGED << request, conn, whole, reply, timer >>
  PROVE  UInv'
<1> USE DEF UInv, FlowInv, ContentInv
<1>1. CASE conn = "up"
  <2>1. response' = r /\ response = NoResponse /\ reply = << >>
    BY <1>1 DEF respond
  <2>2. FromServer(response)'
    BY <2>1 DEF FromServer, CarriesMessage, CarriesError
  <2> QED
    BY <1>1, <2>1, <2>2
<1>2. CASE conn # "up"
  <2>1. response' = response /\ ~FromServer(response)
    BY <1>2 DEF respond, FromServer
  <2> QED
    BY <1>2, <2>1
<1> QED
  BY <1>1, <1>2

\* Steps that leave the answer alone.
LEMMA Quiet ==
  ASSUME UInv, request # NoRequest, UNCHANGED << response, outcome, reply >>,
         request' # NoRequest, timer' = "fired" => conn' = "down",
         conn' = conn \/ conn' = "down",
         phase' = phase \/ (phase = "handler" /\ phase' = "returned")
           \/ (phase = "idle" /\ phase' = "handler"),
         whole' = whole \/ (response = NoResponse /\ conn' = "down")
  PROVE  UInv'
<1>1. FlowInv'
  BY DEF UInv, FlowInv
<1>2. ContentInv'
  BY DEF UInv, ContentInv, FromServer
<1> QED
  BY <1>1, <1>2 DEF UInv

-----------------------------------------------------------------------------
(* The steps.                                                              *)

LEMMA ServeStep == UInv /\ Serve => UInv'
<1> SUFFICES ASSUME UInv, Serve PROVE UInv'
  OBVIOUS
<1> DEFINE n == Negotiate(request)
<1>1. phase = "idle" /\ request # NoRequest /\ UNCHANGED << request, conn, whole, reply, timer >>
  BY DEF Serve
<1>2. CASE /\ n.to = "http" /\ phase' = "returned" /\ respond(ErrorResponse(n))
           /\ outcome' = << Failed(n.code, << >>) >>
  <2>1. n.code \in KnownCodes /\ n.status \in Nat /\ n.status >= 400
    BY <1>2, Rejections
  <2> HIDE DEF n
  <2>2. PICK r : r = ErrorResponse(n)
    OBVIOUS
  <2>3. /\ r.status = n.status /\ r.code = n.code /\ r.body = EncodeErrorJSON(n.code, << >>)
        /\ r # NoResponse
    BY <2>1, <2>2 DEF ErrorResponse, HTTPResponse, NoResponse
  <2>4. PICK c : c = n.code
    OBVIOUS
  <2>5. CarriesError(r, c, << >>)
    BY <2>1, <2>3, <2>4 DEF CarriesError, KnownCodes
  <2>6. /\ outcome' # << >> /\ outcome'[1].kind = "error" /\ outcome'[1].code = c
        /\ outcome'[1].details = << >>
    BY <1>2, <2>4 DEF Failed
  <2>7. FromServer(r)'
    BY <2>5, <2>6 DEF FromServer, CarriesError
  <2> QED
    BY <1>1, <1>2, <2>2, <2>3, <2>6, <2>7, Answers
<1>3. CASE n.to = "handler" /\ phase' = "handler" /\ UNCHANGED << response, outcome >>
  BY <1>1, <1>3, Quiet DEF UInv, FlowInv
<1> QED
  BY <1>2, <1>3 DEF Serve

LEMMA ReturnMessageStep ==
  ASSUME UInv, NEW p \in Payloads, ReturnMessage(p)
  PROVE  UInv'
<1>1. /\ phase = "handler" /\ phase' = "returned" /\ outcome' = << Ok(p) >>
      /\ UNCHANGED << request, conn, whole, reply, timer >> /\ request # NoRequest
  BY DEF ReturnMessage, UInv, FlowInv
<1>2. PICK all \in responseHeaders : respond(OkResponse(all, p))
  BY DEF ReturnMessage
<1>3. PICK r : r = OkResponse(all, p)
  OBVIOUS
<1>4. CarriesMessage(r, p) /\ r # NoResponse
  BY <1>3 DEF OkResponse, HTTPResponse, CarriesMessage, NoResponse
<1>5. outcome' # << >> /\ outcome'[1].kind = "ok" /\ outcome'[1].payload = p
  BY <1>1 DEF Ok
<1>6. FromServer(r)'
  BY <1>4, <1>5 DEF FromServer, CarriesMessage
<1> QED
  BY <1>1, <1>2, <1>3, <1>4, <1>5, <1>6, Answers

LEMMA ReturnErrorStep ==
  ASSUME UInv, NEW err \in Errors, ReturnError(err)
  PROVE  UInv'
<1> DEFINE re == asRPCError(err)
<1>1. /\ phase = "handler" /\ phase' = "returned" /\ outcome' = << Failed(re.code, re.details) >>
      /\ UNCHANGED << request, conn, whole, reply, timer >> /\ request # NoRequest
  BY DEF ReturnError, UInv, FlowInv
<1>2. PICK all \in responseHeaders : respond(HandlerErrorResponse(all, re))
  BY DEF ReturnError
<1>3. re.code \in Nat
  BY ErrorsAssumption DEF asRPCError
<1> HIDE DEF re
<1>4. PICK r : r = HandlerErrorResponse(all, re)
  OBVIOUS
<1>5. CarriesError(r, re.code, re.details) /\ r # NoResponse
  <2>1. /\ r.status = HTTPStatus(re.code) /\ r.code = -1
        /\ r.body = EncodeErrorJSON(re.code, re.details)
    BY <1>4 DEF HandlerErrorResponse, HTTPResponse
  <2>2. r.status \in Nat /\ r.status >= 400
    BY <2>1, StatusIsError
  <2> QED
    BY <1>3, <2>1, <2>2 DEF CarriesError, NoResponse
<1>6. /\ outcome' # << >> /\ outcome'[1].kind = "error" /\ outcome'[1].code = re.code
      /\ outcome'[1].details = re.details
  BY <1>1 DEF Failed
<1>7. FromServer(r)'
  BY <1>5, <1>6 DEF FromServer, CarriesError
<1> QED
  BY <1>1, <1>2, <1>4, <1>5, <1>6, <1>7, Answers

LEMMA NetworkStep ==
  ASSUME UInv, Break \/ CutRequest \/ \E s \in ProxyStatuses : ProxyAnswers(s)
  PROVE  UInv'
<1> USE DEF UInv, FlowInv, ContentInv
<1>1. CASE Break
  <2>1. FromServer(response) => FromServer(response)' \/ response' = NoResponse
    BY <1>1 DEF Break, serverVars, FromServer
  <2> QED
    BY <1>1, <2>1 DEF Break, serverVars
<1>2. CASE CutRequest
  <2>1. request # NoRequest /\ phase = "idle" /\ conn = "up" /\ response = NoResponse
    BY <1>2 DEF CutRequest
  <2>2. /\ UNCHANGED << response, outcome, reply, phase, timer >> /\ conn' = "down" /\ reply = << >>
        /\ whole' = FALSE
    BY <1>2 DEF CutRequest, serverVars
  <2> QED
    BY <2>1, <2>2
<1>3. ASSUME NEW s \in ProxyStatuses, ProxyAnswers(s) PROVE UInv'
  <2>1. response' = HTTPResponse(s, NoHeaders, -1, "", [form |-> "text"]) /\ s \in Nat /\ s >= 300
    BY <1>3, ProxyAssumption DEF ProxyAnswers
  <2>2. Intermediary(response)' /\ response' # NoResponse
    BY <2>1 DEF Intermediary, HTTPResponse, NoResponse
  <2> QED
    BY <1>3, <2>2 DEF ProxyAnswers, serverVars
<1> QED
  BY <1>1, <1>2, <1>3

LEMMA ClientStep ==
  ASSUME UInv,
         \/ \E r \in Requests, d \in BOOLEAN : Send(r, d)
         \/ SendReturns \/ SendFails \/ TimerExpires
  PROVE  UInv'
<1> USE DEF UInv, FlowInv
<1>1. CASE \E r \in Requests, d \in BOOLEAN : Send(r, d)
  <2>1. request = NoRequest /\ UNCHANGED << response, conn, whole, serverVars, reply >>
        /\ timer' # "fired"
    BY <1>1 DEF Send, startTimer
  <2> QED
    BY <2>1 DEF serverVars, ContentInv
<1>2. CASE SendReturns
  <2>1. /\ response # NoResponse /\ reply' = << Response(response) >> /\ request # NoRequest
        /\ UNCHANGED << request, response, conn, whole, serverVars >>
        /\ timer' # "fired"
    BY <1>2 DEF SendReturns, release
  <2>2. Response(response)' = Response(response)
    BY <2>1
  <2>3. FromServer(response) => FromServer(response)'
    BY <2>1 DEF serverVars, FromServer
  <2> QED
    BY <2>1, <2>2, <2>3 DEF serverVars, ContentInv
<1>3. CASE SendFails
  <2>1. /\ reply' = << TransportError >> /\ request # NoRequest /\ conn = "down"
        /\ UNCHANGED << request, response, conn, whole, serverVars >>
        /\ timer' # "fired"
    BY <1>3 DEF SendFails, release
  <2>2. FromServer(response) => FromServer(response)'
    BY <2>1 DEF serverVars, FromServer
  <2> QED
    BY <2>1, <2>2 DEF serverVars, ContentInv, TransportError
<1>4. CASE TimerExpires
  <2>1. CASE request # NoRequest
    BY <1>4, <2>1, Quiet DEF TimerExpires, serverVars
  <2>2. CASE request = NoRequest
    BY <1>4, <2>2 DEF TimerExpires, serverVars, ContentInv
  <2> QED
    BY <2>1, <2>2
<1> QED
  BY <1>1, <1>2, <1>3, <1>4

LEMMA NextUInv == UInv /\ [Next]_vars => UInv'
<1> SUFFICES ASSUME UInv, [Next]_vars PROVE UInv'
  OBVIOUS
<1>1. ASSUME NEW k \in HeaderKeys, SetHeader(k) PROVE UInv'
  BY <1>1, Quiet DEF SetHeader, UInv, FlowInv
<1>2. ASSUME NEW k \in TrailerKeys, SetTrailer(k) PROVE UInv'
  BY <1>2, Quiet DEF SetTrailer, UInv, FlowInv
<1>3. CASE Panic
  BY <1>3, Quiet DEF Panic, UInv, FlowInv
<1>4. CASE UNCHANGED vars
  BY <1>4 DEF vars, serverVars, UInv, FlowInv, ContentInv, FromServer
<1> QED
  BY <1>1, <1>2, <1>3, <1>4, ServeStep, ReturnMessageStep, ReturnErrorStep, NetworkStep, ClientStep
  DEF Next, Done

-----------------------------------------------------------------------------
(* What holds of every unary call.                                         *)

\* The strengthened invariant: what is on its way says what the server answered.
THEOREM Invariant == Spec => []UInv
BY InitUInv, NextUInv, PTL DEF Spec

\* However Send returns, its deadline context is released (DeadlineReleased): the
\* deferred cancel of DeadlineInterceptor.
THEOREM DeadlineIsReleased == Spec => []DeadlineReleased
<1>1. UInv => (reply # << >> => request # NoRequest)
  BY DEF UInv, FlowInv
<1> QED
  BY <1>1, Invariant, InitReleased, NextReleased, PTL DEF Spec

\* What a caller who has a response was given.
LEMMA SettledReply ==
  ASSUME UInv, Settled
  PROVE  /\ response # NoResponse /\ (Intermediary(response) \/ FromServer(response))
         /\ reply[1] = Response(response)
         /\ reply[1].body = decodedBody(response) /\ reply[1].error = responseError(response)
<1>1. reply # << TransportError >>
  BY DEF Settled, TransportError
<1>2. response # NoResponse /\ reply[1] = Response(response)
  BY <1>1 DEF UInv, ContentInv, Settled
<1> QED
  BY <1>2 DEF UInv, ContentInv, Response

\* A message is read as it was written, compressed or not.
LEMMA MessageRead ==
  ASSUME NEW r, NEW p, IsPlain(p), CarriesMessage(r, p)
  PROVE  decodedBody(r) = Message(p)
<1>1. p = [id |-> p.id, size |-> p.size, zsize |-> p.zsize, gz |-> 0]
  BY DEF IsPlain
<1>2. CASE r.encoding = "gzip" /\ r.body = Message(GzipCompress(p))
  <2>1. GzipCompress(p) = [id |-> p.id, size |-> p.size, zsize |-> p.zsize, gz |-> 1]
    BY <1>1 DEF GzipCompress
  <2> DEFINE z == GzipCompress(p)
  <2>2. r.body.form = "message" /\ r.body.payload = z
    BY <1>2 DEF Message
  <2> HIDE DEF z
  <2>3. IsGzip(z) /\ GzipDecompress(z) = [id |-> p.id, size |-> p.size, zsize |-> p.zsize, gz |-> 0]
    BY <2>1 DEF z, IsGzip, GzipDecompress
  <2>4. GzipDecompress(z) = p
    BY <1>1, <2>3
  <2> QED
    BY <1>2, <2>2, <2>3, <2>4 DEF decodedBody
<1>3. CASE r.encoding = "" /\ r.body = Message(p)
  BY <1>3 DEF decodedBody
<1> QED
  BY <1>2, <1>3 DEF CarriesMessage

\* A response without Error means that the handler got the whole request and returned
\* the message the caller has (SuccessIsComplete), whatever answered in between.
THEOREM SuccessesAreComplete ==
  ASSUME PlainPayloads
  PROVE  Spec => []SuccessIsComplete
<1>1. ASSUME UInv PROVE SuccessIsComplete
  <2> SUFFICES ASSUME Succeeded
               PROVE  /\ whole
                      /\ outcome # << >> /\ outcome[1].kind = "ok"
                      /\ reply[1].body = Message(outcome[1].payload)
    BY DEF SuccessIsComplete
  <2>1. Settled /\ responseError(response) = << >>
    BY <1>1, SettledReply DEF Succeeded
  <2>2. response # NoResponse /\ (Intermediary(response) \/ FromServer(response))
    BY <1>1, <2>1, SettledReply
  <2>3. response.status < 300
    <3>1. \A x : << x >> # << >>
      OBVIOUS
    <3> QED
      BY <2>1, <3>1 DEF responseError
  <2>4. /\ outcome # << >> /\ outcome[1].kind = "ok"
        /\ CarriesMessage(response, outcome[1].payload)
    BY <2>2, <2>3 DEF Intermediary, FromServer, CarriesError
  <2>5. whole
    BY <1>1, <2>2 DEF UInv, FlowInv
  <2>6. IsPlain(outcome[1].payload)
    BY <2>4 DEF PlainPayloads, CarriesMessage
  <2> QED
    BY <1>1, <2>1, <2>4, <2>5, <2>6, SettledReply, MessageRead
<1> QED
  BY <1>1, Invariant, PTL

\* Reading an error back: from the header, from the body, or from the status alone.
LEMMA ErrorRead ==
  ASSUME NEW r, NEW c, NEW d, CarriesError(r, c, d)
  PROVE  LET e == responseError(r)[1]
         IN  /\ e.code = WireCode(c)
             /\ e.details = IF c = 0 THEN << >> ELSE decodeWireDetails(encodeWireDetails(d))
<1> DEFINE ds == decodeWireDetails(encodeWireDetails(d))
           b == DecodeErrorJSON(r.body)
<1>1. c \in Nat /\ ~(r.status < 300)
  BY DEF CarriesError
<1>2. b = [code |-> CodeFromString(CodeToString(c)), details |-> ds]
  <2>1. r.body = [form |-> "json", code |-> CodeToString(c), details |-> encodeWireDetails(d)]
    BY DEF CarriesError, EncodeErrorJSON
  <2>2. /\ r.body.form = "json" /\ r.body.code = CodeToString(c)
        /\ r.body.details = encodeWireDetails(d)
    BY <2>1
  <2>3. CodeToString(c) # ""
    BY NameIsNotEmpty
  <2> QED
    BY <2>2, <2>3 DEF DecodeErrorJSON
<1>3. CodeFromString(CodeToString(c)) = IF c = 0 \/ c \in KnownCodes THEN c ELSE 2
  BY <1>1, NameRoundTrip, UnknownRoundTrip DEF KnownCodes
<1> HIDE DEF ds, b
<1>4. b.code = (IF c = 0 \/ c \in KnownCodes THEN c ELSE 2) /\ b.details = ds
  BY <1>2, <1>3
<1>5. CASE r.code = c /\ c \in KnownCodes /\ d = << >>
  <2> DEFINE h == [code |-> c, details |-> << >>]
             e == IF b.details # << >> THEN [h EXCEPT !.details = b.details] ELSE h
  <2>1. StatusFromHeader(r) = << h >> /\ c # 0
    BY <1>5 DEF StatusFromHeader, KnownCodes
  <2>2. responseError(r) = << e >>
    BY <1>1, <2>1 DEF responseError, b
  <2>3. e.code = c /\ e.details = ds
    BY <1>4
  <2>4. WireCode(c) = c
    BY <1>5 DEF WireCode
  <2> HIDE DEF e
  <2> QED
    BY <2>1, <2>2, <2>3, <2>4 DEF ds
<1>6. CASE r.code = -1 /\ r.status = HTTPStatus(c)
  <2>1. StatusFromHeader(r) = << >>
    BY <1>6 DEF StatusFromHeader
  <2>2. CASE c = 0
    <3>1. r.status = 500
      BY <1>6, <2>2 DEF HTTPStatus, KnownCodes
    <3>2. responseError(r) = << [code |-> ConnectFromStatus(500), details |-> << >>] >>
      BY <1>1, <1>4, <2>1, <2>2, <3>1 DEF responseError, b
    <3> QED
      BY <2>2, <3>2 DEF WireCode, KnownCodes
  <2>3. CASE c # 0
    <3>1. b.code # 0 /\ b.code = WireCode(c)
      BY <1>4, <2>3 DEF WireCode
    <3>2. responseError(r) = << b >>
      BY <1>1, <2>1, <3>1 DEF responseError, b
    <3> QED
      BY <1>4, <2>3, <3>1, <3>2 DEF ds
  <2> QED
    BY <2>2, <2>3
<1> QED
  BY <1>5, <1>6 DEF CarriesError

\* ErrorIsExact, with the details as one encoding and one decoding leave them.
ErrorTravels ==
  Settled /\ ~Succeeded =>
    IF response.body.form = "text"
    THEN ErrorSeen.code = ConnectFromStatus(response.status)
    ELSE /\ outcome # << >> /\ outcome[1].kind = "error"
         /\ ErrorSeen.code = WireCode(outcome[1].code)
         /\ ErrorSeen.details =
              IF outcome[1].code = 0 THEN << >>
              ELSE decodeWireDetails(encodeWireDetails(outcome[1].details))

LEMMA Travels == UInv => ErrorTravels
<1>1. ASSUME UInv PROVE ErrorTravels
  <2> SUFFICES ASSUME Settled, ~Succeeded PROVE ErrorTravels
    BY DEF ErrorTravels
  <2>1. /\ Intermediary(response) \/ FromServer(response)
        /\ ErrorSeen = responseError(response)[1] /\ responseError(response) # << >>
    BY <1>1, SettledReply DEF Succeeded, ErrorSeen
  <2>2. CASE Intermediary(response)
    <3>1. StatusFromHeader(response) = << >>
      BY <2>2 DEF Intermediary, StatusFromHeader
    <3>2. response.body.form = "text" /\ DecodeErrorJSON(response.body).code = 0
      BY <2>2 DEF Intermediary, DecodeErrorJSON
    <3>3. ErrorSeen.code = ConnectFromStatus(response.status)
      BY <2>1, <2>2, <3>1, <3>2 DEF Intermediary, responseError
    <3> QED
      BY <3>2, <3>3 DEF ErrorTravels
  <2>3. CASE FromServer(response)
    <3>1. ~(response.status < 300)
      BY <2>1 DEF responseError
    <3>2. /\ outcome # << >> /\ outcome[1].kind = "error"
          /\ CarriesError(response, outcome[1].code, outcome[1].details)
      <4>1. \A p : ~CarriesMessage(response, p)
        <5> SUFFICES ASSUME NEW p, CarriesMessage(response, p) PROVE FALSE
          OBVIOUS
        <5>1. response.status = 200
          BY DEF CarriesMessage
        <5>2. response.status < 300
          BY <5>1
        <5> QED
          BY <3>1, <5>2
      <4> QED
        BY <2>3, <4>1 DEF FromServer
    <3>3. response.body.form = "json"
      BY <3>2 DEF CarriesError, EncodeErrorJSON
    <3> QED
      BY <2>1, <3>2, <3>3, ErrorRead DEF ErrorTravels
  <2> QED
    BY <2>1, <2>2, <2>3
<1> QED
  BY <1>1

AreDetails(ds) == ds \in Seq({d \in ToSet(ds) : IsDetail(d)})

\* What the server fails with has details of the shape RPCError gives them.
DetailsInv == outcome # << >> /\ outcome[1].kind = "error" => AreDetails(outcome[1].details)

LEMMA DetailsHold == Spec => []DetailsInv
<1>1. Init => DetailsInv
  BY DEF Init, DetailsInv
<1>2. DetailsInv /\ [Next]_vars => DetailsInv'
  <2> SUFFICES ASSUME DetailsInv, [Next]_vars PROVE DetailsInv'
    OBVIOUS
  <2>1. CASE UNCHANGED outcome
    BY <2>1 DEF DetailsInv
  <2>2. ASSUME NEW c, NEW ds, outcome' = << Failed(c, ds)' >>, AreDetails(ds)
        PROVE  DetailsInv'
    <3>1. outcome'[1] = Failed(c, ds)'
      BY <2>2
    <3>2. outcome'[1].details = ds
      BY <3>1 DEF Failed
    <3> QED
      BY <2>2, <3>2 DEF DetailsInv
  <2>3. CASE Serve
    <3>1. AreDetails(<< >>)
      BY DEF AreDetails
    <3> QED
      BY <2>1, <2>2, <2>3, <3>1 DEF Serve, Failed
  <2>4. CASE \E p \in Payloads : ReturnMessage(p)
    <3>1. outcome'[1].kind = "ok"
      BY <2>4 DEF ReturnMessage, Ok
    <3> QED
      BY <3>1 DEF DetailsInv
  <2>5. ASSUME NEW err \in Errors, ReturnError(err) PROVE DetailsInv'
    <3> DEFINE re == asRPCError(err)
    <3>1. AreDetails(re.details)
      <4>1. CASE err.kind = "rpc"
        <5>1. re.details = err.details
          BY <4>1 DEF asRPCError
        <5>2. AreDetails(err.details)
          BY <4>1, ErrorsAssumption DEF AreDetails
        <5> QED
          BY <5>1, <5>2
      <4>2. CASE err.kind # "rpc"
        BY <4>2 DEF asRPCError, AreDetails
      <4> QED
        BY <4>1, <4>2
    <3>2. outcome' = << Failed(re.code, re.details) >> /\ UNCHANGED << hdr, trl >>
      BY <2>5 DEF ReturnError
    <3> HIDE DEF re
    <3> QED
      BY <2>2, <3>1, <3>2 DEF Failed
  <2> QED
    BY <2>1, <2>3, <2>4, <2>5
    DEF Next, Send, SendReturns, SendFails, TimerExpires, SetHeader, SetTrailer, Panic, Break,
        CutRequest, ProxyAnswers, Done, vars, serverVars
<1> QED
  BY <1>1, <1>2, PTL DEF Spec

\* An error is reported with exactly the code the server failed with and exactly those of
\* its details that can be written down (ErrorIsExact), although several codes share an HTTP
\* status and the code travels in a header for some failures and in the body for others
\* (responseError of bridge_nethttp.go, fromWireDetails of protocol.go).
THEOREM ErrorsAreExact == Spec => []ErrorIsExact
<1>1. ASSUME UInv, DetailsInv PROVE ErrorIsExact
  <2>1. ErrorTravels
    BY <1>1, Travels
  <2>2. CASE outcome # << >> /\ outcome[1].kind = "error"
    <3> DEFINE ds == outcome[1].details
    <3>1. decodeWireDetails(encodeWireDetails(ds)) = representable(ds)
      <4>1. ds \in Seq({d \in ToSet(ds) : IsDetail(d)})
        BY <1>1, <2>2 DEF DetailsInv, AreDetails
      <4> QED
        BY <4>1, DetailsRoundTrip
    <3> QED
      BY <2>1, <3>1 DEF ErrorTravels, ErrorIsExact
  <2>3. CASE ~(outcome # << >> /\ outcome[1].kind = "error")
    BY <2>1, <2>3 DEF ErrorTravels, ErrorIsExact
  <2> QED
    BY <2>2, <2>3
<1> QED
  BY <1>1, Invariant, DetailsHold, PTL

-----------------------------------------------------------------------------
(* Keys.                                                                   *)

KeyOf(p, n, f) == [prefix |-> p, name |-> n, form |-> f]
PlainKey(k) == [ToLower(k) EXCEPT !.prefix = FALSE]   \* as DemuxTrailers writes trailers

LEMMA KeyParts ==
  ASSUME NEW p, NEW n, NEW f
  PROVE  /\ KeyOf(p, n, f).prefix = p /\ KeyOf(p, n, f).name = n /\ KeyOf(p, n, f).form = f
         /\ \A q : [KeyOf(p, n, f) EXCEPT !.prefix = q] = KeyOf(q, n, f)
         /\ \A g : [KeyOf(p, n, f) EXCEPT !.form = g] = KeyOf(p, n, g)
BY DEF KeyOf

LEMMA SameKey ==
  ASSUME NEW p, NEW n, NEW f, NEW q, NEW m, NEW g
  PROVE  KeyOf(p, n, f) = KeyOf(q, m, g) <=> p = q /\ n = m /\ f = g
<1>1. KeyOf(p, n, f).prefix = p /\ KeyOf(p, n, f).name = n /\ KeyOf(p, n, f).form = f
  BY KeyParts
<1>2. KeyOf(q, m, g).prefix = q /\ KeyOf(q, m, g).name = m /\ KeyOf(q, m, g).form = g
  BY KeyParts
<1> QED
  BY <1>1, <1>2

\* What net/http and the trailer prefix make of a key.
LEMMA Respelled ==
  ASSUME NEW k, IsKey(k)
  PROVE  /\ k = KeyOf(k.prefix, k.name, k.form) /\ k.prefix \in {TRUE, FALSE}
         /\ CanonicalHeaderKey(k) = KeyOf(k.prefix, k.name, "canonical")
         /\ ToLower(k) = KeyOf(k.prefix, k.name, "lower")
         /\ Prefixed(k) = KeyOf(TRUE, k.name, "lower")
         /\ PlainKey(k) = KeyOf(FALSE, k.name, "lower")
<1>1. k = KeyOf(k.prefix, k.name, k.form) /\ k.prefix \in {TRUE, FALSE}
  BY DEF IsKey, KeyOf
<1>2. PICK p, n, f : k = KeyOf(p, n, f) /\ p = k.prefix /\ n = k.name
  BY <1>1
<1>3. /\ [KeyOf(p, n, f) EXCEPT !.form = "canonical"] = KeyOf(p, n, "canonical")
      /\ [KeyOf(p, n, f) EXCEPT !.form = "lower"] = KeyOf(p, n, "lower")
      /\ [KeyOf(p, n, "lower") EXCEPT !.prefix = TRUE] = KeyOf(TRUE, n, "lower")
      /\ [KeyOf(p, n, "lower") EXCEPT !.prefix = FALSE] = KeyOf(FALSE, n, "lower")
  <2>1. PICK q : q = "canonical"
    OBVIOUS
  <2>2. PICK l : l = "lower"
    OBVIOUS
  <2>3. PICK t, u : t = TRUE /\ u = FALSE
    OBVIOUS
  <2>4. /\ [KeyOf(p, n, f) EXCEPT !.form = q] = KeyOf(p, n, q)
        /\ [KeyOf(p, n, f) EXCEPT !.form = l] = KeyOf(p, n, l)
    BY KeyParts
  <2>5. /\ [KeyOf(p, n, l) EXCEPT !.prefix = t] = KeyOf(t, n, l)
        /\ [KeyOf(p, n, l) EXCEPT !.prefix = u] = KeyOf(u, n, l)
    BY KeyParts
  <2> QED
    BY <2>1, <2>2, <2>3, <2>4, <2>5, Zenon
<1> QED
  BY <1>1, <1>2, <1>3 DEF CanonicalHeaderKey, ToLower, Prefixed, PlainKey

LEMMA Written ==
  ASSUME NEW p \in BOOLEAN, NEW n, NEW f
  PROVE  IsKey(KeyOf(p, n, f))
<1>1. PICK k : k = KeyOf(p, n, f)
  OBVIOUS
<1>2. k.prefix = p /\ k.name = n /\ k.form = f
  BY <1>1, KeyParts
<1>3. k = [prefix |-> k.prefix, name |-> k.name, form |-> k.form]
  BY <1>1, <1>2 DEF KeyOf
<1> QED
  BY <1>1, <1>2, <1>3 DEF IsKey

-----------------------------------------------------------------------------
(* What net/http makes of headers.                                         *)

\* No value occurs twice, under one key or under two.
Unique(h) ==
  \A j, k \in DOMAIN h : \A a \in DOMAIN h[j], b \in DOMAIN h[k] : h[j][a] = h[k][b] => j = k /\ a = b

Spelled(h, c) == {k \in DOMAIN h : CanonicalHeaderKey(k) = c}

\* The values of the keys in o, one key after the other.
LEMMA JoinedValues ==
  ASSUME NEW V, NEW h, \A k \in DOMAIN h : h[k] \in Seq(V), Unique(h),
         NEW K, K \subseteq DOMAIN h, K # {}, IsFiniteSet(K), NEW o, Lists(o, K),
         NEW s, s = join([i \in DOMAIN o |-> h[o[i]]])
  PROVE  /\ s \in Seq(V)
         /\ IsInjective(s)
         /\ ToSet(s) = UNION {ToSet(h[k]) : k \in K}
         /\ \A k \in K : KeepsOrder(s, h[k])
<1> DEFINE q == [i \in DOMAIN o |-> h[o[i]]]
<1>1. /\ DOMAIN o = 1..Len(o) /\ Len(o) \in Nat /\ \A i \in 1..Len(o) : o[i] \in K
      /\ \A i, j \in 1..Len(o) : o[i] = o[j] => i = j
      /\ \A k \in K : \E i \in 1..Len(o) : o[i] = k
  <2>1. o \in Seq(K)
    BY DEF Lists
  <2>2. DOMAIN o = 1..Len(o) /\ Len(o) \in Nat /\ \A i \in 1..Len(o) : o[i] \in K
    BY <2>1
  <2> QED
    BY <2>2 DEF Lists, IsInjective
<1>2. PICK n : n = Len(o)
  OBVIOUS
<1>3. n > 0
  BY <1>1, <1>2
<1>4. q = [i \in 1..n |-> h[o[i]]] /\ \A i \in 1..n : h[o[i]] \in Seq(V)
  BY <1>1, <1>2
<1>5. q \in Seq(Seq(V)) /\ Len(q) = n /\ DOMAIN q = 1..n /\ \A i \in 1..n : q[i] = h[o[i]]
  <2> DEFINE W == Seq(V)
  <2>1. n \in Nat /\ \A i \in 1..n : h[o[i]] \in W
    BY <1>1, <1>2, <1>4
  <2> HIDE DEF W, q
  <2>2. q \in Seq(W) /\ Len(q) = n /\ DOMAIN q = 1..n /\ \A i \in 1..n : q[i] = h[o[i]]
    BY <1>4, <2>1
  <2> QED
    BY <2>2 DEF W
<1> HIDE DEF q
<1>6. Parted(q)
  <2> SUFFICES ASSUME NEW i \in 1..n, NEW j \in 1..n, NEW a \in DOMAIN q[i], NEW b \in DOMAIN q[j],
                      q[i][a] = q[j][b]
               PROVE  i = j /\ a = b
    BY <1>5 DEF Parted
  <2>1. o[i] \in DOMAIN h /\ o[j] \in DOMAIN h /\ q[i] = h[o[i]] /\ q[j] = h[o[j]]
    BY <1>1, <1>2, <1>5
  <2>2. o[i] = o[j] /\ a = b
    BY <2>1 DEF Unique
  <2> QED
    BY <1>1, <1>2, <2>2
<1>7. s = FlattenSeq(q)
  BY DEF join, q
<1>8. /\ s \in Seq(V) /\ IsInjective(s)
      /\ \A v : v \in ToSet(s) <=> \E j \in 1..n : v \in ToSet(q[j])
      /\ \A j \in 1..n : InOrder(s, q[j])
  BY <1>3, <1>5, <1>6, <1>7, Joined
<1>9. ToSet(s) = UNION {ToSet(h[k]) : k \in K}
  <2>1. ASSUME NEW v PROVE v \in ToSet(s) <=> \E k \in K : v \in ToSet(h[k])
    <3>1. \A j \in 1..n : o[j] \in K /\ q[j] = h[o[j]]
      BY <1>1, <1>2, <1>5
    <3>2. \A k \in K : \E j \in 1..n : o[j] = k
      BY <1>1, <1>2
    <3>3. ASSUME v \in ToSet(s) PROVE \E k \in K : v \in ToSet(h[k])
      <4>1. PICK j \in 1..n : v \in ToSet(q[j])
        BY <1>8, <3>3
      <4> QED
        BY <3>1, <4>1
    <3>4. ASSUME NEW k \in K, v \in ToSet(h[k]) PROVE v \in ToSet(s)
      <4>1. PICK j \in 1..n : o[j] = k
        BY <3>2
      <4>2. v \in ToSet(q[j])
        BY <3>1, <3>4, <4>1
      <4> QED
        BY <1>8, <4>2
    <3> QED
      BY <3>3, <3>4
  <2> QED
    BY <2>1
<1>10. ASSUME NEW k \in K PROVE KeepsOrder(s, h[k])
  <2>1. PICK j \in 1..n : o[j] = k
    BY <1>1, <1>2
  <2>2. InOrder(s, h[k])
    BY <1>5, <1>8, <2>1
  <2> QED
    BY <2>2 DEF InOrder, KeepsOrder
<1> QED
  BY <1>8, <1>9, <1>10

\* g has under each canonical key the values of all its spellings in h.
Collects(g, h, V) ==
  /\ DOMAIN g = {CanonicalHeaderKey(k) : k \in DOMAIN h}
  /\ \A c \in DOMAIN g : /\ g[c] \in Seq(V)
                         /\ IsInjective(g[c])
                         /\ ToSet(g[c]) = UNION {ToSet(h[k]) : k \in Spelled(h, c)}
  /\ \A k \in DOMAIN h : KeepsOrder(g[CanonicalHeaderKey(k)], h[k])
  /\ \A k \in DOMAIN h : Spelled(h, CanonicalHeaderKey(k)) = {k} => g[CanonicalHeaderKey(k)] = h[k]

LEMMA Canonicalised ==
  ASSUME NEW V, NEW h, IsFiniteSet(DOMAIN h), \A k \in DOMAIN h : h[k] \in Seq(V), Unique(h),
         NEW g \in canonicalised(h)
  PROVE  Collects(g, h, V)
<1> DEFINE keys == {CanonicalHeaderKey(k) : k \in DOMAIN h}
           spelled(c) == {k \in DOMAIN h : CanonicalHeaderKey(k) = c}
           several == {c \in keys : Cardinality(spelled(c)) > 1}
           order(f, c) == IF c \in several THEN f[c] ELSE SetToSeq(spelled(c))
           value(f, c) == join([i \in DOMAIN order(f, c) |-> h[order(f, c)[i]]])
<1>1. PICK f : /\ \A c \in several : f[c] \in SetToSeqs(spelled(c))
               /\ g = [c \in keys |-> value(f, c)]
  BY DEF canonicalised
<1>2. \A c : spelled(c) = Spelled(h, c)
  BY DEF Spelled
<1>3. DOMAIN g = keys /\ \A c \in keys : g[c] = value(f, c)
  BY <1>1
<1>4. ASSUME NEW c \in keys
      PROVE  /\ g[c] \in Seq(V) /\ IsInjective(g[c])
             /\ ToSet(g[c]) = UNION {ToSet(h[k]) : k \in Spelled(h, c)}
             /\ \A k \in Spelled(h, c) : KeepsOrder(g[c], h[k])
  <2>1. PICK K : K = spelled(c)
    OBVIOUS
  <2>2. K \subseteq DOMAIN h /\ K # {} /\ K = Spelled(h, c)
    BY <2>1, <1>2
  <2>3. IsFiniteSet(K)
    BY <2>2, FS_Subset
  <2>4. PICK o : o = order(f, c)
    OBVIOUS
  <2>5. Lists(o, K)
    <3>1. Lists(SetToSeq(K), K) /\ \A p \in SetToSeqs(K) : Lists(p, K)
      BY <2>3, Listing
    <3>2. o \in SetToSeqs(K) \/ o = SetToSeq(K)
      BY <1>1, <2>1, <2>4
    <3> QED
      BY <3>1, <3>2
  <2>6. g[c] = join([i \in DOMAIN o |-> h[o[i]]])
    BY <1>3, <2>4
  <2>7. PICK s : s = g[c]
    OBVIOUS
  <2>8. /\ s \in Seq(V) /\ IsInjective(s) /\ ToSet(s) = UNION {ToSet(h[k]) : k \in K}
        /\ \A k \in K : KeepsOrder(s, h[k])
    BY <2>2, <2>3, <2>5, <2>6, <2>7, JoinedValues
  <2> QED
    BY <2>2, <2>7, <2>8
<1>5. ASSUME NEW k \in DOMAIN h, Spelled(h, CanonicalHeaderKey(k)) = {k}
      PROVE  g[CanonicalHeaderKey(k)] = h[k]
  <2>1. PICK c : c = CanonicalHeaderKey(k)
    OBVIOUS
  <2>2. c \in keys /\ spelled(c) = {k}
    BY <1>2, <1>5, <2>1
  <2>3. c \notin several
    <3>1. Cardinality({k}) = 1
      BY FS_Singleton
    <3>2. Cardinality(spelled(c)) = 1
      BY <2>2, <3>1
    <3> HIDE DEF spelled, keys
    <3> QED
      BY <3>2
  <2>4. order(f, c) = << k >>
    BY <2>2, <2>3, SequenceOfOne
  <2>5. g[c] = join([i \in DOMAIN order(f, c) |-> h[order(f, c)[i]]])
    BY <1>3, <2>2
  <2>6. [i \in DOMAIN << k >> |-> h[<< k >>[i]]] = << h[k] >>
    OBVIOUS
  <2> HIDE DEF order
  <2> QED
    BY <2>1, <2>4, <2>5, <2>6, FlattenOne DEF join
<1> HIDE DEF value
<1>6. ASSUME NEW k \in DOMAIN h PROVE KeepsOrder(g[CanonicalHeaderKey(k)], h[k])
  <2>1. CanonicalHeaderKey(k) \in keys /\ k \in Spelled(h, CanonicalHeaderKey(k))
    BY DEF Spelled
  <2> QED
    BY <1>4, <2>1
<1> HIDE DEF keys
<1> QED
  BY <1>3, <1>4, <1>5, <1>6 DEF Collects, keys

-----------------------------------------------------------------------------
(* Trailers among the headers.                                             *)

\* Two headers maps without a common value.
Apart(h, t) == \A j \in DOMAIN h, k \in DOMAIN t : \A a \in DOMAIN h[j], b \in DOMAIN t[k] : h[j][a] # t[k][b]

\* A header map with values in V.
HeadersOf(h, V) ==
  /\ IsFiniteSet(DOMAIN h) /\ Unique(h)
  /\ \A k \in DOMAIN h : IsKey(k) /\ h[k] \in Seq(V)

\* all has the headers h and the trailers t, those with the prefix.
Joins(all, h, t) ==
  /\ DOMAIN all = DOMAIN h \cup {Prefixed(k) : k \in DOMAIN t}
  /\ \A k \in DOMAIN h : k \notin {Prefixed(j) : j \in DOMAIN t} => all[k] = h[k]
  /\ \A k \in DOMAIN t : \E j \in DOMAIN t : Prefixed(j) = Prefixed(k) /\ all[Prefixed(k)] = t[j]

LEMMA Muxed ==
  ASSUME NEW V, NEW h, NEW t, HeadersOf(h, V), HeadersOf(t, V), Apart(h, t), NEW all \in MuxTrailers(h, t)
  PROVE  HeadersOf(all, V) /\ Joins(all, h, t)
<1> DEFINE muxed == {Prefixed(k) : k \in DOMAIN t}
<1>1. PICK f : /\ f \in [muxed -> DOMAIN t] /\ \A m \in muxed : Prefixed(f[m]) = m
               /\ all = [k \in DOMAIN h \cup muxed |-> IF k \in muxed THEN t[f[k]] ELSE h[k]]
  BY DEF MuxTrailers
<1>2. DOMAIN all = DOMAIN h \cup muxed
  BY <1>1
<1>3. \A m \in muxed : f[m] \in DOMAIN t /\ Prefixed(f[m]) = m /\ all[m] = t[f[m]]
  BY <1>1
<1>4. \A k \in DOMAIN h : k \notin muxed => all[k] = h[k]
  BY <1>1
<1>5. IsFiniteSet(DOMAIN all)
  <2> DEFINE p == [k \in DOMAIN t |-> Prefixed(k)]
  <2>1. p \in Surjection(DOMAIN t, muxed)
    BY DEF Surjection
  <2>2. IsFiniteSet(muxed)
    BY <2>1, FS_Surjection DEF HeadersOf
  <2> QED
    BY <1>2, <2>2, FS_Union DEF HeadersOf
<1>6. ASSUME NEW k \in DOMAIN all PROVE IsKey(k) /\ all[k] \in Seq(V)
  <2>1. CASE k \in muxed
    <3>1. PICK j \in DOMAIN t : k = Prefixed(j)
      BY <2>1
    <3>2. IsKey(j) /\ t[f[k]] \in Seq(V)
      BY <1>3, <2>1 DEF HeadersOf
    <3>3. IsKey(Prefixed(j))
      <4>1. PICK p, low : p = TRUE /\ low = "lower"
        OBVIOUS
      <4>2. IsKey(KeyOf(p, j.name, low))
        BY <4>1, Written
      <4> QED
        BY <3>2, <4>1, <4>2, Respelled, Zenon
    <3> QED
      BY <1>3, <2>1, <3>1, <3>2, <3>3
  <2>2. CASE k \notin muxed
    BY <1>2, <1>4, <2>2 DEF HeadersOf
  <2> QED
    BY <2>1, <2>2
<1> HIDE DEF muxed
<1>7. Unique(all)
  <2> SUFFICES ASSUME NEW j \in DOMAIN all, NEW k \in DOMAIN all,
                      NEW a \in DOMAIN all[j], NEW b \in DOMAIN all[k], all[j][a] = all[k][b]
               PROVE  j = k /\ a = b
    BY DEF Unique
  <2>1. CASE j \in muxed /\ k \in muxed
    <3>1. f[j] = f[k] /\ a = b
      BY <1>3, <2>1 DEF HeadersOf, Unique
    <3> QED
      BY <1>3, <2>1, <3>1
  <2>2. CASE j \notin muxed /\ k \notin muxed
    <3>1. all[j] = h[j] /\ all[k] = h[k] /\ j \in DOMAIN h /\ k \in DOMAIN h
      BY <1>2, <1>4, <2>2
    <3> QED
      BY <3>1 DEF HeadersOf, Unique
  <2>3. ASSUME j \in muxed, k \notin muxed PROVE FALSE
    <3>1. all[j] = t[f[j]] /\ f[j] \in DOMAIN t /\ all[k] = h[k] /\ k \in DOMAIN h
      BY <1>2, <1>3, <1>4, <2>3
    <3> QED
      BY <3>1 DEF Apart
  <2>4. ASSUME j \notin muxed, k \in muxed PROVE FALSE
    <3>1. all[k] = t[f[k]] /\ f[k] \in DOMAIN t /\ all[j] = h[j] /\ j \in DOMAIN h
      BY <1>2, <1>3, <1>4, <2>4
    <3> QED
      BY <3>1 DEF Apart
  <2> QED
    BY <2>1, <2>2, <2>3, <2>4
<1>8. ASSUME NEW k \in DOMAIN t
      PROVE  \E j \in DOMAIN t : Prefixed(j) = Prefixed(k) /\ all[Prefixed(k)] = t[j]
  <2>1. Prefixed(k) \in muxed
    BY DEF muxed
  <2> QED
    BY <1>3, <2>1
<1> QED
  BY <1>2, <1>4, <1>5, <1>6, <1>7, <1>8 DEF HeadersOf, Joins, muxed

\* The canonical key keeps the prefix, and prefixed trailers have it.
LEMMA PrefixKept ==
  ASSUME NEW k, IsKey(k)
  PROVE  /\ CanonicalHeaderKey(k).prefix <=> k.prefix
         /\ Prefixed(k).prefix
         /\ IsKey(CanonicalHeaderKey(k)) /\ IsKey(Prefixed(k))
         /\ PlainKey(CanonicalHeaderKey(k)) = PlainKey(k)
         /\ PlainKey(Prefixed(k)) = PlainKey(k)
<1>1. PICK p, n, t, u, l, c : /\ p = k.prefix /\ n = k.name /\ t = TRUE /\ u = FALSE
                              /\ l = "lower" /\ c = "canonical"
  OBVIOUS
<1>2. p \in BOOLEAN /\ t \in BOOLEAN
  BY <1>1 DEF IsKey
<1>3. /\ CanonicalHeaderKey(k) = KeyOf(p, n, c) /\ Prefixed(k) = KeyOf(t, n, l)
      /\ PlainKey(k) = KeyOf(u, n, l)
  BY <1>1, Respelled
<1>4. IsKey(KeyOf(p, n, c)) /\ IsKey(KeyOf(t, n, l))
  BY <1>2, Written
<1>5. KeyOf(p, n, c).prefix = p /\ KeyOf(t, n, l).prefix = t
  BY KeyParts
<1>6. KeyOf(p, n, c).name = n /\ KeyOf(t, n, l).name = n
  BY KeyParts
<1>7. PlainKey(KeyOf(p, n, c)) = KeyOf(u, n, l) /\ PlainKey(KeyOf(t, n, l)) = KeyOf(u, n, l)
  BY <1>1, <1>4, <1>6, Respelled
<1>8. CanonicalHeaderKey(k).prefix <=> k.prefix
  BY <1>1, <1>3, <1>5, Zenon
<1>9. Prefixed(k).prefix
  BY <1>1, <1>3, <1>5, Zenon
<1> QED
  BY <1>3, <1>4, <1>7, <1>8, <1>9, Zenon

\* DemuxTrailers finds the canonical key of a trailer again.
LEMMA TrailerFound ==
  ASSUME NEW k, IsKey(k), k.prefix
  PROVE  CanonicalHeaderKey([PlainKey(k) EXCEPT !.prefix = TRUE]) = CanonicalHeaderKey(k)
<1>1. PICK p, n, t, u, l, c : /\ p = k.prefix /\ n = k.name /\ t = TRUE /\ u = FALSE
                              /\ l = "lower" /\ c = "canonical"
  OBVIOUS
<1>2. PlainKey(k) = KeyOf(u, n, l) /\ CanonicalHeaderKey(k) = KeyOf(p, n, c)
  BY <1>1, Respelled
<1>3. [KeyOf(u, n, l) EXCEPT !.prefix = t] = KeyOf(t, n, l)
  BY KeyParts
<1>4. IsKey(KeyOf(t, n, l)) /\ KeyOf(t, n, l).prefix = t /\ KeyOf(t, n, l).name = n
  <2>1. t \in BOOLEAN
    BY <1>1
  <2>2. IsKey(KeyOf(t, n, l))
    BY <2>1, Written
  <2> QED
    BY <2>2, KeyParts
<1>5. CanonicalHeaderKey(KeyOf(t, n, l)) = KeyOf(t, n, c)
  BY <1>1, <1>4, Respelled
<1>6. p = t
  BY <1>1 DEF IsKey
<1> QED
  BY <1>1, <1>2, <1>3, <1>5, <1>6, Zenon

\* HeadersArrive of the headers got, if h were set and those under plain are no trailers.
HeadersIn(got, h, plain, V) ==
  /\ DOMAIN got = {CanonicalHeaderKey(k) : k \in plain}
  /\ \A c \in DOMAIN got :
       /\ got[c] \in Seq(V)
       /\ IsInjective(got[c])
       /\ ToSet(got[c]) = valuesOf(h, {k \in plain : CanonicalHeaderKey(k) = c})
  /\ \A k \in plain : KeepsOrder(got[CanonicalHeaderKey(k)], h[k])

LEMMA HeadersTravel ==
  ASSUME NEW V, NEW h, NEW t, HeadersOf(h, V), HeadersOf(t, V), Apart(h, t),
         NEW all \in MuxTrailers(h, t), NEW g \in canonicalised(all),
         NEW got, got = DemuxTrailers(g).headers,
         NEW plain, plain = {k \in DOMAIN h : ~k.prefix}
  PROVE  HeadersIn(got, h, plain, V)
<1> DEFINE muxed == {Prefixed(k) : k \in DOMAIN t}
<1>1. /\ HeadersOf(all, V) /\ DOMAIN all = DOMAIN h \cup muxed
      /\ \A k \in DOMAIN h : k \notin muxed => all[k] = h[k]
  <2>1. HeadersOf(all, V) /\ Joins(all, h, t)
    BY Muxed
  <2> QED
    BY <2>1 DEF Joins
<1>2. /\ DOMAIN g = {CanonicalHeaderKey(k) : k \in DOMAIN all}
      /\ \A c \in DOMAIN g : /\ g[c] \in Seq(V)
                             /\ IsInjective(g[c])
                             /\ ToSet(g[c]) = UNION {ToSet(all[k]) : k \in Spelled(all, c)}
      /\ \A k \in DOMAIN all : KeepsOrder(g[CanonicalHeaderKey(k)], all[k])
  <2>1. IsFiniteSet(DOMAIN all) /\ Unique(all) /\ \A k \in DOMAIN all : all[k] \in Seq(V)
    BY <1>1 DEF HeadersOf
  <2>2. Collects(g, all, V)
    BY <2>1, Canonicalised
  <2> QED
    BY <2>2 DEF Collects
<1>3. DOMAIN got = {c \in DOMAIN g : ~c.prefix} /\ \A c \in DOMAIN got : got[c] = g[c]
  <2>1. got = [k \in DOMAIN g \ {k \in DOMAIN g : k.prefix} |-> g[k]]
    BY DEF DemuxTrailers, isTrailer
  <2> QED
    BY <2>1
<1>4. \A k \in DOMAIN all : CanonicalHeaderKey(k).prefix <=> k.prefix
  BY <1>1, PrefixKept DEF HeadersOf
<1>5. \A m \in muxed : m.prefix
  BY PrefixKept DEF HeadersOf
<1> HIDE DEF muxed
<1>6. \A k \in DOMAIN all : ~k.prefix => k \in plain /\ all[k] = h[k]
  BY <1>1, <1>5
<1>7. \A k \in plain : k \in DOMAIN all /\ ~k.prefix
  BY <1>1
<1>8. DOMAIN got = {CanonicalHeaderKey(k) : k \in plain}
  <2>1. ASSUME NEW c \in DOMAIN got PROVE \E k \in plain : c = CanonicalHeaderKey(k)
    <3>1. PICK k \in DOMAIN all : c = CanonicalHeaderKey(k)
      BY <1>2, <1>3
    <3>2. ~k.prefix
      BY <1>3, <1>4, <3>1
    <3> QED
      BY <1>6, <3>1, <3>2
  <2>2. ASSUME NEW k \in plain PROVE CanonicalHeaderKey(k) \in DOMAIN got
    <3>1. CanonicalHeaderKey(k) \in DOMAIN g /\ ~CanonicalHeaderKey(k).prefix
      BY <1>2, <1>4, <1>7
    <3> QED
      BY <1>3, <3>1
  <2> QED
    BY <2>1, <2>2
<1>9. ASSUME NEW c \in DOMAIN got
      PROVE  ToSet(got[c]) = valuesOf(h, {k \in plain : CanonicalHeaderKey(k) = c})
  <2>1. c \in DOMAIN g /\ ~c.prefix
    BY <1>3
  <2>2. ASSUME NEW k PROVE k \in Spelled(all, c) <=> k \in plain /\ CanonicalHeaderKey(k) = c
    BY <1>4, <1>6, <1>7, <2>1 DEF Spelled
  <2>3. \A k \in plain : all[k] = h[k] /\ k \in DOMAIN h
    BY <1>6, <1>7
  <2>4. ASSUME NEW v
        PROVE  (\E k \in Spelled(all, c) : v \in ToSet(all[k]))
                 <=> \E k \in {k \in plain : CanonicalHeaderKey(k) = c} \cap DOMAIN h : v \in ToSet(h[k])
    BY <2>2, <2>3
  <2>5. ToSet(got[c]) = UNION {ToSet(all[k]) : k \in Spelled(all, c)}
    BY <1>2, <1>3, <2>1
  <2>6. \A v : v \in ToSet(got[c]) <=> \E k \in Spelled(all, c) : v \in ToSet(all[k])
    BY <2>5
  <2>7. \A v : v \in ToSet(got[c])
                <=> \E k \in {k \in plain : CanonicalHeaderKey(k) = c} \cap DOMAIN h : v \in ToSet(h[k])
    BY <2>4, <2>6
  <2> QED
    BY <2>7 DEF valuesOf
<1>10. \A k \in plain : KeepsOrder(got[CanonicalHeaderKey(k)], h[k])
  <2> SUFFICES ASSUME NEW k \in plain PROVE KeepsOrder(got[CanonicalHeaderKey(k)], h[k])
    OBVIOUS
  <2>1. k \in DOMAIN all /\ all[k] = h[k] /\ CanonicalHeaderKey(k) \in DOMAIN got
    BY <1>6, <1>7, <1>8
  <2>2. got[CanonicalHeaderKey(k)] = g[CanonicalHeaderKey(k)]
    BY <1>3, <2>1
  <2> QED
    BY <1>2, <2>1, <2>2
<1> QED
  BY <1>2, <1>3, <1>8, <1>9, <1>10 DEF HeadersIn

\* Prefixed trailers meet only if they differ in nothing but case.
LEMMA Fold ==
  ASSUME NEW j, NEW k, IsKey(j), IsKey(k), j.prefix = FALSE, k.prefix = FALSE
  PROVE  /\ ToLower(k) = PlainKey(k)
         /\ Prefixed(j) = Prefixed(k) => EqualFold(j, k)
<1>1. PICK t, u, l : t = TRUE /\ u = FALSE /\ l = "lower"
  OBVIOUS
<1>2. /\ ToLower(j) = KeyOf(u, j.name, l) /\ ToLower(k) = KeyOf(u, k.name, l)
      /\ PlainKey(k) = KeyOf(u, k.name, l)
      /\ Prefixed(j) = KeyOf(t, j.name, l) /\ Prefixed(k) = KeyOf(t, k.name, l)
  <2>1. u = j.prefix /\ u = k.prefix
    BY <1>1
  <2> QED
    BY <1>1, <2>1, Respelled, Zenon
<1>3. KeyOf(t, j.name, l) = KeyOf(t, k.name, l) => j.name = k.name
  BY SameKey
<1> QED
  BY <1>2, <1>3 DEF EqualFold

\* Keys with the prefix that have one canonical key have one plain key, and of them only
\* one is written as MuxTrailers writes it.
LEMMA Meet ==
  ASSUME NEW j, NEW k, IsKey(j), IsKey(k), CanonicalHeaderKey(j) = CanonicalHeaderKey(Prefixed(k))
  PROVE  j.prefix /\ PlainKey(j) = PlainKey(k) /\ \A i : IsKey(i) /\ j = Prefixed(i) => j = Prefixed(k)
<1>1. PICK p, n, t, u, l, c : /\ p = j.prefix /\ n = j.name /\ t = TRUE /\ u = FALSE
                              /\ l = "lower" /\ c = "canonical"
  OBVIOUS
<1>2. /\ CanonicalHeaderKey(j) = KeyOf(p, n, c) /\ PlainKey(j) = KeyOf(u, n, l)
      /\ PlainKey(k) = KeyOf(u, k.name, l) /\ Prefixed(k) = KeyOf(t, k.name, l)
      /\ Prefixed(j) = KeyOf(t, n, l)
  BY <1>1, Respelled
<1>3. CanonicalHeaderKey(Prefixed(k)) = KeyOf(t, k.name, c)
  <2>1. t \in BOOLEAN
    BY <1>1
  <2>2. IsKey(KeyOf(t, k.name, l)) /\ KeyOf(t, k.name, l).prefix = t /\ KeyOf(t, k.name, l).name = k.name
    <3>1. IsKey(KeyOf(t, k.name, l))
      BY <2>1, Written
    <3> QED
      BY <3>1, KeyParts
  <2> QED
    BY <1>1, <1>2, <2>2, Respelled
<1>4. p = t /\ n = k.name
  <2>1. KeyOf(p, n, c) = KeyOf(t, k.name, c) => p = t /\ n = k.name
    BY SameKey
  <2> QED
    BY <1>2, <1>3, <2>1
<1>5. PlainKey(j) = PlainKey(k)
  BY <1>2, <1>4
<1>6. j.prefix
  BY <1>1, <1>4, Zenon
<1>7. ASSUME NEW i, IsKey(i), j = Prefixed(i) PROVE j = Prefixed(k)
  <2>1. Prefixed(i) = KeyOf(t, i.name, l)
    BY <1>1, <1>7, Respelled
  <2>2. i.name = n
    <3>1. KeyOf(t, i.name, l).name = i.name
      BY KeyParts
    <3> QED
      BY <1>1, <1>7, <2>1, <3>1
  <2> QED
    BY <1>2, <1>4, <1>7, <2>1, <2>2
<1> QED
  BY <1>5, <1>6, <1>7

\* TrailersArrive of the trailers got, if t were set and the headers under alike look like
\* trailers.
TrailersIn(got, t, alike, V) ==
  /\ DOMAIN got = {PlainKey(k) : k \in DOMAIN t \cup alike}
  /\ \A k \in DOMAIN got : got[k] \in Seq(V)
  /\ \A k \in DOMAIN t :
       \E j \in DOMAIN t :
         /\ EqualFold(j, k)
         /\ IF \E a \in alike : PlainKey(a) = PlainKey(k)
            THEN ToSet(t[j]) \subseteq ToSet(got[ToLower(k)])
            ELSE got[ToLower(k)] = t[j]

LEMMA TrailersTravel ==
  ASSUME NEW V, NEW h, NEW t, HeadersOf(h, V), HeadersOf(t, V), Apart(h, t),
         \A k \in DOMAIN t : k.prefix = FALSE,
         NEW all \in MuxTrailers(h, t), NEW g \in canonicalised(all),
         NEW got, got = DemuxTrailers(g).trailers,
         NEW alike, alike = {k \in DOMAIN h : k.prefix}
  PROVE  TrailersIn(got, t, alike, V)
<1> DEFINE muxed == {Prefixed(k) : k \in DOMAIN t}
<1>1. HeadersOf(all, V) /\ Joins(all, h, t)
  BY Muxed
<1>2. Collects(g, all, V)
  <2>1. IsFiniteSet(DOMAIN all) /\ Unique(all) /\ \A k \in DOMAIN all : all[k] \in Seq(V)
    BY <1>1 DEF HeadersOf
  <2> QED
    BY <2>1, Canonicalised
<1> DEFINE T == {k \in DOMAIN g : k.prefix}
           found(k) == CanonicalHeaderKey([k EXCEPT !.prefix = TRUE])
<1>3. got = [k \in {PlainKey(j) : j \in T} |-> g[found(k)]]
  BY DEF DemuxTrailers, isTrailer, PlainKey
<1>4. /\ \A k \in DOMAIN t : IsKey(k) /\ IsKey(Prefixed(k)) /\ Prefixed(k).prefix
      /\ \A k \in DOMAIN h : IsKey(k)
      /\ \A k \in DOMAIN all : IsKey(k)
  BY <1>1, PrefixKept DEF HeadersOf
<1>5. \A k \in DOMAIN all : k.prefix => k \in muxed \/ k \in alike
  BY <1>1 DEF Joins
<1>6. \A k \in DOMAIN all : k.prefix => CanonicalHeaderKey(k) \in T /\ PlainKey(CanonicalHeaderKey(k)) = PlainKey(k)
  <2> SUFFICES ASSUME NEW k \in DOMAIN all, k.prefix
               PROVE  CanonicalHeaderKey(k) \in T /\ PlainKey(CanonicalHeaderKey(k)) = PlainKey(k)
    OBVIOUS
  <2>1. CanonicalHeaderKey(k) \in DOMAIN g
    BY <1>2 DEF Collects
  <2>2. CanonicalHeaderKey(k).prefix /\ PlainKey(CanonicalHeaderKey(k)) = PlainKey(k)
    BY <1>4, PrefixKept
  <2> QED
    BY <2>1, <2>2
<1>7. \A c \in T : \E k \in DOMAIN all : k.prefix /\ c = CanonicalHeaderKey(k)
  <2> SUFFICES ASSUME NEW c \in T PROVE \E k \in DOMAIN all : k.prefix /\ c = CanonicalHeaderKey(k)
    OBVIOUS
  <2>1. PICK k \in DOMAIN all : c = CanonicalHeaderKey(k)
    BY <1>2 DEF Collects
  <2>2. k.prefix
    BY <1>4, <2>1, PrefixKept
  <2> QED
    BY <2>1, <2>2
<1>8. \A k \in DOMAIN all : k.prefix => /\ PlainKey(k) \in DOMAIN got
                                       /\ got[PlainKey(k)] = g[CanonicalHeaderKey(k)]
  <2> SUFFICES ASSUME NEW k \in DOMAIN all, k.prefix
               PROVE  PlainKey(k) \in DOMAIN got /\ got[PlainKey(k)] = g[CanonicalHeaderKey(k)]
    OBVIOUS
  <2>1. PlainKey(k) \in {PlainKey(j) : j \in T}
    BY <1>6
  <2>2. found(PlainKey(k)) = CanonicalHeaderKey(k)
    BY <1>4, TrailerFound
  <2> HIDE DEF T, found
  <2> QED
    BY <1>3, <2>1, <2>2
<1>9. \A k \in DOMAIN t : Prefixed(k) \in DOMAIN all /\ Prefixed(k).prefix /\ PlainKey(Prefixed(k)) = PlainKey(k)
  BY <1>1, <1>4, PrefixKept DEF Joins
<1>10. \A x \in DOMAIN got : \E k \in DOMAIN all : k.prefix /\ x = PlainKey(k)
  BY <1>3, <1>4, <1>7, PrefixKept
<1> HIDE DEF T, found
<1>11. DOMAIN got = {PlainKey(k) : k \in DOMAIN t \cup alike}
  <2>1. ASSUME NEW x \in DOMAIN got PROVE \E k \in DOMAIN t \cup alike : x = PlainKey(k)
    <3>1. PICK k \in DOMAIN all : k.prefix /\ x = PlainKey(k)
      BY <1>10
    <3>2. CASE k \in muxed
      BY <1>9, <3>1, <3>2
    <3>3. CASE k \in alike
      BY <3>1, <3>3
    <3> QED
      BY <1>5, <3>1, <3>2, <3>3
  <2>2. ASSUME NEW k \in DOMAIN t PROVE PlainKey(k) \in DOMAIN got
    BY <1>8, <1>9
  <2>3. ASSUME NEW k \in alike PROVE PlainKey(k) \in DOMAIN got
    BY <1>1, <1>8 DEF Joins
  <2> QED
    BY <2>1, <2>2, <2>3
<1>12. \A k \in DOMAIN got : got[k] \in Seq(V)
  <2> SUFFICES ASSUME NEW x \in DOMAIN got PROVE got[x] \in Seq(V)
    OBVIOUS
  <2>1. PICK k \in DOMAIN all : k.prefix /\ x = PlainKey(k)
    BY <1>10
  <2>2. got[x] = g[CanonicalHeaderKey(k)] /\ CanonicalHeaderKey(k) \in DOMAIN g
    BY <1>2, <1>8, <2>1 DEF Collects
  <2> QED
    BY <1>2, <2>2 DEF Collects
<1>13. ASSUME NEW k \in DOMAIN t
       PROVE  \E j \in DOMAIN t :
                /\ EqualFold(j, k)
                /\ IF \E a \in alike : PlainKey(a) = PlainKey(k)
                   THEN ToSet(t[j]) \subseteq ToSet(got[ToLower(k)])
                   ELSE got[ToLower(k)] = t[j]
  <2> DEFINE m == Prefixed(k)
             c == CanonicalHeaderKey(m)
  <2>1. PICK j \in DOMAIN t : Prefixed(j) = m /\ all[m] = t[j]
    BY <1>1 DEF Joins
  <2>2. EqualFold(j, k) /\ ToLower(k) = PlainKey(k)
    BY <1>4, <2>1, Fold
  <2>3. got[ToLower(k)] = g[c] /\ m \in DOMAIN all /\ c \in DOMAIN g
    BY <1>2, <1>8, <1>9, <2>2 DEF Collects
  <2>4. ToSet(t[j]) \subseteq ToSet(got[ToLower(k)])
    <3>1. m \in Spelled(all, c)
      BY <2>3 DEF Spelled
    <3>2. ToSet(g[c]) = UNION {ToSet(all[i]) : i \in Spelled(all, c)}
      BY <1>2, <2>3 DEF Collects
    <3> QED
      BY <2>1, <2>3, <3>1, <3>2
  <2>5. ASSUME ~\E a \in alike : PlainKey(a) = PlainKey(k) PROVE got[ToLower(k)] = t[j]
    <3>1. ASSUME NEW i \in Spelled(all, c) PROVE i = m
      <4>1. i \in DOMAIN all /\ IsKey(i) /\ CanonicalHeaderKey(i) = CanonicalHeaderKey(Prefixed(k))
        BY <1>4 DEF Spelled
      <4>2. i.prefix /\ PlainKey(i) = PlainKey(k) /\ \A x : IsKey(x) /\ i = Prefixed(x) => i = Prefixed(k)
        BY <1>4, <4>1, Meet
      <4>3. i \notin alike
        BY <2>5, <4>2
      <4>4. i \in muxed
        BY <1>5, <4>1, <4>2, <4>3
      <4> QED
        BY <1>4, <4>2, <4>4
    <3>2. Spelled(all, c) = {m}
      BY <2>3, <3>1 DEF Spelled
    <3>3. g[c] = all[m]
      BY <1>2, <2>3, <3>2 DEF Collects
    <3> QED
      BY <2>1, <2>3, <3>3
  <2> HIDE DEF m, c
  <2> QED
    BY <2>2, <2>4, <2>5
<1> QED
  BY <1>11, <1>12, <1>13 DEF TrailersIn

-----------------------------------------------------------------------------
(* Headers while they gather, and on their way.                            *)

Held(h, x) == \E k \in DOMAIN h : \E a \in DOMAIN h[k] : h[k][a] = x

\* g is h with a further value under k.
Gains(g, h, k, v) ==
  /\ DOMAIN g = DOMAIN h \cup {k}
  /\ \A x : Held(g, x) <=> x = v \/ Held(h, x)

\* SetHeader and SetTrailer with a value that is not yet there.
LEMMA Accumulates ==
  ASSUME NEW V, NEW h, HeadersOf(h, V), NEW k, IsKey(k), NEW v \in V, ~Held(h, v),
         NEW g, g = accumulate(h, k, v)
  PROVE  Gains(g, h, k, v) /\ HeadersOf(g, V)
<1>1. PICK s : s = values(h, k)
  OBVIOUS
<1>2. s \in Seq(V) /\ (k \in DOMAIN h => s = h[k]) /\ (k \notin DOMAIN h => s = << >>)
  BY <1>1 DEF values, HeadersOf
<1>3. PICK r : r = Append(s, v)
  OBVIOUS
<1>4. PICK n : n = Len(s)
  OBVIOUS
<1>5. PICK m : m = n + 1
  OBVIOUS
<1>6. /\ n \in Nat /\ m \in Nat /\ m \notin 1..n /\ DOMAIN s = 1..n
      /\ r \in Seq(V) /\ DOMAIN r = 1..n \cup {m} /\ r[m] = v /\ \A a \in 1..n : r[a] = s[a]
  <2>1. n \in Nat /\ m \in Nat /\ m \notin 1..n /\ DOMAIN s = 1..n
    BY <1>2, <1>4, <1>5
  <2>2. r \in Seq(V) /\ Len(r) = n + 1 /\ DOMAIN r = 1..(n + 1)
    BY <1>2, <1>3, <1>4
  <2>3. 1..(n + 1) = 1..n \cup {m}
    BY <1>5, <2>1
  <2>4. r[n + 1] = v
    BY <1>2, <1>3, <1>4
  <2>5. \A a \in 1..n : r[a] = s[a]
    BY <1>2, <1>3, <1>4
  <2> QED
    BY <1>5, <2>1, <2>2, <2>3, <2>4, <2>5
<1>7. DOMAIN g = DOMAIN h \cup {k} /\ g[k] = r /\ \A j \in DOMAIN h : j # k => g[j] = h[j]
  BY <1>1, <1>3 DEF accumulate
<1>8. \A a \in 1..n : Held(h, s[a])
  BY <1>2, <1>6 DEF Held
<1>9. IsFiniteSet(DOMAIN g)
  <2>1. IsFiniteSet({k})
    BY FS_Singleton
  <2> QED
    BY <1>7, <2>1, FS_Union DEF HeadersOf
<1>10. \A j \in DOMAIN g : IsKey(j) /\ g[j] \in Seq(V)
  BY <1>6, <1>7 DEF HeadersOf
<1>11. \A x : Held(g, x) <=> x = v \/ Held(h, x)
  <2> SUFFICES ASSUME NEW x PROVE Held(g, x) <=> x = v \/ Held(h, x)
    OBVIOUS
  <2>1. ASSUME NEW j \in DOMAIN g, NEW a \in DOMAIN g[j], x = g[j][a] PROVE x = v \/ Held(h, x)
    <3>1. CASE j = k
      BY <1>6, <1>7, <1>8, <2>1, <3>1
    <3>2. CASE j # k
      BY <1>7, <2>1, <3>2 DEF Held
    <3> QED
      BY <3>1, <3>2
  <2>2. Held(g, v)
    BY <1>6, <1>7 DEF Held
  <2>3. ASSUME NEW j \in DOMAIN h, NEW a \in DOMAIN h[j], x = h[j][a] PROVE Held(g, x)
    <3>1. CASE j = k
      BY <1>2, <1>6, <1>7, <2>3, <3>1 DEF Held
    <3>2. CASE j # k
      BY <1>7, <2>3, <3>2 DEF Held
    <3> QED
      BY <3>1, <3>2
  <2> QED
    BY <2>1, <2>2, <2>3 DEF Held
<1>12. Unique(g)
  <2> SUFFICES ASSUME NEW i \in DOMAIN g, NEW j \in DOMAIN g, NEW a \in DOMAIN g[i], NEW b \in DOMAIN g[j],
                      g[i][a] = g[j][b]
               PROVE  i = j /\ a = b
    BY DEF Unique
  <2>1. ASSUME NEW x \in DOMAIN g, NEW d \in DOMAIN g[x]
        PROVE  \/ g[x][d] = v /\ x = k /\ d = m
               \/ x \in DOMAIN h /\ d \in DOMAIN h[x] /\ g[x][d] = h[x][d] /\ g[x][d] # v
    <3>1. CASE x = k /\ d = m
      BY <1>6, <1>7, <3>1
    <3>2. CASE x = k /\ d # m
      <4>1. d \in 1..n /\ k \in DOMAIN h
        BY <1>2, <1>6, <1>7, <2>1, <3>2
      <4>2. g[x][d] = s[d] /\ s = h[x]
        BY <1>2, <1>6, <1>7, <3>2, <4>1
      <4> QED
        BY <1>6, <1>8, <3>2, <4>1, <4>2
    <3>3. CASE x # k
      <4>1. x \in DOMAIN h /\ g[x] = h[x]
        BY <1>7, <3>3
      <4>2. Held(h, g[x][d])
        BY <2>1, <4>1 DEF Held
      <4> QED
        BY <2>1, <4>1, <4>2
    <3> QED
      BY <3>1, <3>2, <3>3
  <2>2. CASE g[i][a] = v
    BY <2>1, <2>2
  <2>3. CASE g[i][a] # v
    <3>1. /\ i \in DOMAIN h /\ a \in DOMAIN h[i] /\ g[i][a] = h[i][a]
          /\ j \in DOMAIN h /\ b \in DOMAIN h[j] /\ g[j][b] = h[j][b]
      <4>1. i \in DOMAIN h /\ a \in DOMAIN h[i] /\ g[i][a] = h[i][a]
        BY <2>1, <2>3
      <4>2. g[j][b] # v
        BY <2>3
      <4>3. j \in DOMAIN h /\ b \in DOMAIN h[j] /\ g[j][b] = h[j][b]
        BY <2>1, <4>2
      <4> QED
        BY <4>1, <4>3
    <3>2. Unique(h) /\ h[i][a] = h[j][b]
      BY <3>1 DEF HeadersOf
    <3> QED
      BY <3>1, <3>2 DEF Unique
  <2> QED
    BY <2>2, <2>3
<1> QED
  BY <1>7, <1>9, <1>10, <1>11, <1>12 DEF HeadersOf, Gains

LEMMA NothingHeld ==
  ASSUME NEW V
  PROVE  HeadersOf(NoHeaders, V) /\ DOMAIN NoHeaders = {} /\ \A x : ~Held(NoHeaders, x)
<1>1. DOMAIN NoHeaders = {}
  BY DEF NoHeaders
<1> QED
  BY <1>1, FS_EmptySet DEF HeadersOf, Unique, Held

\* The values set are the numbers of the first n calls.
Numbered(h, t, n) == \A x \in 1..MaxSets : Held(h, x) \/ Held(t, x) <=> x \in 1..n

\* The headers h and trailers t that a handler can have set: their values are the numbers
\* of the calls that set them, up to the last one.
Gathered(h, t) ==
  /\ HeadersOf(h, 1..MaxSets) /\ DOMAIN h \subseteq HeaderKeys
  /\ HeadersOf(t, 1..MaxSets) /\ DOMAIN t \subseteq TrailerKeys
  /\ \A x \in 1..MaxSets : ~(Held(h, x) /\ Held(t, x))
  /\ \E n \in 0..MaxSets : Numbered(h, t, n)

LEMMA NoneGathered == Gathered(NoHeaders, NoHeaders)
<1>1. 0 \in 0..MaxSets /\ \A x \in 1..MaxSets : x \notin 1..0
  BY BoundAssumption
<1>2. Numbered(NoHeaders, NoHeaders, 0)
  BY <1>1, NothingHeld DEF Numbered
<1> QED
  BY <1>1, <1>2, NothingHeld DEF Gathered

LEMMA HeldInRange ==
  ASSUME NEW V, NEW h, HeadersOf(h, V), NEW x, Held(h, x)
  PROVE  x \in V
<1>1. PICK k \in DOMAIN h : \E a \in DOMAIN h[k] : h[k][a] = x
  BY DEF Held
<1>2. h[k] \in Seq(V)
  BY DEF HeadersOf
<1> QED
  BY <1>1, <1>2

LEMMA GatheredApart ==
  ASSUME NEW h, NEW t, Gathered(h, t)
  PROVE  Apart(h, t)
<1> SUFFICES ASSUME NEW j \in DOMAIN h, NEW k \in DOMAIN t, NEW a \in DOMAIN h[j], NEW b \in DOMAIN t[k],
                    h[j][a] = t[k][b]
             PROVE  FALSE
  BY DEF Apart
<1>1. PICK x : x = h[j][a]
  OBVIOUS
<1>2. Held(h, x) /\ Held(t, x)
  BY <1>1 DEF Held
<1>3. x \in 1..MaxSets
  BY <1>2, HeldInRange DEF Gathered
<1> QED
  BY <1>2, <1>3 DEF Gathered

\* The number of the next call.
LEMMA NextNumber ==
  ASSUME NEW h, NEW t, Gathered(h, t),
         NEW v, v = 1 + Cardinality(valuesOf(h, HeaderKeys) \cup valuesOf(t, TrailerKeys)), v <= MaxSets
  PROVE  /\ v \in 1..MaxSets
         /\ \E n \in Nat : v = n + 1 /\ Numbered(h, t, n)
<1>1. PICK n \in 0..MaxSets : Numbered(h, t, n)
  BY DEF Gathered
<1>2. \A x : x \in valuesOf(h, HeaderKeys) <=> Held(h, x)
  BY DEF valuesOf, Held, ToSet, Gathered
<1>3. \A x : x \in valuesOf(t, TrailerKeys) <=> Held(t, x)
  BY DEF valuesOf, Held, ToSet, Gathered
<1>4. \A x : Held(h, x) \/ Held(t, x) => x \in 1..MaxSets
  BY HeldInRange DEF Gathered
<1>5. \A x : x \in 1..n => x \in 1..MaxSets
  BY BoundAssumption
<1>6. valuesOf(h, HeaderKeys) \cup valuesOf(t, TrailerKeys) = 1..n
  <2>1. ASSUME NEW x PROVE x \in valuesOf(h, HeaderKeys) \cup valuesOf(t, TrailerKeys) <=> x \in 1..n
    <3>1. ASSUME Held(h, x) \/ Held(t, x) PROVE x \in 1..n
      BY <1>1, <1>4, <3>1 DEF Numbered
    <3>2. ASSUME x \in 1..n PROVE Held(h, x) \/ Held(t, x)
      BY <1>1, <1>5, <3>2 DEF Numbered
    <3> QED
      BY <1>2, <1>3, <3>1, <3>2
  <2> QED
    BY <2>1
<1>7. Cardinality(1..n) = n
  <2>1. Cardinality(1..n) = IF 1 > n THEN 0 ELSE n - 1 + 1
    BY FS_Interval
  <2> QED
    BY <2>1
<1>8. n \in Nat /\ v = n + 1
  <2>1. PICK c : c = Cardinality(valuesOf(h, HeaderKeys) \cup valuesOf(t, TrailerKeys))
    OBVIOUS
  <2>2. c = n /\ v = 1 + c
    BY <1>6, <1>7, <2>1
  <2>3. n \in Nat
    BY BoundAssumption
  <2> QED
    BY <2>2, <2>3
<1>9. v \in 1..MaxSets
  BY <1>8, BoundAssumption
<1> QED
  BY <1>1, <1>8, <1>9

LEMMA OneMore ==
  ASSUME NEW n \in Nat, NEW v \in 1..MaxSets, v = n + 1
  PROVE  \A x \in 1..MaxSets : x \in 1..v <=> x = v \/ x \in 1..n
BY BoundAssumption

\* The next number is a new one.
LEMMA NewNumber ==
  ASSUME NEW h, NEW t, NEW n \in Nat, NEW v \in 1..MaxSets, v = n + 1, Numbered(h, t, n)
  PROVE  ~Held(h, v) /\ ~Held(t, v)
BY BoundAssumption DEF Numbered

LEMMA HeaderGathers ==
  ASSUME NEW h, NEW t, Gathered(h, t), NEW k \in HeaderKeys,
         NEW v, v = 1 + Cardinality(valuesOf(h, HeaderKeys) \cup valuesOf(t, TrailerKeys)), v <= MaxSets,
         NEW g, g = accumulate(h, k, v)
  PROVE  Gathered(g, t)
<1>1. v \in 1..MaxSets /\ \E n \in Nat : v = n + 1 /\ Numbered(h, t, n)
  BY NextNumber
<1>2. PICK n \in Nat : v = n + 1 /\ Numbered(h, t, n)
  BY <1>1
<1>3. ~Held(h, v) /\ ~Held(t, v)
  BY <1>1, <1>2, NewNumber
<1>4. /\ HeadersOf(g, 1..MaxSets) /\ DOMAIN g = DOMAIN h \cup {k}
      /\ \A x : Held(g, x) <=> x = v \/ Held(h, x)
  <2>1. PICK V : V = 1..MaxSets
    OBVIOUS
  <2>2. HeadersOf(h, V) /\ IsKey(k) /\ v \in V
    BY <1>1, <2>1, KeysAssumption DEF Gathered
  <2>3. Gains(g, h, k, v) /\ HeadersOf(g, V)
    BY <1>3, <2>2, Accumulates
  <2> QED
    BY <2>1, <2>3 DEF Gains
<1>5. \A x \in 1..MaxSets : ~(Held(g, x) /\ Held(t, x))
  BY <1>3, <1>4 DEF Gathered
<1>6. v \in 0..MaxSets /\ Numbered(g, t, v)
  <2>1. \A x \in 1..MaxSets : Held(g, x) \/ Held(t, x) <=> x = v \/ Held(h, x) \/ Held(t, x)
    BY <1>4
  <2>2. v \in 0..MaxSets
    BY <1>1, BoundAssumption
  <2>3. \A x \in 1..MaxSets : x \in 1..v <=> x = v \/ x \in 1..n
    BY <1>1, <1>2, OneMore
  <2> QED
    BY <1>2, <2>1, <2>2, <2>3 DEF Numbered
<1> QED
  BY <1>4, <1>5, <1>6 DEF Gathered

LEMMA TrailerGathers ==
  ASSUME NEW h, NEW t, Gathered(h, t), NEW k \in TrailerKeys,
         NEW v, v = 1 + Cardinality(valuesOf(h, HeaderKeys) \cup valuesOf(t, TrailerKeys)), v <= MaxSets,
         NEW g, g = accumulate(t, k, v)
  PROVE  Gathered(h, g)
<1>1. v \in 1..MaxSets /\ \E n \in Nat : v = n + 1 /\ Numbered(h, t, n)
  BY NextNumber
<1>2. PICK n \in Nat : v = n + 1 /\ Numbered(h, t, n)
  BY <1>1
<1>3. ~Held(h, v) /\ ~Held(t, v)
  BY <1>1, <1>2, NewNumber
<1>4. /\ HeadersOf(g, 1..MaxSets) /\ DOMAIN g = DOMAIN t \cup {k}
      /\ \A x : Held(g, x) <=> x = v \/ Held(t, x)
  <2>1. PICK V : V = 1..MaxSets
    OBVIOUS
  <2>2. HeadersOf(t, V) /\ IsKey(k) /\ v \in V
    BY <1>1, <2>1, KeysAssumption DEF Gathered
  <2>3. Gains(g, t, k, v) /\ HeadersOf(g, V)
    BY <1>3, <2>2, Accumulates
  <2> QED
    BY <2>1, <2>3 DEF Gains
<1>5. \A x \in 1..MaxSets : ~(Held(h, x) /\ Held(g, x))
  BY <1>3, <1>4 DEF Gathered
<1>6. v \in 0..MaxSets /\ Numbered(h, g, v)
  <2>1. \A x \in 1..MaxSets : Held(h, x) \/ Held(g, x) <=> x = v \/ Held(h, x) \/ Held(t, x)
    BY <1>4
  <2>2. v \in 0..MaxSets
    BY <1>1, BoundAssumption
  <2>3. \A x \in 1..MaxSets : x \in 1..v <=> x = v \/ x \in 1..n
    BY <1>1, <1>2, OneMore
  <2> QED
    BY <1>2, <2>1, <2>2, <2>3 DEF Numbered
<1> QED
  BY <1>4, <1>5, <1>6 DEF Gathered

\* The headers of an answer of the server: what net/http makes of those of the handler, or
\* none if there was no handler.
Sent(r) ==
  /\ r.body.form # "text"
  /\ \/ \E all \in MuxTrailers(hdr, trl) : r.headers \in canonicalised(all)
     \/ r.headers = NoHeaders /\ hdr = NoHeaders /\ trl = NoHeaders

ByIntermediary(r) == r.body.form = "text" /\ r.headers = NoHeaders

HeaderInv ==
  /\ Gathered(hdr, trl)
  /\ phase = "idle" => hdr = NoHeaders /\ trl = NoHeaders
  /\ outcome # << >> => outcome[1].headers = hdr /\ outcome[1].trailers = trl
  /\ response = NoResponse \/ ByIntermediary(response) \/ Sent(response)

LEMMA InitHeaderInv == Init => HeaderInv
BY NoneGathered DEF Init, HeaderInv

\* Steps that leave the headers alone, and the response or lose it.
LEMMA HeadersQuiet ==
  ASSUME HeaderInv, UNCHANGED << hdr, trl, outcome >>,
         phase' = "idle" => phase = "idle",
         response' = response \/ response' = NoResponse
  PROVE  HeaderInv'
BY DEF HeaderInv, Sent, ByIntermediary

\* Before the server answers there is no answer of it.
LEMMA Unanswered ==
  ASSUME UInv, HeaderInv, phase # "returned"
  PROVE  response = NoResponse \/ ByIntermediary(response)
<1>1. outcome = << >>
  BY DEF UInv, FlowInv
<1>2. response = NoResponse \/ Intermediary(response)
  BY <1>1 DEF UInv, ContentInv, FromServer
<1>3. ASSUME Intermediary(response) PROVE ~Sent(response)
  <2>1. response.body.form = "text"
    BY <1>3 DEF Intermediary
  <2> QED
    BY <2>1 DEF Sent
<1> QED
  BY <1>2, <1>3 DEF HeaderInv

\* The server answers.
LEMMA HeadersSent ==
  ASSUME UInv, HeaderInv, phase # "returned", phase' = "returned", UNCHANGED << hdr, trl >>,
         outcome'[1].headers = hdr, outcome'[1].trailers = trl,
         NEW r, respond(r), Sent(r)
  PROVE  HeaderInv'
<1>1. response' = r \/ (response' = response /\ (response = NoResponse \/ ByIntermediary(response)))
  BY Unanswered DEF respond
<1>2. response' = NoResponse \/ ByIntermediary(response') \/ Sent(response)'
  BY <1>1 DEF Sent
<1> QED
  BY <1>2 DEF HeaderInv, ByIntermediary

LEMMA NextHeaderInv == UInv /\ HeaderInv /\ [Next]_vars => HeaderInv'
<1> SUFFICES ASSUME UInv, HeaderInv, [Next]_vars PROVE HeaderInv'
  OBVIOUS
<1>1. CASE Serve
  <2> DEFINE n == Negotiate(request)
  <2>1. phase = "idle" /\ UNCHANGED << hdr, trl >> /\ hdr = NoHeaders /\ trl = NoHeaders
    BY <1>1 DEF Serve, HeaderInv
  <2>2. CASE /\ n.to = "http" /\ phase' = "returned" /\ respond(ErrorResponse(n))
             /\ outcome' = << Failed(n.code, << >>) >>
    <3> HIDE DEF n
    <3>1. PICK r : r = ErrorResponse(n)
      OBVIOUS
    <3>2. r.headers = NoHeaders /\ r.body.form # "text"
      BY <3>1 DEF ErrorResponse, HTTPResponse, EncodeErrorJSON
    <3>3. Sent(r)
      BY <2>1, <3>2 DEF Sent
    <3>4. outcome'[1].headers = hdr /\ outcome'[1].trailers = trl
      BY <2>2 DEF Failed
    <3> QED
      BY <2>1, <2>2, <3>1, <3>3, <3>4, HeadersSent
  <2>3. CASE n.to = "handler" /\ phase' = "handler" /\ UNCHANGED << response, outcome >>
    BY <2>1, <2>3, HeadersQuiet
  <2> QED
    BY <1>1, <2>2, <2>3 DEF Serve
<1>2. ASSUME NEW k \in HeaderKeys, SetHeader(k) PROVE HeaderInv'
  <2>1. /\ phase = "handler" /\ nextValue <= MaxSets /\ hdr' = accumulate(hdr, k, nextValue)
        /\ UNCHANGED << response, phase, trl, outcome >>
    BY <1>2 DEF SetHeader
  <2>2. response = NoResponse \/ ByIntermediary(response)
    BY <2>1, Unanswered
  <2>3. outcome = << >>
    BY <2>1 DEF UInv, FlowInv
  <2>4. PICK v, g : v = nextValue /\ g = accumulate(hdr, k, v)
    OBVIOUS
  <2>5. v = 1 + Cardinality(valuesOf(hdr, HeaderKeys) \cup valuesOf(trl, TrailerKeys)) /\ v <= MaxSets
    BY <2>1, <2>4 DEF nextValue
  <2>6. Gathered(g, trl)
    BY <2>4, <2>5, HeaderGathers DEF HeaderInv
  <2>7. Gathered(hdr, trl)'
    BY <2>1, <2>4, <2>6
  <2> QED
    BY <2>1, <2>2, <2>3, <2>7 DEF HeaderInv, ByIntermediary
<1>3. ASSUME NEW k \in TrailerKeys, SetTrailer(k) PROVE HeaderInv'
  <2>1. /\ phase = "handler" /\ nextValue <= MaxSets /\ trl' = accumulate(trl, k, nextValue)
        /\ UNCHANGED << response, phase, hdr, outcome >>
    BY <1>3 DEF SetTrailer
  <2>2. response = NoResponse \/ ByIntermediary(response)
    BY <2>1, Unanswered
  <2>3. outcome = << >>
    BY <2>1 DEF UInv, FlowInv
  <2>4. PICK v, g : v = nextValue /\ g = accumulate(trl, k, v)
    OBVIOUS
  <2>5. v = 1 + Cardinality(valuesOf(hdr, HeaderKeys) \cup valuesOf(trl, TrailerKeys)) /\ v <= MaxSets
    BY <2>1, <2>4 DEF nextValue
  <2>6. Gathered(hdr, g)
    BY <2>4, <2>5, TrailerGathers DEF HeaderInv
  <2>7. Gathered(hdr, trl)'
    BY <2>1, <2>4, <2>6
  <2> QED
    BY <2>1, <2>2, <2>3, <2>7 DEF HeaderInv, ByIntermediary
<1>4. ASSUME NEW p \in Payloads, ReturnMessage(p) PROVE HeaderInv'
  <2>1. PICK all \in responseHeaders : respond(OkResponse(all, p))
    BY <1>4 DEF ReturnMessage
  <2>2. PICK r : r = OkResponse(all, p)
    OBVIOUS
  <2>3. r.headers = all /\ r.body.form # "text"
    BY <2>2 DEF OkResponse, HTTPResponse, Message
  <2>4. Sent(r)
    BY <2>3 DEF Sent, responseHeaders
  <2>5. outcome'[1].headers = hdr /\ outcome'[1].trailers = trl
    BY <1>4 DEF ReturnMessage, Ok
  <2> QED
    BY <1>4, <2>1, <2>2, <2>4, <2>5, HeadersSent DEF ReturnMessage
<1>5. ASSUME NEW err \in Errors, ReturnError(err) PROVE HeaderInv'
  <2> DEFINE re == asRPCError(err)
  <2>1. PICK all \in responseHeaders : respond(HandlerErrorResponse(all, re))
    BY <1>5 DEF ReturnError
  <2>2. outcome' = << Failed(re.code, re.details) >>
    BY <1>5 DEF ReturnError
  <2> HIDE DEF re
  <2>3. PICK r : r = HandlerErrorResponse(all, re)
    OBVIOUS
  <2>4. r.headers = all /\ r.body.form # "text"
    BY <2>3 DEF HandlerErrorResponse, HTTPResponse, EncodeErrorJSON
  <2>5. Sent(r)
    BY <2>4 DEF Sent, responseHeaders
  <2>6. outcome'[1].headers = hdr /\ outcome'[1].trailers = trl
    BY <2>2 DEF Failed
  <2> QED
    BY <1>5, <2>1, <2>3, <2>5, <2>6, HeadersSent DEF ReturnError
<1>6. CASE Panic
  BY <1>6, HeadersQuiet DEF Panic
<1>7. CASE Break
  BY <1>7, HeadersQuiet DEF Break, serverVars
<1>8. ASSUME NEW s \in ProxyStatuses, ProxyAnswers(s) PROVE HeaderInv'
  <2>1. response' = HTTPResponse(s, NoHeaders, -1, "", [form |-> "text"]) /\ UNCHANGED serverVars
    BY <1>8 DEF ProxyAnswers
  <2>2. ByIntermediary(response)'
    BY <2>1 DEF ByIntermediary, HTTPResponse
  <2> QED
    BY <2>1, <2>2 DEF HeaderInv, serverVars
<1>9. CASE \/ \E r \in Requests, d \in BOOLEAN : Send(r, d)
           \/ SendReturns \/ SendFails \/ TimerExpires \/ CutRequest \/ UNCHANGED vars
  <2>1. UNCHANGED << serverVars, response >>
    BY <1>9 DEF Send, SendReturns, SendFails, TimerExpires, CutRequest, vars, serverVars
  <2> QED
    BY <2>1, HeadersQuiet DEF serverVars
<1> QED
  BY <1>1, <1>2, <1>3, <1>4, <1>5, <1>6, <1>7, <1>8, <1>9 DEF Next, Done

LEMMA HeadersHold == Spec => []HeaderInv
<1> QED
  BY InitHeaderInv, NextHeaderInv, Invariant, PTL DEF Spec

\* What the caller has of an answer of the server.
LEMMA ServerReply ==
  ASSUME UInv, HeaderInv, ByServer
  PROVE  /\ Sent(response)
         /\ outcome[1].headers = hdr /\ outcome[1].trailers = trl
         /\ reply[1].headers = DemuxTrailers(response.headers).headers
         /\ reply[1].trailers = DemuxTrailers(response.headers).trailers
<1>1. Settled /\ response.body.form # "text"
  BY DEF ByServer
<1>2. response # NoResponse /\ (Intermediary(response) \/ FromServer(response))
      /\ reply[1] = Response(response)
  BY <1>1, SettledReply
<1>3. FromServer(response)
  BY <1>1, <1>2 DEF Intermediary
<1>4. outcome # << >>
  BY <1>3 DEF FromServer
<1> QED
  BY <1>1, <1>2, <1>4 DEF HeaderInv, ByIntermediary, Response

LEMMA NothingDemuxed ==
  ASSUME NEW d, d = DemuxTrailers(NoHeaders)
  PROVE  DOMAIN d.headers = {} /\ DOMAIN d.trailers = {}
<1>1. {k \in DOMAIN NoHeaders : isTrailer(k)} = {} /\ DOMAIN NoHeaders = {}
  BY NothingHeld
<1> QED
  BY <1>1 DEF DemuxTrailers

\* What arrives of the headers and trailers of the handler.
Arrived ==
  ByServer =>
    /\ outcome[1].headers = hdr /\ outcome[1].trailers = trl
    /\ HeadersIn(reply[1].headers, hdr, {k \in DOMAIN hdr : ~k.prefix}, 1..MaxSets)
    /\ TrailersIn(reply[1].trailers, trl, {k \in DOMAIN hdr : k.prefix}, 1..MaxSets)

LEMMA Arriving == UInv /\ HeaderInv => Arrived
<1> SUFFICES ASSUME UInv, HeaderInv, ByServer
             PROVE  /\ outcome[1].headers = hdr /\ outcome[1].trailers = trl
                    /\ HeadersIn(reply[1].headers, hdr, {k \in DOMAIN hdr : ~k.prefix}, 1..MaxSets)
                    /\ TrailersIn(reply[1].trailers, trl, {k \in DOMAIN hdr : k.prefix}, 1..MaxSets)
  BY DEF Arrived
<1>1. /\ Sent(response) /\ outcome[1].headers = hdr /\ outcome[1].trailers = trl
      /\ reply[1].headers = DemuxTrailers(response.headers).headers
      /\ reply[1].trailers = DemuxTrailers(response.headers).trailers
  BY ServerReply
<1>2. PICK V, h, t, g, x, y, p, a : /\ V = 1..MaxSets /\ h = hdr /\ t = trl /\ g = response.headers
                                    /\ x = reply[1].headers /\ y = reply[1].trailers
                                    /\ p = {k \in DOMAIN hdr : ~k.prefix} /\ a = {k \in DOMAIN hdr : k.prefix}
  OBVIOUS
<1>3. /\ HeadersOf(h, V) /\ HeadersOf(t, V) /\ Apart(h, t)
      /\ \A k \in DOMAIN t : k.prefix = FALSE
  BY <1>2, GatheredApart, KeysAssumption DEF HeaderInv, Gathered
<1>4. x = DemuxTrailers(g).headers /\ y = DemuxTrailers(g).trailers
  BY <1>1, <1>2
<1>5. p = {k \in DOMAIN h : ~k.prefix} /\ a = {k \in DOMAIN h : k.prefix}
  BY <1>2
<1>6. HeadersIn(x, h, p, V) /\ TrailersIn(y, t, a, V)
  <2>1. ASSUME NEW all \in MuxTrailers(h, t), g \in canonicalised(all)
        PROVE  HeadersIn(x, h, p, V) /\ TrailersIn(y, t, a, V)
    BY <1>3, <1>4, <1>5, <2>1, HeadersTravel, TrailersTravel
  <2>2. ASSUME g = NoHeaders, h = NoHeaders, t = NoHeaders
        PROVE  HeadersIn(x, h, p, V) /\ TrailersIn(y, t, a, V)
    <3>1. DOMAIN x = {} /\ DOMAIN y = {} /\ DOMAIN t = {} /\ p = {} /\ a = {}
      BY <1>4, <1>5, <2>2, NothingDemuxed, NothingHeld
    <3> QED
      BY <3>1 DEF HeadersIn, TrailersIn
  <2> QED
    BY <1>1, <1>2, <2>1, <2>2 DEF Sent
<1> QED
  BY <1>1, <1>2, <1>6

LEMMA ArrivedHolds == Spec => []Arrived
<1> QED
  BY Arriving, Invariant, HeadersHold, PTL

\* Response headers arrive whether the handler succeeds or fails (HeadersArrive): all values
\* of all spellings of a key, each once and those of one spelling in order, although
\* net/http ranges over the spellings in any order and trailers travel among the headers.
THEOREM HeadersAlwaysArrive == Spec => []HeadersArrive
<1>1. ASSUME Arrived PROVE HeadersArrive
  BY <1>1 DEF Arrived, HeadersIn, HeadersArrive
<1> QED
  BY <1>1, ArrivedHolds, PTL

\* Every trailer arrives under its lower-case name with the values of one spelling of it
\* (TrailersArrive): a header that looks like a trailer may add to it or become one, but
\* none is lost between MuxTrailers, net/http and DemuxTrailers.
THEOREM TrailersAlwaysArrive == Spec => []TrailersArrive
<1>1. ASSUME Arrived PROVE TrailersArrive
  BY <1>1 DEF Arrived, TrailersIn, TrailersArrive, PlainKey
<1> QED
  BY <1>1, ArrivedHolds, PTL

-----------------------------------------------------------------------------
(* Every variable keeps to its values.                                     *)

AtMostOne(s) == s = << >> \/ \E x : s = << x >>

LEMMA AtMostOneIsShort ==
  ASSUME NEW s, AtMostOne(s)
  PROVE  Len(s) <= 1
<1>1. ASSUME NEW x, s = << x >> PROVE Len(s) <= 1
  BY <1>1
<1>2. ASSUME s = << >> PROVE Len(s) <= 1
  BY <1>2
<1> QED
  BY <1>1, <1>2 DEF AtMostOne

TypeInv ==
  /\ request = NoRequest \/ ("ctype" \in DOMAIN request /\ ~IsStreamContentType(request.ctype))
  /\ whole \in BOOLEAN
  /\ AtMostOne(outcome)
  /\ timer \in {"off", "armed", "fired", "released"}

LEMMA TypeInvHolds == Spec => []TypeInv
<1>1. Init => TypeInv
  BY DEF Init, TypeInv, AtMostOne
<1>2. TypeInv /\ [Next]_vars => TypeInv'
  <2> SUFFICES ASSUME TypeInv, [Next]_vars PROVE TypeInv'
    OBVIOUS
  <2>2. ASSUME UNCHANGED << request, whole, timer >>, outcome' = outcome \/ \E x : outcome' = << x >>
        PROVE  TypeInv'
    BY <2>2 DEF TypeInv, AtMostOne
  <2>3. ASSUME NEW r \in Requests, NEW d \in BOOLEAN, Send(r, d) PROVE TypeInv'
    <3>1. request' = [r EXCEPT !.timeout = d] /\ "ctype" \in DOMAIN r /\ ~IsStreamContentType(r.ctype)
      BY <2>3, RequestsAssumption DEF Send
    <3>2. "ctype" \in DOMAIN request' /\ request'.ctype = r.ctype
      BY <3>1
    <3>3. timer' \in {"off", "armed"} /\ UNCHANGED << whole, outcome >>
      BY <2>3 DEF Send, startTimer, serverVars
    <3> QED
      BY <3>1, <3>2, <3>3 DEF TypeInv, AtMostOne
  <2>4. CASE CutRequest
    <3>1. PICK n \in 0..(request.body.extra - 1) :
            request' = [request EXCEPT !.body.extra = n, !.body.gzip = FALSE]
      BY <2>4 DEF CutRequest
    <3>2. request # NoRequest /\ whole' = FALSE /\ UNCHANGED << outcome, timer >>
      BY <2>4 DEF CutRequest, serverVars
    <3>3. "ctype" \in DOMAIN request' /\ request'.ctype = request.ctype
      BY <3>1, <3>2 DEF TypeInv
    <3> QED
      BY <3>2, <3>3 DEF TypeInv, AtMostOne
  <2>5. CASE SendReturns \/ SendFails \/ TimerExpires
    BY <2>5 DEF SendReturns, SendFails, TimerExpires, release, serverVars, TypeInv, AtMostOne
  <2>6. CASE Serve
    BY <2>2, <2>6 DEF Serve
  <2>7. CASE \/ \E p \in Payloads : ReturnMessage(p)
             \/ \E err \in Errors : ReturnError(err)
    BY <2>2, <2>7 DEF ReturnMessage, ReturnError
  <2> QED
    BY <2>2, <2>3, <2>4, <2>5, <2>6, <2>7
    DEF Next, SetHeader, SetTrailer, Panic, Break, ProxyAnswers, Done, vars, serverVars
<1> QED
  BY <1>1, <1>2, PTL DEF Spec

\* TypeOK: besides, a status is a number, and every header value the caller reads is one
\* that the handler set.
THEOREM TypeCorrect == Spec => []TypeOK
<1>1. ASSUME UInv, HeaderInv, TypeInv, Arrived PROVE TypeOK
  <2>1. response.status \in Nat
    <3>1. CASE response = NoResponse
      BY <3>1 DEF NoResponse
    <3>2. CASE Intermediary(response)
      BY <3>2 DEF Intermediary
    <3>3. CASE FromServer(response)
      <4>1. \A p : CarriesMessage(response, p) => response.status = 200
        BY DEF CarriesMessage
      <4>2. \A c, d : CarriesError(response, c, d) => response.status \in Nat
        BY DEF CarriesError
      <4>3. \/ CarriesMessage(response, outcome[1].payload)
            \/ CarriesError(response, outcome[1].code, outcome[1].details)
        BY <3>3 DEF FromServer
      <4> QED
        BY <4>1, <4>2, <4>3
    <3> QED
      BY <1>1, <3>1, <3>2, <3>3 DEF UInv, ContentInv
  <2>2. Len(reply) <= 1
    <3>1. AtMostOne(reply)
      BY <1>1 DEF UInv, ContentInv, AtMostOne
    <3> QED
      BY <3>1, AtMostOneIsShort
  <2>3. ASSUME Settled, NEW h \in {reply[1].headers, reply[1].trailers}, NEW k \in DOMAIN h
        PROVE  h[k] \in Seq(1..MaxSets)
    <3>1. CASE ByServer
      BY <1>1, <2>3, <3>1 DEF Arrived, HeadersIn, TrailersIn
    <3>2. CASE ~ByServer
      <4>1. response.body.form = "text" /\ response # NoResponse /\ reply[1] = Response(response)
        BY <1>1, <2>3, <3>2, SettledReply DEF ByServer
      <4>2. response.headers = NoHeaders
        BY <1>1, <4>1 DEF HeaderInv, ByIntermediary, Sent
      <4>3. /\ reply[1].headers = DemuxTrailers(NoHeaders).headers
            /\ reply[1].trailers = DemuxTrailers(NoHeaders).trailers
        BY <4>1, <4>2 DEF Response
      <4>4. DOMAIN h = {}
        BY <2>3, <4>3, NothingDemuxed
      <4> QED
        BY <2>3, <4>4
    <3> QED
      BY <3>1, <3>2
  <2>4. Len(outcome) <= 1
    BY <1>1, AtMostOneIsShort DEF TypeInv
  <2> QED
    BY <1>1, <2>1, <2>2, <2>3, <2>4 DEF TypeOK, UInv, FlowInv, HeaderInv, Gathered, TypeInv
<1> QED
  BY <1>1, Invariant, HeadersHold, TypeInvHolds, ArrivedHolds, PTL
=============================================================================
