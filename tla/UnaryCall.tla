----------------------------- MODULE UnaryCall -----------------------------
(***************************************************************************)
(* One unary call: the unary half of Dispatch (server.go) behind           *)
(* ServeNetHTTP, and NetHTTP.Send (bridge_nethttp.go) under                *)
(* DeadlineInterceptor, with the generated client's reading of the result. *)
(*                                                                         *)
(* The handler is the environment, and so is the network: it may cut the   *)
(* request, lose the response, or an intermediary may answer in the        *)
(* server's place.                                                         *)
(* outcome and whole are histories: what the handler, or Dispatch,         *)
(* answered, and whether the request has arrived whole.                    *)
(* A header value is the number of the call that set it.  Headers that the *)
(* protocol itself sets are fields of the request and of the response.     *)
(***************************************************************************)
EXTENDS Negotiation, Headers

CONSTANTS Requests,      \* what the client may ask for
          HeaderKeys,    \* response header keys a handler may set
          TrailerKeys,   \* trailer keys a handler may set
          MaxSets,       \* bound: how many headers and trailers it sets
          Payloads,      \* messages a handler may return
          Errors,        \* errors a handler may return
          ProxyStatuses  \* statuses an intermediary may answer with

ASSUME RequestsAssumption ==
  \A r \in Requests : "ctype" \in DOMAIN r /\ ~IsStreamContentType(r.ctype)   \* Send is for unary calls
ASSUME ErrorsAssumption ==
  \A e \in Errors : e.kind = "rpc" =>
    e.code \in Nat /\ e.details \in Seq({d \in ToSet(e.details) : IsDetail(d)})
ASSUME KeysAssumption ==
  /\ \A k \in HeaderKeys \cup TrailerKeys : IsKey(k)
  /\ \A k \in TrailerKeys : k.prefix = FALSE
ASSUME BoundAssumption == MaxSets \in Nat
ASSUME ProxyAssumption ==
  \A s \in ProxyStatuses : s \in Nat /\ s >= 300

VARIABLES
  request,    \* the request, or NoRequest
  response,   \* the HTTP response on its way, or NoResponse
  conn,       \* "up" or "down"
  phase,      \* server: "idle", "handler", "returned"
  hdr, trl,   \* HandlerContext.header and .trailer
  whole,      \* whether all of the request has arrived
  outcome,    \* << >>, or << what the server answered >>
  reply,      \* << >>, or << what Send returned >>
  timer       \* the deadline context: "off", "armed", "fired", "released"

serverVars == << phase, hdr, trl, outcome >>
vars == << request, response, conn, whole, serverVars, reply, timer >>

NoRequest == [path |-> ""]
NoResponse == [status |-> 0]

Init ==
  /\ request = NoRequest /\ response = NoResponse /\ conn = "up"
  /\ phase = "idle" /\ hdr = NoHeaders /\ trl = NoHeaders /\ outcome = << >>
  /\ whole = TRUE /\ reply = << >> /\ timer = "off"

-----------------------------------------------------------------------------
(* The response as net/http carries it.  Headers of the handler with its   *)
(* trailers among them are all; code is the Connect-Code header, -1 when   *)
(* there is none.                                                          *)

HTTPResponse(status, headers, code, encoding, body) ==
  [status |-> status, headers |-> headers, code |-> code,
   encoding |-> encoding, body |-> body]

Message(p) == [form |-> "message", payload |-> p]

\* writeError, writeErrorStatus: the exact code also travels in a header.
ErrorResponse(n) ==
  HTTPResponse(n.status, NoHeaders, n.code, "", EncodeErrorJSON(n.code, << >>))

\* What Header and start of httpWriter may make of the headers of the handler.
responseHeaders == UNION {canonicalised(all) : all \in MuxTrailers(hdr, trl)}

\* The handler failed: the exact code is in the body only.
HandlerErrorResponse(all, re) ==
  HTTPResponse(HTTPStatus(re.code), all, -1, "", EncodeErrorJSON(re.code, re.details))

OkResponse(all, p) ==
  IF acceptsGzip(request) /\ p.size >= CompressMinBytes
  THEN HTTPResponse(200, all, -1, "gzip", Message(GzipCompress(p)))
  ELSE HTTPResponse(200, all, -1, "", Message(p))

-----------------------------------------------------------------------------
(* The server.                                                             *)

Ok(p) == [kind |-> "ok", payload |-> p, trailers |-> trl, headers |-> hdr]
Failed(code, details) ==
  [kind |-> "error", code |-> code, details |-> details, trailers |-> trl, headers |-> hdr]

\* Writing to a connection that is gone has no effect.
respond(r) == response' = IF conn = "up" THEN r ELSE response

Serve ==
  /\ phase = "idle" /\ request # NoRequest
  /\ LET n == Negotiate(request)
     IN  \/ /\ n.to = "http"
            /\ phase' = "returned"
            /\ respond(ErrorResponse(n))
            /\ outcome' = << Failed(n.code, << >>) >>
         \/ /\ n.to = "handler"
            /\ phase' = "handler"
            /\ UNCHANGED << response, outcome >>
  /\ UNCHANGED << request, conn, whole, hdr, trl, reply, timer >>

valuesOf(h, ks) == UNION {ToSet(h[k]) : k \in ks \cap DOMAIN h}

nextValue == 1 + Cardinality(valuesOf(hdr, HeaderKeys) \cup valuesOf(trl, TrailerKeys))

SetHeader(k) ==
  /\ phase = "handler" /\ nextValue <= MaxSets
  /\ hdr' = accumulate(hdr, k, nextValue)
  /\ UNCHANGED << request, response, conn, whole, phase, trl, outcome, reply, timer >>

SetTrailer(k) ==
  /\ phase = "handler" /\ nextValue <= MaxSets
  /\ trl' = accumulate(trl, k, nextValue)
  /\ UNCHANGED << request, response, conn, whole, phase, hdr, outcome, reply, timer >>

ReturnMessage(p) ==
  /\ phase = "handler"
  /\ phase' = "returned"
  /\ \E all \in responseHeaders : respond(OkResponse(all, p))
  /\ outcome' = << Ok(p) >>
  /\ UNCHANGED << request, conn, whole, hdr, trl, reply, timer >>

ReturnError(err) ==
  /\ phase = "handler"
  /\ phase' = "returned"
  /\ LET re == asRPCError(err)
     IN  /\ \E all \in responseHeaders : respond(HandlerErrorResponse(all, re))
         /\ outcome' = << Failed(re.code, re.details) >>
  /\ UNCHANGED << request, conn, whole, hdr, trl, reply, timer >>

\* A panic: net/http drops the connection without a response.
Panic ==
  /\ phase = "handler"
  /\ phase' = "returned"
  /\ conn' = "down"
  /\ UNCHANGED << request, response, whole, hdr, trl, outcome, reply, timer >>

-----------------------------------------------------------------------------
(* The network.                                                            *)

\* The connection breaks; a response on its way may be lost.
Break ==
  /\ request # NoRequest /\ conn = "up" /\ reply = << >>
  /\ conn' = "down"
  /\ response' \in {response, NoResponse}
  /\ UNCHANGED << request, whole, serverVars, reply, timer >>

\* An intermediary answers with a text of its own, and the server is cut off.
ProxyAnswers(status) ==
  /\ request # NoRequest /\ conn = "up" /\ reply = << >>
  /\ response' = HTTPResponse(status, NoHeaders, -1, "", [form |-> "text"])
  /\ conn' = "down"
  /\ UNCHANGED << request, whole, serverVars, reply, timer >>

\* The connection fails while the request is sent.  ServeNetHTTP ignores the read
\* error and hands Dispatch the bytes that did arrive, but its answer has no way
\* back: a client and a server with nothing between them lose both directions at
\* once, and no server of the repository limits how long or how much it reads.  A
\* server behind such a limit could answer a request that it has read in part.
CutRequest ==
  /\ request # NoRequest /\ phase = "idle" /\ conn = "up" /\ reply = << >>
  /\ \E n \in 0..(request.body.extra - 1) :
       request' = [request EXCEPT !.body.extra = n, !.body.gzip = FALSE]
  /\ whole' = FALSE
  /\ conn' = "down"
  /\ UNCHANGED << response, serverVars, reply, timer >>

-----------------------------------------------------------------------------
(* The client.                                                             *)

StatusFromHeader(r) ==
  IF r.code = -1 THEN << >> ELSE << [code |-> r.code, details |-> << >>] >>

\* Mutations: client errors taken for success; the status alone decides the code.
responseErrorServerOnly(r) ==
  IF r.status < 500 THEN << >> ELSE << [code |-> ConnectFromStatus(r.status), details |-> << >>] >>
responseErrorByStatus(r) ==
  IF r.status < 300 THEN << >> ELSE << [code |-> ConnectFromStatus(r.status), details |-> << >>] >>

\* The error Send reconstructs from a response of status 300 or more: the header
\* names the code and the body the details, or the body names both, or all there
\* is to go by is the status.
responseError(r) ==
  LET h == StatusFromHeader(r)
      b == DecodeErrorJSON(r.body)
  IN  IF r.status < 300 THEN << >>
      ELSE IF h # << >> THEN
        << IF b.details # << >> THEN [h[1] EXCEPT !.details = b.details] ELSE h[1] >>
      ELSE IF b.code # 0 THEN << b >>
      ELSE << [code |-> ConnectFromStatus(r.status), details |-> << >>] >>

\* A body that claims to be gzip and is not stays as it is.
decodedBody(r) ==
  IF r.encoding = "gzip" /\ r.body.form = "message" /\ IsGzip(r.body.payload)
  THEN Message(GzipDecompress(r.body.payload)) ELSE r.body

Response(r) ==
  LET d == DemuxTrailers(r.headers)
  IN  [kind |-> "response", headers |-> d.headers, trailers |-> d.trailers,
       body |-> decodedBody(r), error |-> responseError(r)]
TransportError == [kind |-> "raw"]

\* Mutation: TimeoutInterceptor in its place, which only tells the server.
startTimerHeaderOnly(d) == timer' = IF d THEN "header" ELSE "off"

startTimer(d) == timer' = IF d THEN "armed" ELSE "off"

Send(r, d) ==
  /\ request = NoRequest
  /\ request' = [r EXCEPT !.timeout = d]
  /\ startTimer(d)
  /\ UNCHANGED << response, conn, whole, serverVars, reply >>

\* Mutation: no deferred cancel.
releaseForgotten == UNCHANGED timer

\* The deferred cancel of DeadlineInterceptor runs however Send returns.
release == timer' = IF timer = "off" THEN "off" ELSE "released"

SendReturns ==
  /\ request # NoRequest /\ reply = << >>
  /\ response # NoResponse
  /\ reply' = << Response(response) >>
  /\ release
  /\ UNCHANGED << request, response, conn, whole, serverVars >>

SendFails ==
  /\ request # NoRequest /\ reply = << >>
  /\ (response = NoResponse /\ conn = "down") \/ timer = "fired"
  /\ reply' = << TransportError >>
  /\ release
  /\ UNCHANGED << request, response, conn, whole, serverVars >>

TimerExpires ==
  /\ timer = "armed"
  /\ timer' = "fired"
  /\ conn' = "down"
  /\ UNCHANGED << request, response, whole, serverVars, reply >>

\* The call is over at both ends.
Done == reply # << >> /\ phase = "returned" /\ UNCHANGED vars

Next ==
  \/ \E r \in Requests, d \in BOOLEAN : Send(r, d)
  \/ SendReturns \/ SendFails \/ TimerExpires
  \/ Serve
  \/ \E k \in HeaderKeys : SetHeader(k)
  \/ \E k \in TrailerKeys : SetTrailer(k)
  \/ \E p \in Payloads : ReturnMessage(p)
  \/ \E err \in Errors : ReturnError(err)
  \/ Panic
  \/ Break \/ CutRequest
  \/ \E s \in ProxyStatuses : ProxyAnswers(s)
  \/ Done

\* Send runs, and so does its timer.  Nothing is assumed of handler and network.
Fairness == WF_vars(SendReturns \/ SendFails) /\ WF_vars(TimerExpires)

Spec == Init /\ [][Next]_vars
FairSpec == Spec /\ Fairness

-----------------------------------------------------------------------------
Settled == reply # << >> /\ reply[1].kind = "response"
Succeeded == Settled /\ reply[1].error = << >>
ErrorSeen == reply[1].error[1]   \* when Settled and not Succeeded

\* Every variable keeps to its values.
TypeOK ==
  /\ request = NoRequest \/ ~IsStreamContentType(request.ctype)
  /\ response.status \in Nat
  /\ conn \in {"up", "down"}
  /\ phase \in {"idle", "handler", "returned"}
  /\ DOMAIN hdr \subseteq HeaderKeys /\ DOMAIN trl \subseteq TrailerKeys
  /\ whole \in BOOLEAN
  /\ Len(outcome) <= 1 /\ Len(reply) <= 1
  /\ Settled => \A h \in {reply[1].headers, reply[1].trailers} :
                  \A k \in DOMAIN h : h[k] \in Seq(1..MaxSets)
  /\ timer \in {"off", "armed", "fired", "released"}

\* The generated client takes a Response without Error for a success: then the
\* handler did get the whole request, it did return a message, and that message is
\* what arrives.  The request is whole because whoever loses a part of it loses the
\* connection (CutRequest): Dispatch itself does not notice.
SuccessIsComplete ==
  Succeeded =>
    /\ whole
    /\ outcome # << >> /\ outcome[1].kind = "ok"
    /\ reply[1].body = Message(outcome[1].payload)

\* The code a caller sees for a code the server used: one the protocol does not know
\* becomes 2 (unknown), and 0, which the body spells "ok", is read from the status.
WireCode(c) == IF c \in KnownCodes THEN c ELSE IF c = 0 THEN ConnectFromStatus(500) ELSE 2

\* An error is reported as an error, whatever its code, with exactly the code the
\* server failed with and its details, although several codes share an HTTP status;
\* only an answer that an intermediary made up is read from its status.
ErrorIsExact ==
  Settled /\ ~Succeeded =>
    IF response.body.form = "text"
    THEN ErrorSeen.code = ConnectFromStatus(response.status)
    ELSE /\ outcome # << >> /\ outcome[1].kind = "error"
         /\ ErrorSeen.code = WireCode(outcome[1].code)
         /\ ErrorSeen.details = IF outcome[1].code = 0 THEN << >>
                                ELSE representable(outcome[1].details)

ByServer == Settled /\ response.body.form # "text"

\* The values of t occur in s in the order they have in t.
KeepsOrder(s, t) ==
  \A x, y \in DOMAIN s, a, b \in DOMAIN t : s[x] = t[a] /\ s[y] = t[b] /\ a < b => x < y

\* Response headers arrive whether the handler succeeds or fails: under the canonical
\* spelling of their key all values of all its spellings, each once, those of one
\* spelling in the order the handler set them, and nothing besides.
HeadersArrive ==
  ByServer =>
    LET sent == outcome[1].headers
        got == reply[1].headers
        plain == {k \in DOMAIN sent : ~k.prefix}
    IN  /\ DOMAIN got = {CanonicalHeaderKey(k) : k \in plain}
        /\ \A c \in DOMAIN got :
             /\ IsInjective(got[c])
             /\ ToSet(got[c]) = valuesOf(sent, {k \in plain : CanonicalHeaderKey(k) = c})
        /\ \A k \in plain :
             KeepsOrder(got[CanonicalHeaderKey(k)], sent[k])

\* Every trailer arrives under its lower-case name with the values of one of the
\* spellings the handler used, all of them and in order; a header of the handler that
\* looks like a trailer may only add to it, or become one.
TrailersArrive ==
  ByServer =>
    LET sent == outcome[1].trailers
        got == reply[1].trailers
        alike == {k \in DOMAIN outcome[1].headers : k.prefix}
        plain(k) == [ToLower(k) EXCEPT !.prefix = FALSE]
    IN  /\ DOMAIN got = {plain(k) : k \in DOMAIN sent \cup alike}
        /\ \A k \in DOMAIN sent :
             \E j \in DOMAIN sent :
               /\ EqualFold(j, k)
               /\ IF \E a \in alike : plain(a) = plain(k)
                  THEN ToSet(sent[j]) \subseteq ToSet(got[ToLower(k)])
                  ELSE got[ToLower(k)] = sent[j]

\* The deadline context does not outlive Send.
DeadlineReleased == reply # << >> => timer \in {"off", "released"}

\* Send returns if the call has a deadline, the server has answered or the
\* connection has broken.
SendTerminates ==
  request # NoRequest /\ (timer # "off" \/ phase = "returned" \/ conn = "down")
    ~> reply # << >>
=============================================================================
