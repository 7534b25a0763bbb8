---------------------------- MODULE Negotiation ----------------------------
(***************************************************************************)
(* The decisions Dispatch (server.go) takes before it runs a handler: the  *)
(* fixed sequence of checks on a request and where each one sends it.      *)
(*                                                                         *)
(* A request is a record; "" is an absent header.                          *)
(*   version  connect-protocol-version          httpMethod  ":method"      *)
(*   path     the path, query string removed    ctype  Content-Type        *)
(*   ce, cce  Content-Encoding, Connect-Content-Encoding                   *)
(*   accept   the key under which gzip is accepted: "lower" is the literal *)
(*            connect-accept-encoding, "canonical" a key as net/http hands *)
(*            it over (Connect-Accept-Encoding, Accept-Encoding), "" none  *)
(*   timeout  whether connect-timeout-ms holds a positive number           *)
(*   body     [frames, extra, gzip]: enveloped messages [len, have, gzip,  *)
(*            flagged], have < len when cut short, then extra bytes (all   *)
(*            of a unary body); gzip: the bytes are valid gzip             *)
(* Header texts are taken trimmed and in lower case.                       *)
(***************************************************************************)
EXTENDS Framing, SequencesExt

CONSTANT Methods   \* the registered paths: [path -> [serverStream, handled]]

ContentKindOf(ct) ==
  CASE ct \in {"application/proto", "application/connect+proto"} -> "proto"
    [] ct \in {"application/json", "application/connect+json"}   -> "json"
    [] OTHER -> ""

IsStreamContentType(ct) == ct \in {"application/connect+proto", "application/connect+json"}

requestEncoding(req) ==
  LET e == IF req.ce # "" THEN req.ce ELSE req.cce
  IN  IF e = "identity" THEN "" ELSE e

\* Mutation: the lookup made case-insensitive, which lets emit compress twice.
acceptsGzipAnyCase(req) == req.accept # ""

\* A raw map index in the code, not the case-insensitive Headers.Get.
acceptsGzip(req) == req.accept = "lower"

BodyBytes(body) ==
  FoldLeft(LAMBDA n, f : n + HeaderBytes + f.have, body.extra, body.frames)

-----------------------------------------------------------------------------
\* Both return the Connect code of the failure, 0 when there is none.

countFramesError(body) ==
  IF \E i \in DOMAIN body.frames : body.frames[i].len > MaxMessageBytes THEN 8
  ELSE IF body.extra > 0 THEN 13 ELSE 0

\* Mutation: the check for a truncated payload left out.
readSingleFrameErrorUnchecked(body) ==
  IF body.frames[1].flagged /\ ~body.frames[1].gzip THEN 13 ELSE 0

readSingleFrameError(body) ==
  LET f == body.frames[1]
  IN  IF f.have < f.len \/ (f.flagged /\ ~f.gzip) THEN 13 ELSE 0

\* A server-stream request carries exactly one whole message.
streamBodyError(body) ==
  IF countFramesError(body) # 0 THEN countFramesError(body)
  ELSE IF Len(body.frames) # 1 THEN 12
  ELSE readSingleFrameError(body)

unaryBodyError(req) ==
  IF requestEncoding(req) = "gzip" /\ req.body.extra > 0 /\ ~req.body.gzip THEN 13 ELSE 0

-----------------------------------------------------------------------------
(* Where a request goes: an HTTP error (writeError, writeErrorStatus), an  *)
(* END frame on a 200 (streamFail), or the handler.                        *)

writeErrorStatus(code, status) == [to |-> "http", code |-> code, status |-> status]
writeError(code) == writeErrorStatus(code, HTTPStatus(code))
streamFail(code) == [to |-> "end", code |-> code, status |-> 200]
runHandler == [to |-> "handler", code |-> 0, status |-> 200]

spec(req) == Methods[req.path]

wrongContentType(req) ==
  \/ ContentKindOf(req.ctype) = ""
  \/ IsStreamContentType(req.ctype) # spec(req).serverStream

NegotiateStream(req) ==
  IF ~spec(req).handled THEN streamFail(12)
  ELSE IF streamBodyError(req.body) # 0 THEN streamFail(streamBodyError(req.body))
  ELSE runHandler

NegotiateUnary(req) ==
  IF ~spec(req).handled THEN writeError(5)
  ELSE IF unaryBodyError(req) # 0 THEN writeError(unaryBodyError(req))
  ELSE runHandler

Negotiate(req) ==
  IF req.version \notin {"", "1"} THEN writeError(12)
  ELSE IF BodyBytes(req.body) > MaxMessageBytes THEN writeError(8)
  ELSE IF req.httpMethod \notin {"", "POST"} THEN writeErrorStatus(2, 405)
  ELSE IF req.path \notin DOMAIN Methods THEN writeErrorStatus(12, 404)
  ELSE IF wrongContentType(req) THEN writeErrorStatus(2, 415)
  ELSE IF requestEncoding(req) \notin {"", "gzip"} THEN writeError(12)
  ELSE IF spec(req).serverStream THEN NegotiateStream(req)
  ELSE NegotiateUnary(req)
=============================================================================
