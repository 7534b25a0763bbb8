------------------------ MODULE ConformanceMessages ------------------------
(***************************************************************************)
(* The messages of the two conformance services (conformance.pb.go,        *)
(* service.pb.go) and their codecs (encodeMsg and decodeMsg of the         *)
(* generated *.easyrpc.go).                                                *)
(*                                                                         *)
(* A message is the record of its fields; a field that is not set holds    *)
(* its default.  A text is the sequence of its parts, so that texts can be *)
(* put together; an optional message is a sequence of length at most one.  *)
(***************************************************************************)
EXTENDS Headers

\* easyrpc.conformance.v1
HealthRequest == << >>
HealthResponse(ok, name) == [ok |-> ok, name |-> name]
EchoRequest(input) == [input |-> input]
EchoResponse(output) == [output |-> output]
CountRequest(count) == [count |-> count]
CountResponse(index) == [index |-> index]
FailRequest(message) == [message |-> message]
FailResponse(ok) == [ok |-> ok]
StreamFailRequest(emitBefore, code, message) ==
  [emitBefore |-> emitBefore, code |-> code, message |-> message]
StreamFailResponse(index) == [index |-> index]
EchoMetaRequest(input) == [input |-> input]
EchoMetaResponse(input, meta) == [input |-> input, meta |-> meta]
BigRequest(size) == [size |-> size]
BigResponse(size) == [size |-> size]
FailDetailsRequest(code, message, detailType, detailText) ==
  [code |-> code, message |-> message, detailType |-> detailType, detailText |-> detailText]
StreamFailDetailsRequest(emitBefore, code, message, detailType, detailText) ==
  [emitBefore |-> emitBefore, code |-> code, message |-> message,
   detailType |-> detailType, detailText |-> detailText]
StreamFailDetailsResponse(index) == [index |-> index]
EchoTrailerRequest(input) == [input |-> input]
EchoTrailerResponse(output) == [output |-> output]
CountTrailerRequest(count) == [count |-> count]
CountTrailerResponse(index) == [index |-> index]
EchoBytesRequest(data) == [data |-> data]
EchoBytesResponse(data) == [data |-> data]
SleepRequest(millis) == [millis |-> millis]
SleepResponse(ok) == [ok |-> ok]
EmptyRequest == << >>
EmptyResponse == << >>
BigStreamRequest(count, size) == [count |-> count, size |-> size]
BigStreamResponse(index, size) == [index |-> index, size |-> size]

\* connectrpc.conformance.v1.  Delays and raw responses are left out: the first only
\* take time, the second are for the reference server alone.
Header(name, value) == [name |-> name, value |-> value]
AnyMessage(typeUrl, value) == [typeUrl |-> typeUrl, value |-> value]
Error(code, details) == [code |-> code, details |-> details]
UnaryResponseDefinition(responseHeaders, data, error, responseTrailers) ==
  [responseHeaders |-> responseHeaders, data |-> data, error |-> error,
   responseTrailers |-> responseTrailers]
StreamResponseDefinition(responseHeaders, responseData, error, responseTrailers) ==
  [responseHeaders |-> responseHeaders, responseData |-> responseData, error |-> error,
   responseTrailers |-> responseTrailers]
RequestInfo(requestHeaders, timeoutMs, requests) ==
  [requestHeaders |-> requestHeaders, timeoutMs |-> timeoutMs, requests |-> requests]
ConformancePayload(data, requestInfo) == [data |-> data, requestInfo |-> requestInfo]
UnaryRequest(responseDefinition) == [responseDefinition |-> responseDefinition]
UnaryResponse(payload) == [payload |-> payload]
IdempotentUnaryRequest(responseDefinition) == [responseDefinition |-> responseDefinition]
IdempotentUnaryResponse(payload) == [payload |-> payload]
ServerStreamRequest(responseDefinition) == [responseDefinition |-> responseDefinition]
ServerStreamResponse(payload) == [payload |-> payload]
UnimplementedRequest == << >>

Default ==
  [ok |-> FALSE, name |-> << >>, input |-> << >>, output |-> << >>, count |-> 0,
   index |-> 0, message |-> << >>, emitBefore |-> 0, code |-> 0, meta |-> << >>, size |-> 0,
   detailType |-> "", detailText |-> << >>, data |-> << >>, millis |-> 0,
   responseDefinition |-> << >>, payload |-> << >>]

-----------------------------------------------------------------------------
(* The codecs.  Encoded bytes are [kind, msg, have]; have is how many of   *)
(* them there are.  A field that is set is one byte of proto; JSON has one *)
(* more, for its braces.                                                   *)

setFields(m) == {f \in DOMAIN m : m[f] # Default[f]}

encodeMsg(m, kind) ==
  [kind |-> kind, msg |-> m, have |-> Cardinality(setFields(m)) + IF kind = "json" THEN 1 ELSE 0]

Whole(b) == b.have = encodeMsg(b.msg, b.kind).have

\* What decoding may yield, << >> for an error.  Neither codec takes the other's bytes.
\* Cut JSON is no JSON; of cut proto the fields that did arrive whole remain, unless
\* the cut goes through one.
decodeMsg(b, kind) ==
  IF b.kind # kind THEN { << >> }
  ELSE IF Whole(b) THEN { << b.msg >> }
  ELSE IF kind = "json" THEN { << >> }
  ELSE { << >> } \cup
       { << [f \in DOMAIN b.msg |-> IF f \in kept THEN b.msg[f] ELSE Default[f]] >> :
           kept \in {s \in SUBSET setFields(b.msg) : Cardinality(s) = b.have} }
=============================================================================
