------------------------------- MODULE Codes -------------------------------
(***************************************************************************)
(* The error vocabulary of the wire protocol (protocol.go, server.go):     *)
(* Connect codes, the HTTP statuses and the wire names they map to, and    *)
(* the two JSON shapes that carry an error, the end-stream payload and the *)
(* unary error body.                                                       *)
(*                                                                         *)
(* A JSON document is the record of the fields the decoder looks at.       *)
(* Message texts are left out: no decision of the code depends on them.    *)
(* Metadata is the set of its keys.                                        *)
(***************************************************************************)
EXTENDS Integers, Sequences

KnownCodes == 1..16   \* the error codes of the protocol; 0 means "ok"

StatusTable ==
  << 499, 500, 400, 504, 404, 409, 403, 429, 400, 409, 400, 501, 500, 503, 500, 401 >>

\* The HTTP status of a Connect code; whatever is not listed is a 500.
HTTPStatus(code) == IF code \in KnownCodes THEN StatusTable[code] ELSE 500

\* The reverse direction, lossy because several codes share a status.
ConnectFromStatus(status) ==
  CASE status = 400 -> 3
    [] status = 404 -> 5
    [] status = 403 -> 7
    [] status = 401 -> 16
    [] status = 429 -> 8
    [] status = 503 -> 14
    [] status = 409 -> 10
    [] status = 504 -> 4
    [] status = 501 -> 12
    [] status = 499 -> 1
    [] OTHER -> 13

NameTable ==
  << "ok", "canceled", "unknown", "invalid_argument", "deadline_exceeded",
     "not_found", "already_exists", "permission_denied", "resource_exhausted",
     "failed_precondition", "aborted", "out_of_range", "unimplemented",
     "internal", "unavailable", "data_loss", "unauthenticated" >>

CodeNames == [c \in 0..16 |-> NameTable[c + 1]]

CodeToString(code) == IF code \in 0..16 THEN CodeNames[code] ELSE "unknown"

CodeFromString(name) ==
  IF \E c \in 0..16 : CodeNames[c] = name
  THEN CHOOSE c \in 0..16 : CodeNames[c] = name
  ELSE 2

-----------------------------------------------------------------------------
(* Error details.  In memory a detail is [type, value] with value a        *)
(* sequence of bytes.  On the wire its value is a base64 text, represented *)
(* by what decoding it yields: ok says whether it is valid base64, raw the *)
(* bytes; EmptyText is the text of length 0.                               *)

EmptyText == [ok |-> TRUE, raw |-> << >>]

encodeWireDetails(details) ==
  [i \in DOMAIN details |->
     [type |-> details[i].type, value |-> [ok |-> TRUE, raw |-> details[i].value]]]

IsDetail(d) == d = [type |-> d.type, value |-> d.value]

\* What can be written down.
Representable(d) == d.type # "" /\ d.value # << >>

WellFormed(d) == d.type # "" /\ d.value # EmptyText /\ d.value.ok

\* The elements of s at the places in I, in their order.
selected(s, I) ==
  LET upTo[i \in 0..Len(s)] ==
        IF i = 0 THEN << >>
        ELSE IF i \in I THEN Append(upTo[i - 1], s[i]) ELSE upTo[i - 1]
  IN  upTo[Len(s)]

\* The details that can be written down, in their order.
representable(ds) == selected(ds, {i \in DOMAIN ds : Representable(ds[i])})

\* Malformed entries are skipped, the others keep their order.
decodeWireDetails(wire) ==
  LET kept == selected(wire, {i \in DOMAIN wire : WellFormed(wire[i])})
  IN  [i \in DOMAIN kept |-> [type |-> kept[i].type, value |-> kept[i].value.raw]]

-----------------------------------------------------------------------------
(* The payload of an END frame.  form is "json" for a document the parser  *)
(* accepts, "empty" for no bytes at all, "garbage" for anything else.  The *)
(* optional error object is a sequence of length at most one.              *)

EndStreamMessage(code, details, metadata) ==
  [code |-> code, details |-> details, metadata |-> metadata]

JSONPayload(error, metadata) ==
  [form |-> "json", error |-> error, metadata |-> metadata]

EncodeEndStream(m) ==
  IF m.code # 0 \/ m.details # << >>
  THEN JSONPayload(<< [code    |-> CodeToString(IF m.code = 0 THEN 2 ELSE m.code),
                       details |-> encodeWireDetails(m.details)] >>, m.metadata)
  ELSE JSONPayload(<< >>, m.metadata)

DecodeEndStream(p) ==
  IF p.form # "json" THEN EndStreamMessage(0, << >>, {})
  ELSE IF p.error = << >> THEN EndStreamMessage(0, << >>, p.metadata)
  ELSE EndStreamMessage(IF p.error[1].code = "" THEN 2 ELSE CodeFromString(p.error[1].code),
                        decodeWireDetails(p.error[1].details), p.metadata)

-----------------------------------------------------------------------------
(* The body of a failed unary response.  form as above ("text" stands for  *)
(* a non-empty body that is not a JSON error, such as a plain-text body).  *)

EncodeErrorJSON(code, details) ==
  [form |-> "json", code |-> CodeToString(code), details |-> encodeWireDetails(details)]

\* Code 0 says "this body is not an error".
DecodeErrorJSON(body) ==
  IF body.form = "json" /\ body.code # ""
  THEN [code |-> CodeFromString(body.code), details |-> decodeWireDetails(body.details)]
  ELSE [code |-> 0, details |-> << >>]

-----------------------------------------------------------------------------
(* What a handler may fail with, and asRPCError: only an error that IS an  *)
(* RPCError keeps its code (the code uses a type assertion, not            *)
(* errors.As), so a wrapped one and any other error become internal (13).  *)

\* Mutations: an error that is no RPCError passes with a sentinel, or with code 0.
asRPCErrorSentinel(err) ==
  IF err.kind = "rpc" THEN [code |-> err.code, details |-> err.details]
                      ELSE [code |-> -1, details |-> << >>]
asRPCErrorZero(err) ==
  IF err.kind = "rpc" THEN [code |-> err.code, details |-> err.details]
                      ELSE [code |-> 0, details |-> << >>]

asRPCError(err) ==
  IF err.kind = "rpc" THEN [code |-> err.code, details |-> err.details]
                      ELSE [code |-> 13, details |-> << >>]
=============================================================================
