---------------------------- MODULE Conformance ----------------------------
(***************************************************************************)
(* The conformance programs: the methods of cmd/conformance-server and of  *)
(* cmd/conformance-official-server, the code that is generated for them    *)
(* (conformance.easyrpc.go, service.easyrpc.go), and the checks that       *)
(* cmd/conformance-client makes.                                           *)
(*                                                                         *)
(* A method is a function from its request and its context, [headers,      *)
(* timeout], to the program it runs: the headers and trailers it sets, by  *)
(* their keys and in order, the messages it emits, the error it ends with. *)
(* A unary method emits its one response.                                  *)
(***************************************************************************)
EXTENDS ConformanceMessages, Codes

NoProgram == [headers |-> << >>, trailers |-> << >>, emits |-> << >>,
              error |-> << >>, sleeps |-> FALSE]
Emits(msgs) == [NoProgram EXCEPT !.emits = msgs]
Responds(msg) == Emits(<< msg >>)

ErrorDetail(type, value) == [type |-> type, value |-> value]
RPCError(code, details) == [kind |-> "rpc", code |-> code, details |-> details]
Fails(err) == [NoProgram EXCEPT !.error = << err >>]

-----------------------------------------------------------------------------
(* cmd/conformance-server                                                  *)

Health == Responds(HealthResponse(TRUE, << "conformance" >>))
Echo(in) == Responds(EchoResponse(<< "echo:" >> \o in.input))
wanted(n) == IF n > 0 THEN n ELSE 3
Count(in) == Emits([i \in 1..wanted(in.count) |-> CountResponse(i - 1)])
Fail(in) == IF in.message # << >> THEN Fails(RPCError(3, << >>)) ELSE Responds(FailResponse(TRUE))
StreamFail(in) ==
  [Emits([i \in 1..in.emitBefore |-> StreamFailResponse(i - 1)]) EXCEPT
     !.error = << RPCError(in.code, << >>) >>]

\* Get looks at any spelling of a key, and its empty value counts as none.
echoed == { Key("x-test", "lower"), Key("authorization", "lower") }
EchoMeta(in, c) ==
  LET value(k) == CHOOSE v \in Get(c.headers, k) : TRUE
  IN  Responds(EchoMetaResponse(in.input,
        [k \in {j \in echoed : value(j) # << >>} |-> value(k)]))

Big(in) == Responds(BigResponse(in.size))
EchoBytes(in) == Responds(EchoBytesResponse(in.data))
Sleep(in) == [Responds(SleepResponse(TRUE)) EXCEPT !.sleeps = TRUE]
deadlineExceeded == RPCError(4, << >>)   \* Sleep, when its context ends first
Empty == Responds(EmptyResponse)
BigStream(in) == Emits([i \in 1..wanted(in.count) |-> BigStreamResponse(i - 1, in.size)])
detailed(in) == RPCError(in.code, << ErrorDetail(in.detailType, in.detailText) >>)
FailDetails(in) == Fails(detailed(in))
StreamFailDetails(in) ==
  [Emits([i \in 1..in.emitBefore |-> StreamFailDetailsResponse(i - 1)]) EXCEPT
     !.error = << detailed(in) >>]

\* Mutation: SetHeader in place of SetTrailer.
EchoTrailerAsHeader(in) ==
  [Responds(EchoTrailerResponse(<< "trailer:" >> \o in.input)) EXCEPT
     !.headers = << Key("x-trl", "lower") >>]

EchoTrailer(in) ==
  [Responds(EchoTrailerResponse(<< "trailer:" >> \o in.input)) EXCEPT
     !.trailers = << Key("x-trl", "lower") >>]

\* Mutation: one message too many.
CountTrailerOneMore(in) ==
  [Emits([i \in 1..(wanted(in.count) + 1) |-> CountTrailerResponse(i - 1)]) EXCEPT
     !.trailers = << Key("x-ctrailer", "lower") >>]

CountTrailer(in) ==
  [Emits([i \in 1..wanted(in.count) |-> CountTrailerResponse(i - 1)]) EXCEPT
     !.trailers = << Key("x-ctrailer", "lower") >>]

-----------------------------------------------------------------------------
(* cmd/conformance-official-server                                         *)

requestInfo(in, c) == RequestInfo(c.headers, c.timeout, << in >>)
InfoType == "connectrpc.conformance.v1.ConformancePayload.RequestInfo"

\* The request infos among the details of an error.
infosIn(ds) ==
  LET found == selected(ds, {i \in DOMAIN ds : ds[i].type = InfoType})
  IN  [i \in DOMAIN found |-> found[i].value[1]]

applyHeaders(list) ==
  FlattenSeq([i \in DOMAIN list |-> [j \in DOMAIN list[i].value |-> list[i].name]])

\* A type URL is the sequence of its segments, of which the last one stays.
anyDetails(e) ==
  [i \in DOMAIN e.details |->
     ErrorDetail(Last(e.details[i].typeUrl), e.details[i].value)]

\* Mutation: the request info left out of the error.
toRPCErrorBare(e, info) == RPCError(e.code, anyDetails(e))

\* info is optional.
toRPCError(e, info) ==
  RPCError(e.code, anyDetails(e) \o
                   [i \in DOMAIN info |-> ErrorDetail(InfoType, << info[i] >>)])

Unary(in, c) ==
  LET info == requestInfo(in, c)
      def == in.responseDefinition[1]
  IN  IF in.responseDefinition = << >>
      THEN Responds(UnaryResponse(<< ConformancePayload(<< >>, << info >>) >>))
      ELSE [IF def.error # << >> THEN Fails(toRPCError(def.error[1], << info >>))
            ELSE Responds(UnaryResponse(<< ConformancePayload(def.data, << info >>) >>))
            EXCEPT !.headers = applyHeaders(def.responseHeaders),
                   !.trailers = applyHeaders(def.responseTrailers)]

IdempotentUnary(in, c) ==
  Responds(IdempotentUnaryResponse(<< ConformancePayload(<< >>, << requestInfo(in, c) >>) >>))

\* The first payload carries the request info, or the error when there is no payload.
ServerStream(in, c) ==
  LET info == << requestInfo(in, c) >>
      def == in.responseDefinition[1]
      response(i) == ServerStreamResponse(
        << ConformancePayload(def.responseData[i], IF i = 1 THEN info ELSE << >>) >>)
  IN  IF in.responseDefinition = << >> THEN NoProgram
      ELSE [headers |-> applyHeaders(def.responseHeaders),
            trailers |-> applyHeaders(def.responseTrailers),
            emits |-> [i \in DOMAIN def.responseData |-> response(i)],
            error |-> [i \in DOMAIN def.error |->
                         toRPCError(def.error[i], IF def.responseData = << >> THEN info ELSE << >>)],
            sleeps |-> FALSE]

\* ClientStream, BidiStream and Unimplemented.
Unsupported == Fails(RPCError(12, << >>))
-----------------------------------------------------------------------------
(* The generated code.                                                     *)

\* The method tables, by path: is it a server stream, and is it registered.
unary == [serverStream |-> FALSE, handled |-> TRUE]
serverStream == [serverStream |-> TRUE, handled |-> TRUE]
ConformanceMethods ==
  [Health |-> unary, Echo |-> unary, Count |-> serverStream, Fail |-> unary,
   StreamFail |-> serverStream, EchoMeta |-> unary, Big |-> unary, FailDetails |-> unary,
   StreamFailDetails |-> serverStream, EchoTrailer |-> unary, CountTrailer |-> serverStream,
   EchoBytes |-> unary, Sleep |-> unary, Empty |-> unary, BigStream |-> serverStream]
OfficialMethods ==
  [Unary |-> unary, ServerStream |-> serverStream, ClientStream |-> unary,
   BidiStream |-> serverStream, Unimplemented |-> unary, IdempotentUnary |-> unary]

IsUnaryMethod(path) ==
  \/ path \in DOMAIN ConformanceMethods /\ ConformanceMethods[path] = unary
  \/ path \in DOMAIN OfficialMethods /\ OfficialMethods[path] = unary

IsStreamMethod(path) ==
  \/ path \in DOMAIN ConformanceMethods /\ ConformanceMethods[path] = serverStream
  \/ path \in DOMAIN OfficialMethods /\ OfficialMethods[path] = serverStream

\* The method behind a path.
ConformanceService(path, in, c) ==
  CASE path = "Health" -> Health            [] path = "Echo" -> Echo(in)
    [] path = "Count" -> Count(in)          [] path = "Fail" -> Fail(in)
    [] path = "StreamFail" -> StreamFail(in)
    [] path = "EchoMeta" -> EchoMeta(in, c) [] path = "Big" -> Big(in)
    [] path = "FailDetails" -> FailDetails(in)
    [] path = "StreamFailDetails" -> StreamFailDetails(in)
    [] path = "EchoTrailer" -> EchoTrailer(in)
    [] path = "CountTrailer" -> CountTrailer(in)
    [] path = "EchoBytes" -> EchoBytes(in)  [] path = "Sleep" -> Sleep(in)
    [] path = "Empty" -> Empty              [] path = "BigStream" -> BigStream(in)
OfficialService(path, in, c) ==
  CASE path = "Unary" -> Unary(in, c)       [] path = "ServerStream" -> ServerStream(in, c)
    [] path = "IdempotentUnary" -> IdempotentUnary(in, c)
    [] path \in {"ClientStream", "BidiStream", "Unimplemented"} -> Unsupported

run(path, in, c) ==
  IF path \in DOMAIN ConformanceMethods THEN ConformanceService(path, in, c)
                                        ELSE OfficialService(path, in, c)

\* The registered wrappers: the programs that may run on the bytes b of a request.  Bytes
\* that do not decode fail with an error that is no RPCError.
registered(path, b, kind, c) ==
  { IF d = << >> THEN Fails([kind |-> "other"]) ELSE run(path, d[1], c) : d \in decodeMsg(b, kind) }

\* Mutation: the codec of the call forgotten.
ContentTypeForProto(isStream, kind) ==
  IF isStream THEN "application/connect+proto" ELSE "application/proto"

ContentTypeFor(isStream, kind) ==
  IF kind = "json"
  THEN IF isStream THEN "application/connect+json" ELSE "application/json"
  ELSE IF isStream THEN "application/connect+proto" ELSE "application/proto"

\* What the client's stubs send; body is the encoded message, framed or not.
stubRequest(path, isStream, kind, body) ==
  [version |-> "", httpMethod |-> "POST", path |-> path,
   ctype |-> ContentTypeFor(isStream, kind), ce |-> "", cce |-> "",
   accept |-> "canonical", timeout |-> FALSE, body |-> body]

-----------------------------------------------------------------------------
(* cmd/conformance-client: the calls main makes and what it wants to see.  *)
(* A unary result is << message >>, or << >> and an error.                 *)

MainUnaryCalls ==
  [Echo |-> EchoRequest(<< "hi" >>),
   FailDetails |-> FailDetailsRequest(8, << "limited" >>, "RetryInfo", << "retry:5s" >>),
   EchoBytes |-> EchoBytesRequest(<< 0, 1, 2, 255, 254, 128 >>),
   Empty |-> EmptyRequest,
   Sleep |-> SleepRequest(0),
   EchoTrailer |-> EchoTrailerRequest(<< "x" >>)]

\* out, err: what the stub returns; trailers: those of the last unary call.
mainAccepts(path, out, err, trailers) ==
  IF path = "FailDetails"
  THEN err # << >> /\ err[1].code = 8
       /\ err[1].details = << ErrorDetail("RetryInfo", << "retry:5s" >>) >>
  ELSE /\ err = << >>
       /\ path = "Echo" => out[1].output = << "echo:", "hi" >>
       /\ path = "EchoTrailer" =>
            /\ out[1].output = << "trailer:", "x" >>
            /\ Len(values(trailers, Key("x-trl", "lower"))) = 1

MainStreamCalls ==
  [Count |-> CountRequest(3),
   StreamFailDetails |->
     StreamFailDetailsRequest(2, 13, << "boom" >>, "stream", << "sd" >>),
   BigStream |-> BigStreamRequest(3, 2048),
   CountTrailer |-> CountTrailerRequest(2)]

\* msgs: the decoded messages; err: << >> after io.EOF; keys: those of the trailers.
mainAcceptsStream(path, msgs, err, keys) ==
  CASE path = "Count" ->
         err = << >> /\ [i \in DOMAIN msgs |-> msgs[i].index] = << 0, 1, 2 >>
    [] path = "StreamFailDetails" ->
         /\ err # << >> /\ err[1].code = 13
         /\ Len(err[1].details) = 1 /\ err[1].details[1].value = << "sd" >>
         /\ Len(msgs) = 2
    [] path = "BigStream" -> err = << >> /\ Len(msgs) = 3
    [] path = "CountTrailer" ->
         err = << >> /\ Len(msgs) = 2 /\ Key("x-ctrailer", "lower") \in keys
=============================================================================
