# easy-rpc-go: TLA+ models, model checking and proofs

easy-rpc-go is a small RPC runtime: unary and server-stream calls in the
Connect style over plain HTTP. The models here follow the Go code of the
repository, not its documentation: the runtime (`protocol.go`, `server.go`,
`bridge_nethttp.go`, `server/httpx.go`), the client's wrappers (`connect.go`,
`bridge_auto.go`, `h3/h3.go`), the generated code and the conformance programs.
They are model-checked with TLC on small instances. With TLAPS the contract of a
stream call, of a unary call (its headers, trailers and errors included), of the
deadlines and header maps of concurrent calls, of the frame reader, and of the generated
service end to end is proved for all instances: every safety invariant and every action
property that a run finds true is the statement of a theorem.

## 1. The system

### Components, their state and their operations

| component | code | state | operations | modules |
|---|---|---|---|---|
| error vocabulary, wire JSON | `protocol.go`, `server.go` | none | code/name/status maps, END payload, error body, details | Codes |
| frame codec | `protocol.go` | the position of an `io.Reader` | `Frame`, `FrameCompressed`, `ReadFrame`, `ReadFrameDecompressed` | Framing, FrameReader |
| header helpers | `protocol.go`, `httpx.go` | none | `Get`, `Set`, mux and demux of trailers | Headers |
| request checks | `server.go` | none | the ordered checks that reject a request | Negotiation, FrameReader |
| stream dispatch | `server.go` | `ended`, `headersApplied`, headers and trailers | `emit`, `SetHeader`, `SetTrailer`, return | StreamServer |
| unary dispatch | `server.go` | headers and trailers | handler result to response | UnaryCall |
| `StreamWriter` | `server.go` | `end` | `Write`, `End` | FrameReader |
| net/http server adapter | `server/httpx.go` | `httpWriter`: status, headers, `started` | `ServeNetHTTP`, `WriteFrame` | StreamWire, StreamServer, UnaryCall |
| net/http client | `bridge_nethttp.go` | `httpStream`: body, `ended`, `trailers` | `Send`, `OpenStream`, `Recv`, `Trailers`, `Cancel`, `Close` | StreamClient, UnaryCall, FrameReader |
| deadlines | `protocol.go` | a context with a timer per level | `DeadlineInterceptor`, `cancelOnClose` | StreamClient, UnaryCall, ClientCalls |
| timeout values | `protocol.go` | none | `WithTimeout`, `ParseTimeout` | Timeouts |
| interceptor chain, metadata | `protocol.go` | header maps, shared with the caller | `Send`, `OpenStream` of every wrapper | Transports, ClientCalls |
| `Connect`, transport selection | `connect.go`, `bridge_auto.go` | the registered factory | `Connect`, `RegisterAuto`, `NewTransport` | Transports |
| HTTP/3 and fallback | `h3/h3.go` | none | `Send`, `OpenStream` | ClientCalls |
| generated stubs and wrappers | `*.easyrpc.go` | none | encode, call, decode; decode, run, encode | ConformanceMessages, Conformance |
| conformance programs | `cmd/` | none | every method, every check of the client | Conformance, ConformanceUnary, ConformanceStream |

### How they interact

A generated client calls a `Transport`. `Connect` builds it as a chain of wrappers
around an adapter; each wrapper may write into the header map of the request, set a
deadline, or answer itself, and hands the request on. `NetHTTP` turns the call into
one HTTP exchange; `AutoHTTP` tries HTTP/3 first and falls back to it.
`ServeNetHTTP` reads the whole request body and calls `Dispatch`, which negotiates,
runs the handler (for a generated service the registered wrapper around a method)
and pushes frames into `httpWriter`. The two ends share nothing but the HTTP
exchange: a request, a response head and a growing body. The handler is arbitrary
user code that calls back (`emit`, `SetHeader`, `SetTrailer`); deadlines run as
timers beside all of it, and calls of one client run side by side over the same
wrappers.

### What is hard

- **Truncation.** A body can stop at any byte: only the END frame tells a whole
  stream from a broken one. `io.ReadFull` reports a cut at a frame or header
  boundary as `io.EOF`.
- **Order on the server.** Handlers may emit, end, emit again, fail after ending,
  return or panic; the `ended` flag and lazily applied headers must cope.
- **Deadlines.** The timer races with the answer, `Recv`, `Cancel` and `Close`, nests
  with others, and has to be released on every way out.
- **Shared maps.** A Go map is a reference: what an interceptor writes into a
  request's headers stays there for the levels above, the next attempt and the caller.
- **Attempts.** A retrying interceptor and the HTTP/3 fallback send again; what the
  server has answered must not be done twice.
- **Lossy encodings.** Code 0, unknown codes, codes that share an HTTP status, details
  that look malformed, timeouts below a millisecond, keys that differ in case only.
- **Partial failure.** A request body that was cut, an intermediary that answers, a
  frame that is written half.
- **Two parsers.** A stream is read from an `io.Reader`, a request from a slice by
  loops over offsets; they must agree on every body.

The full list, line by line, is under `hazards` in `PROJECT.json`.

### What makes each component correct

- codec and vocabulary: decode after encode gives back what was encoded, or a
  stated canonical form of it;
- request checks: a handler only runs on one whole request message;
- stream dispatch: one frame per emitted message, in order, and one END, last;
- client stream: a prefix of the emitted messages; `io.EOF` only after all of them
  and an END without error; errors are never invented;
- unary call: success is the handler's answer; an error has its exact code and
  details; headers and trailers arrive;
- client chain: a call sends its own metadata and deadline, is not repeated once
  answered, returns if it has a deadline and leaves no timer behind;
- generated service: a call is a call of the method, in either codec.

## 2. Modules

```
Codes <-- Framing <-- Negotiation <-- StreamWire <-- StreamServer --\
  |                     |   ^              ^                         +--> StreamCall -- RpcStream
  |                     |   |              +-------- StreamClient --/      |   |        (abstract)
  |   Headers --------- UnaryCall                                          |   |
  |      |                  \-- ConformanceUnary      ConformanceStream ---+   |
  |      |                              \                /                     |
  |      +-- ConformanceMessages <-- Conformance -------+                      |
  |      +-- ClientCalls -- Transports, Timeouts                               |
  |                                                                            |
  |   FrameReader (bytes; checks Negotiation against them)                     |
  |                                                                            |
CommonProofs <-- FrameReaderProofs, ClientCallsProofs
  |
  +-- UnaryCallProofs <---- ConformanceUnaryProofs ----> ConformanceProofs
  |                                                          |
  +-- StreamCallProofs <--- ConformanceStreamProofs ---------+
```

**Codes** - tables and conversions as operators with the names of the Go
functions. A JSON document is the record of the fields its decoder looks at. A
base64 text is represented by what decoding it yields.

**Framing** - a frame is `[flags, payload]`. A message is `[id, size, zsize, gz]`:
its name, its length before and after compression, and the number of gzip layers
around it, so that compressing twice and decompressing once is visible.
`readFrameFlags(f, have)` reads frame `f` from a reader that has only its first
`have` bytes.

**FrameReader** - the same codec on bytes. A body is any sequence of digits, written
by a `StreamWriter` whose writes may fail half-way or by a foreign server; the
consumer may go on calling `Recv` after the end or an error. `countFrames` and
`readSingleFrame` parse a request by offsets. Its properties compare the parsers
with one another, and with the frame-level checks of Negotiation, so that the
abstraction of the stream models is itself checked.

**Headers** - a key has a name and a spelling (lower, canonical, mixed); net/http
canonicalises and joins, `MuxTrailers` lowers and prefixes. Where Go ranges over a map
in any order, an operator is the set of the possible results.

**Timeouts** - `WithTimeout` and `ParseTimeout` with the width of a duration.

**Negotiation** - `Negotiate(req)` is the sequence of checks in `Dispatch`, in its
order, ending in an HTTP error, an END frame on a 200 (`streamFail`) or the handler.

**StreamWire** - what both ends of a stream share: `request`, `head`, the frames
of the body (`wire`), the fate of the connection (`conn`) and a frame that arrived
in part (`cut`). `wire` is never consumed; the client reads through an index.

**StreamServer** - `Dispatch` under `ServeNetHTTP`.

| action | code |
|---|---|
| `Serve` (`Reject`, `RunHandler`) | `server.go:54-149`, the checks and the failures |
| `SetHeader`, `SetTrailer` | `HandlerContext` |
| `Emit`, `EmitEnd` | the closure `emit`, `server.go:165-180` |
| `ReturnNil`, `ReturnError` | `server.go:181-194` |
| `Panic` | `Dispatch` unwinds, net/http aborts the connection |
| `ContextDone` | deadline of the request, or net/http noticing a dead connection |

The handler is the environment: it takes these steps in any order, up to
`MaxEmits` messages. `emits`, `early` and `fate` are history variables.

**StreamClient** - `OpenStream` and `httpStream` under `DeadlineInterceptor`, used
by one consumer that calls `Recv` until it is told the end, or cancels, then
closes. `Open`, `OpenOK`, `OpenRejected` and `OpenFails` are the ways through
`OpenStream`; `RecvMessage`, `RecvEnd`, `RecvFails` and `RecvDeadline` the ways through
`Recv`; `Cancel` and `Close` those of `cancelOnClose`; `TimerExpires` is the timer.

**StreamCall** - both ends together with the network: `Break` drops the end of the
body at any byte (including what was written and not yet read, and after the
server has finished), `CutRequest` truncates the request that `ServeNetHTTP` will
pass on without noticing. Properties and the refinement mapping are here.

**RpcStream** - the abstract promise: a sequence of messages and a final status;
the caller receives a prefix, and learns the status only after everything.

**UnaryCall** - the unary half of `Dispatch`, `Send` and the deadline, over a network
that may lose the response, cut the request or answer itself. A cut request
(`CutRequest`) takes the connection with it, as it does when client and server talk to each
other directly: `Dispatch` runs on what arrived, and its answer is lost. Headers and trailers
are those of module Headers, set by the handler in any order and spelling.

**Transports** - what a client is built from: a transport is `[chain, leaf]`, its
wrappers from the outermost and the adapter. `Connect` and `NewTransport` are
translated as the functions they are.

**ClientCalls** - several calls at once through such transports. A request holds the
place of its header map in `heap`, and whoever writes a header writes it there.

| action | code |
|---|---|
| `Start` | a caller with no map, its own, or one it keeps |
| `Enter` | a wrapper on the way down: `augment`, base URL, timeout, deadline, a user's interceptor |
| `Dial` | `NetHTTP` or `AutoHTTP` builds the HTTP request |
| `Answer`, `AttemptFails` | the server answers; the exchange fails; the fallback of `AutoHTTP` (`h3.go:102-118`) |
| `Ascend`, `Return` | the wrapper's `next` has returned: retry, or release the deadline |
| `Close`, `TimerExpires` | `cancelOnClose`; a timer |

**ConformanceMessages**, **Conformance** - the messages as records with their decoding
(bytes that were cut decode to an error, or for protobuf to a message with fewer
fields), the methods of both servers as programs of headers, trailers, messages and
an error, the method tables, stubs and registered wrappers, the checks of the client.

**ConformanceUnary**, **ConformanceStream** - such a program takes the place of the
arbitrary handler in UnaryCall and StreamCall; everything else keeps its steps.

**CommonProofs**, **StreamCallProofs**, **UnaryCallProofs**, **ClientCallsProofs**,
**FrameReaderProofs**, **ConformanceProofs**, **ConformanceUnaryProofs**,
**ConformanceStreamProofs** - section 5.

The `MC` modules hold the values of the constants. Operators under a comment that
begins with *Mutation* are plausible bugs in the operator that follows them; each
property of a passing run is violated when one of them takes the operator's place
(listed in `PROJECT.json`).

## 3. Runs

| run | shows | instance |
|---|---|---|
| `stream_call` | all safety of a stream and `ImplementsRpcStream` | 4 requests (served, empty body, unary method, unknown path), 3 messages, 4 errors, one header and one trailer key, 2 emits; 1.1 M distinct states |
| `stream_liveness` | `ConsumerReturns` | 2 messages, one error, 2 emits; 54 k |
| `unary_call` | safety of a unary call and `SendTerminates` | a request for every check of `Dispatch`, every code, colliding keys, two statuses from an intermediary; 107 k |
| `client_calls` | safety of the client chain and `CallsReturn` | 2 concurrent calls, 9 ways to start each; 390 k |
| `frame_reader` | the byte-level codec | every body of one or two frames, cut anywhere; every way two writes and an END can fail; 22 k |
| `conformance_unary` | the unary methods of both servers end to end | 2 codecs, the client's inputs and others at their edges; 4 k |
| `conformance_stream` | the stream methods of both servers end to end | the same; 59 k |

What the properties say is in the comments above them. In short:

- `EndIsLast`, `DeliveredInOrder`, `CleanEndMeansComplete`, `ErrorsAreAuthentic`,
  `HandlerErrorSurfaced`, `ImplementsRpcStream`: the contract of a stream, across
  truncation, panics, deadlines and cancellation;
- `NoRawGzip`: no compressed bytes reach the consumer (behind net/http, where
  `emit` never compresses; see `double_gzip`);
- `HandlerGetsWholeMessage`: the dropped read error of `ServeNetHTTP` does no harm
  to stream requests;
- `EarlyHeadersArrive`, `HeadersArrive`, `TrailersArrive`: metadata, also when keys
  collide;
- `SuccessIsComplete`, `ErrorIsExact`: the contract of a unary call (that the request was
  whole rests on `CutRequest`, see section 6);
- `SendsOwnMetadata`, `ServerKeepsDeadline`, `NoAttemptAfterAnswer`: what a call puts on
  the wire, whatever other calls, retries and fallbacks do to the same maps;
- `DeadlineReleased`, `TimersReleased`: no timer outlives its call;
- `ConsumerReturns`, `SendTerminates`, `CallsReturn`: nobody waits for ever who need not;
- `EofNeedsEnd`, `WriterRoundTrip`, `NoMessageAfterVerdict`, `OneMessageRequests`,
  `NegotiationIsExact`: the byte-level codec;
- `AnswersAsProgrammed`, `StreamAsProgrammed`, `InfoExactlyOnce`, `InfoOnce`,
  `ClientChecksPass`: the generated service end to end.

### Bounds, and why they are enough

- Streams and unary calls have a size cap of 6, a compression threshold of 2 and END
  payloads of length 1: enough for every case the code tells apart, which is below, at
  and above the threshold, above the cap, and a cut in the header, right behind it,
  and inside the payload.
- `MaxEmits` is 2: order and gaps are violated by two neighbours, or by the last
  message and the END. One trailer and one header key tell "kept" from "lost" and "set
  before" from "set after". The proofs cover all lengths.
- `MaxSets` is 2 (3 for the conformance methods, which set that many values): two values under one key,
  two spellings, and a header that looks like a trailer are all the collisions there are.
  The intermediary answers 404, which the table of statuses maps to a code of its own (not
  found), or 502, which is not in the table (internal).
- `client_calls` has two calls and `MaxRetries` 1: metadata leaks from one call to
  another or from one attempt to the next. A millisecond is 10 units and a duration
  below 200 of them, so that timeouts of 5, 14 and 25 lie below, above and between whole
  milliseconds. Of a URL only the scheme is kept. The chains are those `Connect` builds
  with and without a token, timeout, base URL, HTTP/3 and an injected adapter, with
  interceptors that mark, answer or retry, and deadlines that nest.
- `frame_reader` has bytes of four values, which two flag bits need, and a cap of 7,
  two more than a frame header; bodies are one or two frames with every combination of flags,
  cut anywhere. Two writes and four calls of `Recv` reach two messages, the verdict and one
  call after it. It may deadlock: a consumer that has called `Recv` `MaxRecv` times stops.
- The conformance runs have a cap of 20 and three emits, what the methods send for the
  inputs of the conformance client.

### Runs that are violated

Each of these compares one sentence of the repository with what the code does.

| run | the code | the sentence |
|---|---|---|
| `code_zero` | an `RPCError` with code 0 and no details ends a stream cleanly | `cmd/conformance-server/main.go:41` "the client MUST surface it" |
| `double_gzip` | `emit` and `FrameCompressed` both compress | `fault_injection_test.go:15` "never raw compressed bytes" |
| `write_cap` | messages above the cap are written | `protocol.go:530` "read/write size cap" |
| `write_deadline` | writes go on after the deadline | `server/httpx.go:94` "the adapter also bounds the write loop" |
| `shared_headers` | an interceptor writes into the caller's map and skips keys that are there, so a kept map takes one client's token to another's call | `protocol.go:142` "attaches fixed metadata to every call" |

`double_gzip` needs an adapter that keeps header keys as the client wrote them: behind
net/http the key is canonical, and the raw lookup at `server.go:143` misses it.

Smaller facts met on the way are hazards in `PROJECT.json`: trailers of a failed
stream are dropped, a frame cut behind its header reads as `io.EOF` from `ReadFrame`, a
detail with an empty value is dropped, `Recv` returns `io.EOF` after an END with an error,
a stream refused over HTTP/3 is opened again over net/http, a unary refusal over HTTP/3
is not an error, and an injected adapter loses the base URL.

## 4. Fairness

Safety runs assume none. The liveness properties assume weak fairness of

- the client's own steps: a goroutine that can run does (`OpenOK`, `Recv`, `Close`;
  `SendReturns`, `SendFails`; `Enter`, `Dial`, `Up`);
- `TimerExpires`: the runtime fires timers;
- in ClientCalls, an attempt whose context is over fails: net/http gives it up.

Nothing is assumed of the handler, which may run for ever, of the network, which may
stay silent, or of the consumer's wish to cancel. Therefore the properties promise
an end only for calls with a deadline, or whose server has returned, or whose
connection broke.

## 5. Proofs

All of these hold for every value of the constants that the assumptions below allow.

**CommonProofs**, induction. The library states induction about predicates; here it is said with sets
and functions, which a proof can cite: `InductionOnNat` and `InductionUpTo` (from the
well-founded order of inclusion on finite sets), `Largest`, and that recursive functions
exist that count up (`RecursionUp`) or move up an offset until the end (`RecursionDown`).
From them what the community modules' recursive operators compute: `Joined` and its
parts for `FlattenSeq`, `FoldingUp` for folds over a sequence, `Listing` for `SetToSeq`.

**CommonProofs**, the error vocabulary. `EndStreamRoundTrip`: for every code, details and metadata,
`DecodeEndStream` after `EncodeEndStream` gives the metadata and the canonical code,
but for code 0 without details, which becomes a clean end. `StatusSurvives`: reading a
code from a status loses the code, never the status. `DetailsRoundTrip`: the details after
one encoding and one decoding are the representable ones, all of them, in their order.

**StreamCallProofs**, the contract. `Invariant`: `Spec => []IInv`. None of the properties is inductive:
the consumer's view says nothing about frames that are still on the wire. `IInv`
closes the chain from handler to consumer: `WireInv` says that frame *i* of the body
is the frame of message *i* of the history `emits`, that the only other frame is the END
of `fate`, behind all of them, and that a partial frame is a proper prefix of a
frame; `ClientInv` that a waiting consumer has read exactly one frame per message it
has; `OutcomeInv` what each result implies about the server; `ServerInv` ties
`ended`, `phase` and `fate` together. From it: `TypeOK`, `EndIsLast`,
`DeliveredInOrder`, and, under `CodedErrors`,
`CleanEndMeansComplete` and `HandlerErrorSurfaced`. The proof has one lemma per action,
under it a step per part of the invariant, and lemmas about frames: a short read never
succeeds (`ShortReadFails`), a whole message frame yields its message
(`ReadMessage`), an END always its payload (`ReadEnd`).

**StreamCallProofs**, both ends. `ErrorsAreAuthentic` gives a reason for each code that `Recv`
raises itself, and needs `OriginInv` on top of `IInv`: a frame that arrived in part is that of
the message, or the END, that comes next (`CutInv`), and while the request has not been looked
at there is no stream (`UnservedInv`). `ReadNextFails` then says what a failing `Recv` has
found: the header of a message above the cap, or a body in which no END is left to come.
`DeadlineReleased` is inductive by itself.
`EarlyHeadersArrive` needs `HeadInv`: what is set early is among the collected headers until
they are applied. `HandlerGetsWholeMessage` needs `RequestInv`, which keeps the shape of the
request and that the checks let it through, and a lemma that the checks of a stream
body accept one whole frame only. `NoRawGzip` needs `GzipInv`: no request asks for gzip in
the spelling `Dispatch` looks up.

**StreamCallProofs**, the refinement. `StreamCallImplementsRpcStream`: every step of a stream call maps
to a step of RpcStream or leaves its variables alone, from `IInv`, `RejectInv` (a rejected
request stays the one that was rejected, so that its status cannot change under the
mapping) and `FateInv` (a failing handler's error is distinguishable from success).

**UnaryCallProofs.** `UInv`: a response on its way is an intermediary's or says what
the server answered (`CarriesMessage`, `CarriesError`), and the reply is the reading of
the response, which no longer changes. With lemmas that reading undoes writing
(`MessageRead`; `ErrorRead`, over the three places a code travels in), it gives
`SuccessIsComplete`, `DeadlineReleased`, and `ErrorTravels`: the code exactly, the details as
one encoding and one decoding leave them. `DetailsRoundTrip` says which those are, and
`DetailsInv` that what a handler fails with are details: `ErrorIsExact`.

For `HeadersArrive` and `TrailersArrive` the models give every value the number of the call
that set it. That what arrived is exactly what was set is not inductive: a header with
colliding spellings is joined from several values in any order, and such a join is only an
exact account if no value occurs twice. `HeaderInv` therefore keeps that the values of headers
and trailers together are numbers up to the last one given, none twice (`Gathered`), and
that a response carries what net/http makes of the muxed headers, or an intermediary's. The
ways of a header are lemmas: `Canonicalised` (net/http's spelling joins what meets and keeps
the order of each part), `Muxed` (trailers move under a prefix and stay apart from
headers), `HeadersTravel` and `TrailersTravel` (all of it, and the reading back). `TypeOK`
follows from all three invariants: it says of headers that they are.

**ClientCallsProofs.** `CallsInv` says of the record of each call which levels of its chain
may hold a deadline at each stage (`Unwound`) and that an answered call is on its
way up with nothing to try again for (`Answered`). It gives `TimersReleased` and
`NoAttemptAfterAnswer` for any number of calls through chains of any length, with any
number of retries. Neither is inductive: a timer is safe at the end because levels
that were left hold none, and an answer is not repeated because a retrying level only sees
failures.

`SendsOwnMetadata` and `ServerKeepsDeadline` speak of the moment a request goes out; what
makes them true is who wrote into which map before. `MapsInv` says that every place in
the heap is an interceptor's own, the map that callers keep, or belongs to one call
(`HeapOK`); that the levels of a call hold one map, which is either that call's or kept, and
which holds what the caller, and the interceptors down to the level the call is at, have
put there (`Carries`, by `MapOK` on the way down, `GoesOut` on the wire); and that only one
call at a time uses the kept map. `MapOK` leaves open whether the levels further in have
written too, as they have on a second attempt or in a map used before: metadata never
overwrites, and a deadline is overwritten on every way down, so the map that goes out is
the same each time. For a kept map that is so only under `OneUse`. It is the invariant of
`MapsInvariant`, and gives `TypeOK`, `SendsOwnMetadata` (`SendsWhatIsItsOwn`) and
`ServerKeepsDeadline` (`ServerIsToldDeadline`). The last uses `TimeoutTravels`: for every duration
of any width, what the server reads is the client's timeout cut to whole milliseconds, and none
below one. `ConnectIsSound` shows that the chains `Connect` builds end in one of the two adapters.

**FrameReaderProofs.** Everything the run checks, over all bodies, payloads and numbers of
calls.

- `LengthRoundTrip`, `ReadWhole`, `ReadCut`, `ReadAny`: a length below 2^32 is read as it was
  written; of a whole frame exactly its payload is read, of a part nothing.
- `EofComesFromEnd` needs the places of the frames: `ReadTo` names a function `at` by which
  frame *i* begins at `at[i]`, and the reader stands behind the last one it delivered.
  Recursion on the body of bytes (`offset`) is shown to name the same places.
- `WrittenIsRead` and `NothingAfterVerdict` need `WroteInv`: the body is a beginning, and all of
  it while the connection is up, of the frames of the payloads one behind the other (`Layout`)
  and the END; the reader stands behind the frames it delivered until it has a verdict, and
  at the end of the body from then on, unless a payload is above the cap.
- `OneMessage`: `countFrames` (`CountHolds`, `CountsOne`) and `readSingleFrame` accept what a
  reader of the stream would read as one message and nothing behind it.
- `AbstractionIsExact`: the description of a body as frames is as long as the body
  (`BytesAddUp`, the fold of Negotiation as a sum), and counting its frames is counting them in
  the bytes, from every offset on (`Agree`, by induction from the end of the body). This is
  what entitles Negotiation, and with it the models of calls, to speak of frames.

**ConformanceProofs.** What the proofs of both kinds of conformance call share: how programs
are made up, that what was encoded is decoded whole (`WholeDecodes`), and where request
infos are to be found in details that were written and read (`InfoDetails`, `PlainDetails`).

**ConformanceUnaryProofs.** `ProgramsAreHandlers`: `ProgramSpec => Spec` of UnaryCall. A
generated method is one of the arbitrary handlers, so that every theorem about unary calls
holds of it. A step of a program is a step of UnaryCall only because what it
says lies in the constants, which takes an invariant: `ProgramInv` is `UInv`, `SentInv` (the
request is the stub's for the input, with all of its bytes as long as nothing was cut) and
`RestInv` (the rest of the running program lies within the constants, and while the
connection is up it is the rest of a run of the method on the client's own request). A
request that was cut decodes to something else or to nothing; but whoever loses a part of the
request has lost the connection, and that is why no such answer arrives. `AnswerInv` keeps it
until the response is read. From it `AnswersAreAsProgrammed`, `InfoArrivesOnce` and
`UnaryChecksPass`, for any messages, metadata, codecs and connections.

**ConformanceStreamProofs.** The same of server streams: `StreamProgramsAreHandlers`,
`StreamsAreAsProgrammed`, `StreamInfoArrivesOnce`, `StreamChecksPass`. `SentInv` is about a
frame around the message: a request that was cut in its frame is rejected by the checks, one that
arrived is whole. `RanInv` is the heart: while the handler runs, and after it has
returned on a connection that accepted it, one run `p` of the method fits everything that has
happened; what it emitted is a beginning of `p.emits` (`Sofar`), what is left to do is the rest
(`Left`), and an END frame on the wire ends as `p` ends (`Ended`). A program that gave up
on a broken connection has an error of its own, but then its END is not on the wire. `ReadInv`
says of the consumer that once it has read an END it has read every message, which does
not follow from `IInv`, since that speaks of clean ends only. The request info is
followed through `FlattenSeq` and through both filters on details (`FirstOnly`, `StreamTells`,
`InfoSeen`).

### Assumptions

| name | says | why it is needed |
|---|---|---|
| `SizesAssumption`, `PayloadsAssumption`, `RequestsAssumption`, `ErrorsAssumption`, `ProxyAssumption`, `TimeoutsAssumption`, the bounds | sizes are numbers, an END payload fits below the cap, messages start uncompressed, streams and unary calls have their content types, codes are natural numbers, details are sequences of details, an intermediary's statuses are 300 or more | the code's types |
| `KeysAssumption` | keys are keys; a handler's trailer keys carry no trailer prefix of their own | `MuxTrailers` would prefix them twice |
| `StartsAssumption`, `PlacesAssumption` | a chain is a sequence, a timeout an integer, a metadata interceptor has a map; places of different owners differ | `WithInterceptors`; two maps made are two maps |
| `BaseAssumption`, `CodesAssumption`, `BytesAssumption`, `CapAssumption` | a byte holds two flag bits, bodies are bytes, the cap is below what four bytes can say | `[]byte`, 4 MiB |
| `InputsAssumption`, `ProgramsAssumption` | a call is of a method that the tables know, in one of the two codecs, and a unary request is within the cap; the constants of UnaryCall and StreamCall hold what the calls ask for and the methods do | the generated stubs; a conformance program stands in the place of the arbitrary handler |
| `InfoAssumption` | the details that a client asks for are no request infos; a definition has at most one error | the infos are the server's to add; `error` is one field |
| `CodedErrors` | no handler returns an error with code 0 and no details | run `code_zero` |
| `ShapedRequests` | a request body is frames of the declared shape | a request is what `OpenStream` can send |
| `CanonicalKeys` | no request carries the accept-encoding key in lower case | run `double_gzip` |
| `PlainPayloads` | a unary handler's message is not gzip itself | the decoder tells gzip by its first bytes |
| `OneUse` | a kept map goes with one chain and one kind of call | run `shared_headers` |
| `AdapterSets` | no caller and no metadata names the headers the adapter sets | it sets them whatever is there |
| `NoHandwrittenTimeout`, `DurationsFit` | nobody writes `connect-timeout-ms` by hand; a timeout is a `time.Duration` | a header that is there is not overwritten |
| in `WrittenIsRead` | a payload is shorter than 2^32 | `PutUint32` keeps 32 bits of a length |
| in `TypeCorrect` of ClientCalls | a transport ends in one of the two adapters | `ConnectIsSound` |

### Only model-checked

- The liveness properties: ENABLED, on which fairness rests, is out of the prover's reach.
- That the violated runs are violated: a counterexample is a behaviour, which TLC shows.

## 6. Not modelled

- **Answers to half a request.** `ServeNetHTTP` drops the error of reading the body
  (`server/httpx.go:85`). For a stream the frame shows what is missing
  (`HandlerGetsWholeMessage`); a unary request has no frame, and `Dispatch` runs its handler on
  what arrived. In the model nobody sees the answer, since the connection on which a part of
  the request was lost is gone, and that is what "the whole request" in `SuccessIsComplete` and
  `AnswersAsProgrammed` rests on. It is so for the servers here, which set neither a
  `ReadTimeout` nor a limit on the body (`cmd/conformance-server/main.go:178`,
  `cmd/conformance-official-server/main.go:55`). A server with one of them in front of
  `ServeNetHTTP` could answer a unary request it has read in part.
- **Content.** Message texts, content-type parameters, white space and letter case of
  header values, corruption of bytes (as opposed to loss), gzip itself.
- **Concurrency inside a handler.** Concurrent calls of `emit`, `SetHeader` and
  `SetTrailer`, and calls after the handler has returned: neither the Go memory model nor
  net/http gives them a meaning, and no code of the repository makes them. Concurrent use of
  one caller's header map is left out for the same reason: a kept map is used by one call
  at a time.
- **HTTP/3.** `h3.go` names `req.Method`, a field `Request` no longer has, so the package does
  not build at this commit; it is modelled with POST in its place. Its constructors, TLS
  configuration and `Close` are set-up of the library behind it.
- **Adapters.** An `http.ResponseWriter` that cannot flush (the `http.Error` branch of
  `ServeNetHTTP`, which is reached only when nothing was written); URLs beyond their scheme (`URLFor`, `SortMethods`).
- **Programs.** Flags, listeners, printing, and the handshake of the official runner on
  stdin and stdout. `parseQuery` of the official server never sees a query: `Dispatch`
  passes an empty one. No method looks at the raw requests of the official suite.
- **Generated protobuf plumbing.** Descriptors, reflection and accessors; a message is
  the record of the fields its methods use. `encodeMsg` drops the error of `Marshal`, which
  no message of the model can cause.
