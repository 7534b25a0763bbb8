---------------------------- MODULE StreamServer ----------------------------
(***************************************************************************)
(* The server side of a server-stream call: Dispatch (server.go) run by    *)
(* ServeNetHTTP (server/httpx.go), with an arbitrary handler.              *)
(*                                                                         *)
(* The handler is the environment: it may set headers and trailers, emit,  *)
(* end the stream, return, fail or panic, at any moment and in any order.  *)
(* emits and fate are histories: what it asked to be sent, and how Dispatch*)
(* concluded the stream.                                                   *)
(***************************************************************************)
EXTENDS StreamWire

VARIABLES
  phase,     \* "idle", "handler" (inside h), "returned" (ServeHTTP has returned)
  ended,     \* Dispatch's ended flag
  applied,   \* Dispatch's headersApplied flag
  hdr, trl,  \* HandlerContext.header and .trailer
  ctx,       \* the handler's context: "live" or "done"
  emits,     \* the messages given to emit, in order
  early,     \* the headers that were set before the first write
  fate       \* its conclusion: "running", "clean" or "error" (END), "reject" (HTTP)

serverVars == << phase, ended, applied, hdr, trl, ctx, emits, early, fate >>

Fate(kind, code, details, trailers) ==
  [kind |-> kind, code |-> code, details |-> details, trailers |-> trailers]

ServerInit ==
  /\ phase = "idle"
  /\ ended = FALSE
  /\ applied = FALSE
  /\ hdr = {} /\ trl = {} /\ early = {}
  /\ ctx = "live"
  /\ emits = << >>
  /\ fate = Fate("running", 0, << >>, {})

-----------------------------------------------------------------------------
\* Mutation: the headers of the handler are collected before it runs.
ResponseHeadEager(status, keys) == [status |-> status, keys |-> {}]

ResponseHead(status, keys) == [status |-> status, keys |-> keys]

EndFrame(code, details, trailers) ==
  Frame(EncodeEndStream(EndStreamMessage(code, details, trailers)), TRUE)

\* The frame emit writes for a message of the answer to req.
messageFrame(req, p) ==
  IF acceptsGzip(req) /\ p.size >= CompressMinBytes
  THEN FrameCompressed(GzipCompress(p))
  ELSE Frame(p, FALSE)

\* applyOnce, then WriteFrame: the headers of the handler count up to here.
applyAndWrite(f) ==
  /\ applied' = TRUE
  /\ WriteFrame(ResponseHead(200, hdr), f)

\* Mutation: emit without its test of ended.
mayEmitAlways == TRUE

mayEmit == ~ended    \* emit returns nil and does nothing once ended is set

-----------------------------------------------------------------------------
\* Dispatch up to the call of the handler.
Reject(n) ==
  /\ n.to # "handler"
  /\ phase' = "returned"
  /\ IF n.to = "http"
     THEN /\ head' = IF conn = "up" THEN ResponseHead(n.status, {}) ELSE head
          /\ fate' = Fate("reject", n.code, << >>, {})
          /\ UNCHANGED wire
     ELSE /\ WriteFrame(ResponseHead(200, hdr), EndFrame(n.code, << >>, trl))
          /\ fate' = Fate("error", n.code, << >>, trl)
  /\ EndBody("eof")
  /\ UNCHANGED << ended, applied, hdr, trl, ctx, emits, early, request, cut >>

RunHandler(n) ==
  /\ n.to = "handler"
  /\ phase' = "handler"
  /\ UNCHANGED << ended, applied, hdr, trl, ctx, emits, early, fate, wireVars >>

Serve ==
  /\ phase = "idle" /\ request # NoRequest
  /\ LET n == Negotiate(request) IN Reject(n) \/ RunHandler(n)

SetHeader(k) ==
  /\ phase = "handler"
  /\ hdr' = hdr \cup {k}
  /\ early' = IF applied THEN early ELSE early \cup {k}
  /\ UNCHANGED << phase, ended, applied, trl, ctx, emits, fate, wireVars >>

SetTrailer(k) ==
  /\ phase = "handler"
  /\ trl' = trl \cup {k}
  /\ UNCHANGED << phase, ended, applied, hdr, ctx, emits, early, fate, wireVars >>

\* emit(p, false)
Emit(p) ==
  /\ phase = "handler" /\ mayEmit
  /\ Len(emits) < MaxEmits
  /\ applyAndWrite(messageFrame(request, p))
  /\ emits' = Append(emits, p)
  /\ UNCHANGED << phase, ended, hdr, trl, ctx, early, fate, request, conn, cut >>

\* emit(nil, true)
EmitEnd ==
  /\ phase = "handler" /\ mayEmit
  /\ ended' = TRUE
  /\ applyAndWrite(EndFrame(0, << >>, trl))
  /\ fate' = Fate("clean", 0, << >>, trl)
  /\ UNCHANGED << phase, hdr, trl, ctx, emits, early, request, conn, cut >>

\* The handler returns nil.  Unlike the error path, this one leaves ended alone.
ReturnNil ==
  /\ phase = "handler"
  /\ phase' = "returned"
  /\ IF ended THEN UNCHANGED << applied, head, wire, fate >>
     ELSE /\ applyAndWrite(EndFrame(0, << >>, trl))
          /\ fate' = Fate("clean", 0, << >>, trl)
  /\ EndBody("eof")
  /\ UNCHANGED << ended, hdr, trl, ctx, emits, early, request, cut >>

\* The handler returns an error; after an END it is swallowed.
ReturnError(err) ==
  /\ phase = "handler"
  /\ phase' = "returned"
  /\ LET re == asRPCError(err)
     IN  IF ended THEN UNCHANGED << applied, head, wire, fate >>
         ELSE /\ applyAndWrite(EndFrame(re.code, re.details, trl))
              /\ fate' = Fate("error", re.code, re.details, trl)
  /\ ended' = TRUE
  /\ EndBody("eof")
  /\ UNCHANGED << hdr, trl, ctx, emits, early, request, cut >>

\* The handler panics: Dispatch unwinds, net/http aborts the connection.
Panic ==
  /\ phase = "handler"
  /\ phase' = "returned"
  /\ EndBody("reset")
  /\ UNCHANGED << ended, applied, hdr, trl, ctx, emits, early, fate,
                  request, head, wire, cut >>

\* The context of the handler ends: the deadline the request carries passes, or
\* net/http notices that the connection is gone.  Nothing in Dispatch or in the
\* adapter looks at it; only the handler may.
ContextDone ==
  /\ phase = "handler" /\ ctx = "live"
  /\ request.timeout \/ conn # "up"
  /\ ctx' = "done"
  /\ UNCHANGED << phase, ended, applied, hdr, trl, emits, early, fate, wireVars >>

ServerNext ==
  \/ Serve
  \/ \E k \in HeaderKeys : SetHeader(k)
  \/ \E k \in TrailerKeys : SetTrailer(k)
  \/ \E p \in Payloads : Emit(p)
  \/ EmitEnd
  \/ ReturnNil
  \/ \E err \in Errors : ReturnError(err)
  \/ Panic
  \/ ContextDone
=============================================================================
