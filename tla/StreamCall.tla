----------------------------- MODULE StreamCall -----------------------------
(***************************************************************************)
(* One server-stream call, both ends and the connection between them.      *)
(***************************************************************************)
EXTENDS StreamServer, StreamClient

vars == << wireVars, serverVars, clientVars >>

Init == WireInit /\ ServerInit /\ ClientInit

Server == ServerNext /\ UNCHANGED clientVars
Client == ClientNext /\ UNCHANGED serverVars

\* The connection fails.  What the client has read stays read.
Break ==
  /\ request # NoRequest /\ conn \in {"up", "eof"}
  /\ \E k \in pos..Len(wire), how \in {"eof", "reset"} :
       /\ Truncate(k, how)
       /\ \/ UNCHANGED head
          \/ cl = "connecting" /\ k = 0 /\ cut' = << >> /\ head' = NoHead
  /\ UNCHANGED << serverVars, clientVars >>

\* The connection fails while the request is sent.  ServeNetHTTP ignores the read
\* error and hands Dispatch the bytes that did arrive.
CutRequest ==
  /\ request # NoRequest /\ phase = "idle" /\ conn \in {"up", "closed"}
  /\ Len(request.body.frames) = 1
  /\ \/ \E n \in 0..(request.body.frames[1].have - 1) :
          request' = [request EXCEPT !.body.frames[1].have = n]
     \/ \E n \in 0..(HeaderBytes - 1) :
          request' = [request EXCEPT !.body.frames = << >>, !.body.extra = n]
  /\ conn' = "reset"
  /\ UNCHANGED << head, wire, cut, serverVars, clientVars >>

\* The call is over at both ends.
Done ==
  /\ cl \in {"failed", "closed"} /\ phase = "returned"
  /\ UNCHANGED vars

Next == Server \/ Client \/ Break \/ CutRequest \/ Done

\* The client's goroutine runs, and so does the deadline timer of its context.
\* Nothing is assumed of the handler, the network or the consumer's patience.
Fairness ==
  /\ WF_vars((OpenOK \/ OpenRejected \/ OpenFails) /\ UNCHANGED serverVars)
  /\ WF_vars(Recv /\ UNCHANGED serverVars)
  /\ WF_vars(Close /\ UNCHANGED serverVars)
  /\ WF_vars(TimerExpires /\ UNCHANGED serverVars)

Spec == Init /\ [][Next]_vars
FairSpec == Spec /\ Fairness

-----------------------------------------------------------------------------
Code == Nat

\* Every variable keeps to its values: the flags, the phases, the sequences of
\* messages, the keys, the codes.
TypeOK ==
  /\ conn \in {"up", "eof", "reset", "closed"}
  /\ head.keys \subseteq HeaderKeys /\ head.status \in Nat
  /\ phase \in {"idle", "handler", "returned"}
  /\ ended \in BOOLEAN /\ applied \in BOOLEAN
  /\ hdr \subseteq HeaderKeys /\ early \subseteq HeaderKeys
  /\ trl \subseteq TrailerKeys /\ cTrailers \subseteq TrailerKeys
  /\ ctx \in {"live", "done"}
  /\ emits \in Seq(Payloads)
  /\ fate.kind \in {"running", "clean", "error", "reject"} /\ fate.code \in Code
  /\ fate.trailers \subseteq TrailerKeys
  /\ cl \in {"idle", "connecting", "open", "failed", "closed"}
  /\ pos \in 0..Len(wire)
  /\ cEnded \in BOOLEAN
  /\ result.kind \in {"pending", "eof", "rpc", "raw", "cancelled"}
  /\ result.code \in Code
  /\ timer \in {"off", "armed", "fired", "released"}

\* An END frame is the last frame of a body: nothing the server does after it,
\* in whatever order the handler emits, ends and returns, follows it on the wire.
EndIsLast == \A i \in 1..Len(wire) : EndStream(wire[i]) => i = Len(wire)

\* What the consumer receives is, in order and without gaps, what the handler
\* emitted, for every way the connection can break and the call be given up.
DeliveredInOrder ==
  /\ Len(got) <= Len(emits)
  /\ \A i \in 1..Len(got) : got[i].id = emits[i].id /\ got[i].size = emits[i].size

\* No message reaches the consumer still compressed ("never raw compressed
\* bytes", fault_injection_test.go).
NoRawGzip == \A i \in 1..Len(got) : got[i].gz = 0

\* io.EOF from Recv is a promise: the handler ended the stream without an error,
\* every message it emitted was received, and Trailers() is what it had set by
\* then.  A body that merely stops never looks like that.
CleanEndMeansComplete ==
  result.kind = "eof" =>
    /\ fate.kind = "clean"
    /\ Len(got) = Len(emits)
    /\ cTrailers = fate.trailers

\* The code a caller should see for a code the server used: one the protocol does
\* not know becomes 2 (unknown).
WireCode(c) == IF c \in KnownCodes THEN c ELSE 2

\* The frame of the i-th message the handler emitted is above the reader's cap.
Oversized(i) == Len5(messageFrame(request, emits[i])) > MaxMessageBytes

\* An RPC error is never made up: it is the handler's error after all its messages,
\* the lossy reading of a rejection, or one of the two Recv itself raises, each for
\* its reason: 8 where the next message the handler emitted is above the cap, 13
\* where the body is over and no END has reached the client.
ErrorsAreAuthentic ==
  result.kind = "rpc" =>
    \/ fate.kind = "error" /\ result.code = WireCode(fate.code) /\ Len(got) = Len(emits)
    \/ cl = "failed" /\ result.code = ConnectFromStatus(Negotiate(request).status)
    \/ result.code = 8 /\ Len(got) < Len(emits) /\ Oversized(Len(got) + 1)
    \/ result.code = 13 /\ conn # "up" /\ \A i \in 1..Len(wire) : ~EndStream(wire[i])

\* A handler's failure is surfaced: a consumer that reads as far as the END frame
\* gets the code of the error ("the client MUST surface it",
\* cmd/conformance-server/main.go), and the swallowed error of a handler that had
\* already ended its stream is never mistaken for one.
HandlerErrorSurfaced ==
  cl \in {"open", "closed"} /\ pos = Len(emits) + 1 =>
    result = IF fate.kind = "error" THEN Result("rpc", WireCode(fate.code)) ELSE Result("eof", 0)

\* A handler only runs on one whole request message, although the adapter passes on
\* a request body it could not read to its end.
HandlerGetsWholeMessage ==
  phase = "handler" =>
    /\ Len(request.body.frames) = 1 /\ request.body.extra = 0
    /\ request.body.frames[1].have = request.body.frames[1].len

\* Headers the handler sets before its first write reach the client; Dispatch
\* applies them as late as it can.
EarlyHeadersArrive == head.status = 200 => early \subseteq head.keys

\* The deadline context does not outlive the call: once OpenStream has failed or
\* the stream is closed its timer is gone.
DeadlineReleased == cl \in {"failed", "closed"} => timer \in {"off", "released"}

-----------------------------------------------------------------------------
(* What comments and tests of the repository say and the code does not do. *)

\* "DefaultMaxMessageBytes is the default read/write size cap" (protocol.go): no
\* frame larger than the cap is written.
WritesWithinCap == \A i \in 1..Len(wire) : Len5(wire[i]) <= MaxMessageBytes

\* "the adapter also bounds the write loop" (server/httpx.go): once the deadline has
\* passed no further message is written.
WriteLoopIsBounded ==
  [][ctx = "done" /\ Len(wire') > Len(wire) => EndStream(wire'[Len(wire')])]_vars

-----------------------------------------------------------------------------
(* The call as the abstract stream of RpcStream.                           *)

ids(s) == [i \in DOMAIN s |-> s[i].id]

abstractStatus ==
  CASE fate.kind = "clean" -> << 0 >>
    [] fate.kind = "error" -> << WireCode(fate.code) >>
    [] fate.kind = "reject" -> << ConnectFromStatus(Negotiate(request).status) >>
    [] OTHER -> << >>

abstractOutcome ==
  CASE result.kind = "pending" -> << >>
    [] result.kind \in {"eof", "rpc"} -> << result.code >>
    [] result.kind = "raw" -> << -1 >>
    [] OTHER -> << -2 >>

Abstract == INSTANCE RpcStream
  WITH Message <- {p.id : p \in Payloads}, OK <- 0, Failure <- KnownCodes,
       Local <- {-1, -2, 8, 13},
       sent <- ids(emits), status <- abstractStatus,
       delivered <- ids(got), outcome <- abstractOutcome

\* The call implements the abstract stream.
ImplementsRpcStream == Abstract!Spec

-----------------------------------------------------------------------------
\* A consumer does not wait for ever on a call with a deadline, nor on one whose
\* server has returned or whose connection has broken.
ConsumerReturns ==
  cl \in {"connecting", "open"} /\ (timer # "off" \/ phase = "returned" \/ conn # "up")
    ~> result # Pending
=============================================================================
