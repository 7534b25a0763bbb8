---------------------------- MODULE StreamClient ----------------------------
(***************************************************************************)
(* The client side of a server-stream call: NetHTTP.OpenStream and the     *)
(* httpStream it returns (bridge_nethttp.go), under DeadlineInterceptor    *)
(* (protocol.go), used by one consumer.                                    *)
(*                                                                         *)
(* The consumer calls Recv until it returns io.EOF or an error, or gives   *)
(* up with Cancel, and then calls Close.  got and result are what it saw.  *)
(***************************************************************************)
EXTENDS StreamWire

VARIABLES
  cl,         \* "idle", "connecting", "open", "failed" (no stream), "closed"
  pos,        \* how many frames of wire have been read
  cEnded,     \* httpStream.ended
  cTrailers,  \* httpStream.trailers
  got,        \* the messages Recv returned
  result,     \* what ended the consumer's loop, or Pending
  timer       \* the context.WithTimeout of the call

clientVars == << cl, pos, cEnded, cTrailers, got, result, timer >>

\* A result is [kind, code]: "eof", "rpc" (an RPCError), "raw" (any other
\* error, such as a transport or context error), "cancelled".
Result(kind, code) == [kind |-> kind, code |-> code]
Pending == Result("pending", 0)

ClientInit ==
  /\ cl = "idle"
  /\ pos = 0
  /\ cEnded = FALSE
  /\ cTrailers = {}
  /\ got = << >>
  /\ result = Pending
  /\ timer = "off"

-----------------------------------------------------------------------------
\* cancel() of the deadline context: it stops an armed timer.
release == timer' = IF timer = "off" THEN "off" ELSE "released"

\* Mutation: the error path of DeadlineInterceptor without its cancel().
releaseOnOpenErrorForgotten == UNCHANGED timer

releaseOnOpenError == release

\* Mutation: TimeoutInterceptor in its place, which only tells the server.
startTimerHeaderOnly(d) == timer' = IF d THEN "header" ELSE "off"

startTimer(d) == timer' = IF d THEN "armed" ELSE "off"

\* OpenStream, with a deadline (d), which WithTimeout also writes into the request,
\* or without one.
Open(r, d) ==
  /\ cl = "idle"
  /\ cl' = "connecting"
  /\ request' = [r EXCEPT !.timeout = d]
  /\ startTimer(d)
  /\ UNCHANGED << pos, cEnded, cTrailers, got, result, head, wire, conn, cut >>

OpenOK ==
  /\ cl = "connecting" /\ head # NoHead /\ head.status < 300
  /\ cl' = "open"
  /\ UNCHANGED << pos, cEnded, cTrailers, got, result, timer, wireVars >>

failOpen(res) ==
  /\ cl' = "failed"
  /\ result' = res
  /\ releaseOnOpenError
  /\ UNCHANGED << pos, cEnded, cTrailers, got, wireVars >>

\* The server answered with an error status.
OpenRejected ==
  /\ cl = "connecting" /\ head # NoHead /\ head.status >= 300
  /\ failOpen(Result("rpc", ConnectFromStatus(head.status)))

\* client.Do failed: no head will come, or the deadline passed.
OpenFails ==
  /\ cl = "connecting"
  /\ (head = NoHead /\ conn # "up") \/ timer = "fired"
  /\ failOpen(Result("raw", 0))

-----------------------------------------------------------------------------
\* Mutation: any end of the body is a clean end.
recvErrorTrusting(err) ==
  CASE err = "too large" -> Result("rpc", 8)
    [] err = "corrupt gzip" -> Result("rpc", 13)
    [] err = "EOF" /\ conn = "eof" -> Result("eof", 0)
    [] OTHER -> Result("raw", 0)

\* How Recv reports an error of ReadFrameDecompressed.
recvError(err) ==
  CASE err = "too large" -> Result("rpc", 8)
    [] err = "corrupt gzip" -> Result("rpc", 13)
    [] err = "EOF" /\ conn = "eof" -> IF cEnded THEN Result("eof", 0) ELSE Result("rpc", 13)
    [] OTHER -> Result("raw", 0)

\* Mutation: the error of the END frame is not looked at.
endResultBlind(m) == Result("eof", 0)

\* How Recv reports the END frame.
endResult(m) == IF m.code # 0 THEN Result("rpc", m.code) ELSE Result("eof", 0)

\* The next frame of the body, or what is left of it.
readNext ==
  IF pos < Len(wire) THEN ReadFrameDecompressed(wire[pos + 1], FrameBytes(wire[pos + 1]))
  ELSE IF cut # << >> THEN ReadFrameDecompressed(cut[1].frame, cut[1].have)
  ELSE [err |-> "EOF"]

\* Recv waits while the body may still grow.
receiving ==
  /\ cl = "open" /\ result = Pending
  /\ pos < Len(wire) \/ conn # "up"

advance == pos' = IF pos < Len(wire) THEN pos + 1 ELSE pos

RecvMessage ==
  /\ receiving
  /\ readNext.err = "ok" /\ ~readNext.end
  /\ got' = Append(got, readNext.payload)
  /\ advance
  /\ UNCHANGED << cl, result, cEnded, cTrailers, timer, wireVars >>

RecvEnd ==
  /\ receiving
  /\ readNext.err = "ok" /\ readNext.end
  /\ cEnded' = TRUE
  /\ LET m == DecodeEndStream(readNext.payload)
     IN  /\ result' = endResult(m)
         /\ cTrailers' = IF m.code = 0 THEN m.metadata ELSE cTrailers
  /\ advance
  /\ UNCHANGED << cl, got, timer, wireVars >>

RecvFails ==
  /\ receiving
  /\ readNext.err # "ok"
  /\ result' = recvError(readNext.err)
  /\ advance
  /\ UNCHANGED << cl, got, cEnded, cTrailers, timer, wireVars >>

\* Recv when the deadline has passed: the read fails, wherever it is.
RecvDeadline ==
  /\ cl = "open" /\ result = Pending
  /\ timer = "fired"
  /\ result' = Result("raw", 0)
  /\ UNCHANGED << cl, pos, cEnded, cTrailers, got, timer, wireVars >>

Recv == RecvMessage \/ RecvEnd \/ RecvFails \/ RecvDeadline

\* cancelOnClose.Cancel and .Close: release the timer, close the body.
closeBody ==
  /\ cl' = "closed"
  /\ release
  /\ EndBody("closed")
  /\ UNCHANGED << pos, cEnded, cTrailers, got, request, head, wire, cut >>

Cancel ==
  /\ cl = "open" /\ result = Pending
  /\ result' = Result("cancelled", 0)
  /\ closeBody

Close ==
  /\ cl = "open" /\ result # Pending
  /\ UNCHANGED result
  /\ closeBody

\* The deadline passes while the call is under way: the exchange is aborted.
TimerExpires ==
  /\ timer = "armed"
  /\ timer' = "fired"
  /\ EndBody("closed")
  /\ UNCHANGED << cl, pos, cEnded, cTrailers, got, result, request, head, wire, cut >>

ClientNext ==
  \/ \E r \in Requests, d \in BOOLEAN : Open(r, d)
  \/ OpenOK \/ OpenRejected \/ OpenFails
  \/ Recv
  \/ Cancel \/ Close
  \/ TimerExpires
=============================================================================
