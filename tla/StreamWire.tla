----------------------------- MODULE StreamWire -----------------------------
(***************************************************************************)
(* What one server-stream call shares between its two ends: the request,   *)
(* the response head and the response body, over one HTTP exchange.        *)
(*                                                                         *)
(* wire is everything of the body that will ever reach the client, as      *)
(* whole frames in order; the client reads it through an index of its own. *)
(* When the connection fails in the middle of a frame, cut holds that      *)
(* frame and how many of its bytes arrived.                                *)
(***************************************************************************)
EXTENDS Negotiation

CONSTANTS Requests,      \* what the client may ask for
          HeaderKeys,    \* response header keys a handler may set
          TrailerKeys,   \* trailer keys a handler may set
          Payloads,      \* messages a handler may emit
          Errors,        \* errors a handler may return
          MaxEmits       \* bound on the messages of one call

ASSUME RequestsAssumption ==
  \A r \in Requests : IsStreamContentType(r.ctype)   \* OpenStream sends these
ASSUME PayloadsAssumption ==
  \A p \in Payloads :
    /\ p = [id |-> p.id, size |-> p.size, zsize |-> p.zsize, gz |-> 0]
    /\ p.size \in Nat /\ p.zsize \in Nat
ASSUME ErrorsAssumption ==
  \A e \in Errors : e.kind = "rpc" =>
    e.code \in Nat /\ e.details \in Seq({d \in ToSet(e.details) : IsDetail(d)})
ASSUME MaxEmitsAssumption == MaxEmits \in Nat

VARIABLES
  request,   \* the request on its way, or NoRequest
  head,      \* status line and headers of the response, or NoHead
  wire,      \* the frames of the response body
  conn,      \* "up", "eof" (body ended), "reset" (broken), "closed" (by the client)
  cut        \* << >>, or << [frame, have] >>: a frame that arrived in part

wireVars == << request, head, wire, conn, cut >>

NoRequest == [path |-> ""]
NoHead == [status |-> 0, keys |-> {}]

WireInit ==
  /\ request = NoRequest
  /\ head = NoHead
  /\ wire = << >>
  /\ conn = "up"
  /\ cut = << >>

\* httpWriter.WriteFrame: the first write sends the head h, every write is
\* flushed.  Once the connection is gone nothing more gets through.
WriteFrame(h, f) ==
  IF conn = "up"
  THEN /\ head' = IF head = NoHead THEN h ELSE head
       /\ wire' = Append(wire, f)
  ELSE UNCHANGED << head, wire >>

\* The body stops growing: ServeHTTP has returned ("eof"), its handler panicked
\* and net/http aborts the connection ("reset"), or the client gave up ("closed").
EndBody(how) == conn' = IF conn = "up" THEN how ELSE conn

\* The network or an intermediary loses the end of the body from frame k+1 on,
\* of which a proper prefix may still arrive.  Readers see a plain end of body
\* or a transport error.  A head that nobody has read may be lost as well.
Truncate(k, how) ==
  /\ conn' = how
  /\ wire' = SubSeq(wire, 1, k)
  /\ cut' \in {<< >>} \cup
       (IF k < Len(wire)
        THEN { << [frame |-> wire[k + 1], have |-> n] >> :
               n \in 1..(FrameBytes(wire[k + 1]) - 1) }
        ELSE {})
  /\ UNCHANGED request
=============================================================================
