----------------------------- MODULE RpcStream -----------------------------
(***************************************************************************)
(* What a server-stream call promises its caller, whatever carries it: the *)
(* messages arrive in order and without gaps, "ok" means all of them did   *)
(* and the server said so, and an error code the caller cannot have got    *)
(* from its own end of the stream is the one the server failed with, again *)
(* after all messages.                                                     *)
(***************************************************************************)
EXTENDS Integers, Sequences

CONSTANTS Message,   \* the messages
          OK,        \* the status of a stream that ends well, neither of the next two
          Failure,   \* the statuses a server may end a stream with
          Local      \* the errors the caller's own end may come up with

VARIABLES
  sent,        \* what the server has sent
  status,      \* << >> while the server runs, then << its status >>
  delivered,   \* what the caller has received
  outcome      \* << >> while the caller waits, then << what it was told >>

vars == << sent, status, delivered, outcome >>

Init == sent = << >> /\ status = << >> /\ delivered = << >> /\ outcome = << >>

Send(m) ==
  /\ status = << >>
  /\ sent' = Append(sent, m)
  /\ UNCHANGED << status, delivered, outcome >>

Finish(s) ==
  /\ status = << >>
  /\ status' = << s >>
  /\ UNCHANGED << sent, delivered, outcome >>

Deliver ==
  /\ outcome = << >>
  /\ Len(delivered) < Len(sent)
  /\ delivered' = Append(delivered, sent[Len(delivered) + 1])
  /\ UNCHANGED << sent, status, outcome >>

\* The caller learns the status of the server.
Conclude ==
  /\ outcome = << >> /\ status # << >>
  /\ delivered = sent
  /\ outcome' = status
  /\ UNCHANGED << sent, status, delivered >>

\* The caller gives up, or its end of the stream fails.
Fail(e) ==
  /\ outcome = << >>
  /\ outcome' = << e >>
  /\ UNCHANGED << sent, status, delivered >>

Next ==
  \/ \E m \in Message : Send(m)
  \/ \E s \in Failure \cup {OK} : Finish(s)
  \/ Deliver
  \/ Conclude
  \/ \E e \in Local : Fail(e)

Spec == Init /\ [][Next]_vars
=============================================================================
