---------------------------- MODULE MCStreamCall ----------------------------
(* Values for the constants of StreamCall. *)
EXTENDS StreamCall

Message(id, size, zsize) == [id |-> id, size |-> size, zsize |-> zsize, gz |-> 0]

MCMethods == [Count |-> [serverStream |-> TRUE,  handled |-> TRUE],
              Ghost |-> [serverStream |-> TRUE,  handled |-> FALSE],
              Echo  |-> [serverStream |-> FALSE, handled |-> TRUE]]

Body(frames) == [frames |-> frames, extra |-> 0, gzip |-> FALSE]
OneMessage == Body(<< [len |-> 1, have |-> 1, flagged |-> FALSE, gzip |-> FALSE] >>)

\* What OpenStream sends through net/http, which puts header keys in canonical form.
StreamRequest(path, body) ==
  [version |-> "", httpMethod |-> "POST", path |-> path,
   ctype |-> "application/connect+proto", ce |-> "", cce |-> "",
   accept |-> "canonical", timeout |-> FALSE, body |-> body]

Served == StreamRequest("Count", OneMessage)
MCRequests == { Served,
                StreamRequest("Count", Body(<< >>)),      \* END, code 12
                StreamRequest("Echo", OneMessage),        \* HTTP 415
                StreamRequest("Nowhere", OneMessage) }    \* HTTP 404

\* An adapter that keeps the keys as the client wrote them.
LowerKeyRequests == { [Served EXCEPT !.accept = "lower"] }

Detail == [type |-> "T", value |-> << 1 >>]
RPCErr(code, details) == [kind |-> "rpc", code |-> code, details |-> details]
OtherErr == [kind |-> "other"]

\* A known code, an unknown one, details without a code, a wrapped or plain error.
MCErrors == { RPCErr(5, << >>), RPCErr(42, << >>), RPCErr(0, << Detail >>), OtherErr }
CodeZero == { RPCErr(0, << >>) }

\* Below and above the compression threshold, and above the size cap.
Small == Message("small", 0, 0)
Large == Message("large", 2, 1)
Huge  == Message("huge", 7, 7)
MCPayloads == { Small, Large, Huge }

\* Liveness does not depend on what is inside a message or an error.
LivePayloads == { Small, Huge }
LiveErrors == { OtherErr }
=============================================================================
