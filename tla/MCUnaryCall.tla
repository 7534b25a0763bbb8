---------------------------- MODULE MCUnaryCall ----------------------------
(* Values for the constants of UnaryCall. *)
EXTENDS UnaryCall

Msg(id, size, zsize) == [id |-> id, size |-> size, zsize |-> zsize, gz |-> 0]

MCMethods == [Echo  |-> [serverStream |-> FALSE, handled |-> TRUE],
              Ghost |-> [serverStream |-> FALSE, handled |-> FALSE],
              Count |-> [serverStream |-> TRUE,  handled |-> TRUE]]

\* A unary body is bytes without frames.
Body(bytes, gzip) == [frames |-> << >>, extra |-> bytes, gzip |-> gzip]

Echo == [version |-> "", httpMethod |-> "POST", path |-> "Echo",
         ctype |-> "application/proto", ce |-> "", cce |-> "",
         accept |-> "canonical", timeout |-> FALSE, body |-> Body(2, FALSE)]

\* One request for every way through the checks of Dispatch: two that are served
\* and one for each check that rejects.
MCRequests ==
  { Echo,
    [Echo EXCEPT !.ce = "gzip", !.body = Body(2, TRUE)],
    [Echo EXCEPT !.version = "2"],
    [Echo EXCEPT !.body = Body(MaxMessageBytes + 1, FALSE)],
    [Echo EXCEPT !.httpMethod = "GET"],
    [Echo EXCEPT !.path = "Nowhere"],
    [Echo EXCEPT !.path = "Count"],
    [Echo EXCEPT !.ctype = "text/plain"],
    [Echo EXCEPT !.cce = "br"],
    [Echo EXCEPT !.path = "Ghost"],
    [Echo EXCEPT !.cce = "gzip"] }

\* Also a client that reaches Dispatch with the lower-case key.
AcceptRequests == MCRequests \cup { [Echo EXCEPT !.accept = "lower"] }

RPCErr(code, details) == [kind |-> "rpc", code |-> code, details |-> details]
OtherErr == [kind |-> "other"]
Detail == [type |-> "T", value |-> << 1 >>]
Untyped == [type |-> "", value |-> << 1 >>]
Hollow == [type |-> "T", value |-> << >>]

\* Every known code, 0 and one the protocol does not know, details that are kept and
\* details that are dropped.
MCErrors == {RPCErr(c, << >>) : c \in KnownCodes \cup {0, 42}}
            \cup {RPCErr(c, << Untyped, Detail, Hollow >>) : c \in {0, 3, 9}} \cup { OtherErr }

\* A key in two spellings, and one that looks like a trailer.
MCHeaderKeys == { Key("x", "canonical"), Key("x", "lower"),
                  [Key("x", "lower") EXCEPT !.prefix = TRUE] }
MCTrailerKeys == { Key("x", "canonical"), Key("x", "lower") }

MCPayloads == { Msg("small", 1, 1), Msg("large", 3, 2) }
=============================================================================
