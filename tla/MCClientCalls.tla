--------------------------- MODULE MCClientCalls ---------------------------
(* Values for the constants of ClientCalls. *)
EXTENDS ClientCalls, TLC

CONSTANTS c1, c2

Authorization == Key("authorization", "canonical")
MCToken == << "md", "token" >>
Trace == << "md", "trace" >>

\* The second map names a key of the first, and one in another spelling.
MCMD == (MCToken :> (Authorization :> << "token" >>)) @@
        (Trace :> ((Authorization :> << "trace" >>) @@ (Key("x-trace", "lower") :> << "t" >>)))

Stub == ContentType :> << "json" >>
Own == Stub @@ (Authorization :> << "own" >>)

Options == [token |-> MCToken, mode |-> "", base |-> "https", timeout |-> 25,
            interceptors |-> << >>, adapter |-> << >>, linked |-> TRUE]

\* HTTP/3 first; a deadline; an interceptor that marks unary calls only.
Auto == Connect([Options EXCEPT !.interceptors = << UserInterceptor("mark", "none") >>])
\* net/http because the module is not linked; no deadline, but a header below 1 ms.
Unlinked == Connect([Options EXCEPT !.base = "http", !.timeout = 0, !.linked = FALSE,
                       !.interceptors = << MetadataInterceptor(Trace), TimeoutInterceptor(5) >>])
\* Retries around a deadline of their own, within a shorter one.
Retrying == WithMetadata(Trace, WithInterceptors(NewTransport("std", FALSE),
              << DeadlineInterceptor(14), UserInterceptor("retry", "retry"), DeadlineInterceptor(25) >>))
\* A shortcut, and an injected adapter, for which the base URL does not count.
Injected == Connect([Options EXCEPT !.token = NoToken, !.adapter = << Adapter("auto") >>,
                       !.interceptors = << UserInterceptor("answer", "pass"), DeadlineInterceptor(0) >>])

start(shape, rt, url, map, headers) ==
  [shape |-> shape, rt |-> rt, url |-> url, map |-> map, headers |-> headers]

MCStarts ==
  { start("unary", Auto, "relative", "own", Stub),
    start("unary", Auto, "relative", "nil", NoHeaders),
    start("stream", Auto, "relative", "own", Own),
    start("unary", Unlinked, "relative", "nil", NoHeaders),
    start("stream", Unlinked, "https", "shared", NoHeaders),
    start("unary", Retrying, "http", "own", Own),
    start("stream", Retrying, "http", "nil", NoHeaders),
    start("unary", Injected, "relative", "own", Stub),
    start("stream", Injected, "relative", "own", Stub) }

\* A caller that keeps its headers and uses them with two clients.
ReusingStarts ==
  { start("unary", Auto, "relative", "shared", NoHeaders),
    start("unary", Retrying, "http", "shared", NoHeaders) }
=============================================================================
