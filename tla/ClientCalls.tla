---------------------------- MODULE ClientCalls ----------------------------
(***************************************************************************)
(* Concurrent calls through the transports a client is built from: the     *)
(* interceptor chain (protocol.go), the base URL (connect.go), and the     *)
(* adapters NetHTTP (bridge_nethttp.go) and AutoHTTP with HTTP3 (h3/h3.go),*)
(* which tries HTTP/3 first and falls back.                                *)
(*                                                                         *)
(* A Go map is a reference: a request holds the place of its header map in *)
(* heap, and whoever writes a header writes it there.  The maps of the     *)
(* metadata interceptors have fixed places, shared by all calls.           *)
(* call[c] is                                                              *)
(*   st       "idle", "down" (in the chain), "wire", "up" (returning),     *)
(*            "open" (a stream), "done"                                    *)
(*   shape    "unary" or "stream"          rt     the transport            *)
(*   reqs     the request each level was given, [url, hdrs], the last one  *)
(*            that of the current level                                    *)
(*   timers   the deadline context of each level: "off", "armed", "fired", *)
(*            "released"                                                   *)
(*   via      "std" or "h3"                tries  of retrying interceptors *)
(*   res      "none", "ok", "refused" (an answer that is an error),        *)
(*            "failed" (no answer)                                         *)
(* and three histories: own, the headers the caller gave; sent, the last   *)
(* request on the wire; attempts and answered, how often it was sent and   *)
(* whether an answer came.                                                 *)
(* The server and the network are the environment.  At this commit h3.go   *)
(* names req.Method, which Request no longer has; it is read as POST.      *)
(***************************************************************************)
EXTENDS Headers, Transports, Timeouts

CONSTANTS Calls,        \* the calls
          Starts,       \* how they may start: [shape, rt, url, map, headers]
          MD,           \* the maps of the metadata interceptors: place -> headers
          SharedMap,    \* what a caller put into a map it keeps for several calls
          MaxRetries    \* bound: how often an interceptor of the user tries again

ASSUME StartsAssumption ==
  \A s \in Starts :
    /\ s.shape \in {"unary", "stream"}
    /\ s.map \in {"nil", "own", "shared"}
    /\ s.map = "nil" => s.headers = NoHeaders
    /\ s.map = "shared" => s.headers = SharedMap
    /\ s.rt.chain \in Seq(ToSet(s.rt.chain))
    /\ \A w \in ToSet(s.rt.chain) :
         /\ w.kind = "metadata" => w.md \in DOMAIN MD
         /\ w.kind \in {"timeout", "deadline"} => w.d \in Int

\* A place is a pair of a call and a number, or belongs to no call.
ASSUME PlacesAssumption ==
  "shared" \notin Calls /\ \A p \in DOMAIN MD : p[1] \notin Calls \cup {"shared", "nil"}

VARIABLES heap, call

vars == << heap, call >>

NoMap == << "nil" >>
Shared == << "shared" >>
HeaderTimeout == Key("connect-timeout-ms", "lower")
ContentType == Key("content-type", "canonical")
AcceptEncoding == Key("accept-encoding", "canonical")
ConnectAcceptEncoding == Key("connect-accept-encoding", "canonical")
Mark == Key("x-mark", "canonical")   \* what an interceptor of the user may set

Idle == [st |-> "idle"]

Init ==
  /\ heap = [p \in DOMAIN MD \cup {Shared} |-> IF p = Shared THEN SharedMap ELSE MD[p]]
  /\ call = [c \in Calls |-> Idle]

-----------------------------------------------------------------------------
(* The chain, on the way down.                                             *)

\* The heap with the headers h at place p.
stored(p, h) == [q \in DOMAIN heap \cup {p} |-> IF q = p THEN h ELSE heap[q]]

\* A caller hands over no map ("nil"), one of its own, or the one it keeps ("shared"),
\* which no other call may be using: Go maps are not for concurrent use.
Start(c, s) ==
  /\ call[c] = Idle
  /\ s.map = "shared" => \A d \in Calls : call[d].st \notin {"down", "wire", "up"}
  /\ LET place == CASE s.map = "nil" -> NoMap
                    [] s.map = "shared" -> Shared
                    [] OTHER -> << c, 0 >>
     IN  /\ heap' = IF s.map = "own" THEN stored(place, s.headers) ELSE heap
         /\ call' = [call EXCEPT ![c] =
              [st |-> "down", shape |-> s.shape, rt |-> s.rt,
               reqs |-> << [url |-> s.url, hdrs |-> place] >>,
               timers |-> [i \in DOMAIN s.rt.chain |-> "off"],
               via |-> "std", res |-> "none", tries |-> 0,
               own |-> s.headers, sent |-> << >>, attempts |-> 0, answered |-> FALSE]]

level(c) == Len(call[c].reqs)
current(c) == Last(call[c].reqs)
wrapper(c) == call[c].rt.chain[level(c)]
fresh(c) == << c, Cardinality({p \in DOMAIN heap : p[1] = c}) + 1 >>

\* Mutation: a metadata interceptor that is given no map hands on its own.
mapForAliased(c) ==
  IF current(c).hdrs # NoMap THEN current(c).hdrs
  ELSE IF wrapper(c).kind = "metadata" THEN wrapper(c).md ELSE fresh(c)

\* The map a wrapper writes into: the one it was given, which it shares with the
\* levels above and with the caller, or else a new one.
mapFor(c) == IF current(c).hdrs # NoMap THEN current(c).hdrs ELSE fresh(c)

\* next is called with the request r.
passOn(c, r) == call' = [call EXCEPT ![c].reqs = Append(@, r)]

\* The headers as the wrapper finds them, and h written in their place.
found(c) == IF mapFor(c) \in DOMAIN heap THEN heap[mapFor(c)] ELSE NoHeaders
writeHeaders(c, h) == heap' = stored(mapFor(c), h)

\* What is set already stays.
merged(h, md) == [k \in DOMAIN h \cup DOMAIN md |-> IF k \in DOMAIN h THEN h[k] ELSE md[k]]

augment(c) ==
  /\ wrapper(c).kind = "metadata"
  /\ writeHeaders(c, merged(found(c), heap[wrapper(c).md]))
  /\ passOn(c, [current(c) EXCEPT !.hdrs = mapFor(c)])

EnterBaseURL(c) ==
  /\ wrapper(c).kind = "baseURL"
  /\ passOn(c, [current(c) EXCEPT !.url = prepend(wrapper(c).base, @)])
  /\ UNCHANGED heap

\* Mutation: the header without the context.
armNothing(d) == "off"

arm(d) == IF d > 0 THEN "armed" ELSE "off"

\* TimeoutInterceptor, DeadlineInterceptor: a duration of 0 is none.
EnterTimed(c) ==
  LET w == wrapper(c)
  IN  /\ w.kind \in {"timeout", "deadline"}
      /\ IF w.d > 0
         THEN writeHeaders(c, Set(found(c), HeaderTimeout, Milliseconds(w.d)))
         ELSE UNCHANGED heap
      /\ call' = [call EXCEPT
           ![c].reqs = Append(@, IF w.d > 0 THEN [Last(@) EXCEPT !.hdrs = mapFor(c)] ELSE Last(@)),
           ![c].timers[level(c)] = IF w.kind = "deadline" THEN arm(w.d) ELSE @]

\* What an interceptor of the user does; without a hook for the shape it is skipped.
hook(w, shape) == IF shape = "unary" THEN w.unary ELSE w.stream

EnterUser(c) ==
  /\ wrapper(c).kind = "user"
  /\ CASE hook(wrapper(c), call[c].shape) = "mark" ->
            /\ writeHeaders(c, Set(found(c), Mark, c))
            /\ passOn(c, [current(c) EXCEPT !.hdrs = mapFor(c)])
       [] hook(wrapper(c), call[c].shape) = "answer" ->
            /\ call' = [call EXCEPT ![c].st = "up", ![c].res = "ok"]
            /\ UNCHANGED heap
       [] OTHER -> passOn(c, current(c)) /\ UNCHANGED heap

Enter(c) ==
  /\ call[c].st = "down" /\ level(c) \in DOMAIN call[c].rt.chain
  /\ augment(c) \/ EnterBaseURL(c) \/ EnterTimed(c) \/ EnterUser(c)

-----------------------------------------------------------------------------
(* The adapters.                                                           *)

live(c) == \A i \in DOMAIN call[c].timers : call[c].timers[i] # "fired"
isH3(url) == url = "https"

\* The header the adapter puts on the wire, from a copy of the request's.
wireHeaders(h, shape, via) ==
  LET typed == IF ContentType \in DOMAIN h THEN h ELSE Set(h, ContentType, "proto")
  IN  CASE shape = "unary" /\ via = "std" -> Set(typed, AcceptEncoding, "gzip")
        [] shape = "stream" /\ via = "std" -> Set(typed, ConnectAcceptEncoding, "gzip")
        [] shape = "unary" /\ via = "h3" -> typed
        [] OTHER -> Set(h, ContentType, "proto")

headersOf(r) == IF r.hdrs = NoMap THEN NoHeaders ELSE heap[r.hdrs]

\* The call record once an attempt over via has begun.  net/http sends nothing without
\* a scheme, nor for a context that is over.
attempted(c, via) ==
  IF live(c) /\ current(c).url # "relative"
  THEN [call[c] EXCEPT !.st = "wire", !.via = via, !.attempts = @ + 1,
          !.sent = << [url |-> current(c).url, via |-> via,
                       hdrs |-> wireHeaders(headersOf(current(c)), call[c].shape, via)] >>]
  ELSE [call[c] EXCEPT !.st = "up", !.via = via, !.res = "failed"]

Dial(c) ==
  /\ call[c].st = "down" /\ level(c) = Len(call[c].rt.chain) + 1
  /\ call' = [call EXCEPT ![c] =
       attempted(c, IF call[c].rt.leaf = "auto" /\ isH3(current(c).url) THEN "h3" ELSE "std")]
  /\ UNCHANGED heap

\* Mutation: AutoHTTP.Send also tries again when the server refuses.
fallsBackOnRefusal(shape, via, res) == via = "h3" /\ res \in {"failed", "refused"}

\* AutoHTTP tries net/http when HTTP3 returns an error; HTTP3.OpenStream does so for
\* an answer of status 300 or more, HTTP3.Send does not.
fallsBack(shape, via, res) ==
  via = "h3" /\ (res = "failed" \/ (res = "refused" /\ shape = "stream"))

\* HTTP3.Send makes no error of a refusal.
seen(shape, via, res) == IF shape = "unary" /\ via = "h3" /\ res = "refused" THEN "ok" ELSE res

\* The call record once an attempt has ended.
concluded(c, res) ==
  IF fallsBack(call[c].shape, call[c].via, res) THEN attempted(c, "std")
  ELSE [call[c] EXCEPT !.st = "up", !.res = seen(call[c].shape, call[c].via, res)]

Answer(c, res) ==
  /\ call[c].st = "wire"
  /\ call' = [call EXCEPT ![c] = [concluded(c, res) EXCEPT !.answered = TRUE]]
  /\ UNCHANGED heap

AttemptFails(c) ==
  /\ call[c].st = "wire"
  /\ call' = [call EXCEPT ![c] = concluded(c, "failed")]
  /\ UNCHANGED heap

-----------------------------------------------------------------------------
(* The chain, on the way up.                                               *)

\* Mutation: cancel left to the stream that was never opened.
afterReturnLeaky(shape, res, timer) ==
  IF timer = "off" \/ shape = "stream" THEN timer ELSE "released"

\* The deadline of an interceptor whose next has returned: kept for an open stream,
\* by cancelOnClose.
afterReturn(shape, res, timer) ==
  IF timer = "off" \/ (shape = "stream" /\ res = "ok") THEN timer ELSE "released"

\* The outermost interceptor has returned; its call's maps are garbage.
Return(c) ==
  /\ level(c) = 1
  /\ call' = [call EXCEPT ![c].st = IF @ = "up" /\ call[c].shape = "stream" /\ call[c].res = "ok"
                                    THEN "open" ELSE "done"]
  /\ heap' = [p \in {q \in DOMAIN heap : q[1] # c} |-> heap[p]]

Ascend(c) ==
  LET i == level(c) - 1
      w == call[c].rt.chain[i]
      again == /\ w.kind = "user" /\ hook(w, call[c].shape) = "retry"
               /\ call[c].res = "failed" /\ call[c].tries < MaxRetries
  IN  /\ level(c) > 1
      /\ \/ again /\ call' = [call EXCEPT ![c].st = "down", ![c].tries = @ + 1]
         \/ call' = [call EXCEPT ![c].reqs = SubSeq(@, 1, i),
                       ![c].timers[i] = afterReturn(call[c].shape, call[c].res, @)]
      /\ UNCHANGED heap

Up(c) == call[c].st = "up" /\ (Return(c) \/ Ascend(c))

\* Close or Cancel of the stream: every cancelOnClose around it releases its context.
Close(c) ==
  /\ call[c].st = "open"
  /\ call' = [call EXCEPT ![c].st = "done",
       ![c].timers = [i \in DOMAIN @ |-> IF @[i] = "off" THEN "off" ELSE "released"]]
  /\ UNCHANGED heap

TimerExpires(c, i) ==
  /\ call[c].st # "idle" /\ i \in DOMAIN call[c].timers
  /\ call[c].timers[i] = "armed"
  /\ call' = [call EXCEPT ![c].timers[i] = "fired"]
  /\ UNCHANGED heap

Done == (\A c \in Calls : call[c].st = "done") /\ UNCHANGED vars

Levels == 1..Max({Len(s.rt.chain) : s \in Starts})

Next ==
  \/ \E c \in Calls :
       \/ \E s \in Starts : Start(c, s)
       \/ Enter(c) \/ Dial(c) \/ Up(c) \/ Close(c)
       \/ \E res \in {"ok", "refused"} : Answer(c, res)
       \/ AttemptFails(c)
       \/ \E i \in Levels : TimerExpires(c, i)
  \/ Done

\* The goroutine of a call runs, a deadline timer expires, and net/http gives up an
\* attempt whose context is over.  Nothing is assumed of server and network.
Fairness ==
  \A c \in Calls :
    /\ WF_vars(Enter(c) \/ Dial(c) \/ Up(c))
    /\ WF_vars(AttemptFails(c) /\ ~live(c))
    /\ \A i \in Levels : WF_vars(TimerExpires(c, i))

Spec == Init /\ [][Next]_vars
FairSpec == Spec /\ Fairness

-----------------------------------------------------------------------------
Running == {c \in Calls : call[c].st # "idle"}
Sent == {c \in Calls : call[c].st = "wire"}   \* sent is written when an attempt begins

timeouts(c) == {i \in DOMAIN call[c].rt.chain :
                  LET w == call[c].rt.chain[i] IN w.kind \in {"timeout", "deadline"} /\ w.d > 0}
innermost(c) == call[c].rt.chain[Max(timeouts(c))].d

\* Every variable keeps to its values, and requests and timers to the levels.
TypeOK ==
  /\ DOMAIN MD \subseteq DOMAIN heap
  /\ \A c \in Running :
       /\ call[c].rt.leaf \in {"std", "auto"} /\ call[c].via \in {"std", "h3"}
       /\ level(c) \in 1..(Len(call[c].rt.chain) + 1)
       /\ \A i \in DOMAIN call[c].timers :
            /\ call[c].timers[i] \in {"off", "armed", "fired", "released"}
            /\ call[c].timers[i] # "off" => call[c].rt.chain[i].kind = "deadline"
       /\ current(c).hdrs \in DOMAIN heap \cup {NoMap} \/ call[c].st \in {"open", "done"}

-----------------------------------------------------------------------------
\* The headers call c should go out with: its own win over the metadata, of the
\* metadata the outermost wins, and the innermost timeout tells the server.
marked(c) == \E i \in DOMAIN call[c].rt.chain :
  LET w == call[c].rt.chain[i] IN w.kind = "user" /\ hook(w, call[c].shape) = "mark"

expected(c) ==
  LET chain == call[c].rt.chain
      mds == {i \in DOMAIN chain : chain[i].kind = "metadata"}
      of(k) == {i \in mds : k \in DOMAIN MD[chain[i].md]}
  IN  [k \in DOMAIN call[c].own \cup (UNION {DOMAIN MD[chain[i].md] : i \in mds})
             \cup (IF timeouts(c) # {} THEN {HeaderTimeout} ELSE {})
             \cup (IF marked(c) THEN {Mark} ELSE {}) |->
         IF k = HeaderTimeout /\ timeouts(c) # {} THEN << Milliseconds(innermost(c)) >>
         ELSE IF k = Mark /\ marked(c) THEN << c >>
         ELSE IF k \in DOMAIN call[c].own THEN call[c].own[k]
         ELSE MD[chain[Min(of(k))].md][k]]

\* What goes out with a call is what belongs to it, whatever other calls are in the
\* chain at the same time, were there before, or were tried again: no header of
\* another call, of another client or of an earlier attempt.
SendsOwnMetadata ==
  \A c \in Sent :
    LET byAdapter == {AcceptEncoding, ConnectAcceptEncoding, ContentType} \ DOMAIN expected(c)
        h == call[c].sent[1].hdrs
    IN  /\ DOMAIN h \ byAdapter = DOMAIN expected(c)
        /\ \A k \in DOMAIN expected(c) :
             \/ h[k] = expected(c)[k]
             \/ k = ContentType /\ call[c].shape = "stream" /\ call[c].sent[1].via = "h3"

\* The server is told a deadline if and only if the innermost timeout lasts at least a
\* millisecond, and never a longer one, nor one shorter by a millisecond or more.
ServerKeepsDeadline ==
  \A c \in Sent : \A h \in canonicalised(call[c].sent[1].hdrs) : \A v \in Get(h, HeaderTimeout) :
    LET told == ParseTimeout(IF v = << >> THEN NoText ELSE v[1])
        d == innermost(c)
    IN  IF timeouts(c) = {} \/ d < Millisecond THEN told = 0
        ELSE told > d - Millisecond /\ told <= d

\* Once the server has answered, a call is not sent again: neither the fallback nor a
\* retrying interceptor repeats what was done.  The exception is a stream that is
\* refused over HTTP/3.
NoAttemptAfterAnswer ==
  [][\A c \in Running :
       call'[c].answered /\ (call[c].shape = "unary" \/ call[c].rt.leaf = "std")
         => call'[c].attempts = call[c].attempts]_vars

\* No deadline context outlives its call, whichever level fails, answers or retries.
TimersReleased ==
  \A c \in Running : call[c].st = "done" =>
    \A i \in DOMAIN call[c].timers : call[c].timers[i] \in {"off", "released"}

hasDeadline(c) == \E i \in timeouts(c) : call[c].rt.chain[i].kind = "deadline"

\* A call one of whose levels has a deadline returns to its caller.
CallsReturn ==
  \A c \in Calls :
    c \in Running /\ hasDeadline(c) ~> call[c].st \in {"open", "done"}
=============================================================================
