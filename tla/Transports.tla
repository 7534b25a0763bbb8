----------------------------- MODULE Transports -----------------------------
(***************************************************************************)
(* How a client's transport is put together: Connect (connect.go),         *)
(* NewTransport (bridge_auto.go), WithInterceptors and WithMetadata        *)
(* (protocol.go).                                                          *)
(*                                                                         *)
(* Every wrapper hands the request on to the transport it wraps, so a      *)
(* transport is [chain, leaf]: its wrappers, outermost first, and the      *)
(* adapter that does the exchange, "std" (NetHTTP) or "auto" (AutoHTTP).   *)
(* A wrapper is [kind, ...]: "metadata" (md, where its map is), "timeout"  *)
(* and "deadline" (d), "baseURL" (base), "user" (unary, stream: which of   *)
(* the two hooks the interceptor has).                                     *)
(* Of a URL only the scheme matters: "relative", "http", "https".          *)
(***************************************************************************)
EXTENDS Integers, Sequences

Adapter(leaf) == [chain |-> << >>, leaf |-> leaf]

WithInterceptors(rt, ics) == [rt EXCEPT !.chain = ics \o @]

MetadataInterceptor(md) == [kind |-> "metadata", md |-> md]
TimeoutInterceptor(d) == [kind |-> "timeout", d |-> d]
DeadlineInterceptor(d) == [kind |-> "deadline", d |-> d]
UserInterceptor(unary, stream) == [kind |-> "user", unary |-> unary, stream |-> stream]

\* MetadataTransport.augment does what MetadataInterceptor does.
WithMetadata(md, rt) == WithInterceptors(rt, << MetadataInterceptor(md) >>)

\* linked: whether the program links the h3 module, which registers a factory.
autoFactory(linked) == IF linked THEN << Adapter("auto") >> ELSE << >>

\* Mutation: the factory's result returned although there is none.
NewTransportUnchecked(realm, linked) ==
  IF realm = "std" THEN Adapter("std")
  ELSE IF autoFactory(linked) # << >> THEN autoFactory(linked)[1] ELSE Adapter("nil")

NewTransport(realm, linked) ==
  IF realm = "auto" /\ autoFactory(linked) # << >> THEN autoFactory(linked)[1] ELSE Adapter("std")

-----------------------------------------------------------------------------
baseURLTransport(base, rt) == WithInterceptors(rt, << [kind |-> "baseURL", base |-> base] >>)

prepend(base, url) == IF url # "relative" THEN url ELSE base

\* opts is [token, mode, base, timeout, interceptors, adapter, linked]; token is where
\* the map with the Authorization header is, or NoToken; base a scheme or ""; adapter
\* << >> or << a transport >>.
NoToken == << >>

withStandardInterceptors(opts, inner) ==
  WithInterceptors(inner,
    (IF opts.token # NoToken THEN << MetadataInterceptor(opts.token) >> ELSE << >>)
    \o (IF opts.timeout > 0 THEN << DeadlineInterceptor(opts.timeout) >> ELSE << >>)
    \o opts.interceptors)

\* An injected adapter takes the place of the mode and of the base URL.
Connect(opts) ==
  LET inner == NewTransport(IF opts.mode \in {"", "auto"} THEN "auto" ELSE "std", opts.linked)
  IN  IF opts.adapter # << >> THEN withStandardInterceptors(opts, opts.adapter[1])
      ELSE withStandardInterceptors(opts,
             IF opts.base # "" THEN baseURLTransport(opts.base, inner) ELSE inner)
=============================================================================
