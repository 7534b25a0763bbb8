------------------------ MODULE MCConformanceStream ------------------------
(* Values for the constants of ConformanceStream. *)
EXTENDS ConformanceStream

\* One model of both servers: their methods have different names.
MCMethods == ConformanceMethods @@ OfficialMethods

kinds == {"proto", "json"}
Input(path, kind, msg) == [path |-> path, kind |-> kind, msg |-> msg, meta |-> NoHeaders]
Inputs1(path, msgs) == {Input(path, k, m) : k \in kinds, m \in msgs}

MainInputs == UNION {Inputs1(p, {MainStreamCalls[p]}) : p \in DOMAIN MainStreamCalls}

OtherInputs ==
  Inputs1("Count", {CountRequest(n) : n \in {0, 1}})
  \cup Inputs1("BigStream", {BigStreamRequest(0, 1)})
  \cup Inputs1("StreamFail", {StreamFailRequest(n, 3, << >>) : n \in {0, 2}})
  \cup Inputs1("StreamFailDetails", {StreamFailDetailsRequest(0, 42, << >>, "", << "d" >>)})
  \cup Inputs1("BidiStream", {<< >>})

h == Header(Key("h", "lower"), << 1, 2 >>)
t == Header(Key("t", "lower"), << 1 >>)
failure == Error(5, << AnyMessage(<< "prefix", "T" >>, << "v" >>) >>)
nameless == Error(0, << AnyMessage(<< "prefix", "T" >>, << "v" >>) >>)
Definitions == { << >>,
                 << StreamResponseDefinition(<< h >>, << << 1 >>, << 2 >> >>, << >>, << t >>) >>,
                 << StreamResponseDefinition(<< h >>, << << 1 >> >>, << failure >>, << t >>) >>,
                 << StreamResponseDefinition(<< >>, << >>, << failure >>, << >>) >>,
                 << StreamResponseDefinition(<< >>, << >>, << nameless >>, << >>) >>,
                 << StreamResponseDefinition(<< >>, << >>, << >>, << t >>) >> }

MCInputs ==
  MainInputs \cup OtherInputs \cup Inputs1("ServerStream", {ServerStreamRequest(d) : d \in Definitions})
MCRequests == {requestFor(in) : in \in MCInputs}
MCPayloads ==
  UNION { {asPayload(m, in.kind) : m \in UNION {ToSet(p.emits) : p \in programsOf(in)}} : in \in MCInputs }
MCErrors ==
  {[kind |-> "other"]} \cup
  UNION { {p.error[1] : p \in {q \in programsOf(in) : q.error # << >>}} : in \in MCInputs }
MCHeaderKeys == { Key("h", "lower") }
MCTrailerKeys == { Key("t", "lower"), Key("x-ctrailer", "lower") }
=============================================================================
