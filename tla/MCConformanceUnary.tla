------------------------- MODULE MCConformanceUnary -------------------------
(* Values for the constants of ConformanceUnary. *)
EXTENDS ConformanceUnary, TLC

\* One model of both servers: their methods have different names.
MCMethods == ConformanceMethods @@ OfficialMethods

kinds == {"proto", "json"}
Input(path, kind, msg, meta) == [path |-> path, kind |-> kind, msg |-> msg, meta |-> meta]
Inputs1(path, msgs) == {Input(path, k, m, NoHeaders) : k \in kinds, m \in msgs}

MainInputs == UNION {Inputs1(p, {MainUnaryCalls[p]}) : p \in DOMAIN MainUnaryCalls}

FailInputs ==
  Inputs1("Fail", {FailRequest(<< >>), FailRequest(<< "m" >>)})
  \cup Inputs1("FailDetails", {FailDetailsRequest(c, << >>, t, << "d" >>) :
                                 c \in {0, 3, 42}, t \in {"", "T"}})

\* Metadata in two spellings.
MetaInputs ==
  {Input("EchoMeta", k, EchoMetaRequest(<< "m" >>), meta) : k \in kinds,
     meta \in { NoHeaders, Set(NoHeaders, Key("x-test", "mixed"), "v"),
                Set(Set(NoHeaders, Key("x-test", "lower"), "v"), Key("other", "lower"), "w") }}

OtherInputs ==
  Inputs1("Health", {HealthRequest}) \cup Inputs1("Big", {BigRequest(0), BigRequest(1)})
  \cup Inputs1("ClientStream", {<< >>}) \cup Inputs1("Unimplemented", {UnimplementedRequest})

h == Header(Key("h", "lower"), << 1, 2 >>)
t == Header(Key("t", "lower"), << 1 >>)
failure(c) == Error(c, << AnyMessage(<< "prefix", "T" >>, << "v" >>) >>)
Definitions == { << >>,
                 << UnaryResponseDefinition(<< h >>, << 7 >>, << >>, << t >>) >>,
                 << UnaryResponseDefinition(<< h >>, << >>, << failure(5) >>, << t >>) >>,
                 << UnaryResponseDefinition(<< >>, << >>, << failure(0) >>, << >>) >> }

OfficialInputs ==
  {Input("Unary", k, UnaryRequest(d), meta) : k \in kinds, d \in Definitions,
     meta \in {NoHeaders, Set(NoHeaders, Key("x-test", "lower"), "v")}}
  \cup Inputs1("IdempotentUnary", {IdempotentUnaryRequest(d) : d \in Definitions})

MCInputs == MainInputs \cup FailInputs \cup MetaInputs \cup OtherInputs \cup OfficialInputs
MCRequests == {requestFor(in) : in \in MCInputs}
MCPayloads ==
  UNION { {asPayload(encodeMsg(p.emits[1], in.kind)) : p \in {q \in programsOf(in) : q.error = << >>}} :
            in \in MCInputs }
MCErrors == UNION { {p.error[1] : p \in {q \in programsOf(in) : q.error # << >>}} : in \in MCInputs }
MCHeaderKeys == { Key("h", "lower"), Key("x-trl", "lower") }
MCTrailerKeys == { Key("t", "lower"), Key("x-trl", "lower") }
=============================================================================
