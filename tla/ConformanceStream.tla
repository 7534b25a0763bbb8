------------------------- MODULE ConformanceStream -------------------------
(***************************************************************************)
(* A server-stream call of a conformance service: the generated stub over  *)
(* OpenStream and Recv, and behind Dispatch the registered wrapper and the *)
(* method itself in the place of StreamCall's arbitrary handler.  Client,  *)
(* server and network take StreamCall's steps.                             *)
(***************************************************************************)
EXTENDS StreamCall, Conformance

CONSTANT Inputs   \* the calls a client may make: [path, kind, msg, meta]

VARIABLES
  input,   \* the call that is made, or NoInput
  prog     \* the rest of the program the method runs

allVars == << vars, input, prog >>

NoInput == [path |-> ""]

ProgramInit == Init /\ input = NoInput /\ prog = NoProgram

\* The body is one frame around the encoded message.
requestFor(in) ==
  LET n == encodeMsg(in.msg, in.kind).have
  IN  stubRequest(in.path, TRUE, in.kind,
        [frames |-> << [len |-> n, have |-> n, flagged |-> FALSE, gzip |-> FALSE] >>,
         extra |-> 0, gzip |-> FALSE])

\* The payload of the one frame Dispatch lets through.
arrivedBody == [encodeMsg(input.msg, input.kind) EXCEPT !.have = request.body.frames[1].have]
contexts == { [headers |-> h, timeout |-> request.timeout] : h \in canonicalised(input.meta) }

Calls(in, d) ==
  /\ Open(requestFor(in), d)
  /\ input' = in
  /\ UNCHANGED << serverVars, prog >>

Dispatched ==
  /\ Serve
  /\ IF phase' = "handler"
     THEN \E c \in contexts :
            prog' \in registered(request.path, arrivedBody, ContentKindOf(request.ctype), c)
     ELSE UNCHANGED prog
  /\ UNCHANGED << clientVars, input >>

SetsHeader ==
  /\ phase = "handler" /\ prog.headers # << >>
  /\ SetHeader(Head(prog.headers))
  /\ prog' = [prog EXCEPT !.headers = Tail(@)]
  /\ UNCHANGED << clientVars, input >>

SetsTrailer ==
  /\ phase = "handler" /\ prog.headers = << >> /\ prog.trailers # << >>
  /\ SetTrailer(Head(prog.trailers))
  /\ prog' = [prog EXCEPT !.trailers = Tail(@)]
  /\ UNCHANGED << clientVars, input >>

\* Mutation: the messages encoded in proto, whatever came in.
asPayloadProto(m, kind) ==
  [id |-> encodeMsg(m, "proto"), size |-> encodeMsg(m, "proto").have,
   zsize |-> encodeMsg(m, "proto").have, gz |-> 0]

asPayload(m, kind) ==
  [id |-> encodeMsg(m, kind), size |-> encodeMsg(m, kind).have,
   zsize |-> encodeMsg(m, kind).have, gz |-> 0]

ready == phase = "handler" /\ prog.headers = << >> /\ prog.trailers = << >>

EmitsNext ==
  /\ ready /\ prog.emits # << >>
  /\ Emit(asPayload(Head(prog.emits), ContentKindOf(request.ctype)))
  /\ prog' = [prog EXCEPT !.emits = Tail(@)]
  /\ UNCHANGED << clientVars, input >>

\* emit fails: every method that emits returns the error it gives.
EmitFails ==
  /\ ready /\ prog.emits # << >> /\ conn # "up"
  /\ ReturnError([kind |-> "other"])
  /\ UNCHANGED << clientVars, input, prog >>

Returns ==
  /\ ready /\ prog.emits = << >>
  /\ IF prog.error # << >> THEN ReturnError(prog.error[1]) ELSE ReturnNil
  /\ UNCHANGED << clientVars, input, prog >>

\* The programs that a call of in may come to run.
programsOf(in) ==
  { run(in.path, in.msg, [headers |-> h, timeout |-> t]) : h \in canonicalised(in.meta), t \in BOOLEAN }

\* The calls are those the servers are made for.
ASSUME InputsAssumption ==
  \A in \in Inputs :
    /\ IsStreamMethod(in.path) /\ in.path \in DOMAIN Methods /\ Methods[in.path] = serverStream
    /\ in.kind \in {"proto", "json"} /\ IsFiniteSet(DOMAIN in.msg)

\* The constants of StreamCall hold what the calls ask for and what the methods do.
ASSUME ProgramsAssumption ==
  /\ [kind |-> "other"] \in Errors
  /\ \A in \in Inputs :
       /\ requestFor(in) \in Requests
       /\ \A p \in programsOf(in) :
            /\ p.headers \in Seq(HeaderKeys) /\ p.trailers \in Seq(TrailerKeys)
            /\ p.emits \in Seq(ToSet(p.emits)) /\ Len(p.emits) <= MaxEmits
            /\ \A m \in ToSet(p.emits) : asPayload(m, in.kind) \in Payloads
            /\ p.error # << >> => p.error[1] \in Errors

\* Request infos are the server's to give: no error that a client asks for holds one.
ASSUME InfoAssumption ==
  \A in \in Inputs : in.path = "ServerStream" =>
    LET def == in.msg.responseDefinition
        details == def[1].error[1].details
    IN  def # << >> => /\ def[1].responseData \in Seq(ToSet(def[1].responseData))
                       /\ def[1].error # << >> =>
                            /\ def[1].error = << def[1].error[1] >>
                            /\ details \in Seq({any \in ToSet(details) : Last(any.typeUrl) # InfoType})

ReceiverNext ==
  \/ OpenOK \/ OpenRejected \/ OpenFails
  \/ Recv
  \/ Cancel \/ Close
  \/ TimerExpires

ProgramNext ==
  \/ \E in \in Inputs, d \in BOOLEAN : Calls(in, d)
  \/ Dispatched \/ SetsHeader \/ SetsTrailer \/ EmitsNext \/ EmitFails \/ Returns
  \/ ReceiverNext /\ UNCHANGED << serverVars, input, prog >>
  \/ (Break \/ CutRequest \/ Done) /\ UNCHANGED << input, prog >>

ProgramSpec == ProgramInit /\ [][ProgramNext]_allVars

-----------------------------------------------------------------------------
\* The consumer decodes what Recv hands it with the codec of its call; << >> stands
\* for a message it cannot decode.
received ==
  [i \in DOMAIN got |-> CHOOSE d \in decodeMsg(got[i].id, input.kind) : TRUE]

\* What Recv reported from an END frame: << >> after io.EOF.
endError ==
  LET m == DecodeEndStream(wire[pos].payload)
  IN  IF m.code = 0 THEN << >> ELSE << [code |-> m.code, details |-> m.details] >>

\* What the method does when it is called in the client's place.
direct == {run(input.path, input.msg, c) : c \in contexts}

\* A call through stub, wire and wrapper is a call of the method: what the consumer
\* decodes is at any time a prefix of what the method emits for the client's own
\* request, in either codec, and once an END is read it is all of it, followed by the
\* method's own error, to its code and details, and the trailers it set.  (Of an error
\* with code 0 no trace is left unless it has details; run code_zero is about it.)
StreamAsProgrammed ==
  cl \in {"open", "closed"} =>
    \E p \in direct :
      /\ Len(received) <= Len(p.emits)
      /\ \A i \in DOMAIN received : received[i] = << p.emits[i] >>
      /\ cEnded =>
           /\ Len(received) = Len(p.emits)
           /\ IF p.error = << >>
              THEN endError = << >> /\ cTrailers = ToSet(p.trailers)
              ELSE p.error[1].code # 0 \/ p.error[1].details # << >> =>
                     endError = << [code |-> WireCode(p.error[1].code),
                                    details |-> representable(p.error[1].details)] >>

\* The request infos a consumer of the official service has seen.
infosSeen ==
  FlattenSeq([i \in DOMAIN received |-> received[i][1].payload[1].requestInfo])
  \o IF cEnded /\ endError # << >>
     THEN infosIn(endError[1].details) ELSE << >>

\* The request info reaches the client at most once, with the first message or, when
\* there is none, with the error; once an END is read it was there, unless the method
\* had neither a message nor an error to put it in.
InfoOnce ==
  cl \in {"open", "closed"} /\ input.path = "ServerStream" =>
    LET def == input.msg.responseDefinition
        nowhere == def = << >> \/ (def[1].responseData = << >> /\ def[1].error = << >>)
    IN  /\ Len(infosSeen) = IF got = << >> /\ (nowhere \/ ~cEnded) THEN 0 ELSE 1
        /\ \A i \in DOMAIN infosSeen : infosSeen[i].requests = << input.msg >>

\* The checks of the conformance client pass on every stream that reaches its END.
ClientChecksPass ==
  cEnded /\ input.path \in DOMAIN MainStreamCalls /\ input.msg = MainStreamCalls[input.path] =>
    mainAcceptsStream(input.path, [i \in DOMAIN received |-> received[i][1]], endError, cTrailers)
=============================================================================
