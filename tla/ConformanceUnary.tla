-------------------------- MODULE ConformanceUnary --------------------------
(***************************************************************************)
(* A unary call of a conformance service: the generated stub over Send,    *)
(* and behind Dispatch the registered wrapper and the method itself in the *)
(* place of UnaryCall's arbitrary handler.  Client, server and network     *)
(* take UnaryCall's steps.                                                 *)
(***************************************************************************)
EXTENDS UnaryCall, Conformance

CONSTANT Inputs   \* the calls a client may make: [path, kind, msg, meta]

VARIABLES
  input,   \* the call that is made, or NoInput
  prog     \* the rest of the program the method runs

allVars == << vars, input, prog >>

NoInput == [path |-> ""]

ProgramInit == Init /\ input = NoInput /\ prog = NoProgram

\* A unary body is the bytes of its message.
requestFor(in) ==
  stubRequest(in.path, FALSE, in.kind,
    [frames |-> << >>, extra |-> encodeMsg(in.msg, in.kind).have, gzip |-> FALSE])

\* The bytes as they arrived, and what came with them.
arrivedBody == [encodeMsg(input.msg, input.kind) EXCEPT !.have = request.body.extra]
contexts == { [headers |-> h, timeout |-> request.timeout] : h \in canonicalised(input.meta) }

Calls(in, d) ==
  /\ Send(requestFor(in), d)
  /\ input' = in
  /\ UNCHANGED prog

Dispatched ==
  /\ Serve
  /\ IF phase' = "handler"
     THEN \E c \in contexts :
            prog' \in registered(request.path, arrivedBody, ContentKindOf(request.ctype), c)
     ELSE UNCHANGED prog
  /\ UNCHANGED input

\* Sleep waits for its time or for the end of its context, whichever is first.
Wakes ==
  /\ phase = "handler" /\ prog.sleeps
  /\ \/ prog' = [prog EXCEPT !.sleeps = FALSE]
     \/ /\ request.timeout \/ conn = "down"
        /\ prog' = Fails(deadlineExceeded)
  /\ UNCHANGED << vars, input >>

SetsHeader ==
  /\ phase = "handler" /\ prog.headers # << >>
  /\ SetHeader(Head(prog.headers))
  /\ prog' = [prog EXCEPT !.headers = Tail(@)]
  /\ UNCHANGED input

SetsTrailer ==
  /\ phase = "handler" /\ prog.headers = << >> /\ prog.trailers # << >>
  /\ SetTrailer(Head(prog.trailers))
  /\ prog' = [prog EXCEPT !.trailers = Tail(@)]
  /\ UNCHANGED input

asPayload(b) == [id |-> b, size |-> b.have, zsize |-> b.have, gz |-> 0]

Returns ==
  /\ phase = "handler"
  /\ prog.headers = << >> /\ prog.trailers = << >> /\ ~prog.sleeps
  /\ IF prog.error # << >> THEN ReturnError(prog.error[1])
     ELSE ReturnMessage(asPayload(encodeMsg(prog.emits[1], ContentKindOf(request.ctype))))
  /\ UNCHANGED << input, prog >>

\* The programs that a call of in may come to run, on whatever part of its bytes arrives.
programsOf(in) ==
  LET b == encodeMsg(in.msg, in.kind)
  IN  {Fails(deadlineExceeded)} \cup
      UNION { registered(in.path, [b EXCEPT !.have = n], in.kind, [headers |-> h, timeout |-> t]) :
                n \in 0..b.have, h \in canonicalised(in.meta), t \in BOOLEAN }

\* The calls are those the servers are made for, and within the size cap.
ASSUME InputsAssumption ==
  \A in \in Inputs :
    /\ IsUnaryMethod(in.path) /\ in.path \in DOMAIN Methods /\ Methods[in.path] = unary
    /\ in.kind \in {"proto", "json"} /\ IsFiniteSet(DOMAIN in.msg)
    /\ encodeMsg(in.msg, in.kind).have <= MaxMessageBytes

\* The constants of UnaryCall hold what the calls ask for and what the methods answer.
ASSUME ProgramsAssumption ==
  \A in \in Inputs :
    /\ requestFor(in) \in Requests
    /\ \A p \in programsOf(in) :
         /\ p.headers \in Seq(HeaderKeys) /\ p.trailers \in Seq(TrailerKeys)
         /\ IF p.error # << >> THEN p.error[1] \in Errors
            ELSE asPayload(encodeMsg(p.emits[1], in.kind)) \in Payloads

\* Request infos are the server's to give: no error that a client asks for holds one.
ASSUME InfoAssumption ==
  \A in \in Inputs : in.path = "Unary" =>
    LET def == in.msg.responseDefinition
        details == def[1].error[1].details
    IN  def # << >> /\ def[1].error # << >> =>
          details \in Seq({any \in ToSet(details) : Last(any.typeUrl) # InfoType})

ProgramNext ==
  \/ \E in \in Inputs, d \in BOOLEAN : Calls(in, d)
  \/ Dispatched \/ Wakes \/ SetsHeader \/ SetsTrailer \/ Returns
  \/ (SendReturns \/ SendFails \/ TimerExpires \/ Break \/ CutRequest \/ Done)
       /\ UNCHANGED << input, prog >>

ProgramSpec == ProgramInit /\ [][ProgramNext]_allVars

-----------------------------------------------------------------------------
\* What the stub makes of a response: << message >>, or << >> when it returns an error.
stubResult ==
  IF Succeeded THEN CHOOSE d \in decodeMsg(reply[1].body.payload.id, input.kind) : TRUE
               ELSE << >>

\* What a method answers when it is called in the client's place.
direct ==
  LET programs == {run(input.path, input.msg, c) : c \in contexts}
  IN  programs \cup
      IF \E p \in programs : p.sleeps /\ request.timeout
      THEN {Fails(deadlineExceeded)} ELSE {}

\* A call through stub, wire and wrapper is a call of the method: whenever a response
\* arrives, it is the message or the error, to its code and its details, that the
\* method gives for the client's own request, in either codec; bytes that do not
\* decode, or decode to less than was sent, are never behind an answer.  They may be
\* given to a method; that its answer is lost is CutRequest of UnaryCall.
AnswersAsProgrammed ==
  ByServer =>
    \E p \in direct :
      IF p.error = << >> THEN stubResult = p.emits
      ELSE /\ stubResult = << >> /\ ~Succeeded
           /\ ErrorSeen.code = WireCode(p.error[1].code)
           /\ p.error[1].code # 0 =>
                ErrorSeen.details = representable(p.error[1].details)

\* The request info of the official service reaches the client exactly once, in the
\* payload of a success and in a detail of an error, and it tells what the client
\* sent; only an error with code 0 loses it.
InfoExactlyOnce ==
  ByServer /\ input.path \in {"Unary", "IdempotentUnary"} =>
    LET seen == IF Succeeded THEN stubResult[1].payload[1].requestInfo
                ELSE infosIn(ErrorSeen.details)
    IN  IF ~Succeeded /\ outcome[1].code = 0 THEN seen = << >>
        ELSE /\ Len(seen) = 1
             /\ seen[1].requests = << input.msg >>
             /\ seen[1].requestHeaders \in canonicalised(input.meta)
             /\ seen[1].timeoutMs = request.timeout

\* The checks of the conformance client pass on every response its calls get, the
\* trailers its transport remembers included.
ClientChecksPass ==
  ByServer /\ input.path \in DOMAIN MainUnaryCalls /\ input.msg = MainUnaryCalls[input.path]
      /\ (input.path = "Sleep" => ~request.timeout) =>
    mainAccepts(input.path, stubResult,
                IF Succeeded THEN << >> ELSE reply[1].error, reply[1].trailers)
=============================================================================
