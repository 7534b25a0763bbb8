----------------------- MODULE ConformanceUnaryProofs -----------------------
(***************************************************************************)
(* The unary methods end to end: a conformance program is a handler of     *)
(* UnaryCall, so that all that is proved of a unary call is true of it,    *)
(* and what the client gets is what the method gives, for every value of   *)
(* the constants: any messages, metadata, codecs and connections.          *)
(***************************************************************************)
EXTENDS ConformanceUnary, UnaryCallProofs, ConformanceProofs

full(in) == encodeMsg(in.msg, in.kind).have

\* The request for in, with deadline or without, when n bytes of its body arrive.
Requested(in, d, n) ==
  [stubRequest(in.path, FALSE, in.kind, [frames |-> << >>, extra |-> n, gzip |-> FALSE])
     EXCEPT !.timeout = d]

SentInv ==
  \/ request = NoRequest /\ whole
  \/ /\ input \in Inputs
     /\ \E d \in BOOLEAN, n \in 0..full(input) :
          request = Requested(input, d, n) /\ (whole => n = full(input))

\* What a program says is in the constants of UnaryCall.
Within(p, kind) ==
  /\ IsProgram(p)
  /\ p.headers \in Seq(HeaderKeys) /\ p.trailers \in Seq(TrailerKeys)
  /\ p.error # << >> => p.error[1] \in Errors
  /\ p.error = << >> => asPayload(encodeMsg(p.emits[1], kind)) \in Payloads

\* The handler context when program p has only prog left.
Rest(p) ==
  /\ prog.emits = p.emits /\ prog.error = p.error /\ (prog.sleeps => p.sleeps)
  /\ p.headers = << >> => prog.headers = << >> /\ hdr = NoHeaders
  /\ Len(p.trailers) = 1 =>
       \/ prog.trailers = p.trailers /\ trl = NoHeaders
       \/ prog.trailers = << >> /\ \E x : trl = [k \in {p.trailers[1]} |-> << x >>]

RestInv ==
  /\ phase = "idle" => hdr = NoHeaders /\ trl = NoHeaders
  /\ phase = "handler" =>
       /\ Within(prog, input.kind)
       /\ conn = "up" => \E p \in direct : Rest(p)

\* The server answered as program p does.
Answered(p) ==
  /\ outcome # << >>
  /\ IF p.error = << >>
     THEN /\ outcome[1].kind = "ok"
          /\ outcome[1].payload = asPayload(encodeMsg(p.emits[1], input.kind))
     ELSE /\ outcome[1].kind = "error"
          /\ outcome[1].code = p.error[1].code /\ outcome[1].details = p.error[1].details
  /\ p.headers = << >> => outcome[1].headers = NoHeaders
  /\ Len(p.trailers) = 1 => \E x : outcome[1].trailers = [k \in {p.trailers[1]} |-> << x >>]

AnswerInv == response # NoResponse => \E p \in direct : Answered(p)

-----------------------------------------------------------------------------
(* The request.                                                            *)

LEMMA FullIsNat ==
  ASSUME NEW in \in Inputs
  PROVE  full(in) \in Nat
<1>1. IsFiniteSet(DOMAIN in.msg) /\ setFields(in.msg) \subseteq DOMAIN in.msg
  BY InputsAssumption DEF setFields
<1>2. Cardinality(setFields(in.msg)) \in Nat
  BY <1>1, FS_Subset, FS_CardinalityType
<1>3. full(in) = Cardinality(setFields(in.msg)) + IF in.kind = "json" THEN 1 ELSE 0
  BY DEF full, encodeMsg
<1> QED
  BY <1>2, <1>3

IsRequestFor(r, in, d, n) ==
  /\ r.version = "" /\ r.httpMethod = "POST" /\ r.path = in.path
  /\ r.ctype = ContentTypeFor(FALSE, in.kind) /\ r.ce = "" /\ r.cce = ""
  /\ r.accept = "canonical" /\ r.timeout = d
  /\ r.body = [frames |-> << >>, extra |-> n, gzip |-> FALSE] /\ r.body.extra = n

LEMMA RequestedFields ==
  ASSUME NEW in, NEW d, NEW n
  PROVE  IsRequestFor(Requested(in, d, n), in, d, n)
<1> DEFINE r == Requested(in, d, n)
           b == [frames |-> << >>, extra |-> n, gzip |-> FALSE]
           c == ContentTypeFor(FALSE, in.kind)
<1>1. PICK no, post, key, no1 : no = "" /\ post = "POST" /\ key = "canonical" /\ no1 = FALSE
  OBVIOUS
<1>2. r = [[version |-> no, httpMethod |-> post, path |-> in.path, ctype |-> c, ce |-> no, cce |-> no,
            accept |-> key, timeout |-> no1, body |-> b] EXCEPT !.timeout = d]
  BY <1>1, Zenon DEF Requested, stubRequest
<1> HIDE DEF r, b, c
<1>3. /\ r.version = no /\ r.httpMethod = post /\ r.path = in.path /\ r.ctype = c /\ r.ce = no
      /\ r.cce = no /\ r.accept = key /\ r.timeout = d /\ r.body = b
  BY <1>2
<1>4. b.extra = n
  BY DEF b
<1>5. /\ r.version = "" /\ r.httpMethod = "POST" /\ r.path = in.path /\ r.ctype = c /\ r.ce = ""
      /\ r.cce = "" /\ r.accept = "canonical" /\ r.timeout = d /\ r.body = b /\ r.body.extra = n
  BY <1>1, <1>3, <1>4, Zenon
<1> QED
  BY <1>5, Zenon DEF IsRequestFor, r, b, c

CutTo(r, s, k) == s = [r EXCEPT !.body.extra = k, !.body.gzip = FALSE]

\* A request is not changed by its body's arriving in part but for the number of bytes.
LEMMA CutShorter ==
  ASSUME NEW in, NEW d, NEW n, NEW k,
         NEW r, r = Requested(in, d, n), NEW s, CutTo(r, s, k)
  PROVE  s = Requested(in, d, k)
<1> DEFINE body(m) == [frames |-> << >>, extra |-> m, gzip |-> FALSE]
           c == ContentTypeFor(FALSE, in.kind)
<1>1. PICK no, post, key, no1 : no = "" /\ post = "POST" /\ key = "canonical" /\ no1 = FALSE
  OBVIOUS
<1>2. \A m : Requested(in, d, m) =
        [[version |-> no, httpMethod |-> post, path |-> in.path, ctype |-> c, ce |-> no, cce |-> no,
          accept |-> key, timeout |-> no1, body |-> body(m)] EXCEPT !.timeout = d]
  BY <1>1, Zenon DEF Requested, stubRequest
<1> HIDE DEF c
<1> DEFINE plain(b) == [version |-> no, httpMethod |-> post, path |-> in.path, ctype |-> c,
                        ce |-> no, cce |-> no, accept |-> key, timeout |-> d, body |-> b]
<1>3. ASSUME NEW m PROVE Requested(in, d, m) = plain(body(m))
  <2>1. PICK b, x : b = body(m) /\ x = Requested(in, d, m)
    OBVIOUS
  <2>2. x = [[version |-> no, httpMethod |-> post, path |-> in.path, ctype |-> c, ce |-> no, cce |-> no,
              accept |-> key, timeout |-> no1, body |-> b] EXCEPT !.timeout = d]
    BY <1>2, <2>1
  <2>3. x = plain(b)
    BY <2>2
  <2> QED
    BY <2>1, <2>3
<1>4. ASSUME NEW b, NEW z PROVE [plain(b) EXCEPT !.body = z] = plain(z) /\ plain(b).body = b
  OBVIOUS
<1>5. body(n).extra = n /\ [body(n) EXCEPT !.extra = k] = body(k) /\ [body(k) EXCEPT !.gzip = FALSE] = body(k)
  <2>1. PICK no2, none : no2 = FALSE /\ none = << >>
    OBVIOUS
  <2>2. \A m : body(m) = [frames |-> none, extra |-> m, gzip |-> no2]
    BY <2>1
  <2> HIDE DEF body
  <2>3. body(n).extra = n /\ [body(n) EXCEPT !.extra = k] = body(k) /\ [body(k) EXCEPT !.gzip = no2] = body(k)
    BY <2>2
  <2> QED
    BY <2>1, <2>3
<1>6. PICK x, y : x = r /\ y = Requested(in, d, k)
  OBVIOUS
<1> HIDE DEF plain, body
<1>7. x = plain(body(n)) /\ y = plain(body(k))
  BY <1>3, <1>6
<1>8. [x EXCEPT !.body.extra = k, !.body.gzip = FALSE] = y
  <2>1. x.body = body(n)
    BY <1>4, <1>7
  <2>2. [x EXCEPT !.body.extra = k] = plain(body(k))
    BY <1>4, <1>5, <1>7, <2>1
  <2>3. plain(body(k)).body = body(k)
    BY <1>4
  <2>4. [plain(body(k)) EXCEPT !.body.gzip = FALSE] = plain(body(k))
    BY <1>4, <1>5, <2>3
  <2> QED
    BY <1>7, <2>2, <2>4
<1>9. s = [x EXCEPT !.body.extra = k, !.body.gzip = FALSE]
  BY <1>6 DEF CutTo
<1> QED
  BY <1>6, <1>8, <1>9

LEMMA SentInFull ==
  ASSUME NEW in, NEW d
  PROVE  [requestFor(in) EXCEPT !.timeout = d] = Requested(in, d, full(in))
BY Zenon DEF requestFor, Requested, full

\* A fold over nothing.
LEMMA NoFrames ==
  ASSUME NEW body, body.frames = << >>
  PROVE  BodyBytes(body) = body.extra
<1> DEFINE q == body.frames
           base == body.extra
           more(m, i) == m + HeaderBytes + q[i].have
           F(it) == it = [s \in SUBSET (DOMAIN q) |->
                           IF s = {} THEN base ELSE more(it[s \ {Max(s)}], Max(s))]
           it == CHOOSE f : F(f)
<1>1. DOMAIN q = {}
  OBVIOUS
<1>2. F([s \in {{}} |-> base])
  <2> HIDE DEF more, q, base
  <2>1. SUBSET (DOMAIN q) = {{}}
    BY <1>1
  <2> QED
    BY <2>1
<1>3. BodyBytes(body) = it[DOMAIN q]
  BY DEF BodyBytes, FoldLeft, MapThenFoldSet, Max, HeaderBytes, more, q, base
<1> HIDE DEF F
<1>4. F(it)
  BY <1>2
<1> HIDE DEF it, more, q, base
<1>5. it[{}] = base
  BY <1>1, <1>4 DEF F
<1> QED
  BY <1>1, <1>3, <1>5 DEF base

\* Dispatch lets the request through, whole or in part.
LEMMA Handled ==
  ASSUME NEW in \in Inputs, NEW d, NEW n \in 0..full(in)
  PROVE  Negotiate(Requested(in, d, n)) = runHandler
<1> DEFINE r == Requested(in, d, n)
<1>1. IsRequestFor(r, in, d, n)
  BY RequestedFields, Zenon
<1> HIDE DEF r
<1>2. /\ r.version = "" /\ r.httpMethod = "POST" /\ r.path = in.path
      /\ r.ctype = ContentTypeFor(FALSE, in.kind) /\ r.ce = "" /\ r.cce = ""
      /\ r.body = [frames |-> << >>, extra |-> n, gzip |-> FALSE]
  BY <1>1, Zenon DEF IsRequestFor
<1>3. r.path = in.path /\ r.ctype = ContentTypeFor(FALSE, in.kind)
      /\ r.body = [frames |-> << >>, extra |-> n, gzip |-> FALSE]
  BY <1>2, Zenon
<1>4. ~(BodyBytes(r.body) > MaxMessageBytes)
  <2>1. PICK b : b = r.body
    OBVIOUS
  <2>2. b.frames = << >> /\ b.extra = n
    BY <1>3, <2>1
  <2>3. BodyBytes(b) = n
    BY <2>2, NoFrames
  <2>4. full(in) <= MaxMessageBytes /\ full(in) \in Nat
    BY InputsAssumption, FullIsNat DEF full
  <2> QED
    BY <2>1, <2>3, <2>4, SizesAssumption
<1>5. requestEncoding(r) = ""
  BY <1>2, Zenon DEF requestEncoding
<1>6. r.path \in DOMAIN Methods /\ spec(r) = unary
  BY <1>3, InputsAssumption DEF spec
<1>7. spec(r).handled = TRUE /\ spec(r).serverStream = FALSE
  BY <1>6 DEF unary
<1>8. ContentKindOf(r.ctype) # "" /\ IsStreamContentType(r.ctype) = FALSE
  <2>1. in.kind = "proto" \/ in.kind = "json"
    BY InputsAssumption
  <2>2. r.ctype = "application/proto" \/ r.ctype = "application/json"
    BY <1>3, <2>1 DEF ContentTypeFor
  <2>3. ContentKindOf(r.ctype) # ""
    BY <2>2, Zenon DEF ContentKindOf
  <2>4. IsStreamContentType(r.ctype) = FALSE
    BY <2>2 DEF IsStreamContentType
  <2> QED
    BY <2>3, <2>4, Zenon
<1>9. ~wrongContentType(r)
  <2>1. ~(IsStreamContentType(r.ctype) # spec(r).serverStream)
    BY <1>7, <1>8, Zenon
  <2> QED
    BY <1>8, <2>1, Zenon DEF wrongContentType
<1>10. unaryBodyError(r) = 0
  BY <1>5 DEF unaryBodyError
<1>11. NegotiateUnary(r) = runHandler
  BY <1>7, <1>10 DEF NegotiateUnary
<1>12. r.version \in {"", "1"} /\ r.httpMethod \in {"", "POST"} /\ requestEncoding(r) \in {"", "gzip"}
  BY <1>2, <1>5, Zenon
<1> QED
  BY <1>6, <1>7, <1>4, <1>9, <1>11, <1>12, Zenon DEF Negotiate, r

-----------------------------------------------------------------------------
(* The programs.                                                           *)

\* What every unary method is: one response or an RPCError; only Sleep waits.
IsUnaryProgram(p) ==
  /\ IsProgram(p)
  /\ \/ p.error = << >> /\ \E m : p.emits = << m >>
     \/ \E code, details : p.error = << RPCError(code, details) >>
  /\ p.sleeps \in BOOLEAN
  /\ p.sleeps => p.headers = << >> /\ p.trailers = << >>

LEMMA RespondsIsProgram ==
  ASSUME NEW m
  PROVE  /\ IsUnaryProgram(Responds(m))
         /\ Responds(m).headers = << >> /\ Responds(m).trailers = << >>
         /\ Responds(m).emits = << m >> /\ Responds(m).error = << >> /\ Responds(m).sleeps = FALSE
<1> DEFINE p == Responds(m)
<1>1. PICK none, no, ms : none = << >> /\ no = FALSE /\ ms = << m >>
  OBVIOUS
<1>2. p = [[headers |-> none, trailers |-> none, emits |-> none, error |-> none, sleeps |-> no]
             EXCEPT !.emits = ms]
  BY <1>1, Zenon DEF Responds, Emits, NoProgram
<1> HIDE DEF p
<1>3. p.headers = none /\ p.trailers = none /\ p.emits = ms /\ p.error = none /\ p.sleeps = no
  BY <1>2
<1>4. IsProgram(p)
  BY <1>2 DEF IsProgram
<1>5. /\ p.headers = << >> /\ p.trailers = << >> /\ p.emits = << m >> /\ p.error = << >>
      /\ p.sleeps = FALSE
  BY <1>1, <1>3, Zenon
<1>6. IsUnaryProgram(p)
  BY <1>4, <1>5, Zenon DEF IsUnaryProgram
<1> QED
  BY <1>5, <1>6, Zenon DEF p

LEMMA FailsWithCode ==
  ASSUME NEW code, NEW details
  PROVE  IsUnaryProgram(Fails(RPCError(code, details)))
BY FailsIsProgram, Zenon DEF IsUnaryProgram

\* Other headers and trailers, or a wait, make no other kind of program.
AnswersAlike(q, p) == IsUnaryProgram(q) /\ q.emits = p.emits /\ q.error = p.error

LEMMA Rebuilt ==
  ASSUME NEW p, IsUnaryProgram(p), NEW a, NEW b, NEW e \in BOOLEAN, e => a = << >> /\ b = << >>,
         NEW q, q = [headers |-> a, trailers |-> b, emits |-> p.emits, error |-> p.error, sleeps |-> e]
  PROVE  AnswersAlike(q, p)
<1>1. PICK c, d : c = p.emits /\ d = p.error
  OBVIOUS
<1>2. q.headers = a /\ q.trailers = b /\ q.emits = c /\ q.error = d /\ q.sleeps = e
  BY <1>1
<1>3. IsProgram(q)
  BY <1>1 DEF IsProgram
<1>4. \/ d = << >> /\ \E m : c = << m >>
      \/ \E code, details : d = << RPCError(code, details) >>
  BY <1>1, Zenon DEF IsUnaryProgram
<1>5. IsUnaryProgram(q)
  BY <1>2, <1>3, <1>4, Zenon DEF IsUnaryProgram
<1> QED
  BY <1>1, <1>2, <1>5, Zenon DEF AnswersAlike

LEMMA WithBoth ==
  ASSUME NEW p, IsUnaryProgram(p), p.sleeps = FALSE, NEW a, NEW b
  PROVE  /\ AnswersAlike([p EXCEPT !.headers = a, !.trailers = b], p)
         /\ [p EXCEPT !.headers = a, !.trailers = b].sleeps = FALSE
<1>1. PICK q, c, d, no : /\ q = [p EXCEPT !.headers = a, !.trailers = b]
                         /\ c = p.emits /\ d = p.error /\ no = FALSE
  OBVIOUS
<1>2. p = [headers |-> p.headers, trailers |-> p.trailers, emits |-> c, error |-> d, sleeps |-> no]
  BY <1>1 DEF IsUnaryProgram, IsProgram
<1>3. q = [headers |-> a, trailers |-> b, emits |-> c, error |-> d, sleeps |-> no]
  BY <1>1, <1>2
<1>4. no \in BOOLEAN /\ (no => a = << >> /\ b = << >>)
  BY <1>1
<1>5. AnswersAlike(q, p)
  BY <1>1, <1>3, <1>4, Rebuilt
<1>6. q.sleeps = no
  BY <1>3
<1> QED
  BY <1>1, <1>5, <1>6, Zenon

LEMMA WithTrailers ==
  ASSUME NEW p, IsUnaryProgram(p), p.sleeps = FALSE, NEW b
  PROVE  AnswersAlike([p EXCEPT !.trailers = b], p)
<1>1. PICK q, c, d, no : /\ q = [p EXCEPT !.trailers = b]
                         /\ c = p.emits /\ d = p.error /\ no = FALSE
  OBVIOUS
<1>2. p = [headers |-> p.headers, trailers |-> p.trailers, emits |-> c, error |-> d, sleeps |-> no]
  BY <1>1 DEF IsUnaryProgram, IsProgram
<1>3. q = [headers |-> p.headers, trailers |-> b, emits |-> c, error |-> d, sleeps |-> no]
  BY <1>1, <1>2
<1>4. no \in BOOLEAN /\ ~no
  BY <1>1
<1> QED
  BY <1>1, <1>3, <1>4, Rebuilt

LEMMA Sleeping ==
  ASSUME NEW p, IsUnaryProgram(p), p.headers = << >>, p.trailers = << >>, NEW e \in BOOLEAN
  PROVE  AnswersAlike([p EXCEPT !.sleeps = e], p)
<1>1. PICK q, c, d, none : q = [p EXCEPT !.sleeps = e] /\ c = p.emits /\ d = p.error /\ none = << >>
  OBVIOUS
<1>2. p = [headers |-> none, trailers |-> none, emits |-> c, error |-> d, sleeps |-> p.sleeps]
  BY <1>1 DEF IsUnaryProgram, IsProgram
<1>3. q = [headers |-> none, trailers |-> none, emits |-> c, error |-> d, sleeps |-> e]
  BY <1>1, <1>2
<1> QED
  BY <1>1, <1>3, Rebuilt

LEMMA UnaryPaths ==
  ASSUME NEW path, IsUnaryMethod(path)
  PROVE  \/ /\ path \in DOMAIN ConformanceMethods
            /\ path \in {"Health", "Echo", "Fail", "EchoMeta", "Big", "FailDetails", "EchoTrailer",
                         "EchoBytes", "Sleep", "Empty"}
         \/ /\ path \notin DOMAIN ConformanceMethods
            /\ path \in {"Unary", "ClientStream", "Unimplemented", "IdempotentUnary"}
<1>1. unary # serverStream
  BY DEF unary, serverStream
<1>2. PICK u, v : u = unary /\ v = serverStream
  OBVIOUS
<1>3. path \in DOMAIN ConformanceMethods /\ ConformanceMethods[path] = unary
        => path \in {"Health", "Echo", "Fail", "EchoMeta", "Big", "FailDetails", "EchoTrailer",
                     "EchoBytes", "Sleep", "Empty"}
  <2>1. ConformanceMethods =
          [Health |-> u, Echo |-> u, Count |-> v, Fail |-> u, StreamFail |-> v, EchoMeta |-> u,
           Big |-> u, FailDetails |-> u, StreamFailDetails |-> v, EchoTrailer |-> u,
           CountTrailer |-> v, EchoBytes |-> u, Sleep |-> u, Empty |-> u, BigStream |-> v]
    BY <1>2 DEF ConformanceMethods
  <2> QED
    BY <1>1, <1>2, <2>1
<1>4. path \in DOMAIN OfficialMethods /\ OfficialMethods[path] = unary
        => /\ path \in {"Unary", "ClientStream", "Unimplemented", "IdempotentUnary"}
           /\ path \notin DOMAIN ConformanceMethods
  <2>1. OfficialMethods =
          [Unary |-> u, ServerStream |-> v, ClientStream |-> u, BidiStream |-> v,
           Unimplemented |-> u, IdempotentUnary |-> u]
    BY <1>2 DEF OfficialMethods
  <2> QED
    BY <1>1, <1>2, <2>1 DEF ConformanceMethods
<1> QED
  BY <1>3, <1>4 DEF IsUnaryMethod

\* Every unary method is such a program.
LEMMA UnaryPrograms ==
  ASSUME NEW path, IsUnaryMethod(path), NEW in, NEW c
  PROVE  IsUnaryProgram(run(path, in, c))
<1>1. CASE path \in DOMAIN ConformanceMethods
  <2>1. run(path, in, c) = ConformanceService(path, in, c)
    BY <1>1 DEF run
  <2>2. path \in {"Health", "Echo", "Fail", "EchoMeta", "Big", "FailDetails", "EchoTrailer",
                  "EchoBytes", "Sleep", "Empty"}
    BY <1>1, UnaryPaths
  <2>3. CASE path = "Health"
    BY <2>1, <2>3, RespondsIsProgram DEF ConformanceService, Health
  <2>4. CASE path = "Echo"
    BY <2>1, <2>4, RespondsIsProgram DEF ConformanceService, Echo
  <2>5. CASE path = "Fail"
    BY <2>1, <2>5, RespondsIsProgram, FailsWithCode DEF ConformanceService, Fail
  <2>6. CASE path = "EchoMeta"
    BY <2>1, <2>6, RespondsIsProgram DEF ConformanceService, EchoMeta
  <2>7. CASE path = "Big"
    BY <2>1, <2>7, RespondsIsProgram DEF ConformanceService, Big
  <2>8. CASE path = "FailDetails"
    BY <2>1, <2>8, FailsWithCode DEF ConformanceService, FailDetails, detailed
  <2>9. CASE path = "EchoTrailer"
    <3> DEFINE r == Responds(EchoTrailerResponse(<< "trailer:" >> \o in.input))
               q == [r EXCEPT !.trailers = << Key("x-trl", "lower") >>]
    <3>1. run(path, in, c) = q
      BY <2>1, <2>9 DEF ConformanceService, EchoTrailer
    <3>2. IsUnaryProgram(r) /\ r.sleeps = FALSE
      BY RespondsIsProgram, Zenon
    <3> HIDE DEF r
    <3>3. AnswersAlike(q, r)
      BY <3>2, WithTrailers
    <3> QED
      BY <3>1, <3>3, Zenon DEF AnswersAlike
  <2>10. CASE path = "EchoBytes"
    BY <2>1, <2>10, RespondsIsProgram DEF ConformanceService, EchoBytes
  <2>11. CASE path = "Sleep"
    <3> DEFINE r == Responds(SleepResponse(TRUE))
               q == [r EXCEPT !.sleeps = TRUE]
    <3>1. run(path, in, c) = q
      BY <2>1, <2>11 DEF ConformanceService, Sleep
    <3>2. IsUnaryProgram(r) /\ r.headers = << >> /\ r.trailers = << >>
      BY RespondsIsProgram, Zenon
    <3> HIDE DEF r
    <3>3. AnswersAlike(q, r)
      BY <3>2, Sleeping
    <3> QED
      BY <3>1, <3>3, Zenon DEF AnswersAlike
  <2>12. CASE path = "Empty"
    BY <2>1, <2>12, RespondsIsProgram DEF ConformanceService, Empty
  <2> QED
    BY <2>2, <2>3, <2>4, <2>5, <2>6, <2>7, <2>8, <2>9, <2>10, <2>11, <2>12
<1>2. CASE path \notin DOMAIN ConformanceMethods
  <2>1. run(path, in, c) = OfficialService(path, in, c)
    BY <1>2 DEF run
  <2>2. path \in {"Unary", "ClientStream", "Unimplemented", "IdempotentUnary"}
    BY <1>2, UnaryPaths
  <2>3. CASE path = "Unary"
    <3> DEFINE def == in.responseDefinition[1]
               r == IF def.error # << >> THEN Fails(toRPCError(def.error[1], << requestInfo(in, c) >>))
                    ELSE Responds(UnaryResponse(<< ConformancePayload(def.data, << requestInfo(in, c) >>) >>))
               a == applyHeaders(def.responseHeaders)
               b == applyHeaders(def.responseTrailers)
               q == [r EXCEPT !.headers = a, !.trailers = b]
    <3>1. run(path, in, c) =
            IF in.responseDefinition = << >>
            THEN Responds(UnaryResponse(<< ConformancePayload(<< >>, << requestInfo(in, c) >>) >>))
            ELSE q
      BY <2>1, <2>3 DEF OfficialService, Unary
    <3>2. IsUnaryProgram(r) /\ r.sleeps = FALSE
      BY RespondsIsProgram, FailsWithCode, FailsIsProgram, Zenon DEF toRPCError
    <3>3. IsUnaryProgram(Responds(UnaryResponse(<< ConformancePayload(<< >>, << requestInfo(in, c) >>) >>)))
      BY RespondsIsProgram, Zenon
    <3> HIDE DEF r, a, b
    <3>4. AnswersAlike(q, r)
      BY <3>2, WithBoth
    <3>5. IsUnaryProgram(q)
      BY <3>4, Zenon DEF AnswersAlike
    <3> QED
      BY <3>1, <3>3, <3>5, Zenon
  <2>4. CASE path = "IdempotentUnary"
    BY <2>1, <2>4, RespondsIsProgram DEF OfficialService, IdempotentUnary
  <2>5. CASE path \in {"ClientStream", "Unimplemented"}
    BY <2>1, <2>5, FailsWithCode DEF OfficialService, Unsupported
  <2> QED
    BY <2>2, <2>3, <2>4, <2>5
<1> QED
  BY <1>1, <1>2

-----------------------------------------------------------------------------
(* A step of a program is a step of a unary call.                          *)

\* The request is that of the input.
LEMMA ProgramRequest ==
  ASSUME SentInv, request # NoRequest
  PROVE  /\ input \in Inputs
         /\ \E n \in 0..full(input) : /\ IsRequestFor(request, input, request.timeout, n)
                                      /\ request = Requested(input, request.timeout, n)
                                      /\ whole => n = full(input)
         /\ request.timeout \in BOOLEAN
<1>1. PICK d \in BOOLEAN, n \in 0..full(input) :
        input \in Inputs /\ request = Requested(input, d, n) /\ (whole => n = full(input))
  BY DEF SentInv
<1>2. IsRequestFor(request, input, d, n)
  BY <1>1, RequestedFields, Zenon
<1>3. request.timeout = d
  BY <1>2, Zenon DEF IsRequestFor
<1> QED
  BY <1>1, <1>2, <1>3, Zenon

\* It names the codec of the input.
LEMMA KindOfRequest ==
  ASSUME NEW r, NEW in \in Inputs, r.ctype = ContentTypeFor(FALSE, in.kind)
  PROVE  ContentKindOf(r.ctype) = in.kind
<1>1. CASE in.kind = "proto"
  <2>1. r.ctype = "application/proto"
    BY <1>1 DEF ContentTypeFor
  <2> QED
    BY <1>1, <2>1 DEF ContentKindOf
<1>2. CASE in.kind = "json"
  <2>1. r.ctype = "application/json"
    BY <1>2 DEF ContentTypeFor
  <2> QED
    BY <1>2, <2>1 DEF ContentKindOf
<1> QED
  BY <1>1, <1>2, InputsAssumption

\* A message cut short is asked for as well as a whole one.
cut(in, n) == [encodeMsg(in.msg, in.kind) EXCEPT !.have = n]

LEMMA CutNowhere ==
  ASSUME NEW in
  PROVE  cut(in, full(in)) = encodeMsg(in.msg, in.kind)
<1>1. PICK k, m, h : k = in.kind /\ m = in.msg
                     /\ h = Cardinality(setFields(in.msg)) + IF in.kind = "json" THEN 1 ELSE 0
  OBVIOUS
<1>2. encodeMsg(in.msg, in.kind) = [kind |-> k, msg |-> m, have |-> h]
  BY <1>1 DEF encodeMsg
<1>3. full(in) = h
  BY <1>2 DEF full
<1> QED
  BY <1>2, <1>3 DEF cut

LEMMA ProgramsHere ==
  ASSUME NEW in
  PROVE  /\ Fails(deadlineExceeded) \in programsOf(in)
         /\ \A n \in 0..full(in), h \in canonicalised(in.meta), t \in BOOLEAN :
              registered(in.path, cut(in, n), in.kind, [headers |-> h, timeout |-> t])
                \subseteq programsOf(in)
         /\ \A p \in programsOf(in) :
              \/ p = Fails(deadlineExceeded)
              \/ \E b, c : p \in registered(in.path, b, in.kind, c)
<1> DEFINE reg(n, h, t) == registered(in.path, cut(in, n), in.kind, [headers |-> h, timeout |-> t])
           N == 0..full(in)
           H == canonicalised(in.meta)
           e == Fails(deadlineExceeded)
<1>1. programsOf(in) = {e} \cup UNION {reg(n, h, t) : n \in N, h \in H, t \in BOOLEAN}
  BY DEF programsOf, cut, full
<1>2. \A n, h, t : reg(n, h, t) = registered(in.path, cut(in, n), in.kind, [headers |-> h, timeout |-> t])
  OBVIOUS
<1> HIDE DEF reg, N, H, e
<1>3. e \in programsOf(in)
  BY <1>1
<1>4. ASSUME NEW n \in N, NEW h \in H, NEW t \in BOOLEAN PROVE reg(n, h, t) \subseteq programsOf(in)
  BY <1>1
<1>5. ASSUME NEW p \in programsOf(in) PROVE p = e \/ \E n, h, t : p \in reg(n, h, t)
  BY <1>1
<1> QED
  BY <1>2, <1>3, <1>4, <1>5, Zenon DEF N, H, e

LEMMA ProgramsAre ==
  ASSUME NEW in \in Inputs, NEW p \in programsOf(in)
  PROVE  IsProgram(p) /\ p.sleeps \in BOOLEAN
<1>1. ASSUME NEW e, p = Fails(e) PROVE IsProgram(p) /\ p.sleeps \in BOOLEAN
  <2>1. IsProgram(p) /\ p.sleeps = FALSE
    BY <1>1, FailsIsProgram, Zenon
  <2> QED
    BY <2>1, FALSE \in BOOLEAN, Zenon
<1>2. ASSUME NEW m, NEW c, p = run(in.path, m, c) PROVE IsProgram(p) /\ p.sleeps \in BOOLEAN
  <2>1. IsUnaryMethod(in.path)
    BY InputsAssumption
  <2>2. IsUnaryProgram(p)
    BY <1>2, <2>1, UnaryPrograms, Zenon
  <2> QED
    BY <2>2, Zenon DEF IsUnaryProgram
<1>3. ASSUME NEW b, NEW c, p \in registered(in.path, b, in.kind, c)
      PROVE  \/ p = Fails([kind |-> "other"]) \/ \E m : p = run(in.path, m, c)
  BY <1>3, Zenon DEF registered
<1> QED
  BY <1>1, <1>2, <1>3, ProgramsHere, Zenon

LEMMA ProgramsWithin ==
  ASSUME NEW in \in Inputs, NEW p \in programsOf(in)
  PROVE  Within(p, in.kind)
<1>1. IsProgram(p)
  BY ProgramsAre
<1>2. /\ p.headers \in Seq(HeaderKeys) /\ p.trailers \in Seq(TrailerKeys)
      /\ IF p.error # << >> THEN p.error[1] \in Errors
         ELSE asPayload(encodeMsg(p.emits[1], in.kind)) \in Payloads
  BY ProgramsAssumption, Zenon
<1> QED
  BY <1>1, <1>2, Zenon DEF Within

\* All of a message runs the method on it.
LEMMA WholeRuns ==
  ASSUME NEW in, NEW c, NEW p \in registered(in.path, cut(in, full(in)), in.kind, c)
  PROVE  p = run(in.path, in.msg, c)
<1>1. p \in registered(in.path, encodeMsg(in.msg, in.kind), in.kind, c)
  BY CutNowhere
<1>2. decodeMsg(encodeMsg(in.msg, in.kind), in.kind) = { << in.msg >> }
  BY WholeDecodes
<1>3. PICK d \in { << in.msg >> } :
        p = IF d = << >> THEN Fails([kind |-> "other"]) ELSE run(in.path, d[1], c)
  BY <1>1, <1>2, Zenon DEF registered
<1>4. d # << >> /\ d[1] = in.msg
  BY <1>3
<1> QED
  BY <1>3, <1>4

LEMMA DirectPrograms ==
  ASSUME input \in Inputs, NEW p \in direct
  PROVE  /\ IsUnaryProgram(p)
         /\ \/ \E c \in contexts : p = run(input.path, input.msg, c)
            \/ /\ p = Fails(deadlineExceeded) /\ request.timeout
               /\ \E c \in contexts : run(input.path, input.msg, c).sleeps
<1>1. \/ \E c \in contexts : p = run(input.path, input.msg, c)
      \/ /\ p = Fails(deadlineExceeded) /\ request.timeout
         /\ \E c \in contexts : run(input.path, input.msg, c).sleeps
  BY Zenon DEF direct
<1>2. IsUnaryMethod(input.path)
  BY InputsAssumption
<1>3. IsUnaryProgram(Fails(deadlineExceeded))
  BY FailsWithCode, Zenon DEF deadlineExceeded
<1> QED
  BY <1>1, <1>2, <1>3, UnaryPrograms, Zenon

LEMMA DirectHas ==
  ASSUME NEW c \in contexts
  PROVE  /\ run(input.path, input.msg, c) \in direct
         /\ run(input.path, input.msg, c).sleeps /\ request.timeout => Fails(deadlineExceeded) \in direct
BY Zenon DEF direct

LEMMA SameDirect ==
  ASSUME UNCHANGED input, request'.timeout = request.timeout
  PROVE  direct' = direct
BY DEF direct, contexts

-----------------------------------------------------------------------------
(* The steps.                                                              *)

ProgramInv == UInv /\ SentInv /\ RestInv

LEMMA Handling ==
  ASSUME UInv, phase = "handler" \/ response # NoResponse \/ phase = "returned"
  PROVE  request # NoRequest
BY DEF UInv, FlowInv

LEMMA SendsRequest ==
  ASSUME NEW in \in Inputs, NEW d \in BOOLEAN, Calls(in, d)
  PROVE  /\ \E r \in Requests, e \in BOOLEAN : Send(r, e)
         /\ request' = Requested(in, d, full(in)) /\ input' = in
         /\ request = NoRequest /\ UNCHANGED << conn, phase, hdr, trl, whole, response, outcome, prog >>
<1>1. Send(requestFor(in), d) /\ input' = in /\ UNCHANGED prog
  BY Zenon DEF Calls
<1>2. requestFor(in) \in Requests
  BY ProgramsAssumption, Zenon
<1>3. request' = [requestFor(in) EXCEPT !.timeout = d]
  BY <1>1, Zenon DEF Send
<1>4. [requestFor(in) EXCEPT !.timeout = d] = Requested(in, d, full(in))
  BY SentInFull
<1>5. request = NoRequest /\ UNCHANGED << response, conn, whole, serverVars, reply >>
  BY <1>1, Zenon DEF Send
<1>6. UNCHANGED << conn, phase, hdr, trl, whole, response, outcome >>
  BY <1>5 DEF serverVars
<1> QED
  BY <1>1, <1>2, <1>3, <1>4, <1>5, <1>6, Zenon

\* What a program does is what some handler of UnaryCall does.
LEMMA ProgramStep ==
  ASSUME ProgramInv, [ProgramNext]_allVars
  PROVE  [Next]_vars
<1>1. ASSUME NEW in \in Inputs, NEW d \in BOOLEAN, Calls(in, d) PROVE Next
  <2>1. \E r \in Requests, e \in BOOLEAN : Send(r, e)
    BY <1>1, SendsRequest, Zenon
  <2> QED
    BY <2>1, Zenon DEF Next
<1>2. CASE Dispatched
  BY <1>2, Zenon DEF Dispatched, Next
<1>3. CASE Wakes
  BY <1>3, Zenon DEF Wakes
<1>4. CASE SetsHeader
  <2>1. SetHeader(Head(prog.headers)) /\ prog.headers # << >> /\ Within(prog, input.kind)
    BY <1>4, Zenon DEF SetsHeader, ProgramInv, RestInv
  <2>2. prog.headers \in Seq(HeaderKeys)
    BY <2>1, Zenon DEF Within
  <2>3. Head(prog.headers) \in HeaderKeys
    BY <2>1, <2>2
  <2> QED
    BY <2>1, <2>3, Zenon DEF Next
<1>5. CASE SetsTrailer
  <2>1. SetTrailer(Head(prog.trailers)) /\ prog.trailers # << >> /\ Within(prog, input.kind)
    BY <1>5, Zenon DEF SetsTrailer, ProgramInv, RestInv
  <2>2. prog.trailers \in Seq(TrailerKeys)
    BY <2>1, Zenon DEF Within
  <2>3. Head(prog.trailers) \in TrailerKeys
    BY <2>1, <2>2
  <2> QED
    BY <2>1, <2>3, Zenon DEF Next
<1>6. CASE Returns
  <2>1. phase = "handler" /\ Within(prog, input.kind)
    BY <1>6, Zenon DEF Returns, ProgramInv, RestInv
  <2>2. request # NoRequest
    BY <2>1, Handling DEF ProgramInv
  <2>3. PICK n : IsRequestFor(request, input, request.timeout, n)
    BY <2>2, ProgramRequest DEF ProgramInv
  <2>4. ContentKindOf(request.ctype) = input.kind
    <3>1. request.ctype = ContentTypeFor(FALSE, input.kind) /\ input \in Inputs
      BY <2>2, <2>3, ProgramRequest, Zenon DEF IsRequestFor, ProgramInv
    <3> QED
      BY <3>1, KindOfRequest
  <2>5. CASE prog.error # << >>
    <3>1. ReturnError(prog.error[1]) /\ prog.error[1] \in Errors
      BY <1>6, <2>1, <2>5, Zenon DEF Returns, Within
    <3> QED
      BY <3>1, Zenon DEF Next
  <2>6. CASE prog.error = << >>
    <3>1. ReturnMessage(asPayload(encodeMsg(prog.emits[1], input.kind)))
      BY <1>6, <2>4, <2>6, Zenon DEF Returns
    <3>2. asPayload(encodeMsg(prog.emits[1], input.kind)) \in Payloads
      BY <2>1, <2>6, Zenon DEF Within
    <3> QED
      BY <3>1, <3>2, Zenon DEF Next
  <2> QED
    BY <2>5, <2>6
<1>7. CASE UNCHANGED allVars
  <2>1. UNCHANGED vars
    BY <1>7 DEF allVars
  <2> QED
    BY <2>1
<1> QED
  BY <1>1, <1>2, <1>3, <1>4, <1>5, <1>6, <1>7, Zenon DEF ProgramNext, Next

LEMMA NextSentInv == ProgramInv /\ [ProgramNext]_allVars => SentInv'
<1> SUFFICES ASSUME ProgramInv, [ProgramNext]_allVars PROVE SentInv'
  OBVIOUS
<1>1. CASE UNCHANGED << request, whole, input >>
  BY <1>1 DEF ProgramInv, SentInv
<1>2. ASSUME NEW in \in Inputs, NEW d \in BOOLEAN, Calls(in, d) PROVE SentInv'
  <2>1. request' = Requested(in, d, full(in)) /\ input' = in
    BY <1>2, SendsRequest, Zenon
  <2>2. full(in) \in 0..full(in)
    BY FullIsNat
  <2> QED
    BY <2>1, <2>2, Zenon DEF SentInv
<1>3. CASE CutRequest /\ UNCHANGED input
  <2>1. PICK k \in 0..(request.body.extra - 1) :
          request' = [request EXCEPT !.body.extra = k, !.body.gzip = FALSE]
    BY <1>3, Zenon DEF CutRequest
  <2>2. request # NoRequest /\ whole' = FALSE /\ input' = input
    BY <1>3, Zenon DEF CutRequest
  <2>3. PICK n \in 0..full(input) : /\ IsRequestFor(request, input, request.timeout, n)
                                    /\ request = Requested(input, request.timeout, n)
    BY <2>2, ProgramRequest DEF ProgramInv
  <2>4. input \in Inputs /\ request.timeout \in BOOLEAN
    BY <2>2, ProgramRequest DEF ProgramInv
  <2>5. request.body.extra = n
    BY <2>3, Zenon DEF IsRequestFor
  <2>6. k \in 0..full(input)
    BY <2>1, <2>3, <2>4, <2>5, FullIsNat
  <2>7. request' = Requested(input, request.timeout, k)
    <3>1. PICK d, r, s : d = request.timeout /\ r = request /\ s = request'
      OBVIOUS
    <3>2. r = Requested(input, d, n) /\ CutTo(r, s, k)
      BY <2>1, <2>3, <3>1 DEF CutTo
    <3>3. s = Requested(input, d, k)
      BY <3>2, CutShorter, Zenon
    <3> QED
      BY <3>1, <3>3
  <2> QED
    BY <2>2, <2>4, <2>6, <2>7, Zenon DEF SentInv
<1>4. CASE Dispatched \/ Wakes \/ SetsHeader \/ SetsTrailer \/ Returns
  <2>1. UNCHANGED << request, whole, input >>
    <3>1. CASE Dispatched
      BY <3>1, Zenon DEF Dispatched, Serve
    <3>2. CASE Wakes
      <4>1. UNCHANGED << vars, input >>
        BY <3>2, Zenon DEF Wakes
      <4> QED
        BY <4>1 DEF vars
    <3>3. CASE SetsHeader \/ SetsTrailer
      BY <3>3, Zenon DEF SetsHeader, SetHeader, SetsTrailer, SetTrailer
    <3>4. CASE Returns
      BY <3>4, Zenon DEF Returns, ReturnError, ReturnMessage
    <3> QED
      BY <1>4, <3>1, <3>2, <3>3, <3>4
  <2> QED
    BY <1>1, <2>1
<1>5. CASE UNCHANGED allVars
  BY <1>1, <1>5 DEF allVars, vars
<1>6. CASE (SendReturns \/ SendFails \/ TimerExpires \/ Break \/ Done) /\ UNCHANGED << input, prog >>
  <2>1. UNCHANGED << request, whole, input >>
    BY <1>6 DEF SendReturns, SendFails, TimerExpires, Break, Done, vars
  <2> QED
    BY <1>1, <2>1
<1> QED
  BY <1>2, <1>3, <1>4, <1>5, <1>6, Zenon DEF ProgramNext

\* The rest of a program is that of a program that was run on all of the message, as long as
\* the connection holds.
LEMMA DispatchedRest == ProgramInv /\ Dispatched => RestInv'
<1> SUFFICES ASSUME ProgramInv, Dispatched PROVE RestInv'
  OBVIOUS
<1>1. /\ phase = "idle" /\ request # NoRequest /\ UNCHANGED << request, conn, whole, hdr, trl, input >>
      /\ phase' = "returned" \/ phase' = "handler"
  BY Zenon DEF Dispatched, Serve
<1>2. CASE phase' = "returned"
  BY <1>2 DEF RestInv
<1>3. CASE phase' = "handler"
  <2>1. PICK c \in contexts :
          prog' \in registered(request.path, arrivedBody, ContentKindOf(request.ctype), c)
    BY <1>3, Zenon DEF Dispatched
  <2>2. PICK h \in canonicalised(input.meta) : c = [headers |-> h, timeout |-> request.timeout]
    BY <2>1, Zenon DEF contexts
  <2>3. PICK n \in 0..full(input) : /\ IsRequestFor(request, input, request.timeout, n)
                                    /\ whole => n = full(input)
    BY <1>1, ProgramRequest DEF ProgramInv
  <2>4. input \in Inputs /\ request.timeout \in BOOLEAN
    BY <1>1, ProgramRequest DEF ProgramInv
  <2>5. request.path = input.path /\ request.ctype = ContentTypeFor(FALSE, input.kind)
        /\ request.body.extra = n
    BY <2>3, Zenon DEF IsRequestFor
  <2>6. arrivedBody = cut(input, n)
    BY <2>5, Zenon DEF arrivedBody, cut
  <2>7. ContentKindOf(request.ctype) = input.kind
    BY <2>4, <2>5, KindOfRequest
  <2>8. prog' \in registered(input.path, cut(input, n), input.kind, c)
    BY <2>1, <2>5, <2>6, <2>7, Zenon
  <2>9. prog' \in programsOf(input)
    BY <2>2, <2>4, <2>8, ProgramsHere
  <2>10. Within(prog', input'.kind)
    BY <1>1, <2>4, <2>9, ProgramsWithin, Zenon
  <2>11. ASSUME conn' = "up" PROVE \E p \in direct' : Rest(p)'
    <3>1. whole
      BY <1>1, <2>11 DEF ProgramInv, UInv, FlowInv
    <3>2. prog' = run(input.path, input.msg, c)
      BY <2>3, <2>8, <3>1, WholeRuns
    <3>3. prog' \in direct /\ direct' = direct
      BY <1>1, <2>1, <3>2, DirectHas, SameDirect, Zenon
    <3>4. hdr' = NoHeaders /\ trl' = NoHeaders
      BY <1>1 DEF ProgramInv, RestInv
    <3>5. PICK q : q = prog'
      OBVIOUS
    <3>6. /\ prog'.emits = q.emits /\ prog'.error = q.error /\ (prog'.sleeps => q.sleeps)
          /\ q.headers = << >> => prog'.headers = << >> /\ hdr' = NoHeaders
          /\ prog'.trailers = q.trailers /\ trl' = NoHeaders
      BY <3>4, <3>5, Zenon
    <3>7. Rest(q)'
      BY <3>6, Zenon DEF Rest
    <3> QED
      BY <3>3, <3>5, <3>7, Zenon
  <2> QED
    BY <1>3, <2>10, <2>11, Zenon DEF RestInv
<1> QED
  BY <1>1, <1>2, <1>3

\* One part of a program is another.
IsProgramOf(q, a, b, c, d, e) ==
  /\ IsProgram(q)
  /\ q.headers = a /\ q.trailers = b /\ q.emits = c /\ q.error = d /\ q.sleeps = e

LEMMA OtherPart ==
  ASSUME NEW p, IsProgram(p), NEW x, NEW q
  PROVE  /\ q = [p EXCEPT !.headers = x] =>
              IsProgramOf(q, x, p.trailers, p.emits, p.error, p.sleeps)
         /\ q = [p EXCEPT !.trailers = x] =>
              IsProgramOf(q, p.headers, x, p.emits, p.error, p.sleeps)
         /\ q = [p EXCEPT !.sleeps = x] =>
              IsProgramOf(q, p.headers, p.trailers, p.emits, p.error, x)
<1>1. PICK a, b, c, d, e : p = [headers |-> a, trailers |-> b, emits |-> c, error |-> d, sleeps |-> e]
  BY DEF IsProgram
<1>2. p.headers = a /\ p.trailers = b /\ p.emits = c /\ p.error = d /\ p.sleeps = e
  BY <1>1
<1>3. ASSUME q = [p EXCEPT !.headers = x]
      PROVE  q = [headers |-> x, trailers |-> b, emits |-> c, error |-> d, sleeps |-> e]
  BY <1>1, <1>3
<1>4. ASSUME q = [p EXCEPT !.trailers = x]
      PROVE  q = [headers |-> a, trailers |-> x, emits |-> c, error |-> d, sleeps |-> e]
  BY <1>1, <1>4
<1>5. ASSUME q = [p EXCEPT !.sleeps = x]
      PROVE  q = [headers |-> a, trailers |-> b, emits |-> c, error |-> d, sleeps |-> x]
  BY <1>1, <1>5
<1>6. ASSUME NEW u, NEW v, NEW w, NEW y, NEW z,
             q = [headers |-> u, trailers |-> v, emits |-> w, error |-> y, sleeps |-> z]
      PROVE  IsProgramOf(q, u, v, w, y, z)
  BY <1>6 DEF IsProgram, IsProgramOf
<1> QED
  BY <1>2, <1>3, <1>4, <1>5, <1>6, Zenon

\* Steps that change one part of the program.
ProgramBecomes(a, b, c) == IsProgramOf(prog', a, b, prog.emits, prog.error, c)

LEMMA Losing ==
  ASSUME IsProgram(prog), NEW x
  PROVE  /\ prog' = [prog EXCEPT !.headers = x] => ProgramBecomes(x, prog.trailers, prog.sleeps)
         /\ prog' = [prog EXCEPT !.trailers = x] => ProgramBecomes(prog.headers, x, prog.sleeps)
         /\ prog' = [prog EXCEPT !.sleeps = x] => ProgramBecomes(prog.headers, prog.trailers, x)
<1>1. PICK p, q : p = prog /\ q = prog'
  OBVIOUS
<1>2. IsProgram(p)
  BY <1>1
<1>3. /\ q = [p EXCEPT !.headers = x] =>
              IsProgramOf(q, x, p.trailers, p.emits, p.error, p.sleeps)
      /\ q = [p EXCEPT !.trailers = x] =>
              IsProgramOf(q, p.headers, x, p.emits, p.error, p.sleeps)
      /\ q = [p EXCEPT !.sleeps = x] =>
              IsProgramOf(q, p.headers, p.trailers, p.emits, p.error, x)
  BY <1>2, OtherPart
<1> QED
  BY <1>1, <1>3, Zenon DEF ProgramBecomes

\* Steps that leave program and handler alone.
LEMMA RestQuiet ==
  ASSUME ProgramInv, UNCHANGED << input, prog, hdr, trl >>,
         phase' = phase \/ phase' = "returned",
         conn' = conn \/ conn' = "down",
         request'.timeout = request.timeout \/ phase = "idle"
  PROVE  RestInv'
<1>1. phase' = "idle" => hdr' = NoHeaders /\ trl' = NoHeaders
  BY DEF ProgramInv, RestInv
<1>2. ASSUME phase' = "handler"
      PROVE  Within(prog', input'.kind) /\ (conn' = "up" => \E p \in direct' : Rest(p)')
  <2>1. phase = "handler" /\ request'.timeout = request.timeout
    BY <1>2
  <2>2. direct' = direct
    BY <2>1, SameDirect, Zenon
  <2>3. \A p : Rest(p) => Rest(p)'
    BY DEF Rest
  <2>4. Within(prog, input.kind) /\ (conn = "up" => \E p \in direct : Rest(p))
    BY <2>1 DEF ProgramInv, RestInv
  <2>5. conn' = "up" => conn = "up"
    OBVIOUS
  <2>6. Within(prog', input'.kind)
    BY <2>4
  <2> QED
    BY <2>2, <2>3, <2>4, <2>5, <2>6, Zenon
<1> QED
  BY <1>1, <1>2, Zenon DEF RestInv

\* Steps of the program.
LEMMA RestRuns ==
  ASSUME phase = "handler", phase' = "handler", UNCHANGED << input, conn, request >>,
         Within(prog', input.kind),
         conn = "up" => \E p \in direct : Rest(p)'
  PROVE  RestInv'
<1>1. direct' = direct
  BY SameDirect
<1>2. phase' # "idle"
  OBVIOUS
<1> QED
  BY <1>1, <1>2, Zenon DEF RestInv

LEMMA WakesRest == ProgramInv /\ Wakes => RestInv'
<1> SUFFICES ASSUME ProgramInv, Wakes PROVE RestInv'
  OBVIOUS
<1>1. phase = "handler" /\ prog.sleeps /\ UNCHANGED << vars, input >>
  BY Zenon DEF Wakes
<1>2. UNCHANGED << phase, conn, request, hdr, trl, input >>
  BY <1>1 DEF vars, serverVars
<1>3. Within(prog, input.kind) /\ (conn = "up" => \E p \in direct : Rest(p))
  BY <1>1, Zenon DEF ProgramInv, RestInv
<1>4. request # NoRequest
  BY <1>1, Handling DEF ProgramInv
<1>5. input \in Inputs
  BY <1>4, ProgramRequest DEF ProgramInv
<1>6. CASE prog' = [prog EXCEPT !.sleeps = FALSE]
  <2>1. IsProgram(prog)
    BY <1>3, Zenon DEF Within
  <2>2. ProgramBecomes(prog.headers, prog.trailers, FALSE)
    BY <1>6, <2>1, Losing
  <2>3. /\ IsProgram(prog') /\ prog'.emits = prog.emits /\ prog'.error = prog.error
        /\ prog'.headers = prog.headers /\ prog'.trailers = prog.trailers /\ ~prog'.sleeps
    BY <2>2, Zenon DEF ProgramBecomes, IsProgramOf
  <2>4. Within(prog', input.kind)
    BY <1>3, <2>3, Zenon DEF Within
  <2>5. \A p : Rest(p) => Rest(p)'
    BY <1>2, <2>3, Zenon DEF Rest
  <2> QED
    BY <1>1, <1>2, <1>3, <2>4, <2>5, RestRuns, Zenon
<1>7. CASE prog' = Fails(deadlineExceeded) /\ (request.timeout \/ conn = "down")
  <2>1. Within(prog', input.kind)
    BY <1>5, <1>7, ProgramsHere, ProgramsWithin, Zenon
  <2>2. ASSUME conn = "up" PROVE \E p \in direct : Rest(p)'
    <3>1. PICK p \in direct : Rest(p)
      BY <1>3, <2>2
    <3>2. request.timeout
      BY <1>7, <2>2
    <3>3. p.sleeps /\ (p.headers = << >> => hdr = NoHeaders)
      BY <1>1, <3>1, Zenon DEF Rest
    <3>4. IsUnaryProgram(p)
      BY <1>5, DirectPrograms
    <3>5. hdr = NoHeaders
      BY <3>3, <3>4, Zenon DEF IsUnaryProgram
    <3>6. Fails(deadlineExceeded) \in direct
      <4>1. CASE p = Fails(deadlineExceeded)
        BY <4>1
      <4>2. CASE p # Fails(deadlineExceeded)
        <5>1. PICK c \in contexts : p = run(input.path, input.msg, c)
          BY <1>5, <4>2, DirectPrograms, Zenon
        <5> QED
          BY <3>2, <3>3, <5>1, DirectHas, Zenon
      <4> QED
        BY <4>1, <4>2
    <3>7. PICK q : q = Fails(deadlineExceeded)
      OBVIOUS
    <3>8. q.headers = << >> /\ q.trailers = << >>
      BY <3>7, FailsIsProgram, Zenon
    <3>9. Len(q.trailers) # 1
      BY <3>8
    <3>10. Rest(q)'
      BY <1>2, <1>7, <3>5, <3>7, <3>8, <3>9, Zenon DEF Rest
    <3> QED
      BY <3>6, <3>7, <3>10
  <2> QED
    BY <1>1, <1>2, <2>1, <2>2, RestRuns, Zenon
<1> QED
  BY <1>6, <1>7, Zenon DEF Wakes

LEMMA SetsRest == ProgramInv /\ (SetsHeader \/ SetsTrailer) => RestInv'
<1> SUFFICES ASSUME ProgramInv, SetsHeader \/ SetsTrailer PROVE RestInv'
  OBVIOUS
<1>1. phase = "handler" /\ UNCHANGED << phase, conn, request, input >>
  BY Zenon DEF SetsHeader, SetHeader, SetsTrailer, SetTrailer
<1>2. Within(prog, input.kind) /\ (conn = "up" => \E p \in direct : Rest(p))
  BY <1>1, Zenon DEF ProgramInv, RestInv
<1>3. IsProgram(prog) /\ prog.headers \in Seq(HeaderKeys) /\ prog.trailers \in Seq(TrailerKeys)
  BY <1>2, Zenon DEF Within
<1>4. CASE SetsHeader
  <2>1. /\ prog.headers # << >> /\ prog' = [prog EXCEPT !.headers = Tail(prog.headers)]
        /\ UNCHANGED trl
    BY <1>4, Zenon DEF SetsHeader, SetHeader
  <2>2. ProgramBecomes(Tail(prog.headers), prog.trailers, prog.sleeps)
    BY <1>3, <2>1, Losing
  <2>3. /\ IsProgram(prog') /\ prog'.emits = prog.emits /\ prog'.error = prog.error
        /\ prog'.headers = Tail(prog.headers) /\ prog'.trailers = prog.trailers
        /\ prog'.sleeps = prog.sleeps
    BY <2>2, Zenon DEF ProgramBecomes, IsProgramOf
  <2>4. Tail(prog.headers) \in Seq(HeaderKeys)
    BY <1>3, <2>1
  <2>5. Within(prog', input.kind)
    BY <1>2, <2>3, <2>4, Zenon DEF Within
  <2>6. \A p : Rest(p) => Rest(p)'
    BY <2>1, <2>3, Zenon DEF Rest
  <2> QED
    BY <1>1, <1>2, <2>5, <2>6, RestRuns, Zenon
<1>5. CASE SetsTrailer
  <2>1. /\ prog.headers = << >> /\ prog.trailers # << >>
        /\ prog' = [prog EXCEPT !.trailers = Tail(prog.trailers)]
        /\ UNCHANGED hdr /\ trl' = accumulate(trl, Head(prog.trailers), nextValue)
    BY <1>5, Zenon DEF SetsTrailer, SetTrailer
  <2>2. ProgramBecomes(prog.headers, Tail(prog.trailers), prog.sleeps)
    BY <1>3, <2>1, Losing
  <2>3. /\ IsProgram(prog') /\ prog'.emits = prog.emits /\ prog'.error = prog.error
        /\ prog'.trailers = Tail(prog.trailers) /\ prog'.headers = prog.headers
        /\ prog'.sleeps = prog.sleeps
    BY <2>2, Zenon DEF ProgramBecomes, IsProgramOf
  <2>4. Tail(prog.trailers) \in Seq(TrailerKeys)
    BY <1>3, <2>1
  <2>5. Within(prog', input.kind)
    BY <1>2, <2>3, <2>4, Zenon DEF Within
  <2>6. ASSUME NEW p, Rest(p) PROVE Rest(p)'
    <3>1. CASE Len(p.trailers) = 1
      <4>1. prog.trailers = p.trailers /\ trl = NoHeaders
        BY <2>1, <2>6, <3>1, Zenon DEF Rest
      <4>2. PICK t, k, v, one : /\ t = prog.trailers /\ k = t[1] /\ v = nextValue /\ one = << v >>
        OBVIOUS
      <4>3. t \in Seq(TrailerKeys) /\ Len(t) = 1
        BY <1>3, <3>1, <4>1, <4>2
      <4>4. Head(t) = k /\ Tail(t) = << >>
        <5>1. Head(t) = k /\ Tail(t) \in Seq(TrailerKeys) /\ Len(Tail(t)) = 0
          BY <4>2, <4>3
        <5>2. PICK r : r = Tail(t)
          OBVIOUS
        <5>3. r = << >>
          BY <5>1, <5>2
        <5> QED
          BY <5>1, <5>2, <5>3
      <4>5. trl' = [j \in {k} |-> one]
        <5>1. trl' = accumulate(NoHeaders, k, v)
          BY <2>1, <4>1, <4>2, <4>4
        <5>2. DOMAIN NoHeaders = {}
          BY NothingHeld
        <5>3. values(NoHeaders, k) = << >>
          BY <5>2 DEF values
        <5>4. DOMAIN NoHeaders \cup {k} = {k} /\ Append(values(NoHeaders, k), v) = one
          BY <4>2, <5>2, <5>3
        <5> QED
          BY <5>1, <5>4 DEF accumulate
      <4>6. prog'.trailers = << >> /\ trl' = [j \in {p.trailers[1]} |-> << v >>]
        BY <2>3, <4>1, <4>2, <4>4, <4>5
      <4> QED
        BY <2>1, <2>3, <2>6, <4>6, Zenon DEF Rest
    <3>2. CASE Len(p.trailers) # 1
      BY <2>1, <2>3, <2>6, <3>2, Zenon DEF Rest
    <3> QED
      BY <3>1, <3>2
  <2> QED
    BY <1>1, <1>2, <2>5, <2>6, RestRuns, Zenon
<1> QED
  BY <1>4, <1>5

LEMMA NextRestInv == ProgramInv /\ [ProgramNext]_allVars => RestInv'
<1> SUFFICES ASSUME ProgramInv, [ProgramNext]_allVars PROVE RestInv'
  OBVIOUS
<1> DEFINE Still == /\ UNCHANGED << input, prog, hdr, trl >> /\ (phase' = phase \/ phase' = "returned")
                    /\ (conn' = conn \/ conn' = "down")
                    /\ (request'.timeout = request.timeout \/ phase = "idle")
<1>1. ASSUME Still PROVE RestInv'
  BY <1>1, RestQuiet
<1> HIDE DEF Still
<1>2. ASSUME NEW in \in Inputs, NEW d \in BOOLEAN, Calls(in, d) PROVE RestInv'
  <2>1. request = NoRequest /\ UNCHANGED << conn, phase, hdr, trl, prog >>
    BY <1>2, SendsRequest, Zenon
  <2>2. phase = "idle"
    BY <2>1 DEF ProgramInv, UInv, FlowInv
  <2>3. phase' = "idle" /\ hdr' = NoHeaders /\ trl' = NoHeaders
    BY <2>1, <2>2 DEF ProgramInv, RestInv
  <2> QED
    BY <2>3 DEF RestInv
<1>3. CASE Returns
  <2>1. phase' = "returned"
    BY <1>3, Zenon DEF Returns, ReturnError, ReturnMessage
  <2> QED
    BY <2>1 DEF RestInv
<1>4. CASE UNCHANGED allVars
  <2>1. UNCHANGED << vars, input, prog >>
    BY <1>4 DEF allVars
  <2>2. Still
    BY <2>1 DEF vars, serverVars, Still
  <2> QED
    BY <1>1, <2>2
<1>5. CASE (SendReturns \/ SendFails \/ TimerExpires \/ Break \/ CutRequest \/ Done)
             /\ UNCHANGED << input, prog >>
  <2>1. CASE SendReturns \/ SendFails
    <3>1. UNCHANGED << request, conn, serverVars >>
      BY <2>1, Zenon DEF SendReturns, SendFails
    <3> QED
      BY <1>1, <1>5, <3>1 DEF serverVars, Still
  <2>2. CASE TimerExpires \/ Break
    <3>1. UNCHANGED << request, serverVars >> /\ conn' = "down"
      BY <2>2, Zenon DEF TimerExpires, Break
    <3> QED
      BY <1>1, <1>5, <3>1 DEF serverVars, Still
  <2>3. CASE CutRequest
    <3>1. UNCHANGED serverVars /\ conn' = "down" /\ phase = "idle"
      BY <2>3, Zenon DEF CutRequest
    <3> QED
      BY <1>1, <1>5, <3>1 DEF serverVars, Still
  <2>4. CASE Done
    <3>1. UNCHANGED vars
      BY <2>4, Zenon DEF Done
    <3> QED
      BY <1>1, <1>5, <3>1 DEF vars, serverVars, Still
  <2> QED
    BY <1>5, <2>1, <2>2, <2>3, <2>4
<1> QED
  BY <1>2, <1>3, <1>4, <1>5, DispatchedRest, WakesRest, SetsRest, Zenon DEF ProgramNext

LEMMA InitProgramInv == ProgramInit => ProgramInv
<1> SUFFICES ASSUME ProgramInit PROVE ProgramInv
  OBVIOUS
<1>1. Init
  BY Zenon DEF ProgramInit
<1>2. UInv
  BY <1>1, InitUInv
<1>3. request = NoRequest /\ whole /\ phase = "idle" /\ hdr = NoHeaders /\ trl = NoHeaders
  BY <1>1 DEF Init
<1>4. SentInv /\ RestInv
  BY <1>3 DEF SentInv, RestInv
<1> QED
  BY <1>2, <1>4 DEF ProgramInv

LEMMA NextProgramInv == ProgramInv /\ [ProgramNext]_allVars => ProgramInv'
<1>1. ASSUME ProgramInv, [ProgramNext]_allVars PROVE UInv'
  BY <1>1, ProgramStep, NextUInv DEF ProgramInv
<1> QED
  BY <1>1, NextSentInv, NextRestInv DEF ProgramInv

LEMMA ProgramInvHolds == ProgramSpec => []ProgramInv
BY InitProgramInv, NextProgramInv, PTL DEF ProgramSpec

\* A conformance method is one of the handlers UnaryCall allows, so that every property of a
\* unary call is one of the conformance programs' calls as well.
THEOREM ProgramsAreHandlers == ProgramSpec => Spec
<1>1. ProgramInit => Init
  BY Zenon DEF ProgramInit
<1> QED
  BY <1>1, ProgramInvHolds, ProgramStep, PTL DEF ProgramSpec, Spec

-----------------------------------------------------------------------------
(* What the server answers is what the method gives.                       *)

\* Before the server answers there is no response, since nobody answers in its place.
LEMMA NoEarlyResponse ==
  ASSUME UInv, AnswerInv, phase # "returned"
  PROVE  response = NoResponse
<1>1. outcome = << >>
  BY DEF UInv, FlowInv
<1>2. \A p : ~Answered(p)
  BY <1>1, Zenon DEF Answered
<1> QED
  BY <1>2, Zenon DEF AnswerInv

LEMMA AnswerQuiet ==
  ASSUME AnswerInv, UNCHANGED << input, outcome >>, request'.timeout = request.timeout,
         response' = response \/ response' = NoResponse
  PROVE  AnswerInv'
<1>1. \A p : Answered(p) => Answered(p)'
  BY Zenon DEF Answered
<1>2. direct' = direct
  BY SameDirect
<1>3. response' # NoResponse => response # NoResponse
  OBVIOUS
<1> QED
  BY <1>1, <1>2, <1>3, Zenon DEF AnswerInv

LEMMA ReturnsAnswer == ProgramInv /\ AnswerInv /\ Returns => AnswerInv'
<1> SUFFICES ASSUME ProgramInv, AnswerInv, Returns, response' # NoResponse
             PROVE  \E p \in direct' : Answered(p)'
  BY Zenon DEF AnswerInv
<1>1. /\ phase = "handler" /\ prog.headers = << >> /\ prog.trailers = << >>
      /\ UNCHANGED << request, input >>
  BY Zenon DEF Returns, ReturnError, ReturnMessage
<1>2. response = NoResponse
  BY <1>1, NoEarlyResponse DEF ProgramInv
<1>3. conn = "up"
  <2>1. \E r : respond(r)
    BY Zenon DEF Returns, ReturnError, ReturnMessage
  <2> QED
    BY <1>2, <2>1 DEF respond
<1>4. PICK p \in direct : Rest(p)
  BY <1>1, <1>3, Zenon DEF ProgramInv, RestInv
<1>5. /\ prog.emits = p.emits /\ prog.error = p.error
      /\ p.headers = << >> => hdr = NoHeaders
      /\ Len(p.trailers) = 1 =>
           \/ prog.trailers = p.trailers /\ trl = NoHeaders
           \/ prog.trailers = << >> /\ \E x : trl = [k \in {p.trailers[1]} |-> << x >>]
  BY <1>4, Zenon DEF Rest
<1>6. Len(p.trailers) = 1 => \E x : trl = [k \in {p.trailers[1]} |-> << x >>]
  <2>1. ASSUME Len(p.trailers) = 1 PROVE p.trailers # << >>
    BY <2>1
  <2> QED
    BY <1>1, <1>5, <2>1, Zenon
<1>7. request # NoRequest
  BY <1>1, Handling DEF ProgramInv
<1>8. input \in Inputs
  BY <1>7, ProgramRequest DEF ProgramInv
<1>9. PICK n : IsRequestFor(request, input, request.timeout, n)
  BY <1>7, ProgramRequest DEF ProgramInv
<1>10. ContentKindOf(request.ctype) = input.kind
  <2>1. request.ctype = ContentTypeFor(FALSE, input.kind)
    BY <1>9, Zenon DEF IsRequestFor
  <2> QED
    BY <1>8, <2>1, KindOfRequest
<1>11. direct' = direct
  BY <1>1, SameDirect
<1>12. IsUnaryProgram(p)
  BY <1>8, DirectPrograms
<1>13. CASE p.error # << >>
  <2>1. PICK code, details : p.error = << RPCError(code, details) >>
    BY <1>12, <1>13, Zenon DEF IsUnaryProgram
  <2>2. PICK e : e = p.error[1]
    OBVIOUS
  <2>3. e = RPCError(code, details)
    BY <2>1, <2>2
  <2>4. e.kind = "rpc" /\ e.code = code /\ e.details = details
    BY <2>3 DEF RPCError
  <2>5. asRPCError(e).code = e.code /\ asRPCError(e).details = e.details
    BY <2>4 DEF asRPCError
  <2>6. outcome' = << Failed(asRPCError(e).code, asRPCError(e).details) >>
    BY <1>5, <1>13, <2>2, Zenon DEF Returns, ReturnError
  <2>7. PICK o : o = Failed(e.code, e.details)
    OBVIOUS
  <2>8. /\ o.kind = "error" /\ o.code = e.code /\ o.details = e.details
        /\ o.trailers = trl /\ o.headers = hdr
    BY <2>7 DEF Failed
  <2>9. outcome' # << >> /\ outcome'[1] = o
    BY <2>5, <2>6, <2>7
  <2>10. Answered(p)'
    BY <1>1, <1>5, <1>6, <1>13, <2>2, <2>8, <2>9, Zenon DEF Answered
  <2> QED
    BY <1>11, <2>10, Zenon
<1>14. CASE p.error = << >>
  <2>1. PICK m : m = asPayload(encodeMsg(p.emits[1], input.kind))
    OBVIOUS
  <2>2. outcome' = << Ok(m) >>
    BY <1>5, <1>10, <1>14, <2>1, Zenon DEF Returns, ReturnMessage
  <2>3. PICK o : o = Ok(m)
    OBVIOUS
  <2>4. o.kind = "ok" /\ o.payload = m /\ o.trailers = trl /\ o.headers = hdr
    BY <2>3 DEF Ok
  <2>5. outcome' # << >> /\ outcome'[1] = o
    BY <2>2, <2>3
  <2>6. Answered(p)'
    BY <1>1, <1>5, <1>6, <1>14, <2>1, <2>4, <2>5, Zenon DEF Answered
  <2> QED
    BY <1>11, <2>6, Zenon
<1> QED
  BY <1>13, <1>14

LEMMA NextAnswerInv == ProgramInv /\ AnswerInv /\ [ProgramNext]_allVars => AnswerInv'
<1> SUFFICES ASSUME ProgramInv, AnswerInv, [ProgramNext]_allVars PROVE AnswerInv'
  OBVIOUS
<1>1. ASSUME response = NoResponse, UNCHANGED response PROVE AnswerInv'
  BY <1>1, Zenon DEF AnswerInv
<1>2. ASSUME NEW in \in Inputs, NEW d \in BOOLEAN, Calls(in, d) PROVE AnswerInv'
  <2>1. request = NoRequest /\ UNCHANGED response
    BY <1>2, SendsRequest, Zenon
  <2> QED
    BY <1>1, <2>1 DEF ProgramInv, UInv, FlowInv
<1>3. CASE Dispatched
  <2>1. phase = "idle" /\ request # NoRequest
    BY <1>3, Zenon DEF Dispatched, Serve
  <2>2. PICK n \in 0..full(input) : request = Requested(input, request.timeout, n)
    BY <2>1, ProgramRequest DEF ProgramInv
  <2>3. input \in Inputs
    BY <2>1, ProgramRequest DEF ProgramInv
  <2>4. Negotiate(request) = runHandler
    BY <2>2, <2>3, Handled, Zenon
  <2>5. Negotiate(request).to # "http"
    BY <2>4 DEF runHandler
  <2>6. UNCHANGED response
    BY <1>3, <2>5, Zenon DEF Dispatched, Serve
  <2> QED
    BY <1>1, <2>1, <2>6, NoEarlyResponse DEF ProgramInv
<1>4. CASE Wakes \/ SetsHeader \/ SetsTrailer
  <2>1. UNCHANGED response /\ phase = "handler"
    <3>1. CASE Wakes
      <4>1. UNCHANGED vars /\ phase = "handler"
        BY <3>1, Zenon DEF Wakes
      <4> QED
        BY <4>1 DEF vars
    <3>2. CASE SetsHeader \/ SetsTrailer
      BY <3>2, Zenon DEF SetsHeader, SetHeader, SetsTrailer, SetTrailer
    <3> QED
      BY <1>4, <3>1, <3>2
  <2> QED
    BY <1>1, <2>1, NoEarlyResponse DEF ProgramInv
<1>5. CASE UNCHANGED allVars
  <2>1. UNCHANGED << vars, input >>
    BY <1>5 DEF allVars
  <2>2. UNCHANGED << input, outcome, request, response >>
    BY <2>1 DEF vars, serverVars
  <2> QED
    BY <2>2, AnswerQuiet
<1>6. CASE (SendReturns \/ SendFails \/ TimerExpires \/ Break \/ CutRequest \/ Done)
             /\ UNCHANGED << input, prog >>
  <2>1. CASE SendReturns \/ SendFails \/ TimerExpires \/ Break
    <3>1. UNCHANGED << request, serverVars >> /\ (response' = response \/ response' = NoResponse)
      <4>1. response' \in {response, NoResponse} \/ response' = response
        BY <2>1, Zenon DEF SendReturns, SendFails, TimerExpires, Break
      <4>2. UNCHANGED << request, serverVars >>
        BY <2>1, Zenon DEF SendReturns, SendFails, TimerExpires, Break
      <4> QED
        BY <4>1, <4>2
    <3> QED
      BY <1>6, <3>1, AnswerQuiet DEF serverVars
  <2>2. CASE CutRequest
    <3>1. UNCHANGED response /\ phase = "idle"
      BY <2>2, Zenon DEF CutRequest
    <3> QED
      BY <1>1, <3>1, NoEarlyResponse DEF ProgramInv
  <2>3. CASE Done
    <3>1. UNCHANGED vars
      BY <2>3, Zenon DEF Done
    <3> QED
      BY <1>6, <3>1, AnswerQuiet DEF vars, serverVars
  <2> QED
    BY <1>6, <2>1, <2>2, <2>3
<1> QED
  BY <1>2, <1>3, <1>4, <1>5, <1>6, ReturnsAnswer, Zenon DEF ProgramNext

LEMMA AnswersHold == ProgramSpec => []AnswerInv
<1>1. ProgramInit => AnswerInv
  <2> SUFFICES ASSUME ProgramInit PROVE AnswerInv
    OBVIOUS
  <2>1. response = NoResponse
    BY Zenon DEF ProgramInit, Init
  <2> QED
    BY <2>1, Zenon DEF AnswerInv
<1> QED
  BY <1>1, NextAnswerInv, ProgramInvHolds, PTL DEF ProgramSpec

-----------------------------------------------------------------------------
(* What the caller of a method gets.                                       *)

\* The caller has what p says: its message, or its error to the code and the details.
Gets(p) ==
  IF p.error = << >> THEN Succeeded /\ stubResult = p.emits
  ELSE /\ stubResult = << >> /\ ~Succeeded
       /\ outcome[1].code = p.error[1].code
       /\ ErrorSeen.code = WireCode(p.error[1].code)
       /\ ErrorSeen.details = IF p.error[1].code = 0 THEN << >>
                              ELSE representable(p.error[1].details)

\* A message of a program is plain.
LEMMA PayloadIs ==
  ASSUME NEW b, NEW p, p = asPayload(b)
  PROVE  IsPlain(p) /\ p.id = b
BY DEF asPayload, IsPlain

LEMMA Getting ==
  ASSUME UInv, ErrorIsExact, input \in Inputs, AnswerInv, ByServer
  PROVE  \E p \in direct : Answered(p) /\ IsUnaryProgram(p) /\ Gets(p)
<1>1. /\ Settled /\ response.body.form # "text" /\ response # NoResponse /\ FromServer(response)
      /\ reply[1].body = decodedBody(response) /\ reply[1].error = responseError(response)
  <2>1. Settled /\ response.body.form # "text"
    BY Zenon DEF ByServer
  <2>2. /\ response # NoResponse /\ (Intermediary(response) \/ FromServer(response))
        /\ reply[1].body = decodedBody(response) /\ reply[1].error = responseError(response)
    BY <2>1, SettledReply, Zenon
  <2>3. ~Intermediary(response)
    <3>1. ASSUME Intermediary(response) PROVE FALSE
      <4>1. response.body = [form |-> "text"]
        BY <3>1, Zenon DEF Intermediary
      <4>2. response.body.form = "text"
        BY <4>1
      <4> QED
        BY <2>1, <4>2
    <3> QED
      BY <3>1
  <2> QED
    BY <2>1, <2>2, <2>3, Zenon
<1>2. PICK p \in direct : Answered(p)
  BY <1>1, Zenon DEF AnswerInv
<1>3. IsUnaryProgram(p)
  BY DirectPrograms
<1>4. CASE p.error = << >>
  <2>1. outcome[1].kind = "ok" /\ outcome[1].payload = asPayload(encodeMsg(p.emits[1], input.kind))
    BY <1>2, <1>4, Zenon DEF Answered
  <2>2. "ok" # "error"
    OBVIOUS
  <2>3. CarriesMessage(response, outcome[1].payload)
    BY <1>1, <2>1, <2>2, Zenon DEF FromServer
  <2>4. responseError(response) = << >>
    <3>1. response.status = 200
      BY <2>3, Zenon DEF CarriesMessage
    <3>2. response.status < 300
      BY <3>1
    <3> QED
      BY <3>2, Zenon DEF responseError
  <2>5. Succeeded
    BY <1>1, <2>4, Zenon DEF Succeeded
  <2>6. PICK b, w : b = encodeMsg(p.emits[1], input.kind) /\ w = asPayload(b)
    OBVIOUS
  <2>7. IsPlain(w) /\ w.id = b
    BY <2>6, PayloadIs
  <2>8. reply[1].body = Message(w)
    BY <1>1, <2>1, <2>3, <2>6, <2>7, MessageRead, Zenon
  <2>9. reply[1].body.payload = w
    BY <2>8 DEF Message
  <2>10. decodeMsg(b, input.kind) = { << p.emits[1] >> }
    BY <2>6, WholeDecodes, Zenon
  <2>11. p.emits = << p.emits[1] >>
    <3>1. \A e : << e >> # << >>
      OBVIOUS
    <3>2. PICK m : p.emits = << m >>
      BY <1>3, <1>4, <3>1, Zenon DEF IsUnaryProgram
    <3> QED
      BY <3>2
  <2>12. stubResult = CHOOSE d \in { << p.emits[1] >> } : TRUE
    BY <2>5, <2>7, <2>9, <2>10, Zenon DEF stubResult
  <2>13. stubResult = p.emits
    BY <2>11, <2>12
  <2> QED
    BY <1>2, <1>3, <1>4, <2>5, <2>13, Zenon DEF Gets
<1>5. CASE p.error # << >>
  <2>1. /\ outcome[1].kind = "error" /\ outcome[1].code = p.error[1].code
        /\ outcome[1].details = p.error[1].details
    BY <1>2, <1>5, Zenon DEF Answered
  <2>2. "ok" # "error"
    OBVIOUS
  <2>3. CarriesError(response, outcome[1].code, outcome[1].details)
    BY <1>1, <2>1, <2>2, Zenon DEF FromServer
  <2>4. response.status \in Nat /\ response.status >= 400
    BY <2>3, Zenon DEF CarriesError
  <2>5. ~(response.status < 300)
    BY <2>4
  <2>6. responseError(response) # << >>
    <3>1. \A e : << e >> # << >>
      OBVIOUS
    <3> QED
      BY <2>5, <3>1, Zenon DEF responseError
  <2>7. ~Succeeded
    BY <1>1, <2>6, Zenon DEF Succeeded
  <2>8. stubResult = << >>
    BY <2>7, Zenon DEF stubResult
  <2>9. /\ ErrorSeen.code = WireCode(outcome[1].code)
        /\ ErrorSeen.details = IF outcome[1].code = 0 THEN << >> ELSE representable(outcome[1].details)
    BY <1>1, <2>7, Zenon DEF ErrorIsExact
  <2> QED
    BY <1>2, <1>3, <1>5, <2>1, <2>7, <2>8, <2>9, Zenon DEF Gets
<1> QED
  BY <1>4, <1>5

\* A reply of the server is to a call of the inputs.
LEMMA Called ==
  ASSUME ProgramInv, ByServer
  PROVE  input \in Inputs
<1>1. Settled
  BY Zenon DEF ByServer
<1>2. response # NoResponse
  BY <1>1, SettledReply, Zenon DEF ProgramInv
<1> QED
  BY <1>2, Handling, ProgramRequest DEF ProgramInv

LEMMA GettingHolds ==
  ProgramSpec => [](ByServer => \E p \in direct : Answered(p) /\ IsUnaryProgram(p) /\ Gets(p))
<1>1. ProgramInv /\ AnswerInv /\ ErrorIsExact
        => (ByServer => \E p \in direct : Answered(p) /\ IsUnaryProgram(p) /\ Gets(p))
  BY Getting, Called DEF ProgramInv
<1> QED
  BY <1>1, ProgramInvHolds, AnswersHold, ProgramsAreHandlers, ErrorsAreExact, PTL

\* Whatever response of a conformance server arrives, the stub makes of it the message or
\* the error, to its code and its details, that the method gives for the client's own request
\* (AnswersAsProgrammed): the generated code of both sides, the codecs and Send lose nothing
\* on the way, and bytes that arrived in part are never behind an answer.
THEOREM AnswersAreAsProgrammed == ProgramSpec => []AnswersAsProgrammed
<1>1. (ByServer => \E p \in direct : Answered(p) /\ IsUnaryProgram(p) /\ Gets(p)) => AnswersAsProgrammed
  BY Zenon DEF Gets, AnswersAsProgrammed
<1> QED
  BY <1>1, GettingHolds, PTL

-----------------------------------------------------------------------------
(* The request info.                                                       *)

GivesInfo(p, info) ==
  \/ p.error = << >> /\ \E m : p.emits = << m >> /\ m.payload[1].requestInfo = << info >>
  \/ \E code, ds : p.error = << RPCError(code, ds) >> /\ infosIn(representable(ds)) = << info >>

LEMMA RespondsInfo ==
  ASSUME NEW data, NEW info, NEW m, m.payload = << ConformancePayload(data, << info >>) >>
  PROVE  GivesInfo(Responds(m), info)
<1>1. m.payload[1] = ConformancePayload(data, << info >>)
  OBVIOUS
<1>2. PICK one : one = << info >>
  OBVIOUS
<1>3. m.payload[1].requestInfo = one
  BY <1>1, <1>2 DEF ConformancePayload
<1> QED
  BY <1>2, <1>3, RespondsIsProgram, Zenon DEF GivesInfo

LEMMA InfoAlike ==
  ASSUME NEW p, NEW q, NEW info, AnswersAlike(q, p), GivesInfo(p, info)
  PROVE  GivesInfo(q, info)
BY Zenon DEF AnswersAlike, GivesInfo

LEMMA InfoGiven ==
  ASSUME NEW in \in Inputs, in.path \in {"Unary", "IdempotentUnary"}, NEW c
  PROVE  /\ run(in.path, in.msg, c).sleeps = FALSE
         /\ GivesInfo(run(in.path, in.msg, c), requestInfo(in.msg, c))
<1> DEFINE info == requestInfo(in.msg, c)
<1>1. run(in.path, in.msg, c) = OfficialService(in.path, in.msg, c)
  BY DEF run, ConformanceMethods
<1>2. CASE in.path = "IdempotentUnary"
  <2> DEFINE m == IdempotentUnaryResponse(<< ConformancePayload(<< >>, << info >>) >>)
  <2>1. run(in.path, in.msg, c) = Responds(m)
    BY <1>1, <1>2 DEF OfficialService, IdempotentUnary
  <2>2. m.payload = << ConformancePayload(<< >>, << info >>) >>
    BY DEF IdempotentUnaryResponse
  <2> HIDE DEF m, info
  <2>3. GivesInfo(Responds(m), info) /\ Responds(m).sleeps = FALSE
    BY <2>2, RespondsInfo, RespondsIsProgram
  <2> QED
    BY <2>1, <2>3, Zenon DEF info
<1>3. CASE in.path = "Unary"
  <2> DEFINE def == in.msg.responseDefinition[1]
             err == Fails(toRPCError(def.error[1], << info >>))
             m0 == UnaryResponse(<< ConformancePayload(<< >>, << info >>) >>)
             m1 == UnaryResponse(<< ConformancePayload(def.data, << info >>) >>)
             r == IF def.error # << >> THEN err ELSE Responds(m1)
             a == applyHeaders(def.responseHeaders)
             b == applyHeaders(def.responseTrailers)
             q == [r EXCEPT !.headers = a, !.trailers = b]
  <2>1. run(in.path, in.msg, c) = IF in.msg.responseDefinition = << >> THEN Responds(m0) ELSE q
    BY <1>1, <1>3 DEF OfficialService, Unary
  <2>2. /\ m0.payload = << ConformancePayload(<< >>, << info >>) >>
        /\ m1.payload = << ConformancePayload(def.data, << info >>) >>
    BY DEF UnaryResponse
  <2> HIDE DEF m0, m1, info
  <2>3. /\ GivesInfo(Responds(m0), info) /\ Responds(m0).sleeps = FALSE
        /\ GivesInfo(Responds(m1), info) /\ Responds(m1).sleeps = FALSE /\ IsUnaryProgram(Responds(m1))
    BY <2>2, RespondsInfo, RespondsIsProgram
  <2>4. CASE in.msg.responseDefinition = << >>
    BY <2>1, <2>3, <2>4, Zenon DEF info
  <2>5. CASE in.msg.responseDefinition # << >>
    <3>1. IsUnaryProgram(r) /\ r.sleeps = FALSE /\ GivesInfo(r, info)
      <4>1. CASE def.error # << >>
        <5>1. PICK A : /\ def.error[1].details \in Seq(A)
                       /\ \A any \in A : Last(any.typeUrl) # InfoType
          <6> DEFINE A == {any \in ToSet(def.error[1].details) : Last(any.typeUrl) # InfoType}
          <6>1. def.error[1].details \in Seq(A)
            BY <1>3, <2>5, <4>1, InfoAssumption, Zenon
          <6> QED
            BY <6>1
        <5>2. PICK ds : /\ toRPCError(def.error[1], << info >>) = RPCError(def.error[1].code, ds)
                        /\ infosIn(representable(ds)) = << info >>
          BY <5>1, InfoDetails, Zenon
        <5>3. err = Fails(RPCError(def.error[1].code, ds))
          BY <5>2, Zenon
        <5>4. IsUnaryProgram(err) /\ err.sleeps = FALSE
          BY <5>3, FailsWithCode, FailsIsProgram, Zenon
        <5>5. err.error = << RPCError(def.error[1].code, ds) >>
          BY <5>3, FailsIsProgram, Zenon
        <5> HIDE DEF err
        <5>6. GivesInfo(err, info)
          BY <5>2, <5>5, Zenon DEF GivesInfo
        <5> QED
          BY <4>1, <5>4, <5>6, Zenon
      <4>2. CASE def.error = << >>
        BY <2>3, <4>2, Zenon
      <4> QED
        BY <4>1, <4>2
    <3> HIDE DEF r, a, b
    <3>2. AnswersAlike(q, r) /\ q.sleeps = FALSE
      BY <3>1, WithBoth
    <3> HIDE DEF q
    <3>3. GivesInfo(q, info)
      BY <3>1, <3>2, InfoAlike
    <3> QED
      BY <2>1, <2>5, <3>2, <3>3, Zenon DEF info
  <2> QED
    BY <2>4, <2>5
<1> QED
  BY <1>2, <1>3

\* Nothing is lost but the info of an error with code 0.
LEMMA InfoArrives ==
  ASSUME input \in Inputs, request.timeout \in BOOLEAN, input.path \in {"Unary", "IdempotentUnary"},
         NEW p \in direct, Gets(p)
  PROVE  LET seen == IF Succeeded THEN stubResult[1].payload[1].requestInfo
                     ELSE infosIn(ErrorSeen.details)
         IN  IF ~Succeeded /\ outcome[1].code = 0 THEN seen = << >>
             ELSE \E c \in contexts : seen = << requestInfo(input.msg, c) >>
<1>1. PICK c \in contexts : p = run(input.path, input.msg, c)
  <2>1. \A c : run(input.path, input.msg, c).sleeps = FALSE
    BY InfoGiven
  <2> QED
    BY <2>1, DirectPrograms, Zenon
<1>2. PICK info : info = requestInfo(input.msg, c)
  OBVIOUS
<1>3. GivesInfo(p, info)
  BY <1>1, <1>2, InfoGiven
<1>4. CASE p.error = << >>
  <2>1. \A e : << e >> # << >>
    OBVIOUS
  <2>2. PICK m : p.emits = << m >> /\ m.payload[1].requestInfo = << info >>
    BY <1>3, <1>4, <2>1, Zenon DEF GivesInfo
  <2>3. Succeeded /\ stubResult = << m >>
    BY <1>4, <2>2, Zenon DEF Gets
  <2>4. stubResult[1] = m
    BY <2>3
  <2> QED
    BY <1>2, <2>2, <2>3, <2>4, Zenon
<1>5. CASE p.error # << >>
  <2>1. PICK code, ds : p.error = << RPCError(code, ds) >> /\ infosIn(representable(ds)) = << info >>
    BY <1>3, <1>5, Zenon DEF GivesInfo
  <2>2. PICK e : e = RPCError(code, ds)
    OBVIOUS
  <2>3. e.code = code /\ e.details = ds
    BY <2>2 DEF RPCError
  <2>4. p.error[1] = e
    BY <2>1, <2>2
  <2>5. /\ ~Succeeded /\ outcome[1].code = code
        /\ ErrorSeen.details = IF code = 0 THEN << >> ELSE representable(ds)
    BY <1>5, <2>3, <2>4, Zenon DEF Gets
  <2> QED
    BY <1>2, <2>1, <2>5, NothingInfos, Zenon
<1> QED
  BY <1>4, <1>5

\* A request info says what was asked.
LEMMA InfoSays ==
  ASSUME NEW c \in contexts, NEW seen, seen = << requestInfo(input.msg, c) >>
  PROVE  /\ Len(seen) = 1
         /\ seen[1].requests = << input.msg >>
         /\ seen[1].requestHeaders \in canonicalised(input.meta)
         /\ seen[1].timeoutMs = request.timeout
<1>1. PICK h \in canonicalised(input.meta) : c = [headers |-> h, timeout |-> request.timeout]
  BY Zenon DEF contexts
<1>2. c.headers = h /\ c.timeout = request.timeout
  BY <1>1
<1>3. Len(seen) = 1 /\ seen[1] = requestInfo(input.msg, c)
  OBVIOUS
<1> QED
  BY <1>2, <1>3, InfoIs, Zenon

\* The request info of the official service reaches the client exactly once
\* (InfoExactlyOnce): in the payload of a success, in a detail behind those that were asked
\* for of an error, and it tells the request, the headers and whether there was a deadline;
\* only an error with code 0, whose body no client reads, loses it.
THEOREM InfoArrivesOnce == ProgramSpec => []InfoExactlyOnce
<1>1. ASSUME ByServer => \E p \in direct : Answered(p) /\ IsUnaryProgram(p) /\ Gets(p), ProgramInv
      PROVE  InfoExactlyOnce
  <2> SUFFICES ASSUME ByServer, input.path \in {"Unary", "IdempotentUnary"} PROVE InfoExactlyOnce
    BY Zenon DEF InfoExactlyOnce
  <2>1. PICK p \in direct : Gets(p)
    BY <1>1, Zenon
  <2>2. input \in Inputs
    BY <1>1, Called
  <2>3. request # NoRequest
    <3>1. Settled
      BY Zenon DEF ByServer
    <3>2. response # NoResponse
      BY <1>1, <3>1, SettledReply, Zenon DEF ProgramInv
    <3> QED
      BY <1>1, <3>2, Handling DEF ProgramInv
  <2>4. request.timeout \in BOOLEAN
    BY <1>1, <2>3, ProgramRequest DEF ProgramInv
  <2> DEFINE seen == IF Succeeded THEN stubResult[1].payload[1].requestInfo
                     ELSE infosIn(ErrorSeen.details)
  <2>5. IF ~Succeeded /\ outcome[1].code = 0 THEN seen = << >>
        ELSE \E c \in contexts : seen = << requestInfo(input.msg, c) >>
    BY <2>1, <2>2, <2>4, InfoArrives, Zenon
  <2>6. ASSUME NEW c \in contexts, seen = << requestInfo(input.msg, c) >>
        PROVE  /\ Len(seen) = 1
               /\ seen[1].requests = << input.msg >>
               /\ seen[1].requestHeaders \in canonicalised(input.meta)
               /\ seen[1].timeoutMs = request.timeout
    <3> HIDE DEF seen
    <3> QED
      BY <2>6, InfoSays
  <2> QED
    BY <2>5, <2>6, Zenon DEF InfoExactlyOnce
<1> QED
  BY <1>1, GettingHolds, ProgramInvHolds, PTL

-----------------------------------------------------------------------------
(* The conformance client.                                                 *)

\* What the methods that main calls do with its messages.
LEMMA MainPrograms ==
  ASSUME NEW path \in DOMAIN MainUnaryCalls, NEW c, NEW p, p = run(path, MainUnaryCalls[path], c)
  PROVE  /\ path # "Sleep" => p.sleeps = FALSE
         /\ path = "FailDetails" =>
              p.error = << RPCError(8, << ErrorDetail("RetryInfo", << "retry:5s" >>) >>) >>
         /\ path # "FailDetails" => p.error = << >>
         /\ path = "Echo" => p.emits = << EchoResponse(<< "echo:", "hi" >>) >>
         /\ path = "EchoTrailer" =>
              /\ p.emits = << EchoTrailerResponse(<< "trailer:", "x" >>) >>
              /\ p.headers = << >> /\ p.trailers = << Key("x-trl", "lower") >>
<1>1. path \in {"Echo", "FailDetails", "EchoBytes", "Empty", "Sleep", "EchoTrailer"}
  BY DEF MainUnaryCalls
<1>2. path \in DOMAIN ConformanceMethods
  BY <1>1 DEF ConformanceMethods
<1>3. PICK in : in = MainUnaryCalls[path]
  OBVIOUS
<1>4. p = ConformanceService(path, in, c)
  BY <1>2, <1>3 DEF run
<1>5. CASE path = "Echo"
  <2>1. in = EchoRequest(<< "hi" >>)
    BY <1>3, <1>5 DEF MainUnaryCalls
  <2>2. << "echo:" >> \o in.input = << "echo:", "hi" >>
    <3>1. PICK a, b, x, y : a = "echo:" /\ b = "hi" /\ x = << a >> /\ y = << b >>
      OBVIOUS
    <3>2. in.input = y
      BY <2>1, <3>1 DEF EchoRequest
    <3>3. x \o y = << a, b >>
      BY <3>1, InTwo
    <3> QED
      BY <3>1, <3>2, <3>3, Zenon
  <2>3. p = Responds(EchoResponse(<< "echo:", "hi" >>))
    BY <1>4, <1>5, <2>2 DEF ConformanceService, Echo
  <2> QED
    BY <1>5, <2>3, RespondsIsProgram
<1>6. CASE path = "FailDetails"
  <2>1. in = FailDetailsRequest(8, << "limited" >>, "RetryInfo", << "retry:5s" >>)
    BY <1>3, <1>6 DEF MainUnaryCalls
  <2>2. PICK eight, type, text : eight = 8 /\ type = "RetryInfo" /\ text = << "retry:5s" >>
    OBVIOUS
  <2>3. in.code = eight /\ in.detailType = type /\ in.detailText = text
    BY <2>1, <2>2 DEF FailDetailsRequest
  <2>4. detailed(in) = RPCError(eight, << ErrorDetail(type, text) >>)
    BY <2>3, Zenon DEF detailed
  <2>5. p = Fails(detailed(in))
    BY <1>4, <1>6 DEF ConformanceService, FailDetails
  <2>6. p.error = << RPCError(eight, << ErrorDetail(type, text) >>) >> /\ p.sleeps = FALSE
    BY <2>4, <2>5, FailsIsProgram, Zenon
  <2> QED
    BY <1>6, <2>2, <2>6
<1>7. CASE path = "EchoBytes"
  <2>1. p = Responds(EchoBytesResponse(in.data))
    BY <1>4, <1>7 DEF ConformanceService, EchoBytes
  <2> QED
    BY <1>7, <2>1, RespondsIsProgram
<1>8. CASE path = "Empty"
  <2>1. p = Responds(EmptyResponse)
    BY <1>4, <1>8 DEF ConformanceService, Empty
  <2> QED
    BY <1>8, <2>1, RespondsIsProgram
<1>9. CASE path = "Sleep"
  <2>1. PICK r, yes : r = Responds(SleepResponse(TRUE)) /\ yes = TRUE
    OBVIOUS
  <2>2. p = [r EXCEPT !.sleeps = yes]
    BY <1>4, <1>9, <2>1 DEF ConformanceService, Sleep
  <2>3. IsUnaryProgram(r) /\ r.headers = << >> /\ r.trailers = << >> /\ r.error = << >>
    BY <2>1, RespondsIsProgram, Zenon
  <2>4. yes \in BOOLEAN
    BY <2>1
  <2>5. AnswersAlike(p, r)
    BY <2>2, <2>3, <2>4, Sleeping, Zenon
  <2>6. p.error = << >>
    BY <2>3, <2>5, Zenon DEF AnswersAlike
  <2> QED
    BY <1>9, <2>6
<1>10. CASE path = "EchoTrailer"
  <2>1. in = EchoTrailerRequest(<< "x" >>)
    BY <1>3, <1>10 DEF MainUnaryCalls
  <2>2. << "trailer:" >> \o in.input = << "trailer:", "x" >>
    <3>1. PICK a, b, x, y : a = "trailer:" /\ b = "x" /\ x = << a >> /\ y = << b >>
      OBVIOUS
    <3>2. in.input = y
      BY <2>1, <3>1 DEF EchoTrailerRequest
    <3>3. x \o y = << a, b >>
      BY <3>1, InTwo
    <3> QED
      BY <3>1, <3>2, <3>3, Zenon
  <2>3. PICK m, r, keys : /\ m = EchoTrailerResponse(<< "trailer:", "x" >>)
                          /\ r = Responds(m) /\ keys = << Key("x-trl", "lower") >>
    OBVIOUS
  <2>4. p = [r EXCEPT !.trailers = keys]
    BY <1>4, <1>10, <2>2, <2>3 DEF ConformanceService, EchoTrailer
  <2>5. /\ IsProgram(r) /\ r.headers = << >> /\ r.sleeps = FALSE /\ r.error = << >>
        /\ r.emits = << m >>
    BY <2>3, RespondsIsProgram, Zenon DEF IsUnaryProgram
  <2>6. IsProgramOf(p, r.headers, keys, r.emits, r.error, r.sleeps)
    BY <2>4, <2>5, OtherPart
  <2>7. /\ p.headers = << >> /\ p.trailers = keys /\ p.emits = << m >> /\ p.error = << >>
        /\ p.sleeps = FALSE
    BY <2>5, <2>6, Zenon DEF IsProgramOf
  <2> QED
    BY <1>10, <2>3, <2>7
<1> QED
  BY <1>1, <1>5, <1>6, <1>7, <1>8, <1>9, <1>10, Zenon

\* The one trailer of the handler is there.
LEMMA OneTrailer ==
  ASSUME TrailersArrive, ByServer, NEW key, key = Key("x-trl", "lower"), NEW x,
         outcome[1].headers = NoHeaders, outcome[1].trailers = [k \in {key} |-> << x >>]
  PROVE  Len(values(reply[1].trailers, key)) = 1
<1>1. PICK low, no, name : low = "lower" /\ no = FALSE /\ name = "x-trl"
  OBVIOUS
<1>2. key = [prefix |-> no, name |-> name, form |-> low]
  BY <1>1, Zenon DEF Key
<1>3. [key EXCEPT !.form = low] = key /\ [key EXCEPT !.prefix = no] = key
  BY <1>2
<1>4. ToLower(key) = key /\ [ToLower(key) EXCEPT !.prefix = FALSE] = key
  BY <1>1, <1>3, Zenon DEF ToLower
<1>5. PICK sent, got, one : sent = outcome[1].trailers /\ got = reply[1].trailers /\ one = << x >>
  OBVIOUS
<1>6. sent = [k \in {key} |-> one] /\ DOMAIN sent = {key} /\ sent[key] = one
  BY <1>5
<1>7. {k \in DOMAIN outcome[1].headers : k.prefix} = {}
  <2>1. DOMAIN outcome[1].headers = {}
    BY NothingHeld
  <2> QED
    BY <2>1
<1> DEFINE plain(k) == [ToLower(k) EXCEPT !.prefix = FALSE]
<1>8. DOMAIN got = {plain(k) : k \in DOMAIN sent \cup {}}
  <2> DEFINE alike == {k \in DOMAIN outcome[1].headers : k.prefix}
  <2>1. DOMAIN reply[1].trailers = {plain(k) : k \in DOMAIN outcome[1].trailers \cup alike}
    BY DEF TrailersArrive
  <2> HIDE DEF alike, plain
  <2>2. alike = {}
    BY <1>7 DEF alike
  <2> QED
    BY <1>5, <2>1, <2>2
<1>9. \A k \in DOMAIN sent : \E j \in DOMAIN sent : got[ToLower(k)] = sent[j]
  <2> DEFINE alike == {k \in DOMAIN outcome[1].headers : k.prefix}
             rest(j, k) == ToSet(outcome[1].trailers[j]) \subseteq ToSet(reply[1].trailers[ToLower(k)])
  <2>1. \A k \in DOMAIN outcome[1].trailers :
          \E j \in DOMAIN outcome[1].trailers :
            /\ EqualFold(j, k)
            /\ IF \E a \in alike : plain(a) = plain(k) THEN rest(j, k)
               ELSE reply[1].trailers[ToLower(k)] = outcome[1].trailers[j]
    BY DEF TrailersArrive
  <2> HIDE DEF alike, plain, rest
  <2>2. alike = {}
    BY <1>7 DEF alike
  <2>3. \A k : ~\E a \in alike : plain(a) = plain(k)
    BY <2>2
  <2> QED
    BY <1>5, <2>1, <2>3
<1>10. plain(key) = key
  BY <1>4
<1> HIDE DEF plain
<1>11. key \in DOMAIN got
  BY <1>6, <1>8, <1>10
<1>12. got[key] = one
  <2>1. PICK j \in DOMAIN sent : got[ToLower(key)] = sent[j]
    BY <1>6, <1>9
  <2>2. j = key
    BY <1>6, <2>1
  <2> QED
    BY <1>4, <1>6, <2>1, <2>2, Zenon
<1>13. values(got, key) = one
  BY <1>11, <1>12, Zenon DEF values
<1>14. Len(one) = 1
  BY <1>5
<1> QED
  BY <1>5, <1>13, <1>14, Zenon

LEMMA Accepted ==
  ASSUME UInv, TrailersArrive, ByServer, input \in Inputs,
         input.path \in DOMAIN MainUnaryCalls, input.msg = MainUnaryCalls[input.path],
         input.path = "Sleep" => ~request.timeout,
         NEW p \in direct, Answered(p), Gets(p)
  PROVE  mainAccepts(input.path, stubResult,
                     IF Succeeded THEN << >> ELSE reply[1].error, reply[1].trailers)
<1>1. PICK c \in contexts : p = run(input.path, input.msg, c)
  <2>1. ASSUME NEW c, input.path # "Sleep" PROVE run(input.path, input.msg, c).sleeps = FALSE
    BY <2>1, MainPrograms
  <2>2. CASE input.path = "Sleep"
    BY <2>2, DirectPrograms, Zenon
  <2>3. CASE input.path # "Sleep"
    BY <2>1, <2>3, DirectPrograms, Zenon
  <2> QED
    BY <2>2, <2>3
<1>2. PICK path, err : path = input.path /\ err = IF Succeeded THEN << >> ELSE reply[1].error
  OBVIOUS
<1>3. path \in DOMAIN MainUnaryCalls /\ p = run(path, MainUnaryCalls[path], c)
  BY <1>1, <1>2
<1>4. CASE path = "FailDetails"
  <2>1. PICK eight, d, ds, e : /\ eight = 8 /\ d = ErrorDetail("RetryInfo", << "retry:5s" >>)
                               /\ ds = << d >> /\ e = RPCError(eight, ds)
    OBVIOUS
  <2>2. p.error = << e >>
    BY <1>3, <1>4, <2>1, MainPrograms, Zenon
  <2>3. p.error # << >> /\ p.error[1] = e
    BY <2>2
  <2>4. e.code = eight /\ e.details = ds
    BY <2>1 DEF RPCError
  <2>5. Representable(d)
    <3>1. d.type = "RetryInfo" /\ d.value = << "retry:5s" >>
      BY <2>1 DEF ErrorDetail
    <3>2. << "retry:5s" >> # << >>
      OBVIOUS
    <3>3. "RetryInfo" # ""
      BY Zenon
    <3> QED
      BY <3>1, <3>2, <3>3, Zenon DEF Representable
  <2>6. representable(ds) = ds
    BY <2>1, <2>5, OneDetail
  <2>7. eight # 0 /\ WireCode(eight) = eight
    BY <2>1 DEF WireCode, KnownCodes
  <2>8. ~Succeeded /\ ErrorSeen.code = eight /\ ErrorSeen.details = ds
    BY <2>3, <2>4, <2>6, <2>7, Zenon DEF Gets
  <2>9. err = reply[1].error /\ err # << >>
    BY <1>2, <2>8, Zenon DEF Succeeded, ByServer
  <2>10. err # << >> /\ err[1].code = 8 /\ err[1].details = << ErrorDetail("RetryInfo", << "retry:5s" >>) >>
    BY <2>1, <2>8, <2>9, Zenon DEF ErrorSeen
  <2> QED
    BY <1>2, <1>4, <2>10, Zenon DEF mainAccepts
<1>5. CASE path # "FailDetails"
  <2>1. p.error = << >>
    BY <1>3, <1>5, MainPrograms, Zenon
  <2>2. Succeeded /\ stubResult = p.emits
    BY <2>1, Zenon DEF Gets
  <2>3. err = << >>
    BY <1>2, <2>2, Zenon
  <2>4. ASSUME path = "Echo" PROVE stubResult[1].output = << "echo:", "hi" >>
    <3>1. PICK m, t : m = EchoResponse(t) /\ t = << "echo:", "hi" >>
      OBVIOUS
    <3>2. stubResult = << m >>
      BY <1>3, <2>2, <2>4, <3>1, MainPrograms, Zenon
    <3>3. stubResult[1] = m /\ m.output = t
      BY <3>1, <3>2 DEF EchoResponse
    <3> QED
      BY <3>1, <3>3, Zenon
  <2>5. ASSUME path = "EchoTrailer"
        PROVE  /\ stubResult[1].output = << "trailer:", "x" >>
               /\ Len(values(reply[1].trailers, Key("x-trl", "lower"))) = 1
    <3>1. PICK m, t, key : /\ m = EchoTrailerResponse(t) /\ t = << "trailer:", "x" >>
                           /\ key = Key("x-trl", "lower")
      OBVIOUS
    <3>2. stubResult = << m >> /\ p.headers = << >> /\ p.trailers = << key >>
      BY <1>3, <2>2, <2>5, <3>1, MainPrograms, Zenon
    <3>3. stubResult[1] = m /\ m.output = t /\ Len(p.trailers) = 1 /\ p.trailers[1] = key
      BY <3>1, <3>2 DEF EchoTrailerResponse
    <3>4. outcome[1].headers = NoHeaders /\ \E x : outcome[1].trailers = [k \in {key} |-> << x >>]
      BY <3>2, <3>3, Zenon DEF Answered
    <3>5. Len(values(reply[1].trailers, key)) = 1
      BY <3>1, <3>4, OneTrailer, Zenon
    <3> QED
      BY <3>1, <3>3, <3>5, Zenon
  <2> QED
    BY <1>2, <1>5, <2>3, <2>4, <2>5, Zenon DEF mainAccepts
<1> QED
  BY <1>4, <1>5

\* Every check of cmd/conformance-client on the unary calls it makes passes on every response
\* of a server (ClientChecksPass), in either codec and whatever the connection does before:
\* the output of Echo and EchoTrailer with its one trailer, and the code and the details
\* of FailDetails.
THEOREM UnaryChecksPass == ProgramSpec => []ClientChecksPass
<1>1. ASSUME ByServer => \E p \in direct : Answered(p) /\ IsUnaryProgram(p) /\ Gets(p),
             ProgramInv, TrailersArrive
      PROVE  ClientChecksPass
  <2> SUFFICES ASSUME ByServer, input.path \in DOMAIN MainUnaryCalls,
                      input.msg = MainUnaryCalls[input.path],
                      input.path = "Sleep" => ~request.timeout
               PROVE  mainAccepts(input.path, stubResult,
                        IF Succeeded THEN << >> ELSE reply[1].error, reply[1].trailers)
    BY Zenon DEF ClientChecksPass
  <2>1. PICK p \in direct : Answered(p) /\ Gets(p)
    BY <1>1, Zenon
  <2>2. input \in Inputs /\ UInv
    BY <1>1, Called DEF ProgramInv
  <2> QED
    BY <1>1, <2>1, <2>2, Accepted, Zenon
<1> QED
  BY <1>1, GettingHolds, ProgramInvHolds, ProgramsAreHandlers, TrailersAlwaysArrive, PTL
=============================================================================
