---------------------- MODULE ConformanceStreamProofs ----------------------
(***************************************************************************)
(* The server streams end to end: a conformance program is a handler of    *)
(* StreamCall, so that all that is proved of a stream is true of it, and   *)
(* what the consumer gets is what the method emits, for every value of the *)
(* constants: any messages, metadata, codecs and connections.              *)
(***************************************************************************)
EXTENDS ConformanceStream, StreamCallProofs, ConformanceProofs

full(in) == encodeMsg(in.msg, in.kind).have

\* Of a body n bytes of the message may arrive, or n bytes of the frame header.
Framed(in, n) ==
  [frames |-> << [len |-> full(in), have |-> n, flagged |-> FALSE, gzip |-> FALSE] >>,
   extra |-> 0, gzip |-> FALSE]
Unframed(n) == [frames |-> << >>, extra |-> n, gzip |-> FALSE]

\* The request for in, with deadline or without, when b of its body arrives.
Requested(in, d, b) == [stubRequest(in.path, TRUE, in.kind, b) EXCEPT !.timeout = d]

Whole1(in, d) == request = Requested(in, d, Framed(in, full(in)))
Cut1(in, d) ==
  \/ \E n \in 0..(full(in) - 1) : request = Requested(in, d, Framed(in, n))
  \/ \E n \in Nat : request = Requested(in, d, Unframed(n))

\* The request is that of the input; it arrives in part only when the connection has failed,
\* and no handler runs on it then.
SentInv ==
  \/ request = NoRequest
  \/ /\ input \in Inputs
     /\ \E d \in BOOLEAN :
          \/ Whole1(input, d)
          \/ conn # "up" /\ phase # "handler" /\ Cut1(input, d)

-----------------------------------------------------------------------------
(* The request.                                                            *)

LEMMA FullIsNat ==
  ASSUME NEW in \in Inputs
  PROVE  full(in) \in Nat
<1>1. IsFiniteSet(DOMAIN in.msg) /\ setFields(in.msg) \subseteq DOMAIN in.msg
  BY InputsAssumption DEF setFields
<1>2. Cardinality(setFields(in.msg)) \in Nat
  BY <1>1, FS_Subset, FS_CardinalityType
<1>3. full(in) = Cardinality(setFields(in.msg)) + IF in.kind = "json" THEN 1 ELSE 0
  BY DEF full, encodeMsg
<1> QED
  BY <1>2, <1>3

IsRequestFor(r, in, d, b) ==
  /\ r.version = "" /\ r.httpMethod = "POST" /\ r.path = in.path
  /\ r.ctype = ContentTypeFor(TRUE, in.kind) /\ r.ce = "" /\ r.cce = ""
  /\ r.accept = "canonical" /\ r.timeout = d /\ r.body = b

LEMMA RequestedFields ==
  ASSUME NEW in, NEW d, NEW b
  PROVE  IsRequestFor(Requested(in, d, b), in, d, b)
<1> DEFINE r == Requested(in, d, b)
           c == ContentTypeFor(TRUE, in.kind)
<1>1. PICK no, post, key, no1 : no = "" /\ post = "POST" /\ key = "canonical" /\ no1 = FALSE
  OBVIOUS
<1>2. r = [[version |-> no, httpMethod |-> post, path |-> in.path, ctype |-> c, ce |-> no, cce |-> no,
            accept |-> key, timeout |-> no1, body |-> b] EXCEPT !.timeout = d]
  BY <1>1, Zenon DEF Requested, stubRequest
<1> HIDE DEF r, c
<1>3. /\ r.version = no /\ r.httpMethod = post /\ r.path = in.path /\ r.ctype = c /\ r.ce = no
      /\ r.cce = no /\ r.accept = key /\ r.timeout = d /\ r.body = b
  BY <1>2
<1>5. /\ r.version = "" /\ r.httpMethod = "POST" /\ r.path = in.path /\ r.ctype = c /\ r.ce = ""
      /\ r.cce = "" /\ r.accept = "canonical" /\ r.timeout = d /\ r.body = b
  BY <1>1, <1>3, Zenon
<1> QED
  BY <1>5, Zenon DEF IsRequestFor, r, c

\* Another body makes no other request.
OtherBody(r, s, b) == s = [r EXCEPT !.body = b]

LEMMA Rebodied ==
  ASSUME NEW in, NEW d, NEW a, NEW b,
         NEW r, r = Requested(in, d, a), NEW s, OtherBody(r, s, b)
  PROVE  s = Requested(in, d, b)
<1> DEFINE c == ContentTypeFor(TRUE, in.kind)
<1>1. PICK no, post, key, no1 : no = "" /\ post = "POST" /\ key = "canonical" /\ no1 = FALSE
  OBVIOUS
<1>2. \A x : Requested(in, d, x) =
        [[version |-> no, httpMethod |-> post, path |-> in.path, ctype |-> c, ce |-> no, cce |-> no,
          accept |-> key, timeout |-> no1, body |-> x] EXCEPT !.timeout = d]
  BY <1>1, Zenon DEF Requested, stubRequest
<1> HIDE DEF c
<1>3. PICK t : t = Requested(in, d, b)
  OBVIOUS
<1> DEFINE plain(x) == [version |-> no, httpMethod |-> post, path |-> in.path, ctype |-> c,
                        ce |-> no, cce |-> no, accept |-> key, timeout |-> d, body |-> x]
<1>0. ASSUME NEW x, NEW q, q = Requested(in, d, x) PROVE q = plain(x)
  <2>1. q = [[version |-> no, httpMethod |-> post, path |-> in.path, ctype |-> c, ce |-> no, cce |-> no,
              accept |-> key, timeout |-> no1, body |-> x] EXCEPT !.timeout = d]
    BY <1>2, <1>0, Zenon
  <2> QED
    BY <2>1
<1> HIDE DEF plain
<1>4. r = plain(a) /\ t = plain(b)
  BY <1>0, <1>3, Zenon
<1>5. [plain(a) EXCEPT !.body = b] = plain(b)
  BY DEF plain
<1>6. s = [r EXCEPT !.body = b]
  BY DEF OtherBody
<1>7. s = t
  BY <1>4, <1>5, <1>6, Zenon
<1> QED
  BY <1>3, <1>7

LEMMA SentInFull ==
  ASSUME NEW in, NEW d
  PROVE  [requestFor(in) EXCEPT !.timeout = d] = Requested(in, d, Framed(in, full(in)))
BY Zenon DEF requestFor, Requested, full, Framed

LEMMA InFrame ==
  ASSUME NEW in, NEW n, NEW b, b = Framed(in, n)
  PROVE  /\ Len(b.frames) = 1 /\ b.frames[1].have = n /\ b.frames[1].len = full(in)
         /\ b.extra = 0
<1>1. PICK l, no : l = full(in) /\ no = FALSE
  OBVIOUS
<1>2. b = [frames |-> << [len |-> l, have |-> n, flagged |-> no, gzip |-> no] >>, extra |-> 0, gzip |-> no]
  BY <1>1 DEF Framed
<1> QED
  BY <1>1, <1>2

\* What the network leaves of a body.
Shortened(b, c, k) == c = [b EXCEPT !.frames[1].have = k]
Emptied(b, c, k) == c = [b EXCEPT !.frames = << >>, !.extra = k]

LEMMA CutInFrame ==
  ASSUME NEW in, NEW n, NEW b, b = Framed(in, n), NEW c, NEW k
  PROVE  /\ Shortened(b, c, k) => c = Framed(in, k)
         /\ Emptied(b, c, k) => c = Unframed(k)
<1>1. PICK l, no, none : l = full(in) /\ no = FALSE /\ none = << >>
  OBVIOUS
<1> DEFINE f(m) == [len |-> l, have |-> m, flagged |-> no, gzip |-> no]
<1>2. PICK u, v, g, h : g = f(n) /\ h = f(k) /\ u = << g >> /\ v = << h >>
  OBVIOUS
<1>3. [g EXCEPT !.have = k] = h
  BY <1>2
<1>4. PICK x, y : x = Framed(in, k) /\ y = Unframed(k)
  OBVIOUS
<1>5. /\ b = [frames |-> u, extra |-> 0, gzip |-> no]
      /\ x = [frames |-> v, extra |-> 0, gzip |-> no]
      /\ y = [frames |-> none, extra |-> k, gzip |-> no]
  BY <1>1, <1>2, <1>4 DEF Framed, Unframed
<1> HIDE DEF f
<1>6. u[1] = g /\ [u EXCEPT ![1] = h] = v
  BY <1>2
<1>7. ASSUME Shortened(b, c, k) PROVE c = x
  <2>1. c = [b EXCEPT !.frames[1].have = k]
    BY <1>7 DEF Shortened
  <2>2. b.frames = u
    BY <1>5
  <2>3. c = [b EXCEPT !.frames = [u EXCEPT ![1] = [g EXCEPT !.have = k]]]
    BY <1>6, <2>1, <2>2
  <2>4. c = [b EXCEPT !.frames = v]
    BY <1>3, <1>6, <2>3
  <2> QED
    BY <1>5, <2>4
<1>8. ASSUME Emptied(b, c, k) PROVE c = y
  <2>1. c = [[b EXCEPT !.frames = none] EXCEPT !.extra = k]
    BY <1>1, <1>8, Zenon DEF Emptied
  <2>2. PICK z : z = [b EXCEPT !.frames = none]
    OBVIOUS
  <2>3. z = [frames |-> none, extra |-> 0, gzip |-> no]
    BY <1>5, <2>2
  <2>4. c = [z EXCEPT !.extra = k]
    BY <2>1, <2>2, Zenon
  <2> QED
    BY <1>5, <2>3, <2>4
<1> QED
  BY <1>4, <1>7, <1>8, Zenon

\* A fold over one frame.
LEMMA OneFrame ==
  ASSUME NEW body, DOMAIN body.frames = {1}, body.extra = 0, body.frames[1].have \in Nat
  PROVE  BodyBytes(body) = HeaderBytes + body.frames[1].have
<1> DEFINE q == body.frames
           base == body.extra
           more(m, i) == m + HeaderBytes + q[i].have
           F(it) == it = [s \in SUBSET (DOMAIN q) |->
                           IF s = {} THEN base ELSE more(it[s \ {Max(s)}], Max(s))]
           it == CHOOSE f : F(f)
<1>1. DOMAIN q = {1} /\ base = 0 /\ q[1].have \in Nat
  OBVIOUS
<1>2. Max({1}) = 1
  BY DEF Max
<1>3. \E f : F(f)
  <2> HIDE DEF q, base, more
  <2>1. PICK x : x = more(base, 1)
    OBVIOUS
  <2> DEFINE g == [s \in SUBSET {1} |-> IF s = {} THEN base ELSE x]
  <2>2. g[{}] = base
    OBVIOUS
  <2>3. ASSUME NEW s \in SUBSET {1} PROVE g[s] = IF s = {} THEN base ELSE more(g[s \ {Max(s)}], Max(s))
    <3>1. CASE s = {}
      BY <3>1
    <3>2. CASE s # {}
      <4>1. s = {1} /\ s \ {1} = {}
        BY <3>2
      <4>2. g[s] = x
        BY <3>2
      <4> HIDE DEF g
      <4> QED
        BY <1>2, <2>1, <2>2, <4>1, <4>2
    <3> QED
      BY <3>1, <3>2
  <2>4. g = [s \in SUBSET {1} |-> g[s]]
    OBVIOUS
  <2> HIDE DEF g
  <2>5. F(g)
    BY <1>1, <2>3, <2>4
  <2> QED
    BY <2>5
<1>4. BodyBytes(body) = it[DOMAIN q]
  BY DEF BodyBytes, FoldLeft, MapThenFoldSet, Max, HeaderBytes, more, q, base
<1> HIDE DEF F
<1>5. F(it)
  BY <1>3
<1> HIDE DEF it, q, base, more
<1>6. it[{}] = base /\ it[{1}] = more(it[{}], 1)
  <2>1. {1} \ {1} = {} /\ {1} # {} /\ {1} \in SUBSET (DOMAIN q) /\ {} \in SUBSET (DOMAIN q)
    BY <1>1
  <2>2. it = [s \in SUBSET (DOMAIN q) |-> IF s = {} THEN base ELSE more(it[s \ {Max(s)}], Max(s))]
    BY <1>5 DEF F
  <2>3. \A s \in SUBSET (DOMAIN q) : it[s] = IF s = {} THEN base ELSE more(it[s \ {Max(s)}], Max(s))
    BY <2>2
  <2> QED
    BY <1>2, <2>1, <2>3
<1>7. it[{1}] = base + HeaderBytes + q[1].have
  BY <1>6 DEF more
<1> QED
  BY <1>1, <1>4, <1>7 DEF q, HeaderBytes

\* Dispatch runs the handler on a whole message of a size it accepts, and on no part of one.
LEMMA Handled ==
  ASSUME NEW in \in Inputs, NEW d, NEW r, NEW b, r = Requested(in, d, b)
  PROVE  /\ b = Framed(in, full(in)) => Negotiate(r) = runHandler \/ Negotiate(r) = writeError(8)
         /\ (\E n \in 0..(full(in) - 1) : b = Framed(in, n)) \/ (\E n \in Nat : b = Unframed(n)) =>
              Negotiate(r).to # "handler"
<1>1. IsRequestFor(r, in, d, b)
  BY RequestedFields, Zenon
<1>2. /\ r.version = "" /\ r.httpMethod = "POST" /\ r.path = in.path
      /\ r.ctype = ContentTypeFor(TRUE, in.kind) /\ r.ce = "" /\ r.cce = "" /\ r.body = b
  BY <1>1, Zenon DEF IsRequestFor
<1>3. r.path = in.path /\ r.ctype = ContentTypeFor(TRUE, in.kind) /\ r.body = b
  BY <1>2, Zenon
<1>5. requestEncoding(r) = ""
  BY <1>2, Zenon DEF requestEncoding
<1>6. r.path \in DOMAIN Methods /\ spec(r) = serverStream
  BY <1>3, InputsAssumption DEF spec
<1>7. spec(r).handled = TRUE /\ spec(r).serverStream = TRUE
  BY <1>6 DEF serverStream
<1>8. ContentKindOf(r.ctype) # "" /\ IsStreamContentType(r.ctype) = TRUE
  <2>1. in.kind = "proto" \/ in.kind = "json"
    BY InputsAssumption
  <2>2. r.ctype = "application/connect+proto" \/ r.ctype = "application/connect+json"
    BY <1>3, <2>1 DEF ContentTypeFor
  <2>3. ContentKindOf(r.ctype) # ""
    BY <2>2, Zenon DEF ContentKindOf
  <2>4. IsStreamContentType(r.ctype) = TRUE
    BY <2>2 DEF IsStreamContentType
  <2> QED
    BY <2>3, <2>4, Zenon
<1>9. ~wrongContentType(r)
  <2>1. ~(IsStreamContentType(r.ctype) # spec(r).serverStream)
    BY <1>7, <1>8, Zenon
  <2> QED
    BY <1>8, <2>1, Zenon DEF wrongContentType
<1>10. Negotiate(r) = IF BodyBytes(b) > MaxMessageBytes THEN writeError(8) ELSE NegotiateStream(r)
  <2>1. r.version \in {"", "1"} /\ r.httpMethod \in {"", "POST"} /\ requestEncoding(r) \in {"", "gzip"}
    BY <1>2, <1>5, Zenon
  <2> QED
    BY <1>3, <1>6, <1>7, <1>9, <2>1, Zenon DEF Negotiate
<1>11. NegotiateStream(r) = IF streamBodyError(b) # 0 THEN streamFail(streamBodyError(b)) ELSE runHandler
  BY <1>3, <1>7, Zenon DEF NegotiateStream
<1>12. full(in) \in Nat
  BY FullIsNat
<1>13. ASSUME b = Framed(in, full(in)) PROVE Negotiate(r) = runHandler \/ Negotiate(r) = writeError(8)
  <2>1. /\ Len(b.frames) = 1 /\ b.frames[1].have = full(in) /\ b.frames[1].len = full(in)
        /\ b.extra = 0
    BY <1>13, InFrame
  <2>2. DOMAIN b.frames = {1} /\ b.frames[1].flagged = FALSE
    BY <1>13 DEF Framed
  <2>3. BodyBytes(b) = HeaderBytes + full(in)
    BY <1>12, <2>1, <2>2, OneFrame
  <2>4. CASE ~(BodyBytes(b) > MaxMessageBytes)
    <3>1. ~(full(in) > MaxMessageBytes)
      BY <1>12, <2>3, <2>4, SizesAssumption DEF HeaderBytes
    <3>2. countFramesError(b) = 0
      BY <2>1, <2>2, <3>1 DEF countFramesError
    <3>3. readSingleFrameError(b) = 0
      BY <1>12, <2>1, <2>2 DEF readSingleFrameError
    <3>4. streamBodyError(b) = 0
      BY <2>1, <3>2, <3>3 DEF streamBodyError
    <3> QED
      BY <1>10, <1>11, <2>4, <3>4, Zenon
  <2> QED
    BY <1>10, <2>4, Zenon
<1>14. ASSUME (\E n \in 0..(full(in) - 1) : b = Framed(in, n)) \/ (\E n \in Nat : b = Unframed(n))
       PROVE  Negotiate(r).to # "handler"
  <2>1. streamBodyError(b) # 0
    <3>1. ASSUME NEW n \in 0..(full(in) - 1), b = Framed(in, n) PROVE streamBodyError(b) # 0
      <4>1. Len(b.frames) = 1 /\ b.frames[1].have = n /\ b.frames[1].len = full(in)
        BY <3>1, InFrame
      <4>2. b.frames[1].have < b.frames[1].len
        BY <1>12, <4>1
      <4>3. readSingleFrameError(b) = 13
        BY <4>2 DEF readSingleFrameError
      <4> QED
        BY <4>1, <4>3 DEF streamBodyError
    <3>2. ASSUME NEW n \in Nat, b = Unframed(n) PROVE streamBodyError(b) # 0
      <4>1. Len(b.frames) = 0
        BY <3>2 DEF Unframed
      <4> QED
        BY <4>1 DEF streamBodyError
    <3> QED
      BY <1>14, <3>1, <3>2
  <2>2. NegotiateStream(r) = streamFail(streamBodyError(b))
    BY <1>11, <2>1
  <2>3. streamFail(streamBodyError(b)).to = "end" /\ writeError(8).to = "http"
    BY DEF streamFail, writeError, writeErrorStatus
  <2> QED
    BY <1>10, <2>2, <2>3
<1> QED
  BY <1>13, <1>14

-----------------------------------------------------------------------------
(* The programs.                                                           *)

\* What every server stream is: it fails, if it does, with one RPCError.
IsStreamProgram(p) ==
  /\ IsProgram(p)
  /\ p.error = << >> \/ \E code, details : p.error = << RPCError(code, details) >>

\* A program with these parts.
HasParts(p, a, b, c, d) ==
  /\ IsProgram(p)
  /\ p.headers = a /\ p.trailers = b /\ p.emits = c /\ p.error = d

LEMMA EmitsIsProgram ==
  ASSUME NEW ms
  PROVE  HasParts(Emits(ms), << >>, << >>, ms, << >>)
<1> DEFINE p == Emits(ms)
<1>1. PICK none, no : none = << >> /\ no = FALSE
  OBVIOUS
<1>2. p = [[headers |-> none, trailers |-> none, emits |-> none, error |-> none, sleeps |-> no]
             EXCEPT !.emits = ms]
  BY <1>1, Zenon DEF Emits, NoProgram
<1> HIDE DEF p
<1>3. p.headers = none /\ p.trailers = none /\ p.emits = ms /\ p.error = none /\ p.sleeps = no
  BY <1>2
<1>4. IsProgram(p)
  BY <1>2 DEF IsProgram
<1> QED
  BY <1>1, <1>3, <1>4, Zenon DEF HasParts, p

LEMMA NoProgramParts == HasParts(NoProgram, << >>, << >>, << >>, << >>)
<1> DEFINE p == NoProgram
<1>1. PICK none, no : none = << >> /\ no = FALSE
  OBVIOUS
<1>2. p = [headers |-> none, trailers |-> none, emits |-> none, error |-> none, sleeps |-> no]
  BY <1>1, Zenon DEF NoProgram
<1> HIDE DEF p
<1>3. p.headers = none /\ p.trailers = none /\ p.emits = none /\ p.error = none /\ p.sleeps = no
  BY <1>2
<1>4. IsProgram(p)
  BY <1>2 DEF IsProgram
<1> QED
  BY <1>1, <1>3, <1>4, Zenon DEF HasParts, p

LEMMA FailsParts ==
  ASSUME NEW e
  PROVE  HasParts(Fails(e), << >>, << >>, << >>, << e >>)
BY FailsIsProgram, Zenon DEF HasParts

\* One part of a program is another.
LEMMA OtherPart ==
  ASSUME NEW p, IsProgram(p), NEW x, NEW q
  PROVE  /\ q = [p EXCEPT !.headers = x] => HasParts(q, x, p.trailers, p.emits, p.error)
         /\ q = [p EXCEPT !.trailers = x] => HasParts(q, p.headers, x, p.emits, p.error)
         /\ q = [p EXCEPT !.emits = x] => HasParts(q, p.headers, p.trailers, x, p.error)
         /\ q = [p EXCEPT !.error = x] => HasParts(q, p.headers, p.trailers, p.emits, x)
<1>1. PICK a, b, c, d, e : p = [headers |-> a, trailers |-> b, emits |-> c, error |-> d, sleeps |-> e]
  BY DEF IsProgram
<1>2. p.headers = a /\ p.trailers = b /\ p.emits = c /\ p.error = d
  BY <1>1
<1>3. ASSUME q = [p EXCEPT !.headers = x]
      PROVE  q = [headers |-> x, trailers |-> b, emits |-> c, error |-> d, sleeps |-> e]
  BY <1>1, <1>3
<1>4. ASSUME q = [p EXCEPT !.trailers = x]
      PROVE  q = [headers |-> a, trailers |-> x, emits |-> c, error |-> d, sleeps |-> e]
  BY <1>1, <1>4
<1>5. ASSUME q = [p EXCEPT !.emits = x]
      PROVE  q = [headers |-> a, trailers |-> b, emits |-> x, error |-> d, sleeps |-> e]
  BY <1>1, <1>5
<1>6. ASSUME q = [p EXCEPT !.error = x]
      PROVE  q = [headers |-> a, trailers |-> b, emits |-> c, error |-> x, sleeps |-> e]
  BY <1>1, <1>6
<1>7. ASSUME NEW u, NEW v, NEW w, NEW y,
             q = [headers |-> u, trailers |-> v, emits |-> w, error |-> y, sleeps |-> e]
      PROVE  HasParts(q, u, v, w, y)
  BY <1>7 DEF IsProgram, HasParts
<1> QED
  BY <1>2, <1>3, <1>4, <1>5, <1>6, <1>7, Zenon

\* Messages and then an error, or messages and trailers.
LEMMA EmitsWithError ==
  ASSUME NEW ms, NEW e, NEW q, q = [Emits(ms) EXCEPT !.error = << e >>]
  PROVE  HasParts(q, << >>, << >>, ms, << e >>)
<1>1. PICK p, x : p = Emits(ms) /\ x = << e >> /\ q = [p EXCEPT !.error = x]
  OBVIOUS
<1>2. IsProgram(p) /\ p.headers = << >> /\ p.trailers = << >> /\ p.emits = ms
  BY <1>1, EmitsIsProgram, Zenon DEF HasParts
<1>3. HasParts(q, p.headers, p.trailers, p.emits, x)
  BY <1>1, <1>2, OtherPart
<1> QED
  BY <1>1, <1>2, <1>3, Zenon

LEMMA EmitsWithTrailers ==
  ASSUME NEW ms, NEW x, NEW q, q = [Emits(ms) EXCEPT !.trailers = x]
  PROVE  HasParts(q, << >>, x, ms, << >>)
<1>1. PICK p : p = Emits(ms) /\ q = [p EXCEPT !.trailers = x]
  OBVIOUS
<1>2. IsProgram(p) /\ p.headers = << >> /\ p.emits = ms /\ p.error = << >>
  BY <1>1, EmitsIsProgram, Zenon DEF HasParts
<1>3. HasParts(q, p.headers, x, p.emits, p.error)
  BY <1>1, <1>2, OtherPart
<1> QED
  BY <1>1, <1>2, <1>3, Zenon

LEMMA StreamPaths ==
  ASSUME NEW path, IsStreamMethod(path)
  PROVE  \/ /\ path \in DOMAIN ConformanceMethods
            /\ path \in {"Count", "StreamFail", "StreamFailDetails", "CountTrailer", "BigStream"}
         \/ /\ path \notin DOMAIN ConformanceMethods
            /\ path \in {"ServerStream", "BidiStream"}
<1>1. unary # serverStream
  BY DEF unary, serverStream
<1>2. PICK u, v : u = unary /\ v = serverStream
  OBVIOUS
<1>3. path \in DOMAIN ConformanceMethods /\ ConformanceMethods[path] = serverStream
        => path \in {"Count", "StreamFail", "StreamFailDetails", "CountTrailer", "BigStream"}
  <2>1. ConformanceMethods =
          [Health |-> u, Echo |-> u, Count |-> v, Fail |-> u, StreamFail |-> v, EchoMeta |-> u,
           Big |-> u, FailDetails |-> u, StreamFailDetails |-> v, EchoTrailer |-> u,
           CountTrailer |-> v, EchoBytes |-> u, Sleep |-> u, Empty |-> u, BigStream |-> v]
    BY <1>2 DEF ConformanceMethods
  <2> QED
    BY <1>1, <1>2, <2>1
<1>4. path \in DOMAIN OfficialMethods /\ OfficialMethods[path] = serverStream
        => path \in {"ServerStream", "BidiStream"} /\ path \notin DOMAIN ConformanceMethods
  <2>1. OfficialMethods =
          [Unary |-> u, ServerStream |-> v, ClientStream |-> u, BidiStream |-> v,
           Unimplemented |-> u, IdempotentUnary |-> u]
    BY <1>2 DEF OfficialMethods
  <2> QED
    BY <1>1, <1>2, <2>1 DEF ConformanceMethods
<1> QED
  BY <1>3, <1>4 DEF IsStreamMethod

\* ServerStream by its parts, when there is a definition.
LEMMA DefinedStream ==
  ASSUME NEW in, NEW c, in.responseDefinition # << >>, NEW def, def = in.responseDefinition[1],
         NEW info, info = << requestInfo(in, c) >>
  PROVE  HasParts(ServerStream(in, c), applyHeaders(def.responseHeaders), applyHeaders(def.responseTrailers),
                  [i \in DOMAIN def.responseData |->
                     ServerStreamResponse(<< ConformancePayload(def.responseData[i],
                                                                IF i = 1 THEN info ELSE << >>) >>)],
                  [i \in DOMAIN def.error |->
                     toRPCError(def.error[i], IF def.responseData = << >> THEN info ELSE << >>)])
<1> DEFINE ms == [i \in DOMAIN def.responseData |->
                    ServerStreamResponse(<< ConformancePayload(def.responseData[i],
                                                               IF i = 1 THEN info ELSE << >>) >>)]
           es == [i \in DOMAIN def.error |->
                    toRPCError(def.error[i], IF def.responseData = << >> THEN info ELSE << >>)]
           a == applyHeaders(def.responseHeaders)
           b == applyHeaders(def.responseTrailers)
<1>1. PICK no, p : no = FALSE /\ p = ServerStream(in, c)
  OBVIOUS
<1>2. p = [headers |-> a, trailers |-> b, emits |-> ms, error |-> es, sleeps |-> no]
  BY <1>1, Zenon DEF ServerStream
<1> HIDE DEF a, b, ms, es
<1>3. IsProgram(p) /\ p.headers = a /\ p.trailers = b /\ p.emits = ms /\ p.error = es
  BY <1>2 DEF IsProgram
<1>4. HasParts(p, a, b, ms, es)
  BY <1>3 DEF HasParts
<1> QED
  BY <1>1, <1>4, Zenon DEF a, b, ms, es

\* The one error a definition may ask for.
OneError(def) == def.error = << >> \/ def.error = << def.error[1] >>

LEMMA DefinedError ==
  ASSUME NEW def, OneError(def), NEW info
  PROVE  LET es == [i \in DOMAIN def.error |-> toRPCError(def.error[i], info)]
         IN  es = IF def.error = << >> THEN << >> ELSE << toRPCError(def.error[1], info) >>
<1> DEFINE F(e) == toRPCError(e, info)
<1>1. CASE def.error = << >>
  <2> HIDE DEF F
  <2>1. [i \in DOMAIN def.error |-> F(def.error[i])] = << >>
    BY <1>1
  <2> QED
    BY <1>1, <2>1 DEF F
<1>2. CASE def.error # << >>
  <2>1. PICK e, x : x = def.error /\ e = def.error[1]
    OBVIOUS
  <2>2. x = << e >>
    BY <1>2, <2>1 DEF OneError
  <2> HIDE DEF F
  <2>3. DOMAIN x = {1} /\ x[1] = e
    BY <2>2
  <2>4. [i \in DOMAIN x |-> F(x[i])] = << F(e) >>
    BY <2>3
  <2> QED
    BY <1>2, <2>1, <2>4, Zenon DEF F
<1> QED
  BY <1>1, <1>2

\* Every server stream is such a program.
LEMMA StreamPrograms ==
  ASSUME NEW in \in Inputs, NEW c
  PROVE  IsStreamProgram(run(in.path, in.msg, c))
<1> DEFINE p == run(in.path, in.msg, c)
           m == in.msg
<1>1. IsStreamMethod(in.path)
  BY InputsAssumption
<1>2. CASE in.path \in DOMAIN ConformanceMethods
  <2>1. p = ConformanceService(in.path, m, c)
    BY <1>2 DEF run
  <2>2. in.path \in {"Count", "StreamFail", "StreamFailDetails", "CountTrailer", "BigStream"}
    BY <1>1, <1>2, StreamPaths
  <2>3. CASE in.path = "Count"
    <3>1. p = Count(m)
      BY <2>1, <2>3 DEF ConformanceService
    <3> QED
      BY <3>1, EmitsIsProgram, Zenon DEF Count, IsStreamProgram, HasParts
  <2>4. CASE in.path = "StreamFail"
    <3>1. p = StreamFail(m)
      BY <2>1, <2>4 DEF ConformanceService
    <3>2. PICK ms, code, details : p = [Emits(ms) EXCEPT !.error = << RPCError(code, details) >>]
      BY <3>1, Zenon DEF StreamFail
    <3>3. HasParts(p, << >>, << >>, ms, << RPCError(code, details) >>)
      BY <3>2, EmitsWithError, Zenon
    <3> QED
      BY <3>3, Zenon DEF IsStreamProgram, HasParts
  <2>5. CASE in.path = "StreamFailDetails"
    <3>1. p = StreamFailDetails(m)
      BY <2>1, <2>5 DEF ConformanceService
    <3>2. PICK ms, code, details : p = [Emits(ms) EXCEPT !.error = << RPCError(code, details) >>]
      BY <3>1, Zenon DEF StreamFailDetails, detailed
    <3>3. HasParts(p, << >>, << >>, ms, << RPCError(code, details) >>)
      BY <3>2, EmitsWithError, Zenon
    <3> QED
      BY <3>3, Zenon DEF IsStreamProgram, HasParts
  <2>6. CASE in.path = "CountTrailer"
    <3>1. p = CountTrailer(m)
      BY <2>1, <2>6 DEF ConformanceService
    <3>2. PICK ms, x : p = [Emits(ms) EXCEPT !.trailers = x]
      BY <3>1, Zenon DEF CountTrailer
    <3>3. HasParts(p, << >>, x, ms, << >>)
      BY <3>2, EmitsWithTrailers, Zenon
    <3> QED
      BY <3>3, Zenon DEF IsStreamProgram, HasParts
  <2>7. CASE in.path = "BigStream"
    <3>1. p = BigStream(m)
      BY <2>1, <2>7 DEF ConformanceService
    <3> QED
      BY <3>1, EmitsIsProgram, Zenon DEF BigStream, IsStreamProgram, HasParts
  <2> QED
    BY <2>2, <2>3, <2>4, <2>5, <2>6, <2>7
<1>3. CASE in.path \notin DOMAIN ConformanceMethods
  <2>1. p = OfficialService(in.path, m, c)
    BY <1>3 DEF run
  <2>2. in.path \in {"ServerStream", "BidiStream"}
    BY <1>1, <1>3, StreamPaths
  <2>3. CASE in.path = "ServerStream"
    <3>1. p = ServerStream(m, c)
      BY <2>1, <2>3 DEF OfficialService
    <3>2. CASE m.responseDefinition = << >>
      <4>1. p = NoProgram
        BY <3>1, <3>2, Zenon DEF ServerStream
      <4> QED
        BY <4>1, NoProgramParts, Zenon DEF IsStreamProgram, HasParts
    <3>3. CASE m.responseDefinition # << >>
      <4>1. PICK def, info, bare : /\ def = m.responseDefinition[1] /\ info = << requestInfo(m, c) >>
                                   /\ bare = IF def.responseData = << >> THEN info ELSE << >>
        OBVIOUS
      <4>2. OneError(def)
        BY <2>3, <3>3, <4>1, InfoAssumption DEF OneError
      <4> DEFINE es == [i \in DOMAIN def.error |-> toRPCError(def.error[i], bare)]
      <4>3. es = IF def.error = << >> THEN << >> ELSE << toRPCError(def.error[1], bare) >>
        BY <4>2, DefinedError
      <4>4. IsProgram(p) /\ p.error = es
        <5>1. PICK q, a, b, ms : q = p /\ HasParts(q, a, b, ms, es)
          <6> DEFINE ms == [i \in DOMAIN def.responseData |->
                              ServerStreamResponse(<< ConformancePayload(def.responseData[i],
                                                                         IF i = 1 THEN info ELSE << >>) >>)]
          <6>1. HasParts(ServerStream(m, c), applyHeaders(def.responseHeaders),
                         applyHeaders(def.responseTrailers), ms,
                         [i \in DOMAIN def.error |->
                            toRPCError(def.error[i], IF def.responseData = << >> THEN info ELSE << >>)])
            BY <3>3, <4>1, DefinedStream, Zenon
          <6> HIDE DEF ms
          <6> QED
            BY <3>1, <4>1, <6>1, Zenon
        <5> HIDE DEF es
        <5> QED
          BY <5>1, Zenon DEF HasParts
      <4> HIDE DEF es
      <4> QED
        BY <4>3, <4>4, Zenon DEF IsStreamProgram, toRPCError
    <3> QED
      BY <3>2, <3>3
  <2>4. CASE in.path = "BidiStream"
    <3>1. p = Unsupported
      BY <2>1, <2>4 DEF OfficialService
    <3> QED
      BY <3>1, FailsParts, Zenon DEF Unsupported, IsStreamProgram, HasParts
  <2> QED
    BY <2>2, <2>3, <2>4
<1> QED
  BY <1>2, <1>3

-----------------------------------------------------------------------------
(* The invariant: what the server has emitted is what a program run in the *)
(* client's place emits first, and the program that is left is the rest.   *)

\* The server has come this far in program p.
Sofar(p) ==
  /\ Len(emits) <= Len(p.emits)
  /\ \A i \in 1..Len(emits) : emits[i] = asPayload(p.emits[i], input.kind)

\* The program that is left is the rest of p.
Left(p) ==
  /\ IsProgram(prog) /\ prog.error = p.error
  /\ prog.headers \in Seq(HeaderKeys) /\ prog.trailers \in Seq(TrailerKeys)
  /\ prog.emits = SubSeq(p.emits, Len(emits) + 1, Len(p.emits))
  /\ trl \cup ToSet(prog.trailers) = ToSet(p.trailers)

\* Its END frame says how p ends.
Ended(p) ==
  /\ Len(emits) = Len(p.emits) /\ fate.trailers = ToSet(p.trailers)
  /\ IF p.error = << >> THEN fate.code = 0 /\ fate.details = << >>
     ELSE fate.code = p.error[1].code /\ fate.details = p.error[1].details

accepted == head # NoHead /\ head.status < 300

\* The END frame of a program that gave up on a failed connection is not on the wire.
Runs(p) ==
  /\ Sofar(p)
  /\ phase = "handler" => Left(p)
  /\ Len(wire) > Len(emits) => Ended(p)

RanInv ==
  /\ phase = "idle" => head = NoHead /\ trl = {}
  /\ phase = "handler" => ~ended
  /\ phase = "handler" \/ (phase = "returned" /\ accepted) => \E p \in direct : Runs(p)
  /\ cl \in {"open", "closed"} => phase # "idle" /\ accepted

ProgramInv == IInv /\ SentInv /\ RanInv

\* What the assumptions say of a program.
Within(p, kind) ==
  /\ IsProgram(p)
  /\ p.headers \in Seq(HeaderKeys) /\ p.trailers \in Seq(TrailerKeys)
  /\ p.emits \in Seq(ToSet(p.emits))
  /\ \A m \in ToSet(p.emits) : asPayload(m, kind) \in Payloads
  /\ p.error # << >> => p.error[1] \in Errors
  /\ p.error = << >> \/ \E code, details : p.error = << RPCError(code, details) >>

LEMMA DirectPrograms ==
  ASSUME input \in Inputs, request.timeout \in BOOLEAN, NEW p \in direct
  PROVE  Within(p, input.kind) /\ \E c \in contexts : p = run(input.path, input.msg, c)
<1>1. PICK c \in contexts : p = run(input.path, input.msg, c)
  BY Zenon DEF direct
<1>2. PICK h \in canonicalised(input.meta) : c = [headers |-> h, timeout |-> request.timeout]
  BY Zenon DEF contexts
<1>3. IsStreamProgram(p)
  BY <1>1, StreamPrograms, Zenon
<1>4. p \in programsOf(input)
  <2>1. PICK t : t = request.timeout
    OBVIOUS
  <2>2. t \in BOOLEAN /\ p = run(input.path, input.msg, [headers |-> h, timeout |-> t])
    BY <1>1, <1>2, <2>1, Zenon
  <2> DEFINE P(a, b) == run(input.path, input.msg, [headers |-> a, timeout |-> b])
             H == canonicalised(input.meta)
  <2>3. programsOf(input) = {P(a, b) : a \in H, b \in BOOLEAN}
    BY DEF programsOf
  <2>4. p = P(h, t) /\ h \in H
    BY <2>2
  <2> HIDE DEF P, H
  <2> QED
    BY <2>2, <2>3, <2>4
<1>5. /\ p.headers \in Seq(HeaderKeys) /\ p.trailers \in Seq(TrailerKeys)
      /\ p.emits \in Seq(ToSet(p.emits)) /\ Len(p.emits) <= MaxEmits
      /\ \A m \in ToSet(p.emits) : asPayload(m, input.kind) \in Payloads
      /\ p.error # << >> => p.error[1] \in Errors
  BY <1>4, ProgramsAssumption, Zenon
<1> QED
  BY <1>1, <1>3, <1>5, Zenon DEF Within, IsStreamProgram

LEMMA SameDirect ==
  ASSUME UNCHANGED input, request'.timeout = request.timeout
  PROVE  direct' = direct
BY DEF direct, contexts

-----------------------------------------------------------------------------
(* A step of a program is a step of a stream.                              *)

\* The request is that of the input.
LEMMA ProgramRequest ==
  ASSUME SentInv, request # NoRequest
  PROVE  /\ input \in Inputs /\ request.timeout \in BOOLEAN
         /\ \E b : IsRequestFor(request, input, request.timeout, b)
         /\ Whole1(input, request.timeout) \/ (conn # "up" /\ phase # "handler" /\ Cut1(input, request.timeout))
<1>1. PICK d \in BOOLEAN :
        input \in Inputs /\ (Whole1(input, d) \/ (conn # "up" /\ phase # "handler" /\ Cut1(input, d)))
  BY Zenon DEF SentInv
<1>2. PICK b : request = Requested(input, d, b)
  BY <1>1, Zenon DEF Whole1, Cut1
<1>3. IsRequestFor(request, input, d, b)
  BY <1>2, RequestedFields, Zenon
<1>4. request.timeout = d
  BY <1>3, Zenon DEF IsRequestFor
<1> QED
  BY <1>1, <1>3, <1>4, Zenon

\* It names the codec of the input.
LEMMA KindOfRequest ==
  ASSUME NEW r, NEW in \in Inputs, r.ctype = ContentTypeFor(TRUE, in.kind)
  PROVE  ContentKindOf(r.ctype) = in.kind
<1>1. CASE in.kind = "proto"
  <2>1. r.ctype = "application/connect+proto"
    BY <1>1 DEF ContentTypeFor
  <2> QED
    BY <1>1, <2>1 DEF ContentKindOf
<1>2. CASE in.kind = "json"
  <2>1. r.ctype = "application/connect+json"
    BY <1>2 DEF ContentTypeFor
  <2> QED
    BY <1>2, <2>1 DEF ContentKindOf
<1> QED
  BY <1>1, <1>2, InputsAssumption

LEMMA ProgramKind ==
  ASSUME SentInv, request # NoRequest
  PROVE  ContentKindOf(request.ctype) = input.kind /\ request.path = input.path
<1>1. PICK b : IsRequestFor(request, input, request.timeout, b)
  BY ProgramRequest, Zenon
<1>2. request.ctype = ContentTypeFor(TRUE, input.kind) /\ request.path = input.path /\ input \in Inputs
  BY <1>1, ProgramRequest, Zenon DEF IsRequestFor
<1> QED
  BY <1>2, KindOfRequest

\* The rest of a sequence, and what becomes of it.
RestOf(t, s, k) == t = SubSeq(s, k + 1, Len(s))

LEMMA RestIs ==
  ASSUME NEW S, NEW s \in Seq(S), NEW k \in 0..Len(s), NEW t, RestOf(t, s, k)
  PROVE  t \in Seq(S) /\ Len(t) = Len(s) - k /\ \A i \in 1..Len(t) : t[i] = s[i + k]
<1>1. t = SubSeq(s, k + 1, Len(s)) /\ Len(s) \in Nat /\ k \in Nat
  BY DEF RestOf
<1> QED
  BY <1>1

LEMMA SameSequence ==
  ASSUME NEW S, NEW s \in Seq(S), NEW t \in Seq(S), Len(s) = Len(t), \A i \in 1..Len(s) : s[i] = t[i]
  PROVE  s = t
<1>1. DOMAIN s = 1..Len(s) /\ DOMAIN t = 1..Len(s)
  OBVIOUS
<1>2. s = [i \in 1..Len(s) |-> s[i]] /\ t = [i \in 1..Len(s) |-> t[i]]
  <2>1. s = [i \in DOMAIN s |-> s[i]] /\ t = [i \in DOMAIN t |-> t[i]]
    OBVIOUS
  <2> QED
    BY <1>1, <2>1, Zenon
<1> QED
  BY <1>2

LEMMA RestSteps ==
  ASSUME NEW S, NEW s \in Seq(S), NEW k \in 0..Len(s), NEW t, RestOf(t, s, k)
  PROVE  /\ t = << >> <=> k = Len(s)
         /\ k < Len(s) => /\ Head(t) = s[k + 1] /\ s[k + 1] \in S
                          /\ RestOf(Tail(t), s, k + 1)
<1>1. Len(s) \in Nat /\ k \in Nat
  OBVIOUS
<1>2. t \in Seq(S) /\ Len(t) = Len(s) - k /\ \A i \in 1..Len(t) : t[i] = s[i + k]
  BY RestIs
<1>3. ASSUME k < Len(s) PROVE RestOf(Tail(t), s, k + 1)
  <2>1. PICK u, v, m, n : u = Tail(t) /\ m = k + 1 /\ v = SubSeq(s, m + 1, Len(s)) /\ n = Len(t)
    OBVIOUS
  <2>2. m \in 0..Len(s) /\ RestOf(v, s, m)
    BY <1>1, <1>3, <2>1 DEF RestOf
  <2>3. v \in Seq(S) /\ Len(v) = Len(s) - m /\ \A i \in 1..Len(v) : v[i] = s[i + m]
    BY <2>2, RestIs
  <2>4. n = Len(s) - k /\ n \in Nat /\ n > 0 /\ t # << >>
    BY <1>1, <1>2, <1>3, <2>1
  <2>5. u \in Seq(S) /\ Len(u) = n - 1 /\ \A i \in 1..(n - 1) : u[i] = t[i + 1]
    BY <1>2, <2>1, <2>4
  <2>6. Len(u) = Len(v)
    <3>1. Len(u) = n - 1 /\ Len(v) = Len(s) - m /\ n = Len(s) - k /\ m = k + 1
      BY <2>1, <2>3, <2>4, <2>5, Zenon
    <3>2. Len(s) - m = n - 1
      BY <1>1, <3>1
    <3> QED
      BY <3>1, <3>2, Zenon
  <2>7. ASSUME NEW i \in 1..Len(u) PROVE u[i] = v[i]
    <3>1. i \in 1..(n - 1) /\ i + 1 \in 1..Len(t) /\ i \in 1..Len(v) /\ (i + 1) + k = i + m
      BY <1>1, <2>1, <2>4, <2>5, <2>6
    <3>2. u[i] = t[i + 1] /\ t[i + 1] = s[(i + 1) + k] /\ v[i] = s[i + m]
      BY <1>2, <2>3, <2>5, <3>1, Zenon
    <3> QED
      BY <3>1, <3>2
  <2>8. u = v
    BY <2>3, <2>5, <2>6, <2>7, SameSequence
  <2> QED
    BY <2>1, <2>8, Zenon DEF RestOf
<1>4. ASSUME k < Len(s) PROVE Head(t) = s[k + 1] /\ s[k + 1] \in S
  <2>1. Len(t) > 0 /\ 1 \in 1..Len(t) /\ k + 1 \in 1..Len(s)
    BY <1>1, <1>2, <1>4
  <2>2. Head(t) = t[1] /\ t[1] = s[k + 1]
    BY <1>1, <1>2, <2>1
  <2> QED
    BY <2>1, <2>2
<1>5. t = << >> <=> k = Len(s)
  <2>1. t = << >> <=> Len(t) = 0
    BY <1>2
  <2> QED
    BY <1>1, <1>2, <2>1
<1> QED
  BY <1>3, <1>4, <1>5

\* A handler that runs: its program, and what it may do next.
LEMMA ProgramRunning ==
  ASSUME ProgramInv, phase = "handler"
  PROVE  /\ request # NoRequest /\ input \in Inputs /\ request.timeout \in BOOLEAN
         /\ ~ended /\ ~concluded /\ Len(wire) <= Len(emits) /\ emits \in Seq(Payloads)
         /\ \E p \in direct : Within(p, input.kind) /\ Sofar(p) /\ Left(p)
<1>1. request # NoRequest /\ ~ended /\ ~concluded /\ emits \in Seq(Payloads)
  BY DEF ProgramInv, IInv, ServerInv, ServerType, RanInv
<1>2. input \in Inputs /\ request.timeout \in BOOLEAN
  BY <1>1, ProgramRequest DEF ProgramInv
<1>3. Len(wire) <= Len(emits)
  <2>1. SUFFICES ASSUME Len(wire) > Len(emits) PROVE FALSE
    BY <1>1 DEF ProgramInv, IInv, WireInv
  <2>2. Len(wire) \in 1..Len(wire) /\ Len(emits) \in Nat /\ Len(wire) \in Nat
    BY <1>1, <2>1 DEF ProgramInv, IInv, WireInv
  <2> QED
    BY <1>1, <2>1, <2>2 DEF ProgramInv, IInv, WireInv
<1>4. PICK p \in direct : Runs(p)
  BY DEF ProgramInv, RanInv
<1>5. Within(p, input.kind)
  BY <1>2, DirectPrograms, Zenon
<1> QED
  BY <1>1, <1>2, <1>3, <1>4, <1>5, Zenon DEF Runs

\* The next message is one of StreamCall's.
LEMMA NextMessage ==
  ASSUME NEW p, Within(p, input.kind), Sofar(p), Left(p), emits \in Seq(Payloads)
  PROVE  /\ prog.emits = << >> <=> Len(emits) = Len(p.emits)
         /\ prog.emits # << >> =>
              /\ Len(emits) + 1 <= Len(p.emits)
              /\ Head(prog.emits) = p.emits[Len(emits) + 1]
              /\ asPayload(Head(prog.emits), input.kind) \in Payloads
              /\ RestOf(Tail(prog.emits), p.emits, Len(emits) + 1)
<1>1. PICK s, t, k, S : s = p.emits /\ t = prog.emits /\ k = Len(emits) /\ S = ToSet(p.emits)
  OBVIOUS
<1>2. s \in Seq(S) /\ \A m \in S : asPayload(m, input.kind) \in Payloads
  BY <1>1, Zenon DEF Within
<1>3. RestOf(t, s, k)
  BY <1>1, Zenon DEF Left, RestOf
<1>4. k \in 0..Len(s) /\ Len(s) \in Nat
  BY <1>1, <1>2 DEF Sofar
<1>5. /\ t = << >> <=> k = Len(s)
      /\ k < Len(s) => /\ Head(t) = s[k + 1] /\ s[k + 1] \in S
                       /\ RestOf(Tail(t), s, k + 1)
  BY <1>2, <1>3, <1>4, RestSteps
<1>6. t # << >> => k < Len(s) /\ k + 1 <= Len(s)
  BY <1>4, <1>5
<1>7. t # << >> => asPayload(Head(t), input.kind) \in Payloads
  BY <1>2, <1>5, <1>6, Zenon
<1> QED
  BY <1>1, <1>5, <1>6, <1>7, Zenon

\* Each step of a program is one that StreamCall allows, with a value of its constants.
LEMMA CallsIsOpen ==
  ASSUME NEW in \in Inputs, NEW d \in BOOLEAN, Calls(in, d)
  PROVE  Client
<1>1. requestFor(in) \in Requests
  BY ProgramsAssumption, Zenon
<1>2. Open(requestFor(in), d) /\ UNCHANGED serverVars
  BY Zenon DEF Calls
<1> QED
  BY <1>1, <1>2, Zenon DEF Client, ClientNext

LEMMA SetsHeaderIsSetHeader ==
  ASSUME ProgramInv, SetsHeader
  PROVE  Head(prog.headers) \in HeaderKeys /\ SetHeader(Head(prog.headers)) /\ Server
<1>1. phase = "handler" /\ prog.headers # << >> /\ SetHeader(Head(prog.headers)) /\ UNCHANGED clientVars
  BY DEF SetsHeader
<1>2. PICK p \in direct : Left(p)
  BY <1>1, ProgramRunning
<1>3. Head(prog.headers) \in HeaderKeys
  BY <1>1, <1>2 DEF Left
<1> QED
  BY <1>1, <1>3, Zenon DEF Server, ServerNext

LEMMA SetsTrailerIsSetTrailer ==
  ASSUME ProgramInv, SetsTrailer
  PROVE  Head(prog.trailers) \in TrailerKeys /\ SetTrailer(Head(prog.trailers)) /\ Server
<1>1. phase = "handler" /\ prog.trailers # << >> /\ SetTrailer(Head(prog.trailers)) /\ UNCHANGED clientVars
  BY DEF SetsTrailer
<1>2. PICK p \in direct : Left(p)
  BY <1>1, ProgramRunning
<1>3. Head(prog.trailers) \in TrailerKeys
  BY <1>1, <1>2 DEF Left
<1> QED
  BY <1>1, <1>3, Zenon DEF Server, ServerNext

LEMMA EmitsNextIsEmit ==
  ASSUME ProgramInv, EmitsNext
  PROVE  Server
<1>1. /\ phase = "handler" /\ prog.emits # << >> /\ UNCHANGED clientVars
      /\ Emit(asPayload(Head(prog.emits), ContentKindOf(request.ctype)))
  BY DEF EmitsNext, ready
<1>2. request # NoRequest /\ emits \in Seq(Payloads)
  BY <1>1, ProgramRunning
<1>3. PICK p \in direct : Within(p, input.kind) /\ Sofar(p) /\ Left(p)
  BY <1>1, ProgramRunning
<1>4. asPayload(Head(prog.emits), input.kind) \in Payloads
  BY <1>1, <1>2, <1>3, NextMessage
<1>5. ContentKindOf(request.ctype) = input.kind
  BY <1>2, ProgramKind DEF ProgramInv
<1> QED
  BY <1>1, <1>4, <1>5, Zenon DEF Server, ServerNext

LEMMA EmitFailsIsReturnError ==
  ASSUME EmitFails
  PROVE  Server
<1>1. ReturnError([kind |-> "other"]) /\ UNCHANGED clientVars
  BY Zenon DEF EmitFails
<1>2. PICK e : e = [kind |-> "other"]
  OBVIOUS
<1>3. e \in Errors
  BY <1>2, ProgramsAssumption, Zenon
<1> QED
  BY <1>1, <1>2, <1>3, Zenon DEF Server, ServerNext

LEMMA ReturnsIsReturn ==
  ASSUME ProgramInv, Returns
  PROVE  Server
<1>1. phase = "handler" /\ UNCHANGED clientVars
  BY DEF Returns, ready
<1>2. PICK p \in direct : Within(p, input.kind) /\ Left(p)
  BY <1>1, ProgramRunning
<1>3. CASE prog.error # << >>
  <2>1. ReturnError(prog.error[1])
    BY <1>3, Zenon DEF Returns
  <2>2. prog.error[1] \in Errors
    BY <1>2, <1>3 DEF Within, Left
  <2> QED
    BY <1>1, <2>1, <2>2, Zenon DEF Server, ServerNext
<1>4. CASE prog.error = << >>
  BY <1>1, <1>4, Zenon DEF Returns, Server, ServerNext
<1> QED
  BY <1>3, <1>4

LEMMA ProgramStep == ProgramInv /\ [ProgramNext]_allVars => [Next]_vars
<1> SUFFICES ASSUME ProgramInv, [ProgramNext]_allVars PROVE [Next]_vars
  OBVIOUS
<1>1. CASE UNCHANGED allVars
  BY <1>1, Zenon DEF allVars
<1>2. ASSUME NEW in \in Inputs, NEW d \in BOOLEAN, Calls(in, d) PROVE Next
  BY <1>2, CallsIsOpen, Zenon DEF Next
<1>3. ASSUME Dispatched PROVE Next
  BY <1>3, Zenon DEF Dispatched, Next, Server, ServerNext
<1>4. ASSUME ReceiverNext /\ UNCHANGED << serverVars, input, prog >> PROVE Next
  <2>1. ClientNext /\ UNCHANGED serverVars
    BY <1>4, Zenon DEF ReceiverNext, ClientNext
  <2> QED
    BY <2>1, Zenon DEF Next, Client
<1>5. ASSUME ProgramNext PROVE Next
  BY <1>2, <1>3, <1>4, <1>5, SetsHeaderIsSetHeader, SetsTrailerIsSetTrailer, EmitsNextIsEmit,
     EmitFailsIsReturnError, ReturnsIsReturn, Zenon DEF ProgramNext, Next
<1> QED
  BY <1>1, <1>5, Zenon

-----------------------------------------------------------------------------
(* The request stays that of the input.                                    *)

LEMMA SentKept ==
  ASSUME SentInv, UNCHANGED << request, input >>, conn # "up" => conn' # "up",
         phase' = "handler" => phase = "handler"
  PROVE  SentInv'
BY Zenon DEF SentInv, Whole1, Cut1

LEMMA CallSent ==
  ASSUME NEW in \in Inputs, NEW d \in BOOLEAN, Calls(in, d)
  PROVE  SentInv'
<1>1. request' = [requestFor(in) EXCEPT !.timeout = d] /\ input' = in
  BY Zenon DEF Calls, Open
<1>2. request' = Requested(in, d, Framed(in, full(in)))
  BY <1>1, SentInFull, Zenon
<1> QED
  BY <1>1, <1>2, Zenon DEF SentInv, Whole1

\* A handler that starts runs on the whole message.
LEMMA ServedInFull ==
  ASSUME SentInv, phase = "idle", request # NoRequest, Negotiate(request).to = "handler"
  PROVE  input \in Inputs /\ request.timeout \in BOOLEAN /\ Whole1(input, request.timeout)
<1>1. input \in Inputs /\ request.timeout \in BOOLEAN
  BY ProgramRequest, Zenon
<1>2. SUFFICES ASSUME Cut1(input, request.timeout) PROVE FALSE
  BY <1>1, ProgramRequest, Zenon
<1>3. ASSUME NEW n \in 0..(full(input) - 1), request = Requested(input, request.timeout, Framed(input, n))
      PROVE  FALSE
  BY <1>1, <1>3, Handled, Zenon
<1>4. ASSUME NEW n \in Nat, request = Requested(input, request.timeout, Unframed(n)) PROVE FALSE
  BY <1>1, <1>4, Handled, Zenon
<1> QED
  BY <1>2, <1>3, <1>4, Zenon DEF Cut1

LEMMA DispatchSent ==
  ASSUME SentInv, Dispatched
  PROVE  SentInv'
<1>1. phase = "idle" /\ request # NoRequest /\ input' = input
  BY DEF Dispatched, Serve
<1>2. CASE Reject(Negotiate(request))
  <2>1. request' = request /\ phase' # "handler" /\ (conn # "up" => conn' # "up")
    BY <1>2 DEF Reject, EndBody
  <2> QED
    BY <1>1, <2>1, SentKept
<1>3. CASE RunHandler(Negotiate(request))
  <2>1. request' = request /\ Negotiate(request).to = "handler"
    BY <1>3 DEF RunHandler, wireVars
  <2>2. input \in Inputs /\ request.timeout \in BOOLEAN /\ Whole1(input, request.timeout)
    BY <1>1, <2>1, ServedInFull
  <2> QED
    BY <1>1, <2>1, <2>2, Zenon DEF SentInv, Whole1
<1> QED
  BY <1>2, <1>3, Zenon DEF Dispatched, Serve

\* The two ways to lose some of the body.
LEMMA TwoCuts ==
  ASSUME NEW r, "body" \in DOMAIN r, r = [x \in DOMAIN r |-> r[x]], NEW b, b = r.body, NEW k
  PROVE  /\ \A s, c : s = [r EXCEPT !.body.frames[1].have = k] /\ Shortened(b, c, k) => OtherBody(r, s, c)
         /\ \A s, c : s = [r EXCEPT !.body.frames = << >>, !.body.extra = k] /\ Emptied(b, c, k) => OtherBody(r, s, c)
<1>1. PICK none : none = << >>
  OBVIOUS
<1>2. ASSUME NEW s, NEW c, s = [r EXCEPT !.body.frames[1].have = k], Shortened(b, c, k)
      PROVE  OtherBody(r, s, c)
  <2>1. c = [b EXCEPT !.frames[1].have = k]
    BY <1>2 DEF Shortened
  <2>2. s = [r EXCEPT !.body = [r.body EXCEPT !.frames[1].have = k]]
    BY <1>2
  <2>3. s = [r EXCEPT !.body = c]
    BY <2>1, <2>2, Zenon
  <2> QED
    BY <2>3, Zenon DEF OtherBody
<1>3. ASSUME NEW s, NEW c, s = [r EXCEPT !.body.frames = << >>, !.body.extra = k], Emptied(b, c, k)
      PROVE  OtherBody(r, s, c)
  <2>1. PICK u, x : u = [b EXCEPT !.frames = none] /\ x = [r EXCEPT !.body = u]
    OBVIOUS
  <2>2. c = [u EXCEPT !.extra = k]
    BY <1>1, <1>3, <2>1, Zenon DEF Emptied
  <2>3. [r EXCEPT !.body.frames = none] = x
    BY <2>1
  <2>4. s = [x EXCEPT !.body.extra = k]
    BY <1>1, <1>3, <2>3, Zenon
  <2>5. x.body = u
    BY <2>1
  <2>6. s = [x EXCEPT !.body = c]
    <3>1. s = [x EXCEPT !.body = [x.body EXCEPT !.extra = k]]
      BY <2>4
    <3> QED
      BY <2>2, <2>5, <3>1, Zenon
  <2>7. s = [r EXCEPT !.body = c]
    BY <2>1, <2>6
  <2> QED
    BY <2>7, Zenon DEF OtherBody
<1> QED
  BY <1>2, <1>3

LEMMA CutSent ==
  ASSUME SentInv, CutRequest, UNCHANGED input
  PROVE  SentInv'
<1>1. /\ request # NoRequest /\ phase = "idle" /\ Len(request.body.frames) = 1
      /\ conn' = "reset" /\ phase' = phase
  BY DEF CutRequest, serverVars
<1>2. PICK d : d = request.timeout
  OBVIOUS
<1>3. input \in Inputs /\ d \in BOOLEAN /\ (Whole1(input, d) \/ Cut1(input, d))
  BY <1>1, <1>2, ProgramRequest, Zenon
<1>4. full(input) \in Nat
  BY <1>3, FullIsNat
<1>5. \E n \in 0..full(input) : request = Requested(input, d, Framed(input, n))
  <2>1. ASSUME NEW n \in Nat, request = Requested(input, d, Unframed(n)) PROVE FALSE
    <3>0. IsRequestFor(request, input, d, Unframed(n))
      BY <2>1, RequestedFields, Zenon
    <3>1. PICK b : b = Unframed(n) /\ request.body = b
      BY <3>0, Zenon DEF IsRequestFor
    <3> QED
      BY <1>1, <3>1 DEF Unframed
  <2>2. full(input) \in 0..full(input) /\ \A n \in 0..(full(input) - 1) : n \in 0..full(input)
    BY <1>4
  <2> QED
    BY <1>3, <2>1, <2>2, Zenon DEF Whole1, Cut1
<1>6. PICK n \in 0..full(input) : request = Requested(input, d, Framed(input, n))
  BY <1>5, Zenon
<1>7. PICK a : a = Framed(input, n) /\ request = Requested(input, d, a)
  BY <1>6, Zenon
<1>8. request.body = a
  <2>1. IsRequestFor(request, input, d, a)
    BY <1>7, RequestedFields, Zenon
  <2> QED
    BY <2>1, Zenon DEF IsRequestFor
<1>9. request.body.frames[1].have = n
  <2>1. a.frames[1].have = n
    BY <1>7, InFrame
  <2> QED
    BY <1>8, <2>1, Zenon
<1>10. PICK r : r = request /\ "body" \in DOMAIN r /\ r = [x \in DOMAIN r |-> r[x]]
  <2>1. PICK no, post, key, no1 : no = "" /\ post = "POST" /\ key = "canonical" /\ no1 = FALSE
    OBVIOUS
  <2>2. PICK c : c = ContentTypeFor(TRUE, input.kind)
    OBVIOUS
  <2>3. request = [[version |-> no, httpMethod |-> post, path |-> input.path, ctype |-> c, ce |-> no,
                    cce |-> no, accept |-> key, timeout |-> no1, body |-> a] EXCEPT !.timeout = d]
    BY <1>7, <2>1, <2>2, Zenon DEF Requested, stubRequest
  <2> QED
    BY <2>3
<1>11. ASSUME NEW k, NEW c, OtherBody(request, request', c) PROVE request' = Requested(input, d, c)
  BY <1>7, <1>11, Rebodied, Zenon
<1>12. ASSUME NEW k \in 0..(n - 1), NEW s, s = request', s = [request EXCEPT !.body.frames[1].have = k]
       PROVE  Cut1(input, d)'
  <2>1. PICK c : Shortened(a, c, k)
    BY Zenon DEF Shortened
  <2>2. OtherBody(request, s, c)
    BY <1>8, <1>10, <1>12, <2>1, TwoCuts, Zenon
  <2>3. c = Framed(input, k)
    BY <1>7, <2>1, CutInFrame, Zenon
  <2>4. request' = Requested(input, d, Framed(input, k))
    BY <1>11, <1>12, <2>2, <2>3, Zenon
  <2>5. k \in 0..(full(input) - 1)
    BY <1>4
  <2> QED
    BY <2>4, <2>5, Zenon DEF Cut1
<1>13. ASSUME NEW k \in Nat, NEW s, s = request',
              s = [request EXCEPT !.body.frames = << >>, !.body.extra = k]
       PROVE  Cut1(input, d)'
  <2>1. PICK c : Emptied(a, c, k)
    BY Zenon DEF Emptied
  <2>2. OtherBody(request, s, c)
    BY <1>8, <1>10, <1>13, <2>1, TwoCuts, Zenon
  <2>3. c = Unframed(k)
    BY <1>7, <2>1, CutInFrame, Zenon
  <2>4. request' = Requested(input, d, Unframed(k))
    BY <1>11, <1>13, <2>2, <2>3, Zenon
  <2> QED
    BY <2>4, Zenon DEF Cut1
<1>14. Cut1(input, d)'
  <2>1. \/ \E k \in 0..(n - 1) : request' = [request EXCEPT !.body.frames[1].have = k]
        \/ \E k \in 0..(HeaderBytes - 1) :
             request' = [request EXCEPT !.body.frames = << >>, !.body.extra = k]
    BY <1>9, Zenon DEF CutRequest
  <2>2. \A k \in 0..(HeaderBytes - 1) : k \in Nat
    OBVIOUS
  <2> QED
    BY <1>12, <1>13, <2>1, <2>2, Zenon
<1>15. input' = input /\ conn' # "up" /\ phase' # "handler"
  BY <1>1
<1> QED
  BY <1>3, <1>14, <1>15, Zenon DEF SentInv, Cut1

LEMMA InitSent == ProgramInit => SentInv
BY Zenon DEF ProgramInit, Init, WireInit, SentInv

LEMMA NextSent == SentInv /\ [ProgramNext]_allVars => SentInv'
<1> SUFFICES ASSUME SentInv, [ProgramNext]_allVars PROVE SentInv'
  OBVIOUS
<1>1. CASE UNCHANGED allVars
  <2>1. UNCHANGED << request, input, conn, phase >>
    BY <1>1 DEF allVars, vars, wireVars, serverVars
  <2> QED
    BY <2>1, SentKept
<1>2. CASE SetsHeader \/ SetsTrailer \/ EmitsNext \/ EmitFails \/ Returns
  <2>0. \A p, k : (Emit(p) \/ SetHeader(k) \/ SetTrailer(k) \/ ReturnError(k) \/ ReturnNil) =>
          /\ UNCHANGED request /\ (conn # "up" => conn' # "up")
          /\ (phase' = "handler" => phase = "handler")
    BY DEF Emit, SetHeader, SetTrailer, ReturnError, ReturnNil, EndBody, wireVars
  <2>1. /\ UNCHANGED << request, input >> /\ (conn # "up" => conn' # "up")
        /\ (phase' = "handler" => phase = "handler")
    BY <1>2, <2>0, Zenon DEF SetsHeader, SetsTrailer, EmitsNext, EmitFails, Returns
  <2> QED
    BY <2>1, SentKept
<1>3. CASE ReceiverNext /\ UNCHANGED << serverVars, input, prog >>
  <2>1. UNCHANGED << request, input, phase >> /\ (conn # "up" => conn' # "up")
    BY <1>3 DEF ReceiverNext, OpenOK, OpenRejected, OpenFails, failOpen, Recv, RecvMessage, RecvEnd,
       RecvFails, RecvDeadline, Cancel, Close, closeBody, TimerExpires, EndBody, wireVars, serverVars
  <2> QED
    BY <2>1, SentKept
<1>4. CASE (Break \/ Done) /\ UNCHANGED << input, prog >>
  <2>1. UNCHANGED << request, input, phase >> /\ (conn # "up" => conn' # "up")
    BY <1>4 DEF Break, Truncate, Done, vars, wireVars, serverVars
  <2> QED
    BY <2>1, SentKept
<1> QED
  BY <1>1, <1>2, <1>3, <1>4, CallSent, DispatchSent, CutSent, Zenon DEF ProgramNext

-----------------------------------------------------------------------------
(* The server keeps to a program of the client's input.                    *)

LEMMA RunsKept ==
  ASSUME NEW p, Runs(p), UNCHANGED << input, prog, emits, fate, trl >>,
         phase' = "handler" => phase = "handler",
         Len(wire') > Len(emits) => Len(wire) > Len(emits)
  PROVE  Runs(p)'
BY DEF Runs, Sofar, Left, Ended

\* The head that a write may send.
LEMMA HeadSent ==
  ASSUME NEW h, NEW f, WriteFrame(h, f)
  PROVE  /\ head # NoHead => head' = head
         /\ conn # "up" => UNCHANGED << head, wire >>
BY DEF WriteFrame

\* Steps in which the server does nothing.
LEMMA RanKept ==
  ASSUME RanInv, Len(wire) \in Nat, Len(wire') \in Nat, Len(wire') <= Len(wire), Len(emits) \in Nat,
         UNCHANGED << input, prog, emits, fate, trl, ended, phase, request >>,
         head' = head \/ (cl' \notin {"open", "closed"} /\ head' = NoHead),
         cl' \in {"open", "closed"} => cl \in {"open", "closed"} \/ accepted
  PROVE  RanInv'
<1>1. direct' = direct
  BY SameDirect
<1>2. accepted' => accepted
  BY DEF accepted
<1>3. ASSUME NEW p \in direct, Runs(p) PROVE Runs(p)'
  BY <1>3, RunsKept
<1>4. phase' = "handler" \/ (phase' = "returned" /\ accepted') => \E p \in direct' : Runs(p)'
  <2>1. phase' = "handler" \/ (phase' = "returned" /\ accepted') => \E p \in direct : Runs(p)
    BY <1>2 DEF RanInv
  <2> QED
    BY <1>1, <1>3, <2>1, Zenon
<1>5. phase' = "idle" => head' = NoHead /\ trl' = {}
  BY DEF RanInv
<1>6. phase' = "handler" => ~ended'
  BY DEF RanInv
<1>7. cl' \in {"open", "closed"} => phase' # "idle" /\ accepted'
  <2>1. cl' \in {"open", "closed"} => accepted /\ head' = head
    BY DEF RanInv
  <2> QED
    BY <1>5, <2>1 DEF accepted
<1> QED
  BY <1>4, <1>5, <1>6, <1>7, Zenon DEF RanInv

LEMMA CallRan ==
  ASSUME ProgramInv, NEW in \in Inputs, NEW d \in BOOLEAN, Calls(in, d)
  PROVE  RanInv'
<1>1. Open(requestFor(in), d) /\ UNCHANGED serverVars
  BY Zenon DEF Calls
<1>2. cl = "idle" /\ cl' = "connecting" /\ UNCHANGED << head, wire, serverVars >>
  BY <1>1 DEF Open
<1>3. phase = "idle"
  BY <1>2 DEF ProgramInv, IInv, ClientInv, ServerInv
<1>4. phase' = "idle" /\ head' = NoHead /\ trl' = {}
  BY <1>2, <1>3 DEF ProgramInv, RanInv, serverVars
<1> QED
  BY <1>2, <1>4 DEF RanInv

\* What the wrapper decodes is what the client sent.
LEMMA Decoded ==
  ASSUME SentInv, request # NoRequest, Whole1(input, request.timeout), input \in Inputs, NEW c,
         NEW x \in registered(request.path, arrivedBody, ContentKindOf(request.ctype), c)
  PROVE  x = run(input.path, input.msg, c)
<1>1. ContentKindOf(request.ctype) = input.kind /\ request.path = input.path
  BY ProgramKind
<1>2. PICK b, d : b = Framed(input, full(input)) /\ d = request.timeout /\ request = Requested(input, d, b)
  BY Zenon DEF Whole1
<1>3. request.body = b
  <2>1. IsRequestFor(request, input, d, b)
    BY <1>2, RequestedFields, Zenon
  <2> QED
    BY <2>1, Zenon DEF IsRequestFor
<1>4. b.frames[1].have = full(input)
  BY <1>2, InFrame
<1>5. arrivedBody = encodeMsg(input.msg, input.kind)
  <2>1. PICK e : e = encodeMsg(input.msg, input.kind)
    OBVIOUS
  <2>2. arrivedBody = [e EXCEPT !.have = e.have]
    BY <1>3, <1>4, <2>1, Zenon DEF arrivedBody, full
  <2>3. e = [e EXCEPT !.have = e.have]
    BY <2>1 DEF encodeMsg
  <2> QED
    BY <2>1, <2>2, <2>3, Zenon
<1>6. decodeMsg(arrivedBody, input.kind) = { << input.msg >> }
  BY <1>5, WholeDecodes, Zenon
<1>7. PICK m : m = input.msg
  OBVIOUS
<1>8. PICK e \in decodeMsg(arrivedBody, ContentKindOf(request.ctype)) :
        x = IF e = << >> THEN Fails([kind |-> "other"]) ELSE run(request.path, e[1], c)
  BY Zenon DEF registered
<1>9. e \in { << m >> }
  BY <1>1, <1>6, <1>7, <1>8, Zenon
<1>10. e # << >> /\ e[1] = m
  BY <1>9
<1> QED
  BY <1>1, <1>7, <1>8, <1>10, Zenon

LEMMA DispatchRan ==
  ASSUME ProgramInv, Dispatched
  PROVE  RanInv'
<1>1. /\ phase = "idle" /\ request # NoRequest /\ UNCHANGED << clientVars, input >>
      /\ head = NoHead /\ trl = {} /\ cl \notin {"open", "closed"}
  BY DEF Dispatched, Serve, ProgramInv, RanInv
<1>2. CASE Reject(Negotiate(request))
  <2> DEFINE n == Negotiate(request)
  <2>1. /\ n.to # "handler" /\ phase' = "returned"
        /\ IF n.to = "http" THEN head' = IF conn = "up" THEN ResponseHead(n.status, {}) ELSE head
           ELSE WriteFrame(ResponseHead(200, hdr), EndFrame(n.code, << >>, trl))
    BY <1>2 DEF Reject
  <2>2. ~accepted'
    <3>1. CASE conn # "up"
      <4>1. head' = head
        BY <2>1, <3>1, HeadSent
      <4> QED
        BY <1>1, <4>1 DEF accepted
    <3>2. CASE conn = "up"
      <4>1. PICK d : input \in Inputs /\ Whole1(input, d)
        BY <1>1, <3>2, ProgramRequest, Zenon DEF ProgramInv
      <4>2. n = runHandler \/ n = writeError(8)
        BY <4>1, Handled, Zenon DEF Whole1
      <4>3. n.to = "http" /\ n.status = 429
        BY <2>1, <4>2 DEF runHandler, writeError, writeErrorStatus, HTTPStatus, KnownCodes, StatusTable
      <4>4. head' = ResponseHead(n.status, {})
        BY <2>1, <3>2, <4>3
      <4>5. head'.status = 429
        BY <4>3, <4>4 DEF ResponseHead
      <4> QED
        BY <4>5 DEF accepted
    <3> QED
      BY <3>1, <3>2
  <2> QED
    BY <1>1, <2>1, <2>2 DEF RanInv, clientVars
<1>3. CASE RunHandler(Negotiate(request))
  <2>1. /\ phase' = "handler" /\ Negotiate(request).to = "handler"
        /\ UNCHANGED << wire, head, request, emits, trl, ended, fate >>
    BY <1>3 DEF RunHandler, wireVars
  <2>2. input \in Inputs /\ request.timeout \in BOOLEAN /\ Whole1(input, request.timeout)
    BY <1>1, <2>1, ServedInFull DEF ProgramInv
  <2>3. PICK c \in contexts :
          prog' \in registered(request.path, arrivedBody, ContentKindOf(request.ctype), c)
    BY <2>1, Zenon DEF Dispatched
  <2>4. PICK p : p = prog' /\ p = run(input.path, input.msg, c)
    BY <1>1, <2>2, <2>3, Decoded, Zenon DEF ProgramInv
  <2>5. p \in direct
    BY <2>3, <2>4, Zenon DEF direct
  <2>6. Within(p, input.kind)
    BY <2>2, <2>5, DirectPrograms
  <2>7. emits = << >> /\ ~ended /\ ~concluded
    BY <1>1 DEF ProgramInv, IInv, ServerInv, concluded
  <2>8. Len(emits) = 0 /\ ~(Len(wire) > 0)
    <3>1. Len(emits) = 0 /\ Len(wire) \in Nat
      BY <2>7 DEF ProgramInv, IInv, WireInv
    <3>2. ASSUME Len(wire) > 0 PROVE FALSE
      <4>1. 1 \in 1..Len(wire)
        BY <3>1, <3>2
      <4> QED
        BY <2>7, <3>1, <4>1 DEF ProgramInv, IInv, WireInv
    <3> QED
      BY <3>1, <3>2
  <2>9. Runs(p)'
    <3>1. p.emits \in Seq(ToSet(p.emits)) /\ p.trailers \in Seq(TrailerKeys) /\ p.headers \in Seq(HeaderKeys)
          /\ IsProgram(p)
      BY <2>6, Zenon DEF Within
    <3>2. SubSeq(p.emits, 1, Len(p.emits)) = p.emits /\ Len(p.emits) \in Nat
      BY <3>1
    <3>3. emits' = << >> /\ Len(emits') = 0 /\ ~(Len(wire') > Len(emits')) /\ trl' = {}
      BY <1>1, <2>1, <2>7, <2>8
    <3>4. Sofar(p)'
      BY <3>2, <3>3 DEF Sofar
    <3>5. Left(p)'
      <4>1. prog'.emits = SubSeq(p.emits, Len(emits') + 1, Len(p.emits))
        BY <2>4, <3>2, <3>3
      <4>2. trl' \cup ToSet(prog'.trailers) = ToSet(p.trailers)
        BY <2>4, <3>3
      <4>3. IsProgram(prog') /\ prog'.error = p.error /\ prog'.headers \in Seq(HeaderKeys)
            /\ prog'.trailers \in Seq(TrailerKeys)
        BY <2>4, <3>1
      <4> QED
        BY <4>1, <4>2, <4>3 DEF Left, IsProgram
    <3> QED
      BY <3>3, <3>4, <3>5 DEF Runs
  <2>10. direct' = direct
    BY <1>1, <2>1, SameDirect
  <2>11. \E q \in direct' : Runs(q)'
    BY <2>5, <2>9, <2>10, Zenon
  <2> QED
    BY <1>1, <2>1, <2>7, <2>11 DEF RanInv, clientVars
<1> QED
  BY <1>2, <1>3, Zenon DEF Dispatched, Serve

\* The steps of a running program.
LEMMA ProgramRan ==
  ASSUME RanInv, phase = "handler", UNCHANGED << clientVars, request, input >>,
         phase' = "returned" \/ (phase' = "handler" /\ ~ended'),
         head # NoHead => head' = head,
         NEW p \in direct, Runs(p)'
  PROVE  RanInv'
<1>1. direct' = direct
  BY SameDirect
<1>2. \E q \in direct' : Runs(q)'
  BY <1>1, Zenon
<1>3. cl' \in {"open", "closed"} => phase' # "idle" /\ accepted'
  BY DEF RanInv, accepted, clientVars
<1> QED
  BY <1>2, <1>3 DEF RanInv

\* The set that a sequence lists loses at most its head.
LEMMA ListedOnce ==
  ASSUME NEW S, NEW s \in Seq(S), s # << >>
  PROVE  ToSet(s) = {Head(s)} \cup ToSet(Tail(s)) /\ Head(s) \in S /\ Tail(s) \in Seq(S)
<1>1. PICK t, n : t = Tail(s) /\ n = Len(s)
  OBVIOUS
<1>2. n \in Nat /\ n > 0 /\ t \in Seq(S) /\ Len(t) = n - 1 /\ Head(s) = s[1] /\ Head(s) \in S
  BY <1>1
<1>3. \A i \in 1..(n - 1) : t[i] = s[i + 1]
  BY <1>1
<1>4. DOMAIN s = 1..n /\ DOMAIN t = 1..(n - 1)
  BY <1>1, <1>2
<1>5. ToSet(s) = {s[i] : i \in 1..n} /\ ToSet(t) = {t[i] : i \in 1..(n - 1)}
  BY <1>4, Zenon DEF ToSet
<1>6. ASSUME NEW i \in 1..n PROVE s[i] = s[1] \/ s[i] \in {t[j] : j \in 1..(n - 1)}
  <2>1. CASE i # 1
    <3>1. i - 1 \in 1..(n - 1) /\ (i - 1) + 1 = i
      BY <1>2, <2>1
    <3>2. t[i - 1] = s[i]
      BY <1>3, <3>1
    <3> QED
      BY <3>1, <3>2
  <2> QED
    BY <2>1
<1>7. ASSUME NEW i \in 1..(n - 1) PROVE t[i] \in {s[j] : j \in 1..n}
  <2>1. i + 1 \in 1..n /\ t[i] = s[i + 1]
    BY <1>2, <1>3
  <2> QED
    BY <2>1
<1>8. s[1] \in {s[j] : j \in 1..n}
  BY <1>2
<1>9. ToSet(s) = {Head(s)} \cup ToSet(t)
  <2> DEFINE A == {s[j] : j \in 1..n}
             B == {t[j] : j \in 1..(n - 1)}
  <2>1. \A x \in A : x = s[1] \/ x \in B
    BY <1>6
  <2>2. \A x \in B : x \in A
    BY <1>7
  <2>3. s[1] \in A
    BY <1>8
  <2>4. ToSet(s) = A /\ ToSet(t) = B
    BY <1>5
  <2> HIDE DEF A, B
  <2> QED
    BY <1>2, <2>1, <2>2, <2>3, <2>4
<1> QED
  BY <1>1, <1>2, <1>9

LEMMA SetsHeaderRan ==
  ASSUME ProgramInv, SetsHeader
  PROVE  RanInv'
<1>1. /\ phase = "handler" /\ prog.headers # << >> /\ SetHeader(Head(prog.headers))
      /\ UNCHANGED << clientVars, input >>
  BY DEF SetsHeader
<1>2. PICK q, x : q = prog' /\ x = Tail(prog.headers) /\ q = [prog EXCEPT !.headers = x]
  BY Zenon DEF SetsHeader
<1>3. UNCHANGED << phase, ended, trl, emits, fate, head, wire, request >>
  BY <1>1 DEF SetHeader, wireVars
<1>4. PICK p \in direct : Within(p, input.kind) /\ Sofar(p) /\ Left(p)
  BY <1>1, ProgramRunning
<1>5. HasParts(q, x, prog.trailers, prog.emits, prog.error)
  <2>1. IsProgram(prog)
    BY <1>4, Zenon DEF Left
  <2> QED
    BY <1>2, <2>1, OtherPart, Zenon
<1>6. IsProgram(q) /\ q.headers = x /\ q.trailers = prog.trailers /\ q.emits = prog.emits /\ q.error = prog.error
  BY <1>5, Zenon DEF HasParts
<1>7. x \in Seq(HeaderKeys)
  BY <1>1, <1>2, <1>4 DEF Left
<1>8. Sofar(p)'
  BY <1>1, <1>3, <1>4 DEF Sofar
<1>9. Left(p)'
  <2>1. prog' = q
    BY <1>2
  <2> QED
    BY <1>3, <1>4, <1>6, <1>7, <2>1 DEF Left, IsProgram
<1>10. ~(Len(wire) > Len(emits)) /\ ~ended
  <2>1. Len(wire) <= Len(emits) /\ Len(wire) \in Nat /\ Len(emits) \in Nat /\ ~ended
    BY <1>1, ProgramRunning DEF ProgramInv, IInv, WireInv
  <2> QED
    BY <2>1
<1>11. Runs(p)'
  BY <1>3, <1>8, <1>9, <1>10 DEF Runs
<1> QED
  BY <1>1, <1>3, <1>4, <1>10, <1>11, ProgramRan DEF ProgramInv

LEMMA SetsTrailerRan ==
  ASSUME ProgramInv, SetsTrailer
  PROVE  RanInv'
<1>1. /\ phase = "handler" /\ prog.trailers # << >> /\ SetTrailer(Head(prog.trailers))
      /\ UNCHANGED << clientVars, input >>
  BY DEF SetsTrailer
<1>2. PICK q, x : q = prog' /\ x = Tail(prog.trailers) /\ q = [prog EXCEPT !.trailers = x]
  BY Zenon DEF SetsTrailer
<1>3. /\ UNCHANGED << phase, ended, emits, fate, head, wire, request >>
      /\ trl' = trl \cup {Head(prog.trailers)}
  BY <1>1 DEF SetTrailer, wireVars
<1>4. PICK p \in direct : Within(p, input.kind) /\ Sofar(p) /\ Left(p)
  BY <1>1, ProgramRunning
<1>5. HasParts(q, prog.headers, x, prog.emits, prog.error)
  <2>1. IsProgram(prog)
    BY <1>4, Zenon DEF Left
  <2> QED
    BY <1>2, <2>1, OtherPart, Zenon
<1>6. IsProgram(q) /\ q.headers = prog.headers /\ q.trailers = x /\ q.emits = prog.emits /\ q.error = prog.error
  BY <1>5, Zenon DEF HasParts
<1>7. x \in Seq(TrailerKeys) /\ ToSet(prog.trailers) = {Head(prog.trailers)} \cup ToSet(x)
  <2>1. prog.trailers \in Seq(TrailerKeys)
    BY <1>4 DEF Left
  <2> QED
    BY <1>1, <1>2, <2>1, ListedOnce
<1>8. Sofar(p)'
  BY <1>1, <1>3, <1>4 DEF Sofar
<1>9. Left(p)'
  <2>1. prog' = q
    BY <1>2
  <2>2. trl' \cup ToSet(x) = ToSet(p.trailers)
    BY <1>3, <1>4, <1>7 DEF Left
  <2> QED
    BY <1>3, <1>4, <1>6, <1>7, <2>1, <2>2 DEF Left, IsProgram
<1>10. ~(Len(wire) > Len(emits)) /\ ~ended
  <2>1. Len(wire) <= Len(emits) /\ Len(wire) \in Nat /\ Len(emits) \in Nat /\ ~ended
    BY <1>1, ProgramRunning DEF ProgramInv, IInv, WireInv
  <2> QED
    BY <2>1
<1>11. Runs(p)'
  BY <1>3, <1>8, <1>9, <1>10 DEF Runs
<1> QED
  BY <1>1, <1>3, <1>4, <1>10, <1>11, ProgramRan DEF ProgramInv

LEMMA EmitsNextRan ==
  ASSUME ProgramInv, EmitsNext
  PROVE  RanInv'
<1>1. /\ phase = "handler" /\ prog.emits # << >> /\ UNCHANGED << clientVars, input >>
      /\ Emit(asPayload(Head(prog.emits), ContentKindOf(request.ctype)))
  BY DEF EmitsNext, ready
<1>2. PICK q, x, z : q = prog' /\ x = Tail(prog.emits) /\ q = [prog EXCEPT !.emits = x]
                     /\ z = asPayload(Head(prog.emits), input.kind)
  BY Zenon DEF EmitsNext
<1>3. request # NoRequest /\ emits \in Seq(Payloads) /\ ~ended /\ ~concluded
  BY <1>1, ProgramRunning
<1>4. PICK p \in direct : Within(p, input.kind) /\ Sofar(p) /\ Left(p)
  BY <1>1, ProgramRunning
<1>5. ContentKindOf(request.ctype) = input.kind
  BY <1>3, ProgramKind DEF ProgramInv
<1>6. Emit(z)
  BY <1>1, <1>2, <1>5, Zenon
<1>7. /\ UNCHANGED << phase, ended, trl, fate, request, conn, cut >> /\ emits' = Append(emits, z)
      /\ applyAndWrite(messageFrame(request, z))
  BY <1>6 DEF Emit
<1>8. /\ Len(emits) + 1 <= Len(p.emits) /\ z = asPayload(p.emits[Len(emits) + 1], input.kind)
      /\ z \in Payloads /\ RestOf(x, p.emits, Len(emits) + 1)
  <2>1. /\ Len(emits) + 1 <= Len(p.emits)
        /\ Head(prog.emits) = p.emits[Len(emits) + 1]
        /\ asPayload(Head(prog.emits), input.kind) \in Payloads
        /\ RestOf(Tail(prog.emits), p.emits, Len(emits) + 1)
    BY <1>1, <1>3, <1>4, NextMessage
  <2> QED
    BY <1>2, <2>1, Zenon
<1>9. /\ Len(emits) \in Nat /\ Len(emits') = Len(emits) + 1 /\ emits' \in Seq(Payloads)
      /\ emits'[Len(emits) + 1] = z /\ \A i \in 1..Len(emits) : emits'[i] = emits[i]
  BY <1>3, <1>7, <1>8, AppendFrame
<1>10. HasParts(q, prog.headers, prog.trailers, x, prog.error)
  <2>1. IsProgram(prog)
    BY <1>4, Zenon DEF Left
  <2> QED
    BY <1>2, <2>1, OtherPart, Zenon
<1>11. IsProgram(q) /\ q.headers = prog.headers /\ q.trailers = prog.trailers /\ q.emits = x /\ q.error = prog.error
  BY <1>10, Zenon DEF HasParts
<1>12. Sofar(p)'
  <2>1. ASSUME NEW i \in 1..Len(emits') PROVE emits'[i] = asPayload(p.emits[i], input.kind)
    <3>1. CASE i \in 1..Len(emits)
      BY <1>4, <1>9, <3>1 DEF Sofar
    <3>2. CASE i = Len(emits) + 1
      BY <1>8, <1>9, <3>2
    <3> QED
      BY <1>9, <3>1, <3>2
  <2> QED
    BY <1>1, <1>8, <1>9, <2>1 DEF Sofar
<1>13. Left(p)'
  <2>1. prog' = q
    BY <1>2
  <2>2. x = SubSeq(p.emits, Len(emits') + 1, Len(p.emits))
    BY <1>8, <1>9 DEF RestOf
  <2> QED
    BY <1>4, <1>7, <1>11, <2>1, <2>2 DEF Left, IsProgram
<1>14. ~(Len(wire') > Len(emits'))
  <2>1. WireInv'
    BY <1>3, <1>7, <1>8, WireGetsMessage DEF applyAndWrite, ProgramInv, IInv
  <2>2. ~concluded' /\ Len(wire') \in Nat
    BY <1>3, <1>7, <2>1 DEF concluded, WireInv
  <2>3. ASSUME Len(wire') > Len(emits') PROVE FALSE
    <3>1. Len(wire') \in 1..Len(wire') /\ Len(emits') \in Nat
      BY <1>9, <2>2, <2>3
    <3> QED
      BY <2>1, <2>2, <2>3, <3>1 DEF WireInv
  <2> QED
    BY <2>3
<1>15. Runs(p)'
  BY <1>7, <1>12, <1>13, <1>14 DEF Runs
<1>16. head # NoHead => head' = head
  BY <1>7 DEF applyAndWrite, WriteFrame
<1> QED
  BY <1>1, <1>3, <1>4, <1>7, <1>15, <1>16, ProgramRan DEF ProgramInv

\* A program that gives up because nothing gets through leaves no END on the wire.
LEMMA EmitFailsRan ==
  ASSUME ProgramInv, EmitFails
  PROVE  RanInv'
<1>1. phase = "handler" /\ conn # "up" /\ UNCHANGED << clientVars, input, prog >>
  BY DEF EmitFails, ready
<1>2. PICK e : ReturnError(e)
  BY Zenon DEF EmitFails
<1>3. PICK p \in direct : Within(p, input.kind) /\ Sofar(p) /\ Left(p)
  BY <1>1, ProgramRunning
<1>4. ~ended /\ Len(wire) <= Len(emits) /\ Len(wire) \in Nat /\ Len(emits) \in Nat
  BY <1>1, ProgramRunning DEF ProgramInv, IInv, WireInv
<1>5. phase' = "returned" /\ UNCHANGED << emits, request >>
  BY <1>2 DEF ReturnError
<1>6. UNCHANGED << head, wire >>
  <2>1. PICK h, f : WriteFrame(h, f)
    BY <1>2, <1>4, Zenon DEF ReturnError, applyAndWrite
  <2> QED
    BY <1>1, <2>1, HeadSent
<1>7. Sofar(p)'
  BY <1>1, <1>3, <1>5 DEF Sofar
<1>8. Runs(p)'
  BY <1>4, <1>5, <1>6, <1>7 DEF Runs
<1> QED
  BY <1>1, <1>3, <1>5, <1>6, <1>8, ProgramRan DEF ProgramInv

LEMMA ReturnsRan ==
  ASSUME ProgramInv, Returns
  PROVE  RanInv'
<1>1. phase = "handler" /\ prog.emits = << >> /\ prog.trailers = << >> /\ UNCHANGED << clientVars, input, prog >>
  BY DEF Returns, ready
<1>2. PICK p \in direct : Within(p, input.kind) /\ Sofar(p) /\ Left(p)
  BY <1>1, ProgramRunning
<1>3. ~ended /\ emits \in Seq(Payloads)
  BY <1>1, ProgramRunning
<1>4. Len(emits) = Len(p.emits)
  BY <1>1, <1>2, <1>3, NextMessage
<1>5. trl = ToSet(p.trailers)
  <2>1. ToSet(prog.trailers) = {}
    <3>1. ToSet(<< >>) = {}
      BY DEF ToSet
    <3> QED
      BY <1>1, <3>1, Zenon
  <2> QED
    BY <1>2, <2>1 DEF Left
<1>6. prog.error = p.error
  BY <1>2, Zenon DEF Left
<1>7. ASSUME NEW f, NEW c, NEW ds, NEW kind, fate' = Fate(kind, c, ds, trl), applyAndWrite(f),
             phase' = "returned", UNCHANGED << emits, request >>,
             IF p.error = << >> THEN c = 0 /\ ds = << >>
             ELSE c = p.error[1].code /\ ds = p.error[1].details
      PROVE  RanInv'
  <2>1. head # NoHead => head' = head
    BY <1>7, HeadSent DEF applyAndWrite
  <2>2. fate'.code = c /\ fate'.details = ds /\ fate'.trailers = trl
    BY <1>7 DEF Fate
  <2>3. Ended(p)'
    BY <1>4, <1>5, <1>7, <2>2 DEF Ended
  <2>4. Sofar(p)'
    BY <1>1, <1>2, <1>7 DEF Sofar
  <2>5. Runs(p)'
    BY <1>7, <2>3, <2>4 DEF Runs
  <2> QED
    BY <1>1, <1>2, <1>7, <2>1, <2>5, ProgramRan DEF ProgramInv
<1>8. CASE p.error = << >>
  <2>1. ReturnNil
    BY <1>6, <1>8, Zenon DEF Returns
  <2>2. /\ applyAndWrite(EndFrame(0, << >>, trl)) /\ fate' = Fate("clean", 0, << >>, trl)
        /\ phase' = "returned" /\ UNCHANGED << emits, request >>
    BY <1>3, <2>1 DEF ReturnNil
  <2>3. PICK f : applyAndWrite(f)
    BY <2>2, Zenon
  <2> QED
    BY <1>7, <1>8, <2>2, <2>3
<1>9. CASE p.error # << >>
  <2>1. PICK e : e = p.error[1] /\ ReturnError(e)
    BY <1>6, <1>9, Zenon DEF Returns
  <2>2. e.kind = "rpc"
    <3>1. PICK code, details : p.error = << RPCError(code, details) >>
      BY <1>2, <1>9, Zenon DEF Within
    <3> QED
      BY <2>1, <3>1 DEF RPCError
  <2>3. asRPCError(e).code = e.code /\ asRPCError(e).details = e.details
    BY <2>2 DEF asRPCError
  <2>4. /\ \E f : applyAndWrite(f)
        /\ fate' = Fate("error", asRPCError(e).code, asRPCError(e).details, trl)
        /\ phase' = "returned" /\ UNCHANGED << emits, request >>
    BY <1>3, <2>1, Zenon DEF ReturnError
  <2>5. PICK f, c, ds : /\ applyAndWrite(f) /\ c = asRPCError(e).code /\ ds = asRPCError(e).details
                        /\ fate' = Fate("error", c, ds, trl)
    BY <2>4, Zenon
  <2>6. IF p.error = << >> THEN c = 0 /\ ds = << >>
        ELSE c = p.error[1].code /\ ds = p.error[1].details
    BY <1>9, <2>1, <2>3, <2>5, Zenon
  <2> QED
    BY <1>7, <2>4, <2>5, <2>6, Zenon
<1> QED
  BY <1>8, <1>9

LEMMA InitRan == ProgramInit => RanInv
BY DEF ProgramInit, Init, WireInit, ServerInit, ClientInit, RanInv

LEMMA NextRan == ProgramInv /\ [ProgramNext]_allVars => RanInv'
<1> SUFFICES ASSUME ProgramInv, [ProgramNext]_allVars PROVE RanInv'
  OBVIOUS
<1>0. RanInv /\ Len(wire) \in Nat /\ Len(emits) \in Nat
  BY DEF ProgramInv, IInv, WireInv, ServerType
<1>1. CASE UNCHANGED allVars
  <2>1. UNCHANGED << input, prog, emits, fate, trl, ended, phase, request, head, cl, wire >>
    BY <1>1 DEF allVars, vars, wireVars, serverVars, clientVars
  <2> QED
    BY <1>0, <2>1, RanKept
<1>2. CASE ReceiverNext /\ UNCHANGED << serverVars, input, prog >>
  <2>1. UNCHANGED << input, prog, emits, fate, trl, ended, phase >>
    BY <1>2 DEF serverVars
  <2>2. UNCHANGED << request, head, wire >> /\ (cl' \in {"open", "closed"} => cl \in {"open", "closed"} \/ accepted)
    BY <1>2 DEF ReceiverNext, OpenOK, OpenRejected, OpenFails, failOpen, Recv, RecvMessage, RecvEnd,
       RecvFails, RecvDeadline, Cancel, Close, closeBody, TimerExpires, wireVars, accepted
  <2> QED
    BY <1>0, <2>1, <2>2, RanKept
<1>3. CASE Break /\ UNCHANGED << input, prog >>
  <2>1. UNCHANGED << input, prog, emits, fate, trl, ended, phase, cl >>
    BY <1>3 DEF Break, serverVars, clientVars
  <2>2. PICK k \in pos..Len(wire), how \in {"eof", "reset"} :
          /\ Truncate(k, how)
          /\ UNCHANGED head \/ (cl = "connecting" /\ head' = NoHead)
    BY <1>3 DEF Break
  <2>3. request' = request /\ wire' = SubSeq(wire, 1, k)
    BY <2>2 DEF Truncate
  <2>4. Len(wire') = k /\ k \in Nat /\ k <= Len(wire)
    <3>1. k \in 0..Len(wire)
      BY <1>0, <2>2 DEF ProgramInv, IInv, ClientType
    <3> QED
      BY <1>0, <2>3, <3>1 DEF ProgramInv, IInv, WireInv
  <2> QED
    BY <1>0, <2>1, <2>2, <2>3, <2>4, RanKept
<1>4. CASE Done /\ UNCHANGED << input, prog >>
  <2>1. UNCHANGED << input, prog, emits, fate, trl, ended, phase, request, head, cl, wire >>
    BY <1>4 DEF Done, vars, wireVars, serverVars, clientVars
  <2> QED
    BY <1>0, <2>1, RanKept
<1>5. CASE CutRequest /\ UNCHANGED << input, prog >>
  <2>1. UNCHANGED << input, prog, emits, fate, trl, ended, phase, head, cl, wire >> /\ phase = "idle"
    BY <1>5 DEF CutRequest, serverVars, clientVars
  <2> QED
    BY <1>0, <2>1 DEF RanInv
<1> QED
  BY <1>1, <1>2, <1>3, <1>4, <1>5, CallRan, DispatchRan, SetsHeaderRan, SetsTrailerRan, EmitsNextRan,
     EmitFailsRan, ReturnsRan, Zenon DEF ProgramNext

LEMMA InitProgram == ProgramInit => ProgramInv
BY InitIInv, InitSent, InitRan DEF ProgramInit, ProgramInv

LEMMA NextProgram == ProgramInv /\ [ProgramNext]_allVars => ProgramInv'
BY ProgramStep, NextIInv, NextSent, NextRan DEF ProgramInv

-----------------------------------------------------------------------------
(* A conformance stream is a stream of StreamCall.                         *)

\* Whatever call is made, the program that it runs never does what StreamCall's handler
\* may not: every theorem about Spec holds of it.
THEOREM StreamProgramsAreHandlers == ProgramSpec => Spec
<1>1. ProgramInit => Init
  BY DEF ProgramInit
<1> QED
  BY <1>1, InitProgram, NextProgram, ProgramStep, PTL DEF ProgramSpec, Spec

-----------------------------------------------------------------------------
(* What the consumer reads.                                                *)

\* The END frame is the last that is read, after all the messages.
ReadInv ==
  cEnded => pos = Len(emits) + 1 /\ Len(got) = Len(emits) /\ cl \in {"open", "closed"}

LEMMA InitRead == Init => ReadInv
BY DEF Init, ClientInit, ReadInv

LEMMA NextRead == IInv /\ ReadInv /\ [Next]_vars => ReadInv'
<1> SUFFICES ASSUME IInv, ReadInv, [Next]_vars PROVE ReadInv'
  OBVIOUS
<1>1. ASSUME UNCHANGED << cEnded, pos, got, emits >>, cl \in {"open", "closed"} => cl' \in {"open", "closed"}
      PROVE  ReadInv'
  BY <1>1 DEF ReadInv
<1>2. CASE UNCHANGED vars
  BY <1>1, <1>2 DEF vars, serverVars, clientVars
<1>3. CASE Server
  <2>1. UNCHANGED << cEnded, pos, got, cl >>
    BY <1>3 DEF Server, clientVars
  <2>2. CASE ~cEnded
    BY <2>1, <2>2 DEF ReadInv
  <2>3. CASE cEnded
    <3>1. phase = "handler" => ended
      BY <2>3 DEF ReadInv, IInv, OutcomeInv, ServerInv
    <3>2. ASSUME NEW p \in Payloads, Emit(p) PROVE FALSE
      BY <3>1, <3>2 DEF Emit, mayEmit
    <3>3. emits' = emits
      BY <1>3, <3>2 DEF Server, ServerNext, Serve, Reject, RunHandler, SetHeader, SetTrailer, EmitEnd,
         ReturnNil, ReturnError, Panic, ContextDone
    <3> QED
      BY <1>1, <2>1, <3>3
  <2> QED
    BY <2>2, <2>3
<1>4. CASE Client
  <2>1. emits' = emits
    BY <1>4 DEF Client, serverVars
  <2>2. result = Pending => ~cEnded
    BY DEF IInv, ClientInv
  <2>3. CASE RecvMessage \/ RecvFails
    <3>1. result = Pending /\ cEnded' = cEnded
      BY <2>3 DEF RecvMessage, RecvFails, receiving
    <3> QED
      BY <2>2, <3>1 DEF ReadInv
  <2>4. CASE RecvEnd
    <3>1. /\ result = Pending /\ readNext.err = "ok" /\ readNext.end /\ got' = got
          /\ cl' = "open"
      BY <2>4 DEF RecvEnd, receiving
    <3>2. pos < Len(wire) /\ pos = Len(emits)
      BY <3>1, ReadNext
    <3>3. pos' = pos + 1
      BY <2>4, <3>2 DEF RecvEnd, advance
    <3>4. pos = Len(got)
      BY <3>1, Waiting
    <3> QED
      BY <2>1, <3>1, <3>2, <3>3, <3>4 DEF ReadInv
  <2>5. CASE ~(RecvMessage \/ RecvFails \/ RecvEnd)
    <3>1. /\ UNCHANGED << cEnded, pos, got >>
          /\ cl \in {"open", "closed"} => cl' \in {"open", "closed"}
      BY <1>4, <2>5 DEF Client, ClientNext, Open, OpenOK, OpenRejected, OpenFails, failOpen, Recv,
         RecvDeadline, Cancel, Close, closeBody, TimerExpires
    <3> QED
      BY <1>1, <2>1, <3>1
  <2> QED
    BY <2>3, <2>4, <2>5
<1>5. CASE Break \/ CutRequest \/ Done
  <2>1. UNCHANGED << cEnded, pos, got, emits, cl >>
    BY <1>5 DEF Break, CutRequest, Done, vars, serverVars, clientVars
  <2> QED
    BY <1>1, <2>1
<1> QED
  BY <1>2, <1>3, <1>4, <1>5 DEF Next

LEMMA ProgramsHold == ProgramSpec => [](ProgramInv /\ ReadInv)
<1>1. ProgramInit => ProgramInv /\ ReadInv
  BY InitProgram, InitRead DEF ProgramInit
<1>2. ProgramInv /\ ReadInv /\ [ProgramNext]_allVars => ProgramInv' /\ ReadInv'
  BY NextProgram, ProgramStep, NextRead DEF ProgramInv
<1> QED
  BY <1>1, <1>2, PTL DEF ProgramSpec

\* The details of a program's error.
AreDetails(ds) == ds \in Seq({d \in ToSet(ds) : IsDetail(d)})

\* What an END frame with this error and these trailers says.
LEMMA EndSays ==
  ASSUME NEW code \in Nat, NEW details, details = << >> \/ AreDetails(details), NEW trailers,
         NEW m, m = DecodeEndStream(EndFrame(code, details, trailers).payload)
  PROVE  /\ m.code = IF code = 0 /\ details = << >> THEN 0 ELSE WireCode(code)
         /\ ~(code = 0 /\ details = << >>) => m.details = representable(details)
<1>1. PICK M, P : M = EndStreamMessage(code, details, trailers) /\ P = EncodeEndStream(M)
  OBVIOUS
<1>2. EndFrame(code, details, trailers).payload = P
  BY <1>1 DEF EndFrame, Frame
<1>3. m.code = IF code = 0 /\ details = << >> THEN 0 ELSE WireCode(code)
  BY <1>1, <1>2, EndStreamRoundTrip DEF Canonical, WireCode
<1>4. ASSUME ~(code = 0 /\ details = << >>) PROVE m.details = representable(details)
  <2>1. PICK name, ws : name = CodeToString(IF code = 0 THEN 2 ELSE code) /\ ws = encodeWireDetails(details)
    OBVIOUS
  <2>2. M.code = code /\ M.details = details /\ M.metadata = trailers
    BY <1>1 DEF EndStreamMessage
  <2>3. P = JSONPayload(<< [code |-> name, details |-> ws] >>, trailers)
    BY <1>1, <1>4, <2>1, <2>2 DEF EncodeEndStream
  <2>4. PICK es, e : e = [code |-> name, details |-> ws] /\ es = << e >>
    OBVIOUS
  <2>5. P = [form |-> "json", error |-> es, metadata |-> trailers]
    BY <2>3, <2>4, Zenon DEF JSONPayload
  <2>6. P.form = "json" /\ P.error = es /\ es # << >> /\ es[1] = e /\ e.details = ws
    BY <2>4, <2>5
  <2>7. m.details = decodeWireDetails(ws)
    <3>1. \E c : DecodeEndStream(P) = EndStreamMessage(c, decodeWireDetails(ws), P.metadata)
      BY <2>6, Zenon DEF DecodeEndStream
    <3> QED
      BY <1>2, <3>1 DEF EndStreamMessage
  <2>8. decodeWireDetails(ws) = representable(details)
    <3>1. PICK S : details \in Seq(S) /\ \A d \in S : IsDetail(d)
      <4>1. CASE details = << >>
        <5>1. PICK S : S = {}
          OBVIOUS
        <5>2. details \in Seq(S) /\ \A d \in S : IsDetail(d)
          BY <4>1, <5>1
        <5> QED
          BY <5>2, Zenon
      <4>2. CASE AreDetails(details)
        <5>1. PICK S : S = {d \in ToSet(details) : IsDetail(d)}
          OBVIOUS
        <5>2. details \in Seq(S) /\ \A d \in S : IsDetail(d)
          BY <4>2, <5>1, Zenon DEF AreDetails
        <5> QED
          BY <5>2
      <4> QED
        BY <4>1, <4>2
    <3> QED
      BY <2>1, <3>1, DetailsRoundTrip
  <2> QED
    BY <2>7, <2>8, Zenon
<1> QED
  BY <1>3, <1>4

\* What the consumer has decoded, and how its stream ended, when the server runs p.
Reads(p) ==
  /\ Len(received) = Len(got) /\ DOMAIN received = 1..Len(got) /\ Len(got) <= Len(p.emits)
  /\ \A i \in 1..Len(got) : received[i] = << p.emits[i] >>
  /\ cEnded =>
       /\ Len(got) = Len(p.emits)
       /\ IF p.error = << >>
          THEN endError = << >> /\ cTrailers = ToSet(p.trailers)
          ELSE endError = IF p.error[1].code = 0 /\ p.error[1].details = << >> THEN << >>
                          ELSE << [code |-> WireCode(p.error[1].code),
                                   details |-> representable(p.error[1].details)] >>

LEMMA ReadsMessages ==
  ASSUME ProgramInv, NEW p, Sofar(p)
  PROVE  /\ Len(received) = Len(got) /\ DOMAIN received = 1..Len(got) /\ Len(got) <= Len(p.emits)
         /\ \A i \in 1..Len(got) : received[i] = << p.emits[i] >>
<1>1. /\ got \in Seq(Received) /\ Len(got) \in Nat /\ DOMAIN got = 1..Len(got) /\ Len(got) <= Len(emits)
      /\ \A i \in 1..Len(got) : got[i].id = emits[i].id
  BY DEF ProgramInv, IInv, ClientInv, DeliveredInOrder
<1>2. Len(emits) \in Nat /\ Len(emits) <= Len(p.emits)
      /\ \A i \in 1..Len(emits) : emits[i] = asPayload(p.emits[i], input.kind)
  BY DEF ProgramInv, IInv, ServerType, Sofar
<1>3. Len(got) <= Len(p.emits)
  <2>1. PICK s : s = p.emits /\ Len(emits) <= Len(s)
    BY <1>2
  <2>2. emits \in Seq(Payloads)
    BY DEF ProgramInv, IInv, ServerType
  <2> QED
    BY <1>1, <1>2
<1> DEFINE R(i) == CHOOSE d \in decodeMsg(got[i].id, input.kind) : TRUE
<1>4. received = [i \in 1..Len(got) |-> R(i)]
  BY <1>1, Zenon DEF received
<1>5. ASSUME NEW i \in 1..Len(got) PROVE R(i) = << p.emits[i] >>
  <2>1. i \in 1..Len(emits)
    BY <1>1, <1>2
  <2>2. PICK x : x = p.emits[i]
    OBVIOUS
  <2>3. got[i].id = asPayload(x, input.kind).id
    BY <1>1, <1>2, <2>1, <2>2, Zenon
  <2>4. asPayload(x, input.kind).id = encodeMsg(x, input.kind)
    BY DEF asPayload
  <2>5. decodeMsg(got[i].id, input.kind) = { << x >> }
    BY <2>3, <2>4, WholeDecodes, Zenon
  <2>6. R(i) = CHOOSE d \in { << x >> } : TRUE
    BY <2>5, Zenon
  <2>7. (CHOOSE d \in { << x >> } : TRUE) = << x >>
    OBVIOUS
  <2> QED
    BY <2>2, <2>6, <2>7, Zenon
<1> HIDE DEF R
<1>6. DOMAIN received = 1..Len(got) /\ \A i \in 1..Len(got) : received[i] = R(i)
  BY <1>4
<1>7. Len(received) = Len(got)
  BY <1>1, <1>6
<1> QED
  BY <1>3, <1>5, <1>6, <1>7, Zenon

LEMMA ReadsEnd ==
  ASSUME ProgramInv, ReadInv, cEnded, NEW p, Runs(p), Within(p, input.kind)
  PROVE  /\ Len(got) = Len(p.emits)
         /\ IF p.error = << >>
            THEN endError = << >> /\ cTrailers = ToSet(p.trailers)
            ELSE endError = IF p.error[1].code = 0 /\ p.error[1].details = << >> THEN << >>
                            ELSE << [code |-> WireCode(p.error[1].code),
                                     details |-> representable(p.error[1].details)] >>
<1>1. pos = Len(emits) + 1 /\ Len(got) = Len(emits)
  BY DEF ReadInv
<1>2. Len(emits) \in Nat /\ Len(wire) \in Nat /\ pos \in 1..Len(wire) /\ Len(wire) > Len(emits)
  BY <1>1 DEF ProgramInv, IInv, ServerType, WireInv, ClientType
<1>3. wire[pos] = EndOf
  BY <1>1, <1>2 DEF ProgramInv, IInv, WireInv
<1>4. Ended(p)
  BY <1>2 DEF Runs
<1>5. Len(got) = Len(p.emits) /\ fate.trailers = ToSet(p.trailers)
  BY <1>1, <1>4 DEF Ended
<1>6. PICK code, details, m, end : /\ code = fate.code /\ details = fate.details
                                   /\ end = EndFrame(code, details, fate.trailers)
                                   /\ m = DecodeEndStream(end.payload)
  OBVIOUS
<1>7. endError = IF m.code = 0 THEN << >> ELSE << [code |-> m.code, details |-> m.details] >>
  BY <1>3, <1>6, Zenon DEF endError, EndOf
<1>8. code \in Nat
  BY <1>6 DEF ProgramInv, IInv, ServerType, Code
<1>9. CASE p.error = << >>
  <2>1. code = 0 /\ details = << >>
    BY <1>4, <1>6, <1>9 DEF Ended
  <2>2. m.code = 0
    BY <1>6, <1>8, <2>1, EndSays
  <2>3. cTrailers = fate.trailers
    <3>1. result = Result("eof", 0)
      BY <1>1, <1>6, <2>1 DEF ProgramInv, IInv, OutcomeInv
    <3>2. result.kind = "eof"
      BY <3>1, Results
    <3> QED
      BY <3>2 DEF ProgramInv, IInv, OutcomeInv
  <2> QED
    BY <1>5, <1>7, <1>9, <2>2, <2>3, Zenon
<1>10. CASE p.error # << >>
  <2>1. code = p.error[1].code /\ details = p.error[1].details
    BY <1>4, <1>6, <1>10, Zenon DEF Ended
  <2>2. AreDetails(details)
    <3>1. PICK e : e = p.error[1] /\ e \in Errors
      BY <1>10, Zenon DEF Within
    <3>2. PICK c, ds : p.error = << RPCError(c, ds) >>
      BY <1>10, Zenon DEF Within
    <3>3. e.kind = "rpc"
      BY <3>1, <3>2 DEF RPCError
    <3>4. e.details \in Seq({d \in ToSet(e.details) : IsDetail(d)})
      BY <3>1, <3>3, ErrorsAssumption, Zenon
    <3> QED
      BY <2>1, <3>1, <3>4, Zenon DEF AreDetails
  <2>3. ASSUME code # 0 \/ details # << >>
        PROVE  endError = << [code |-> WireCode(code), details |-> representable(details)] >>
    <3>1. m.code = IF code = 0 /\ details = << >> THEN 0 ELSE WireCode(code)
      BY <1>6, <1>8, <2>2, EndSays
    <3>2. ~(code = 0 /\ details = << >>)
      BY <2>3
    <3>3. m.details = representable(details)
      BY <1>6, <1>8, <2>2, <3>2, EndSays
    <3>4. WireCode(code) # 0
      BY DEF WireCode, KnownCodes
    <3> QED
      BY <1>7, <3>1, <3>2, <3>3, <3>4, Zenon
  <2>4. ASSUME code = 0, details = << >> PROVE endError = << >>
    <3>1. m.code = 0
      BY <1>6, <1>8, <2>2, <2>4, EndSays
    <3> QED
      BY <1>7, <3>1, Zenon
  <2>5. endError = IF code = 0 /\ details = << >> THEN << >>
                   ELSE << [code |-> WireCode(code), details |-> representable(details)] >>
    BY <2>3, <2>4, Zenon
  <2> QED
    BY <1>5, <1>10, <2>1, <2>5, Zenon
<1> QED
  BY <1>9, <1>10

LEMMA Reading ==
  ASSUME ProgramInv, ReadInv, cl \in {"open", "closed"}
  PROVE  /\ input \in Inputs /\ request.timeout \in BOOLEAN
         /\ \E p \in direct : Within(p, input.kind) /\ Reads(p)
<1>1. phase # "idle" /\ accepted
  BY DEF ProgramInv, RanInv
<1>2. request # NoRequest
  BY <1>1 DEF ProgramInv, IInv, ServerInv
<1>3. input \in Inputs /\ request.timeout \in BOOLEAN
  BY <1>2, ProgramRequest DEF ProgramInv
<1>4. PICK p \in direct : Runs(p)
  BY <1>1 DEF ProgramInv, RanInv, IInv, ServerType
<1>5. Within(p, input.kind)
  BY <1>3, DirectPrograms
<1>6. Reads(p)
  <2>1. Sofar(p)
    BY <1>4, Zenon DEF Runs
  <2> QED
    BY <1>4, <1>5, <2>1, ReadsMessages, ReadsEnd, Zenon DEF Reads
<1> QED
  BY <1>3, <1>4, <1>5, <1>6

\* A call through stub, wire and wrapper is a call of the method (StreamAsProgrammed): what
\* the consumer decodes is a prefix of what a run of the method on its own request emits,
\* and at the END frame all of it, with the run's error, to the details, or its trailers.
THEOREM StreamsAreAsProgrammed == ProgramSpec => []StreamAsProgrammed
<1>1. ASSUME ProgramInv, ReadInv PROVE StreamAsProgrammed
  <2> SUFFICES ASSUME cl \in {"open", "closed"}
               PROVE  \E p \in direct :
                        /\ Len(received) <= Len(p.emits)
                        /\ \A i \in DOMAIN received : received[i] = << p.emits[i] >>
                        /\ cEnded =>
                             /\ Len(received) = Len(p.emits)
                             /\ IF p.error = << >>
                                THEN endError = << >> /\ cTrailers = ToSet(p.trailers)
                                ELSE p.error[1].code # 0 \/ p.error[1].details # << >> =>
                                       endError = << [code |-> WireCode(p.error[1].code),
                                                      details |-> representable(p.error[1].details)] >>
    BY Zenon DEF StreamAsProgrammed
  <2>1. PICK p \in direct : Reads(p)
    BY <1>1, Reading, Zenon
  <2> QED
    BY <2>1, Zenon DEF Reads
<1> QED
  BY <1>1, ProgramsHold, PTL

-----------------------------------------------------------------------------
(* The request info.                                                       *)

\* A run with the info in its first message or, when it has none, in its error.
Tells(p, info) ==
  /\ p.emits \in Seq(ToSet(p.emits))
  /\ \A i \in 1..Len(p.emits) :
       p.emits[i].payload[1].requestInfo = IF i = 1 THEN << info >> ELSE << >>
  /\ p.error # << >> =>
       \E code, ds : /\ p.error = << RPCError(code, ds) >>
                     /\ infosIn(representable(ds)) = IF p.emits = << >> THEN << info >> ELSE << >>

\* What is asked for has no place for an info.
nowhere(def) == def = << >> \/ (def[1].responseData = << >> /\ def[1].error = << >>)

LEMMA EmptyTells ==
  ASSUME NEW info
  PROVE  Tells(NoProgram, info)
<1>1. PICK p, none : p = NoProgram /\ none = << >>
  OBVIOUS
<1>2. p.emits = none /\ p.error = none
  BY <1>1, NoProgramParts, Zenon DEF HasParts
<1>3. none \in Seq(ToSet(none)) /\ Len(none) = 0
  BY <1>1 DEF ToSet
<1>4. \A i \in 1..Len(none) : FALSE
  BY <1>3
<1> QED
  BY <1>1, <1>2, <1>3, <1>4, Zenon DEF Tells

LEMMA StreamTells ==
  ASSUME NEW in \in Inputs, in.path = "ServerStream", NEW c, NEW p, p = run(in.path, in.msg, c)
  PROVE  /\ Tells(p, requestInfo(in.msg, c))
         /\ nowhere(in.msg.responseDefinition) <=> p.emits = << >> /\ p.error = << >>
<1> DEFINE info == requestInfo(in.msg, c)
<1>1. p = ServerStream(in.msg, c)
  BY DEF run, ConformanceMethods, OfficialService
<1>2. CASE in.msg.responseDefinition = << >>
  <2>1. p = NoProgram
    BY <1>1, <1>2, Zenon DEF ServerStream
  <2> QED
    BY <1>2, <2>1, EmptyTells, NoProgramParts, Zenon DEF nowhere, HasParts
<1>3. CASE in.msg.responseDefinition # << >>
  <2>1. PICK def, one : def = in.msg.responseDefinition[1] /\ one = << info >>
    OBVIOUS
  <2> DEFINE data == def.responseData
             part(i) == IF i = 1 THEN one ELSE << >>
             msg(i) == ServerStreamResponse(<< ConformancePayload(data[i], part(i)) >>)
             ms == [i \in DOMAIN data |-> msg(i)]
             es == [i \in DOMAIN def.error |->
                      toRPCError(def.error[i], IF data = << >> THEN one ELSE << >>)]
  <2>2. p.emits = ms /\ p.error = es
    <3> DEFINE a == applyHeaders(def.responseHeaders)
               b == applyHeaders(def.responseTrailers)
    <3>1. HasParts(ServerStream(in.msg, c), a, b, ms, es)
      BY <1>3, <2>1, DefinedStream
    <3> HIDE DEF a, b, ms, es
    <3> QED
      BY <1>1, <3>1, Zenon DEF HasParts
  <2>3. data \in Seq(ToSet(data)) /\ OneError(def)
    BY <1>3, <2>1, InfoAssumption, Zenon DEF OneError
  <2>4. \A i : msg(i).payload[1].requestInfo = part(i)
    <3> HIDE DEF part
    <3> QED
      BY DEF ServerStreamResponse, ConformancePayload
  <2>5. p.error = IF def.error = << >> THEN << >>
                  ELSE << toRPCError(def.error[1], IF data = << >> THEN one ELSE << >>) >>
    <3>1. PICK add : add = IF data = << >> THEN one ELSE << >>
      OBVIOUS
    <3>2. p.error = [i \in DOMAIN def.error |-> toRPCError(def.error[i], add)]
      BY <2>2, <3>1, Zenon
    <3>3. p.error = IF def.error = << >> THEN << >> ELSE << toRPCError(def.error[1], add) >>
      BY <2>3, <3>2, DefinedError, Zenon
    <3> QED
      BY <3>1, <3>3, Zenon
  <2> HIDE DEF msg, es, info, data
  <2>6. Len(data) \in Nat /\ DOMAIN data = 1..Len(data)
    BY <2>3
  <2>7. /\ p.emits \in Seq(ToSet(p.emits)) /\ Len(p.emits) = Len(data)
        /\ \A i \in 1..Len(p.emits) : p.emits[i] = msg(i)
    BY <2>2, <2>6 DEF ToSet
  <2>8. p.emits = << >> <=> data = << >>
    <3>1. p.emits = << >> <=> Len(p.emits) = 0
      BY <2>7
    <3>2. data = << >> <=> Len(data) = 0
      BY <2>3
    <3> QED
      BY <2>7, <3>1, <3>2
  <2>9. \A i \in 1..Len(p.emits) :
          p.emits[i].payload[1].requestInfo = IF i = 1 THEN << info >> ELSE << >>
    BY <2>1, <2>4, <2>7, Zenon
  <2>10. ASSUME def.error # << >>
         PROVE  \E code, ds :
                  /\ p.error = << RPCError(code, ds) >>
                  /\ infosIn(representable(ds)) = IF p.emits = << >> THEN << info >> ELSE << >>
    <3>1. PICK e, add : e = def.error[1] /\ add = IF data = << >> THEN << info >> ELSE << >>
      OBVIOUS
    <3>2. PICK A : e.details \in Seq(A) /\ \A any \in A : Last(any.typeUrl) # InfoType
      <4> DEFINE A == {any \in ToSet(e.details) : Last(any.typeUrl) # InfoType}
      <4>1. e.details \in Seq(A)
        BY <1>3, <2>1, <2>10, <3>1, InfoAssumption, Zenon
      <4> QED
        BY <4>1
    <3>3. PICK ds : toRPCError(e, add) = RPCError(e.code, ds) /\ infosIn(representable(ds)) = add
      <4>1. CASE data = << >>
        <5>1. add = << info >>
          BY <3>1, <4>1, Zenon
        <5>2. \E ds : toRPCError(e, << info >>) = RPCError(e.code, ds) /\ infosIn(representable(ds)) = << info >>
          BY <3>2, InfoDetails, Zenon
        <5> QED
          BY <5>1, <5>2, Zenon
      <4>2. CASE data # << >>
        <5>1. add = << >>
          BY <3>1, <4>2, Zenon
        <5>2. \E ds : toRPCError(e, << >>) = RPCError(e.code, ds) /\ infosIn(representable(ds)) = << >>
          BY <3>2, PlainDetails, Zenon
        <5> QED
          BY <5>1, <5>2, Zenon
      <4> QED
        BY <4>1, <4>2
    <3>4. p.error = << toRPCError(e, add) >>
      BY <2>1, <2>5, <2>10, <3>1, Zenon
    <3> QED
      BY <2>8, <3>1, <3>3, <3>4, Zenon
  <2>11. p.error = << >> <=> def.error = << >>
    <3>1. \A e : << e >> # << >>
      OBVIOUS
    <3> QED
      BY <2>5, <3>1, Zenon
  <2>12. Tells(p, info)
    BY <2>7, <2>9, <2>10, <2>11, Zenon DEF Tells
  <2> QED
    BY <1>3, <2>1, <2>8, <2>11, <2>12, Zenon DEF nowhere, info, data
<1> QED
  BY <1>2, <1>3

\* What the consumer has seen of it.
LEMMA InfoSeen ==
  ASSUME NEW p, Reads(p), NEW info, Tells(p, info), got \in Seq(Received)
  PROVE  infosSeen = IF got = << >> /\ (~cEnded \/ p.error = << >>) THEN << >> ELSE << info >>
<1> DEFINE q == [i \in DOMAIN received |-> received[i][1].payload[1].requestInfo]
           told == IF cEnded /\ endError # << >> THEN infosIn(endError[1].details) ELSE << >>
<1>1. PICK n, one : n = Len(got) /\ one = << info >>
  OBVIOUS
<1>2. n \in Nat /\ (got = << >> <=> n = 0)
  BY <1>1
<1>3. FlattenSeq(q) = IF n = 0 THEN << >> ELSE one
  <2>1. DOMAIN received = 1..n /\ \A i \in 1..n : received[i] = << p.emits[i] >>
    BY <1>1, Zenon DEF Reads
  <2>2. ASSUME NEW i \in 1..n
        PROVE  received[i][1].payload[1].requestInfo = IF i = 1 THEN << info >> ELSE << >>
    <3>1. PICK m : m = p.emits[i] /\ received[i] = << m >>
      BY <2>1
    <3>2. received[i][1] = m
      BY <3>1
    <3>3. i \in 1..Len(p.emits)
      <4>1. n <= Len(p.emits) /\ Len(p.emits) \in Nat
        BY <1>1 DEF Reads, Tells
      <4> QED
        BY <1>2, <4>1
    <3> QED
      BY <3>1, <3>2, <3>3, Zenon DEF Tells
  <2> DEFINE seen(i) == received[i][1].payload[1].requestInfo
  <2>3. q = [i \in 1..n |-> seen(i)]
    BY <2>1, Zenon
  <2>4. \A i \in 1..n : seen(i) = IF i = 1 THEN << info >> ELSE << >>
    BY <2>2, Zenon
  <2> HIDE DEF seen, q
  <2>5. q = [i \in 1..n |-> IF i = 1 THEN << info >> ELSE << >>]
    BY <2>3, <2>4
  <2> QED
    BY <1>1, <1>2, <2>5, FirstOnly, Zenon
<1>4. told = IF n = 0 /\ cEnded /\ p.error # << >> THEN one ELSE << >>
  <2>1. CASE ~cEnded
    BY <2>1, Zenon
  <2>2. CASE cEnded /\ p.error = << >>
    <3>1. endError = << >>
      BY <2>2, Zenon DEF Reads
    <3> QED
      BY <2>2, <3>1, Zenon
  <2>3. CASE cEnded /\ p.error # << >>
    <3>1. PICK code, ds : /\ p.error = << RPCError(code, ds) >>
                          /\ infosIn(representable(ds)) = IF p.emits = << >> THEN << info >> ELSE << >>
      BY <2>3, Zenon DEF Tells
    <3>2. PICK e : e = RPCError(code, ds)
      OBVIOUS
    <3>3. p.error[1] = e /\ e.code = code /\ e.details = ds
      BY <3>1, <3>2 DEF RPCError
    <3>4. p.emits = << >> <=> n = 0
      <4>1. n = Len(p.emits) /\ p.emits \in Seq(ToSet(p.emits))
        BY <1>1, <2>3, Zenon DEF Reads, Tells
      <4> QED
        BY <4>1
    <3>5. endError = IF code = 0 /\ ds = << >> THEN << >>
                     ELSE << [code |-> WireCode(code), details |-> representable(ds)] >>
      BY <2>3, <3>3, Zenon DEF Reads
    <3>6. CASE code = 0 /\ ds = << >>
      <4>1. endError = << >>
        BY <3>5, <3>6, Zenon
      <4>2. infosIn(representable(ds)) = << >>
        BY <3>6, NothingInfos, Zenon
      <4>3. one # << >>
        BY <1>1
      <4>4. n # 0
        BY <1>1, <3>1, <3>4, <4>2, <4>3, Zenon
      <4> QED
        BY <4>1, <4>4, Zenon
    <3>7. CASE ~(code = 0 /\ ds = << >>)
      <4>1. PICK x : x = [code |-> WireCode(code), details |-> representable(ds)]
        OBVIOUS
      <4>2. endError = << x >> /\ x.details = representable(ds)
        BY <3>5, <3>7, <4>1
      <4>3. endError # << >> /\ endError[1] = x
        BY <4>2
      <4>4. told = infosIn(representable(ds))
        BY <2>3, <4>2, <4>3, Zenon
      <4> QED
        BY <1>1, <2>3, <3>1, <3>4, <4>4, Zenon
    <3> QED
      BY <3>6, <3>7
  <2> QED
    BY <2>1, <2>2, <2>3
<1>5. n # 0 => told = << >>
  BY <1>4, Zenon
<1>6. infosSeen = FlattenSeq(q) \o told
  BY Zenon DEF infosSeen
<1>7. PICK a, b : a = FlattenSeq(q) /\ b = told
  OBVIOUS
<1> HIDE DEF q, told
<1>8. a \o b = IF n = 0 THEN b ELSE a
  <2>1. CASE n = 0
    <3>1. a = << >> /\ (b = one \/ b = << >>)
      BY <1>3, <1>4, <1>7, <2>1, Zenon
    <3>2. one \in Seq({info})
      BY <1>1
    <3>3. << >> \o one = one /\ << >> \o << >> = << >>
      BY <3>2
    <3> QED
      BY <2>1, <3>1, <3>3, Zenon
  <2>2. CASE n # 0
    <3>1. a = one /\ b = << >>
      BY <1>3, <1>5, <1>7, <2>2, Zenon
    <3>2. a \in Seq({info})
      BY <1>1, <3>1
    <3> QED
      BY <2>2, <3>1, <3>2
  <2> QED
    BY <2>1, <2>2
<1> QED
  BY <1>1, <1>2, <1>3, <1>4, <1>6, <1>7, <1>8, Zenon

\* The request info of the official service reaches the consumer of a server stream at most
\* once (InfoOnce): in the first message or, when there is none, in the details of the
\* error; it tells the request, and when the END frame has been read it was there, unless
\* the method had neither a message nor an error to put it in.
THEOREM StreamInfoArrivesOnce == ProgramSpec => []InfoOnce
<1>1. ASSUME ProgramInv, ReadInv PROVE InfoOnce
  <2> SUFFICES ASSUME cl \in {"open", "closed"}, input.path = "ServerStream" PROVE InfoOnce
    BY Zenon DEF InfoOnce
  <2>1. input \in Inputs /\ \E p \in direct : Within(p, input.kind) /\ Reads(p)
    BY <1>1, Reading, Zenon
  <2>2. PICK p \in direct : Reads(p)
    BY <2>1, Zenon
  <2>3. PICK c \in contexts : p = run(input.path, input.msg, c)
    BY <2>2, Zenon DEF direct
  <2>4. PICK info, def : info = requestInfo(input.msg, c) /\ def = input.msg.responseDefinition
    OBVIOUS
  <2>5. /\ Tells(p, info)
        /\ nowhere(def) <=> p.emits = << >> /\ p.error = << >>
    BY <2>1, <2>3, <2>4, StreamTells, Zenon
  <2>6. got \in Seq(Received)
    BY <1>1 DEF ProgramInv, IInv, ClientInv
  <2>7. infosSeen = IF got = << >> /\ (~cEnded \/ p.error = << >>) THEN << >> ELSE << info >>
    BY <2>2, <2>5, <2>6, InfoSeen
  <2>8. got = << >> => ((~cEnded \/ p.error = << >>) <=> (nowhere(def) \/ ~cEnded))
    <3> SUFFICES ASSUME got = << >>, cEnded PROVE p.error = << >> <=> nowhere(def)
      BY Zenon
    <3>1. Len(p.emits) = Len(got) /\ p.emits \in Seq(ToSet(p.emits))
      BY <2>2, <2>5, Zenon DEF Reads, Tells
    <3>2. p.emits = << >>
      BY <3>1
    <3> QED
      BY <2>5, <3>2, Zenon
  <2>9. infosSeen = IF got = << >> /\ (nowhere(def) \/ ~cEnded) THEN << >> ELSE << info >>
    BY <2>7, <2>8, Zenon
  <2>10. PICK seen, one : seen = infosSeen /\ one = << input.msg >>
    OBVIOUS
  <2>11. info.requests = one
    BY <2>4, <2>10, InfoIs, Zenon
  <2>12. /\ Len(seen) = IF got = << >> /\ (nowhere(def) \/ ~cEnded) THEN 0 ELSE 1
         /\ \A i \in DOMAIN seen : seen[i].requests = one
    <3>1. CASE got = << >> /\ (nowhere(def) \/ ~cEnded)
      <4>1. seen = << >>
        BY <2>9, <2>10, <3>1, Zenon
      <4> QED
        BY <3>1, <4>1
    <3>2. CASE ~(got = << >> /\ (nowhere(def) \/ ~cEnded))
      <4>1. seen = << info >>
        BY <2>9, <2>10, <3>2, Zenon
      <4> QED
        BY <2>11, <3>2, <4>1
    <3> QED
      BY <3>1, <3>2
  <2> QED
    BY <2>4, <2>10, <2>12, Zenon DEF InfoOnce, nowhere
<1> QED
  BY <1>1, ProgramsHold, PTL

-----------------------------------------------------------------------------
(* The checks of the conformance client.                                   *)

\* What the methods that main calls do with its messages.
LEMMA MainStreams ==
  ASSUME NEW path \in DOMAIN MainStreamCalls, NEW c, NEW p, p = run(path, MainStreamCalls[path], c)
  PROVE  /\ path = "Count" =>
              /\ p.error = << >> /\ Len(p.emits) = 3
              /\ \A i \in 1..3 : p.emits[i].index = i - 1
         /\ path = "StreamFailDetails" =>
              /\ p.error = << RPCError(13, << ErrorDetail("stream", << "sd" >>) >>) >>
              /\ Len(p.emits) = 2
         /\ path = "BigStream" => p.error = << >> /\ Len(p.emits) = 3
         /\ path = "CountTrailer" =>
              /\ p.error = << >> /\ Len(p.emits) = 2
              /\ p.trailers = << Key("x-ctrailer", "lower") >>
<1>1. path \in {"Count", "StreamFailDetails", "BigStream", "CountTrailer"}
  BY DEF MainStreamCalls
<1>2. path \in DOMAIN ConformanceMethods
  BY <1>1 DEF ConformanceMethods
<1>3. PICK in : in = MainStreamCalls[path]
  OBVIOUS
<1>4. p = ConformanceService(path, in, c)
  BY <1>2, <1>3 DEF run
<1>5. CASE path = "Count"
  <2>1. PICK three : three = 3 /\ in = CountRequest(three)
    BY <1>3, <1>5 DEF MainStreamCalls
  <2>2. wanted(in.count) = 3
    BY <2>1 DEF CountRequest, wanted
  <2>3. PICK ms : ms = [i \in 1..3 |-> CountResponse(i - 1)]
    OBVIOUS
  <2>4. p = Emits(ms)
    BY <1>4, <1>5, <2>2, <2>3 DEF ConformanceService, Count
  <2>5. p.emits = ms /\ p.error = << >>
    BY <2>4, EmitsIsProgram, Zenon DEF HasParts
  <2>6. Len(ms) = 3 /\ \A i \in 1..3 : ms[i].index = i - 1
    BY <2>3 DEF CountResponse
  <2> QED
    BY <1>5, <2>5, <2>6
<1>6. CASE path = "StreamFailDetails"
  <2>1. PICK thirteen, type, text, two, boom :
          /\ thirteen = 13 /\ type = "stream" /\ text = << "sd" >> /\ two = 2 /\ boom = << "boom" >>
          /\ in = StreamFailDetailsRequest(two, thirteen, boom, type, text)
    BY <1>3, <1>6 DEF MainStreamCalls
  <2>2. in.code = thirteen /\ in.detailType = type /\ in.detailText = text /\ in.emitBefore = two
    BY <2>1 DEF StreamFailDetailsRequest
  <2>3. PICK ms, e : ms = [i \in 1..in.emitBefore |-> StreamFailDetailsResponse(i - 1)]
                     /\ e = RPCError(thirteen, << ErrorDetail(type, text) >>)
    OBVIOUS
  <2>4. detailed(in) = e
    BY <2>2, <2>3, Zenon DEF detailed
  <2>5. p = StreamFailDetails(in)
    BY <1>4, <1>6 DEF ConformanceService
  <2>6. p = [Emits(ms) EXCEPT !.error = << e >>]
    BY <2>3, <2>4, <2>5, Zenon DEF StreamFailDetails
  <2>7. p.emits = ms /\ p.error = << e >>
    <3>1. HasParts(p, << >>, << >>, ms, << e >>)
      BY <2>6, EmitsWithError, Zenon
    <3> QED
      BY <3>1, Zenon DEF HasParts
  <2>8. Len(ms) = 2
    BY <2>1, <2>2, <2>3
  <2> QED
    BY <1>6, <2>1, <2>3, <2>7, <2>8
<1>7. CASE path = "BigStream"
  <2>1. PICK three, size : three = 3 /\ in = BigStreamRequest(three, size)
    BY <1>3, <1>7 DEF MainStreamCalls
  <2>2. wanted(in.count) = 3
    BY <2>1 DEF BigStreamRequest, wanted
  <2>3. PICK ms : ms = [i \in 1..3 |-> BigStreamResponse(i - 1, in.size)]
    OBVIOUS
  <2>4. p = Emits(ms)
    BY <1>4, <1>7, <2>2, <2>3 DEF ConformanceService, BigStream
  <2>5. p.emits = ms /\ p.error = << >>
    BY <2>4, EmitsIsProgram, Zenon DEF HasParts
  <2>6. Len(ms) = 3
    BY <2>3
  <2> QED
    BY <1>7, <2>5, <2>6
<1>8. CASE path = "CountTrailer"
  <2>1. PICK two : two = 2 /\ in = CountTrailerRequest(two)
    BY <1>3, <1>8 DEF MainStreamCalls
  <2>2. wanted(in.count) = 2
    BY <2>1 DEF CountTrailerRequest, wanted
  <2>3. PICK ms, keys : ms = [i \in 1..2 |-> CountTrailerResponse(i - 1)] /\ keys = << Key("x-ctrailer", "lower") >>
    OBVIOUS
  <2>4. p = CountTrailer(in)
    BY <1>4, <1>8 DEF ConformanceService
  <2>5. p = [Emits(ms) EXCEPT !.trailers = keys]
    BY <2>2, <2>3, <2>4 DEF CountTrailer
  <2>6. p.emits = ms /\ p.error = << >> /\ p.trailers = keys
    <3>1. HasParts(p, << >>, keys, ms, << >>)
      BY <2>5, EmitsWithTrailers, Zenon
    <3> QED
      BY <3>1, Zenon DEF HasParts
  <2>7. Len(ms) = 2
    BY <2>3
  <2> QED
    BY <1>8, <2>3, <2>6, <2>7
<1> QED
  BY <1>1, <1>5, <1>6, <1>7, <1>8

LEMMA StreamAccepted ==
  ASSUME cEnded, input.path \in DOMAIN MainStreamCalls, input.msg = MainStreamCalls[input.path],
         NEW p \in direct, Reads(p)
  PROVE  mainAcceptsStream(input.path, [i \in DOMAIN received |-> received[i][1]], endError, cTrailers)
<1>1. PICK c \in contexts : p = run(input.path, input.msg, c)
  BY Zenon DEF direct
<1>2. PICK path, msgs, n : /\ path = input.path /\ n = Len(p.emits)
                           /\ msgs = [i \in DOMAIN received |-> received[i][1]]
  OBVIOUS
<1>3. path \in DOMAIN MainStreamCalls /\ p = run(path, MainStreamCalls[path], c)
  BY <1>1, <1>2
<1>4. DOMAIN received = 1..n /\ \A i \in 1..n : received[i] = << p.emits[i] >>
  BY <1>2, Zenon DEF Reads
<1>5. DOMAIN msgs = 1..n /\ \A i \in 1..n : msgs[i] = p.emits[i]
  <2>1. \A i \in 1..n : received[i][1] = p.emits[i]
    BY <1>4
  <2> QED
    BY <1>2, <1>4, <2>1
<1>6. p.error = << >> => endError = << >> /\ cTrailers = ToSet(p.trailers)
  BY Zenon DEF Reads
<1>7. path \in {"Count", "StreamFailDetails", "BigStream", "CountTrailer"}
  BY <1>3 DEF MainStreamCalls
<1>8. CASE path = "Count"
  <2>1. p.error = << >> /\ n = 3 /\ \A i \in 1..3 : p.emits[i].index = i - 1
    BY <1>2, <1>3, <1>8, MainStreams
  <2>2. [i \in DOMAIN msgs |-> msgs[i].index] = << 0, 1, 2 >>
    <3>1. [i \in DOMAIN msgs |-> msgs[i].index] = [i \in 1..3 |-> i - 1]
      BY <1>5, <2>1
    <3>2. [i \in 1..3 |-> i - 1] = << 0, 1, 2 >>
      OBVIOUS
    <3> QED
      BY <3>1, <3>2, Zenon
  <2>3. endError = << >>
    BY <1>6, <2>1
  <2> QED
    BY <1>2, <1>8, <2>2, <2>3 DEF mainAcceptsStream
<1>9. CASE path = "StreamFailDetails"
  <2>1. PICK thirteen, d, ds, e : /\ thirteen = 13 /\ d = ErrorDetail("stream", << "sd" >>)
                                  /\ ds = << d >> /\ e = RPCError(thirteen, ds)
    OBVIOUS
  <2>2. p.error = << e >> /\ n = 2
    BY <1>2, <1>3, <1>9, <2>1, MainStreams
  <2>3. p.error # << >> /\ p.error[1] = e /\ e.code = thirteen /\ e.details = ds
    BY <2>1, <2>2 DEF RPCError
  <2>4. Representable(d) /\ d.value = << "sd" >>
    <3>1. d.type = "stream" /\ d.value = << "sd" >>
      BY <2>1 DEF ErrorDetail
    <3>2. << "sd" >> # << >>
      OBVIOUS
    <3>3. "stream" # ""
      BY Zenon
    <3> QED
      BY <3>1, <3>2, <3>3, Zenon DEF Representable
  <2>5. representable(ds) = ds
    BY <2>1, <2>4, OneDetail
  <2>6. thirteen # 0 /\ WireCode(thirteen) = thirteen
    BY <2>1 DEF WireCode, KnownCodes
  <2>7. endError = << [code |-> thirteen, details |-> ds] >>
    BY <2>3, <2>5, <2>6, Zenon DEF Reads
  <2>8. endError # << >> /\ endError[1].code = 13 /\ endError[1].details = ds
    BY <2>1, <2>7
  <2>9. Len(ds) = 1 /\ ds[1] = d
    BY <2>1
  <2>10. Len(msgs) = 2
    BY <1>5, <2>2
  <2> QED
    BY <1>2, <1>9, <2>4, <2>8, <2>9, <2>10 DEF mainAcceptsStream
<1>10. CASE path = "BigStream"
  <2>1. p.error = << >> /\ n = 3
    BY <1>2, <1>3, <1>10, MainStreams
  <2>2. Len(msgs) = 3 /\ endError = << >>
    BY <1>5, <1>6, <2>1
  <2> QED
    BY <1>2, <1>10, <2>2 DEF mainAcceptsStream
<1>11. CASE path = "CountTrailer"
  <2>1. PICK key : key = Key("x-ctrailer", "lower")
    OBVIOUS
  <2>2. p.error = << >> /\ n = 2 /\ p.trailers = << key >>
    BY <1>2, <1>3, <1>11, <2>1, MainStreams
  <2>3. Len(msgs) = 2 /\ endError = << >> /\ cTrailers = ToSet(p.trailers)
    BY <1>5, <1>6, <2>2
  <2>4. key \in ToSet(p.trailers)
    BY <2>2 DEF ToSet
  <2> QED
    BY <1>2, <1>11, <2>1, <2>3, <2>4 DEF mainAcceptsStream
<1> QED
  BY <1>7, <1>8, <1>9, <1>10, <1>11

\* Every check of cmd/conformance-client on the streams it opens passes on each one that
\* reaches its END frame (ClientChecksPass), in either codec: the messages of Count, the error
\* of StreamFailDetails with its detail, the trailer of CountTrailer.
THEOREM StreamChecksPass == ProgramSpec => []ClientChecksPass
<1>1. ASSUME ProgramInv, ReadInv PROVE ClientChecksPass
  <2> SUFFICES ASSUME cEnded, input.path \in DOMAIN MainStreamCalls,
                      input.msg = MainStreamCalls[input.path]
               PROVE  mainAcceptsStream(input.path, [i \in DOMAIN received |-> received[i][1]],
                                        endError, cTrailers)
    BY Zenon DEF ClientChecksPass
  <2>1. cl \in {"open", "closed"}
    BY <1>1 DEF ReadInv
  <2>2. PICK p \in direct : Reads(p)
    BY <1>1, <2>1, Reading, Zenon
  <2> QED
    BY <2>2, StreamAccepted, Zenon
<1> QED
  BY <1>1, ProgramsHold, PTL
=============================================================================
