------------------------- MODULE ConformanceProofs -------------------------
(***************************************************************************)
(* What the proofs of both kinds of conformance call rest on: how programs *)
(* are made up, that what is encoded is decoded, and where request infos   *)
(* are to be found.                                                        *)
(***************************************************************************)
EXTENDS Conformance, CommonProofs

(* Programs and messages. *)

IsProgram(p) ==
  p = [headers |-> p.headers, trailers |-> p.trailers, emits |-> p.emits,
       error |-> p.error, sleeps |-> p.sleeps]

LEMMA FailsIsProgram ==
  ASSUME NEW e
  PROVE  /\ IsProgram(Fails(e))
         /\ Fails(e).headers = << >> /\ Fails(e).trailers = << >>
         /\ Fails(e).emits = << >> /\ Fails(e).error = << e >> /\ Fails(e).sleeps = FALSE
<1> DEFINE p == Fails(e)
<1>1. PICK none, no, es : none = << >> /\ no = FALSE /\ es = << e >>
  OBVIOUS
<1>2. p = [[headers |-> none, trailers |-> none, emits |-> none, error |-> none, sleeps |-> no]
             EXCEPT !.error = es]
  BY <1>1, Zenon DEF Fails, NoProgram
<1> HIDE DEF p
<1>3. p.headers = none /\ p.trailers = none /\ p.emits = none /\ p.error = es /\ p.sleeps = no
  BY <1>2
<1>4. IsProgram(p)
  BY <1>2 DEF IsProgram
<1> QED
  BY <1>1, <1>3, <1>4, Zenon DEF p

LEMMA WholeDecodes ==
  ASSUME NEW m, NEW kind
  PROVE  decodeMsg(encodeMsg(m, kind), kind) = { << m >> }
<1> DEFINE b == encodeMsg(m, kind)
<1>1. b.kind = kind /\ b.msg = m
  BY DEF encodeMsg
<1> HIDE DEF b
<1>2. Whole(b)
  BY <1>1 DEF Whole, b
<1>3. decodeMsg(b, kind) = { << m >> }
  BY <1>1, <1>2, Zenon DEF decodeMsg
<1> QED
  BY <1>3 DEF b

-----------------------------------------------------------------------------
(* Details and request infos.                                              *)

\* A single detail that can be written down stays.
LEMMA OneDetail ==
  ASSUME NEW d, Representable(d), NEW ds, ds = << d >>
  PROVE  representable(ds) = ds
<1>1. PICK b, I : b = << >> /\ I = {i \in DOMAIN ds : Representable(ds[i])}
  OBVIOUS
<1>2. b \in Seq({d}) /\ Len(b) = 0 /\ ds = Append(b, d) /\ DOMAIN ds = {1} /\ ds[1] = d
  BY <1>1
<1>3. Len(b) + 1 \in I
  BY <1>1, <1>2
<1>4. LastSelected({d}, b, d, I)
  BY <1>2, <1>3, SelectsLast
<1>5. PICK c \in Seq({d}) :
        selected(Append(b, d), I) = Append(c, d) /\ ((\A i \in 1..Len(b) : i \notin I) => c = << >>)
  BY <1>4, Zenon DEF LastSelected
<1>6. c = b
  BY <1>1, <1>2, <1>5
<1>7. selected(ds, I) = ds
  BY <1>2, <1>5, <1>6
<1> QED
  BY <1>1, <1>7, Zenon DEF representable

LEMMA InTwo ==
  ASSUME NEW a, NEW b, NEW x, x = << a >>, NEW y, y = << b >>
  PROVE  x \o y = << a, b >>
<1>1. PICK z : z = << a, b >>
  OBVIOUS
<1>2. x \in Seq({a, b}) /\ y \in Seq({a, b}) /\ z \in Seq({a, b}) /\ Len(x) = 1 /\ Len(y) = 1 /\ Len(z) = 2
  BY <1>1
<1>3. x[1] = a /\ y[1] = b /\ z[1] = a /\ z[2] = b
  BY <1>1
<1>4. PICK w : w = x \o y
  OBVIOUS
<1>5. w \in Seq({a, b}) /\ Len(w) = 2 /\ w[1] = a /\ w[2] = b
  BY <1>2, <1>3, <1>4
<1>6. w = z
  BY <1>2, <1>3, <1>5
<1> QED
  BY <1>1, <1>4, <1>6

\* Behind details that are no request infos there is one.
LEMMA OneInfo ==
  ASSUME NEW S, NEW b \in Seq(S), \A d \in S : d.type # InfoType,
         NEW info, NEW d, d = ErrorDetail(InfoType, << info >>)
  PROVE  infosIn(representable(Append(b, d))) = << info >>
<1>1. d.type = InfoType /\ d.value = << info >>
  BY DEF ErrorDetail
<1>2. InfoType # ""
  BY Zenon DEF InfoType
<1>3. Representable(d)
  <2>1. << info >> # << >>
    OBVIOUS
  <2> QED
    BY <1>1, <1>2, <2>1, Zenon DEF Representable
<1>4. PICK ds, n, I : ds = Append(b, d) /\ n = Len(b) /\ I = {i \in DOMAIN ds : Representable(ds[i])}
  OBVIOUS
<1>5. n \in Nat /\ DOMAIN ds = 1..(n + 1) /\ ds[n + 1] = d
  <2>1. b \in Seq(S \cup {d}) /\ d \in S \cup {d}
    OBVIOUS
  <2> QED
    BY <1>4, <2>1
<1>6. n + 1 \in I
  BY <1>3, <1>4, <1>5
<1>7. PICK c \in Seq(S) : selected(ds, I) = Append(c, d)
  <2>1. Len(b) + 1 \in I
    BY <1>4, <1>6
  <2>2. LastSelected(S, b, d, I)
    BY <2>1, SelectsLast
  <2>3. \E c \in Seq(S) : selected(Append(b, d), I) = Append(c, d)
    BY <2>2, Zenon DEF LastSelected
  <2> QED
    BY <1>4, <2>3
<1>8. PICK r, J, m : r = Append(c, d) /\ J = {i \in DOMAIN r : r[i].type = InfoType} /\ m = Len(c)
  OBVIOUS
<1>9. m \in Nat /\ DOMAIN r = 1..(m + 1) /\ r[m + 1] = d /\ \A i \in 1..m : r[i] \in S
  <2>1. c \in Seq(S \cup {d}) /\ d \in S \cup {d}
    OBVIOUS
  <2>2. m \in Nat /\ DOMAIN r = 1..(m + 1) /\ r[m + 1] = d
    BY <1>8, <2>1
  <2>3. \A i \in 1..m : r[i] = c[i] /\ c[i] \in S
    BY <1>8, <2>1
  <2> QED
    BY <2>2, <2>3
<1>10. m + 1 \in J /\ \A i \in 1..m : i \notin J
  BY <1>1, <1>8, <1>9
<1>11. selected(r, J) = Append(<< >>, d)
  <2>1. Len(c) + 1 \in J /\ \A i \in 1..Len(c) : i \notin J
    BY <1>8, <1>10
  <2>2. LastSelected(S, c, d, J)
    BY <2>1, SelectsLast
  <2>3. selected(Append(c, d), J) = Append(<< >>, d)
    BY <2>1, <2>2, Zenon DEF LastSelected
  <2> QED
    BY <1>8, <2>3
<1>12. PICK found : found = << d >>
  OBVIOUS
<1>13. selected(r, J) = found
  BY <1>11, <1>12
<1>14. infosIn(r) = [i \in DOMAIN found |-> found[i].value[1]]
  BY <1>8, <1>13, Zenon DEF infosIn
<1>15. DOMAIN found = 1..1 /\ found[1] = d
  BY <1>12
<1>16. [i \in DOMAIN found |-> found[i].value[1]] = << info >>
  BY <1>1, <1>15
<1>17. representable(Append(b, d)) = r
  BY <1>4, <1>7, <1>8, Zenon DEF representable
<1> QED
  BY <1>14, <1>16, <1>17, Zenon

\* The details a client asked for are none of the server's infos.
LEMMA SaidDetails ==
  ASSUME NEW e, NEW A, e.details \in Seq(A), \A any \in A : Last(any.typeUrl) # InfoType
  PROVE  \E S : anyDetails(e) \in Seq(S) /\ \A x \in S : x.type # InfoType
<1> DEFINE said(any) == ErrorDetail(Last(any.typeUrl), any.value)
           S == {said(any) : any \in A}
<1>1. PICK s, b : s = e.details /\ b = anyDetails(e)
  OBVIOUS
<1>2. \A any : said(any).type = Last(any.typeUrl)
  BY DEF ErrorDetail
<1>3. b = [i \in DOMAIN s |-> said(s[i])]
  BY <1>1 DEF anyDetails
<1> HIDE DEF said
<1>4. b \in Seq(S)
  <2>1. s \in Seq(A)
    BY <1>1
  <2>2. DOMAIN s = 1..Len(s) /\ Len(s) \in Nat /\ \A i \in 1..Len(s) : said(s[i]) \in S
    BY <2>1
  <2> HIDE DEF S
  <2> QED
    BY <1>3, <2>2
<1>5. \A x \in S : x.type # InfoType
  BY <1>2
<1> HIDE DEF S
<1> QED
  BY <1>1, <1>4, <1>5, Zenon

\* The details of an error with its info.
LEMMA InfoDetails ==
  ASSUME NEW e, NEW A, e.details \in Seq(A), \A any \in A : Last(any.typeUrl) # InfoType, NEW info
  PROVE  \E ds : toRPCError(e, << info >>) = RPCError(e.code, ds) /\ infosIn(representable(ds)) = << info >>
<1> DEFINE d == ErrorDetail(InfoType, << info >>)
<1>1. PICK S, b : b = anyDetails(e) /\ b \in Seq(S) /\ \A x \in S : x.type # InfoType
  BY SaidDetails, Zenon
<1>2. PICK one : one = << d >>
  OBVIOUS
<1> HIDE DEF d
<1>3. infosIn(representable(Append(b, d))) = << info >>
  BY <1>1, OneInfo DEF d
<1>4. PICK i1 : i1 = << info >>
  OBVIOUS
<1>5. DOMAIN i1 = 1..1 /\ i1[1] = info
  BY <1>4
<1>6. [i \in DOMAIN i1 |-> ErrorDetail(InfoType, << i1[i] >>)] = one
  <2>1. one = [i \in 1..1 |-> d]
    BY <1>2
  <2>2. [i \in DOMAIN i1 |-> ErrorDetail(InfoType, << i1[i] >>)] = [i \in 1..1 |-> d]
    BY <1>5 DEF d
  <2> QED
    BY <2>1, <2>2
<1>7. b \o one = Append(b, d)
  BY <1>1, <1>2
<1>8. toRPCError(e, i1) = RPCError(e.code, Append(b, d))
  BY <1>1, <1>6, <1>7, Zenon DEF toRPCError
<1> QED
  BY <1>3, <1>4, <1>8, Zenon

\* Where nothing is to be selected there is nothing.
LEMMA NoneSelected ==
  ASSUME NEW S, NEW s \in Seq(S), NEW I, \A i \in 1..Len(s) : i \notin I
  PROVE  selected(s, I) = << >>
<1> DEFINE n == Len(s)
<1>1. n \in Nat
  OBVIOUS
<1>2. PICK f \in [0..n -> Seq(S)] : SelectsTo(s, I, f)
  BY Selecting
<1>3. /\ selected(s, I) = f[n] /\ f[0] = << >>
      /\ \A i \in 1..n : f[i] = IF i \in I THEN Append(f[i - 1], s[i]) ELSE f[i - 1]
  BY <1>2 DEF SelectsTo
<1> DEFINE T == {i \in 0..n : f[i] = << >>}
<1>4. 0 \in T
  BY <1>1, <1>3
<1>5. ASSUME NEW i \in 0..(n - 1), i \in T PROVE i + 1 \in T
  <2>1. i + 1 \in 1..n /\ (i + 1) - 1 = i /\ i + 1 \in 0..n
    BY <1>1
  <2>2. f[i + 1] = f[i]
    BY <1>3, <2>1
  <2> QED
    BY <1>5, <2>1, <2>2
<1> HIDE DEF T, n
<1>6. 0..n \subseteq T
  BY <1>1, <1>4, <1>5, InductionUpTo
<1>7. n \in T
  BY <1>1, <1>6
<1> QED
  BY <1>3, <1>7 DEF T

\* Among details that are no request infos there is none.
LEMMA NoInfos ==
  ASSUME NEW S, NEW ds \in Seq(S), \A d \in S : d.type # InfoType
  PROVE  infosIn(ds) = << >>
<1>1. PICK I : I = {i \in DOMAIN ds : ds[i].type = InfoType}
  OBVIOUS
<1>2. \A i \in 1..Len(ds) : i \notin I
  BY <1>1
<1>3. PICK found : found = << >> /\ selected(ds, I) = found
  BY <1>2, NoneSelected
<1>4. infosIn(ds) = [i \in DOMAIN found |-> found[i].value[1]]
  BY <1>1, <1>3, Zenon DEF infosIn
<1>5. [i \in DOMAIN found |-> found[i].value[1]] = << >>
  BY <1>3
<1> QED
  BY <1>4, <1>5, Zenon

LEMMA NothingInfos == infosIn(<< >>) = << >> /\ representable(<< >>) = << >>
<1>1. PICK S, none : S = {} /\ none = << >>
  OBVIOUS
<1>2. none \in Seq(S) /\ Len(none) = 0
  BY <1>1
<1>3. \A d \in S : d.type # InfoType
  BY <1>1
<1>4. infosIn(none) = << >>
  BY <1>2, <1>3, NoInfos
<1>5. PICK I : I = {i \in DOMAIN none : Representable(none[i])}
  OBVIOUS
<1>6. \A i \in 1..Len(none) : i \notin I
  BY <1>2
<1>7. selected(none, I) = << >>
  BY <1>2, <1>6, NoneSelected
<1> QED
  BY <1>1, <1>4, <1>5, <1>7, Zenon DEF representable

\* The details of an error without an info.
LEMMA PlainDetails ==
  ASSUME NEW e, NEW A, e.details \in Seq(A), \A any \in A : Last(any.typeUrl) # InfoType
  PROVE  \E ds : toRPCError(e, << >>) = RPCError(e.code, ds) /\ infosIn(representable(ds)) = << >>
<1>1. PICK S, b : b = anyDetails(e) /\ b \in Seq(S) /\ \A x \in S : x.type # InfoType
  BY SaidDetails, Zenon
<1>2. PICK none : none = << >>
  OBVIOUS
<1>3. [i \in DOMAIN none |-> ErrorDetail(InfoType, << none[i] >>)] = none
  BY <1>2
<1>4. b \o none = b
  BY <1>1, <1>2
<1>5. toRPCError(e, none) = RPCError(e.code, b)
  BY <1>1, <1>3, <1>4, Zenon DEF toRPCError
<1>6. infosIn(representable(b)) = << >>
  <2>1. PICK r : r = representable(b) /\ r \in Seq(S)
    <3>1. selected(b, {i \in DOMAIN b : Representable(b[i])}) \in Seq(S)
      BY <1>1, SelectedIs
    <3> QED
      BY <3>1, Zenon DEF representable
  <2> QED
    BY <1>1, <2>1, NoInfos, Zenon
<1> QED
  BY <1>2, <1>5, <1>6, Zenon

\* What a request info says.
LEMMA InfoIs ==
  ASSUME NEW in, NEW c
  PROVE  /\ requestInfo(in, c).requests = << in >>
         /\ requestInfo(in, c).requestHeaders = c.headers
         /\ requestInfo(in, c).timeoutMs = c.timeout
<1>1. PICK info, one : info = requestInfo(in, c) /\ one = << in >>
  OBVIOUS
<1>2. info.requests = one /\ info.requestHeaders = c.headers /\ info.timeoutMs = c.timeout
  BY <1>1 DEF requestInfo, RequestInfo
<1> QED
  BY <1>1, <1>2, Zenon

\* Only the first of the sequences that are joined has an element.
LEMMA FirstOnly ==
  ASSUME NEW n \in Nat, NEW x, NEW q, q = [i \in 1..n |-> IF i = 1 THEN << x >> ELSE << >>]
  PROVE  FlattenSeq(q) = IF n = 0 THEN << >> ELSE << x >>
<1>1. PICK one, none : one = << x >> /\ none = << >>
  OBVIOUS
<1>2. q = [i \in 1..n |-> IF i = 1 THEN one ELSE none]
  BY <1>1
<1>3. one \in Seq({x}) /\ none \in Seq({x})
  BY <1>1
<1>4. q \in Seq(Seq({x})) /\ Len(q) = n
  <2>1. PICK V : V = Seq({x})
    OBVIOUS
  <2>2. q \in Seq(V) /\ Len(q) = n
    BY <1>2, <1>3, <2>1
  <2> QED
    BY <2>1, <2>2
<1>5. CASE n = 0
  <2>1. Len(q) = 0 /\ q = none
    BY <1>1, <1>4, <1>5
  <2>2. FlattenSeq(q) = q
    BY <2>1 DEF FlattenSeq
  <2> QED
    BY <1>1, <1>5, <2>1, <2>2
<1>6. CASE n # 0
  <2>1. PICK f : FlattensTo(q, f)
    <3>1. Len(q) > 0
      BY <1>4, <1>6
    <3>2. \E f \in [0..Len(q) -> Seq({x})] : FlattensTo(q, f)
      BY <1>4, <3>1, Flattening
    <3> QED
      BY <3>2, Zenon
  <2>2. FlattenSeq(q) = f[n] /\ f[0] = none /\ \A i \in 1..n : f[i] = f[i - 1] \o q[i]
    BY <1>1, <1>4, <2>1 DEF FlattensTo
  <2> DEFINE T == {i \in 0..(n - 1) : f[i + 1] = one}
  <2>3. 0 \in T
    <3>1. 1 \in 1..n /\ 1 - 1 = 0 /\ 0 \in 0..(n - 1) /\ 0 + 1 = 1
      BY <1>6
    <3>2. f[1] = none \o one
      BY <1>2, <2>2, <3>1
    <3>3. none \o one = one
      BY <1>1, <1>3
    <3> QED
      BY <3>1, <3>2, <3>3
  <2>4. ASSUME NEW i \in 0..((n - 1) - 1), i \in T PROVE i + 1 \in T
    <3>1. (i + 1) + 1 \in 1..n /\ ((i + 1) + 1) - 1 = i + 1 /\ (i + 1) + 1 # 1 /\ i + 1 \in 0..(n - 1)
      BY <1>6
    <3>2. f[(i + 1) + 1] = f[i + 1] \o none
      BY <1>2, <2>2, <3>1
    <3>3. one \o none = one
      BY <1>1, <1>3
    <3> QED
      BY <2>4, <3>1, <3>2, <3>3
  <2> HIDE DEF T
  <2>5. n - 1 \in Nat /\ n - 1 \in 0..(n - 1) /\ (n - 1) + 1 = n
    BY <1>6
  <2>6. 0..(n - 1) \subseteq T
    BY <2>3, <2>4, <2>5, InductionUpTo
  <2>7. f[n] = one
    BY <2>5, <2>6 DEF T
  <2> QED
    BY <1>1, <1>6, <2>2, <2>7
<1> QED
  BY <1>5, <1>6
=============================================================================
