-------------------------- MODULE FrameReaderProofs --------------------------
(***************************************************************************)
(* What a reader makes of bytes, for every body, every payload and any     *)
(* number of calls.                                                        *)
(***************************************************************************)
EXTENDS FrameReader, CommonProofs

USE BaseAssumption

Width == Base * Base * Base * Base   \* 2^32 in the code

-----------------------------------------------------------------------------
(* Lengths.                                                                *)

LEMMA Shift ==
  ASSUME NEW n \in Nat
  PROVE  shift(n) \in Nat /\ n % Base \in Byte /\ n = shift(n) * Base + (n % Base)
BY DEF shift, Byte

LEMMA ShiftBound ==
  ASSUME NEW n \in Nat, NEW m \in Nat, n < m * Base
  PROVE  shift(n) < m
<1> DEFINE q == shift(n)
           r == n % Base
<1>1. q \in Nat /\ r \in Nat /\ n = q * Base + r
  BY Shift DEF Byte
<1> HIDE DEF q, r
<1>2. CASE m <= q
  <2>1. PICK d \in Nat : q = m + d
    BY <1>1, <1>2
  <2>2. q * Base = m * Base + d * Base /\ d * Base >= 0
    BY <2>1
  <2> QED
    BY <1>1, <2>2
<1> QED
  BY <1>1, <1>2 DEF q

\* binary.BigEndian.Uint32 undoes PutUint32 for every length that fits.
LEMMA LengthRoundTrip ==
  ASSUME NEW n \in Nat
  PROVE  /\ PutUint32(n) \in Seq(Byte) /\ Len(PutUint32(n)) = 4
         /\ n < Width => Uint32(PutUint32(n)) = n
<1> DEFINE a == shift(n)
           b == shift(a)
           c == shift(b)
<1>1. a \in Nat /\ n % Base \in Byte /\ n = a * Base + (n % Base)
  BY Shift
<1>2. b \in Nat /\ a % Base \in Byte /\ a = b * Base + (a % Base)
  BY <1>1, Shift
<1>3. c \in Nat /\ b % Base \in Byte /\ b = c * Base + (b % Base)
  BY <1>2, Shift
<1>4. c % Base \in Byte
  BY <1>3, Shift
<1>5. PutUint32(n) = << c % Base, b % Base, a % Base, n % Base >>
  BY DEF PutUint32
<1>6. ASSUME n < Width PROVE c % Base = c
  <2>1. a < Base * Base * Base
    <3>1. Base * Base * Base \in Nat /\ n < (Base * Base * Base) * Base
      BY <1>6 DEF Width
    <3> QED
      BY <3>1, ShiftBound
  <2>2. b < Base * Base
    <3>1. Base * Base \in Nat /\ a < (Base * Base) * Base
      BY <2>1
    <3> HIDE DEF a
    <3> QED
      BY <1>1, <3>1, ShiftBound
  <2> HIDE DEF b
  <2>3. c < Base
    BY <1>2, <2>2, ShiftBound
  <2> QED
    BY <1>3, <2>3
<1> HIDE DEF a, b, c
<1>7. PutUint32(n) \in Seq(Byte) /\ Len(PutUint32(n)) = 4
  BY <1>1, <1>2, <1>3, <1>4, <1>5
<1>8. ASSUME n < Width PROVE Uint32(PutUint32(n)) = n
  <2>1. Uint32(PutUint32(n)) = ((c * Base + (b % Base)) * Base + (a % Base)) * Base + (n % Base)
    BY <1>5, <1>6, <1>8 DEF Uint32
  <2> QED
    BY <1>1, <1>2, <1>3, <2>1
<1> QED
  BY <1>7, <1>8

LEMMA LengthIsNat ==
  ASSUME NEW b \in Seq(Byte), Len(b) >= 4
  PROVE  Uint32(b) \in Nat
<1>1. b[1] \in Nat /\ b[2] \in Nat /\ b[3] \in Nat /\ b[4] \in Nat
  BY DEF Byte
<1>2. \A x, y \in Nat : x * Base + y \in Nat
  OBVIOUS
<1>3. b[1] * Base + b[2] \in Nat
  BY <1>1, <1>2
<1>4. (b[1] * Base + b[2]) * Base + b[3] \in Nat
  BY <1>1, <1>2, <1>3
<1> QED
  BY <1>1, <1>2, <1>4 DEF Uint32

-----------------------------------------------------------------------------
(* Frames.                                                                 *)

LEMMA Concatenation ==
  ASSUME NEW S, NEW s \in Seq(S), NEW t \in Seq(S)
  PROVE  /\ s \o t \in Seq(S) /\ Len(s \o t) = Len(s) + Len(t)
         /\ \A i \in 1..Len(s) : (s \o t)[i] = s[i]
         /\ \A i \in 1..Len(t) : (s \o t)[Len(s) + i] = t[i]
OBVIOUS

Flags(endStream) == IF endStream THEN 2 ELSE 0

LEMMA FrameBytes ==
  ASSUME NEW p \in Seq(Byte), NEW endStream \in BOOLEAN
  PROVE  LET f == Frame(p, endStream)
         IN  /\ f \in Seq(Byte) /\ Len(f) = 5 + Len(p)
             /\ f[1] = Flags(endStream)
             /\ \A i \in 1..4 : f[1 + i] = PutUint32(Len(p))[i]
             /\ \A i \in 1..Len(p) : f[5 + i] = p[i]
<1> DEFINE h == PutUint32(Len(p))
           x == Flags(endStream)
<1>1. h \in Seq(Byte) /\ Len(h) = 4
  BY LengthRoundTrip
<1>2. x \in Byte
  BY DEF Flags, Byte
<1>3. Frame(p, endStream) = << x >> \o h \o p
  BY DEF Frame, Flags
<1> HIDE DEF h, x
<1> DEFINE g == << x >> \o h
<1>4. g \in Seq(Byte) /\ Len(g) = 5 /\ g[1] = x /\ \A i \in 1..4 : g[1 + i] = h[i]
  <2> DEFINE s == << x >>
  <2>1. s \in Seq(Byte)
    BY <1>2
  <2>2. Len(s) = 1 /\ s[1] = x
    OBVIOUS
  <2>3. h \in Seq(Byte)
    BY <1>1
  <2> HIDE DEF s
  <2>4. /\ s \o h \in Seq(Byte) /\ Len(s \o h) = Len(s) + Len(h)
        /\ \A i \in 1..Len(s) : (s \o h)[i] = s[i]
        /\ \A i \in 1..Len(h) : (s \o h)[Len(s) + i] = h[i]
    BY <2>1, <2>3, Concatenation
  <2>5. Len(s \o h) = 5 /\ (s \o h)[1] = x
    BY <1>1, <2>2, <2>4
  <2>6. \A i \in 1..4 : (s \o h)[1 + i] = h[i]
    BY <1>1, <2>2, <2>4
  <2> QED
    BY <2>4, <2>5, <2>6 DEF s
<1> HIDE DEF g
<1>5. g \in Seq(Byte)
  BY <1>4
<1>6. /\ g \o p \in Seq(Byte) /\ Len(g \o p) = Len(g) + Len(p)
      /\ \A i \in 1..Len(g) : (g \o p)[i] = g[i]
      /\ \A i \in 1..Len(p) : (g \o p)[Len(g) + i] = p[i]
  BY <1>5, Concatenation
<1>7. \A i \in 1..4 : 1 + i \in 1..Len(g)
  BY <1>4
<1>8. /\ Frame(p, endStream) = g \o p
      /\ Frame(p, endStream)[1] = x
      /\ \A i \in 1..4 : Frame(p, endStream)[1 + i] = h[i]
  BY <1>3, <1>4, <1>6, <1>7 DEF g
<1> QED
  BY <1>4, <1>6, <1>8 DEF h, x

\* As far as b reaches it agrees with f.
Begins(b, f) == \A i \in 1..Len(f) : i <= Len(b) => b[i] = f[i]

\* The length in front of a frame that has begun is the length of its payload.
LEMMA LengthOfFrame ==
  ASSUME NEW p \in Seq(Byte), Len(p) < Width, NEW endStream \in BOOLEAN,
         NEW b \in Seq(Byte), Begins(b, Frame(p, endStream)), Len(b) >= 5
  PROVE  Length(b) = Len(p) /\ b[1] = Flags(endStream)
<1> DEFINE f == Frame(p, endStream)
           h == PutUint32(Len(p))
<1>1. /\ Len(f) = 5 + Len(p) /\ f[1] = Flags(endStream)
      /\ \A i \in 1..4 : f[1 + i] = h[i]
  BY FrameBytes
<1>2. h \in Seq(Byte) /\ Len(h) = 4 /\ Uint32(h) = Len(p)
  BY LengthRoundTrip
<1> HIDE DEF f, h
<1>3. b[1] = f[1] /\ b[2] = f[2] /\ b[3] = f[3] /\ b[4] = f[4] /\ b[5] = f[5]
  BY <1>1 DEF Begins, f
<1>4. f[2] = h[1] /\ f[3] = h[2] /\ f[4] = h[3] /\ f[5] = h[4]
  <2>1. f[1 + 1] = h[1] /\ f[1 + 2] = h[2] /\ f[1 + 3] = h[3] /\ f[1 + 4] = h[4]
    BY <1>1
  <2> QED
    BY <2>1
<1> DEFINE s == SubSeq(b, 2, 5)
<1>5. s[1] = b[2] /\ s[2] = b[3] /\ s[3] = b[4] /\ s[4] = b[5]
  OBVIOUS
<1> HIDE DEF s
<1>6. Uint32(s) = Uint32(h)
  BY <1>3, <1>4, <1>5 DEF Uint32
<1> QED
  BY <1>1, <1>2, <1>3, <1>6 DEF Length, HeaderBytes, s

LEMMA SeqEqual ==
  ASSUME NEW S, NEW s \in Seq(S), NEW t \in Seq(S), Len(s) = Len(t),
         \A i \in 1..Len(s) : s[i] = t[i]
  PROVE  s = t
OBVIOUS

LEMMA Slice ==
  ASSUME NEW S, NEW s \in Seq(S), NEW m \in Nat, NEW n \in Nat, m + n <= Len(s)
  PROVE  /\ SubSeq(s, m + 1, m + n) \in Seq(S) /\ Len(SubSeq(s, m + 1, m + n)) = n
         /\ \A i \in 1..n : SubSeq(s, m + 1, m + n)[i] = s[m + i]
OBVIOUS

\* What is left of s behind its first m elements.
LEMMA Rest ==
  ASSUME NEW S, NEW s \in Seq(S), NEW m \in Nat, m <= Len(s)
  PROVE  /\ SubSeq(s, m + 1, Len(s)) \in Seq(S) /\ Len(SubSeq(s, m + 1, Len(s))) = Len(s) - m
         /\ \A i \in 1..(Len(s) - m) : SubSeq(s, m + 1, Len(s))[i] = s[m + i]
OBVIOUS

LEMMA HeaderIsNat == HeaderBytes \in Nat
BY DEF HeaderBytes

LEMMA CapIsNat == MaxMessageBytes \in Nat
BY CapAssumption

LEMMA LengthOfHeader ==
  ASSUME NEW b \in Seq(Byte), Len(b) >= HeaderBytes
  PROVE  Length(b) \in Nat
<1>1. SubSeq(b, 2, 5) \in Seq(Byte) /\ Len(SubSeq(b, 2, 5)) >= 4
  <2>1. SubSeq(b, 1 + 1, 1 + 4) \in Seq(Byte) /\ Len(SubSeq(b, 1 + 1, 1 + 4)) = 4
    BY Slice DEF HeaderBytes
  <2> QED
    BY <2>1
<1> QED
  BY <1>1, LengthIsNat DEF Length, HeaderBytes

\* The outcomes of readFrameFlags, in the order in which it looks for them.
LEMMA ReadFrame ==
  ASSUME NEW b \in Seq(Byte), NEW tail
  PROVE  LET r == readFrameFlags(b, tail)
             rest == SubSeq(b, HeaderBytes + 1, Len(b))
         IN  /\ Len(b) < HeaderBytes =>
                  r.err = ReadFull(b, HeaderBytes, tail) /\ r.used = Len(b) /\ r.payload = << >>
             /\ Len(b) >= HeaderBytes /\ Length(b) > MaxMessageBytes =>
                  r.err = "too large" /\ r.used = HeaderBytes /\ r.payload = << >>
             /\ Len(b) >= HeaderBytes /\ ~(Length(b) > MaxMessageBytes) =>
                  IF Len(b) < HeaderBytes + Length(b)
                  THEN r.err = ReadFull(rest, Length(b), tail) /\ r.used = Len(b) /\ r.payload = << >>
                  ELSE /\ r.err = "ok" /\ r.used = HeaderBytes + Length(b)
                       /\ r.flags = b[1] /\ r.payload = Payload(b)
<1> DEFINE rest == SubSeq(b, HeaderBytes + 1, Len(b))
           r == readFrameFlags(b, tail)
<1>1. Len(b) >= HeaderBytes => Len(rest) = Len(b) - HeaderBytes
  BY HeaderIsNat, Rest
<1>2. Len(b) >= HeaderBytes => Length(b) \in Nat
  BY LengthOfHeader
<1>3. Len(b) < HeaderBytes => r = readResult(ReadFull(b, HeaderBytes, tail), Len(b))
  BY DEF readFrameFlags
<1>4. ASSUME Len(b) >= HeaderBytes, Length(b) > MaxMessageBytes
      PROVE  r = readResult("too large", HeaderBytes)
  <2>1. ~(Len(b) < HeaderBytes)
    BY <1>4, HeaderIsNat
  <2> QED
    BY <1>4, <2>1 DEF readFrameFlags
<1>5. Len(b) >= HeaderBytes /\ ~(Length(b) > MaxMessageBytes) =>
        r = IF Len(b) < HeaderBytes + Length(b)
            THEN readResult(ReadFull(rest, Length(b), tail), Len(b))
            ELSE [readResult("ok", HeaderBytes + Length(b))
                    EXCEPT !.flags = b[1], !.payload = Payload(b)]
  BY <1>1, <1>2, HeaderIsNat DEF readFrameFlags
<1> HIDE DEF r, rest
<1>7. ASSUME NEW err, NEW used, r = readResult(err, used)
      PROVE  r.err = err /\ r.used = used /\ r.payload = << >>
  BY <1>7 DEF readResult
<1>9. Len(b) < HeaderBytes =>
        r.err = ReadFull(b, HeaderBytes, tail) /\ r.used = Len(b) /\ r.payload = << >>
  BY <1>3, <1>7
<1>10. Len(b) >= HeaderBytes /\ Length(b) > MaxMessageBytes =>
        r.err = "too large" /\ r.used = HeaderBytes /\ r.payload = << >>
  BY <1>4, <1>7
<1>11. ASSUME Len(b) >= HeaderBytes, ~(Length(b) > MaxMessageBytes)
       PROVE  IF Len(b) < HeaderBytes + Length(b)
              THEN r.err = ReadFull(rest, Length(b), tail) /\ r.used = Len(b) /\ r.payload = << >>
              ELSE /\ r.err = "ok" /\ r.used = HeaderBytes + Length(b)
                   /\ r.flags = b[1] /\ r.payload = Payload(b)
  <2>1. CASE Len(b) < HeaderBytes + Length(b)
    BY <1>5, <1>7, <1>11, <2>1
  <2>2. CASE ~(Len(b) < HeaderBytes + Length(b))
    <3>1. r = [readResult("ok", HeaderBytes + Length(b)) EXCEPT !.flags = b[1], !.payload = Payload(b)]
      BY <1>5, <1>11, <2>2
    <3> QED
      BY <2>2, <3>1 DEF readResult
  <2> QED
    BY <2>1, <2>2
<1> QED
  BY <1>9, <1>10, <1>11 DEF r, rest

\* The errors of a body that is not there as a whole, and of a frame that is too large.
Broke(err) == err \in {"EOF", "unexpected EOF", "reset"}
Oversized(err) == err = "too large"

\* A frame that is there as a whole is read as it was written, and nothing behind it.
LEMMA ReadWhole ==
  ASSUME NEW p \in Seq(Byte), Len(p) < Width, NEW endStream \in BOOLEAN,
         NEW b \in Seq(Byte), Begins(b, Frame(p, endStream)), Len(b) >= HeaderBytes + Len(p),
         NEW tail
  PROVE  LET r == ReadFrameDecompressed(b, tail)
         IN  IF Len(p) > MaxMessageBytes THEN Oversized(r.err) /\ r.used = HeaderBytes
             ELSE /\ r.err = "ok" /\ r.used = HeaderBytes + Len(p) /\ r.payload = p
                  /\ EndStream(r.flags) <=> endStream
<1> DEFINE r == readFrameFlags(b, tail)
           q == SubSeq(b, HeaderBytes + 1, HeaderBytes + Len(p))
<1>1. Len(p) \in Nat /\ Len(b) >= HeaderBytes
  BY HeaderIsNat
<1>2. Length(b) = Len(p) /\ b[1] = Flags(endStream)
  BY <1>1, LengthOfFrame DEF HeaderBytes
<1>3. Payload(b) = p
  <2>1. q \in Seq(Byte) /\ Len(q) = Len(p) /\ \A i \in 1..Len(p) : q[i] = b[HeaderBytes + i]
    BY <1>1, HeaderIsNat, Slice
  <2>2. ASSUME NEW i \in 1..Len(p) PROVE b[HeaderBytes + i] = p[i]
    <3> DEFINE n == Len(Frame(p, endStream))
    <3>3. n = 5 + Len(p)
      BY FrameBytes
    <3> HIDE DEF n
    <3>4. 5 + i \in 1..n /\ 5 + i <= Len(b)
      BY <1>1, <3>3 DEF HeaderBytes
    <3>1. 5 + i \in 1..Len(Frame(p, endStream)) /\ 5 + i <= Len(b)
      BY <3>4 DEF n
    <3>2. Frame(p, endStream)[5 + i] = p[i]
      BY FrameBytes
    <3> QED
      BY <3>1, <3>2 DEF Begins, HeaderBytes
  <2> HIDE DEF q
  <2>3. q = p
    BY <2>1, <2>2
  <2> QED
    BY <1>2, <2>3 DEF Payload, q
<1> HIDE DEF q
<1>4. Len(p) > MaxMessageBytes => r.err = "too large" /\ r.used = HeaderBytes
  BY <1>1, <1>2, ReadFrame
<1>5. ASSUME ~(Len(p) > MaxMessageBytes)
      PROVE  /\ r.err = "ok" /\ r.used = HeaderBytes + Len(p) /\ r.payload = p
             /\ r.flags = Flags(endStream)
  <2>1. ~(Len(b) < HeaderBytes + Len(p))
    BY <1>1, HeaderIsNat
  <2> HIDE DEF r
  <2> QED
    BY <1>1, <1>2, <1>3, <1>5, <2>1, ReadFrame DEF r
<1>6. ~Compressed(Flags(endStream)) /\ (EndStream(Flags(endStream)) <=> endStream)
  BY DEF Compressed, EndStream, Flags
<1> HIDE DEF r
<1>7. ReadFrameDecompressed(b, tail) = r
  BY <1>4, <1>5, <1>6 DEF ReadFrameDecompressed, r
<1> QED
  BY <1>4, <1>5, <1>6, <1>7 DEF Oversized

LEMMA ReadFullStops ==
  ASSUME NEW s, Len(s) \in Nat, NEW n \in Nat, Len(s) < n, NEW tail \in {"EOF", "reset"}
  PROVE  ReadFull(s, n, tail) \in {"EOF", "unexpected EOF", "reset"}
<1>1. ReadFull(s, n, tail) \in {"unexpected EOF", tail}
  BY DEF ReadFull
<1> QED
  BY <1>1

\* Of a frame that is cut short, or of nothing at all, no message is made, and all there
\* is has been consumed, unless the length is too large already.
LEMMA ReadCut ==
  ASSUME NEW p \in Seq(Byte), Len(p) < Width, NEW endStream \in BOOLEAN,
         NEW b \in Seq(Byte), Begins(b, Frame(p, endStream)), Len(b) < HeaderBytes + Len(p),
         NEW tail \in {"EOF", "reset"}
  PROVE  LET r == ReadFrameDecompressed(b, tail)
         IN  \/ Broke(r.err) /\ r.used = Len(b)
             \/ Oversized(r.err) /\ r.used = HeaderBytes /\ Len(p) > MaxMessageBytes
<1> DEFINE r == readFrameFlags(b, tail)
           rest == SubSeq(b, HeaderBytes + 1, Len(b))
           stop == {"EOF", "unexpected EOF", "reset"}
<1>1. Len(p) \in Nat /\ Len(b) \in Nat
  OBVIOUS
<1>2. ASSUME Len(b) < HeaderBytes PROVE r.err \in stop /\ r.used = Len(b)
  <2>1. ReadFull(b, HeaderBytes, tail) \in stop
    BY <1>1, <1>2, HeaderIsNat, ReadFullStops
  <2> HIDE DEF stop
  <2> QED
    BY <1>2, <2>1, ReadFrame
<1>3. Len(b) >= HeaderBytes => Length(b) = Len(p)
  BY LengthOfFrame DEF HeaderBytes
<1>4. Len(b) >= HeaderBytes => Len(rest) \in Nat /\ Len(rest) < Len(p)
  BY <1>1, HeaderIsNat, Rest
<1>5. Len(b) >= HeaderBytes => ReadFull(rest, Len(p), tail) \in stop
  BY <1>1, <1>4, ReadFullStops
<1>6. Len(b) >= HeaderBytes /\ Len(p) > MaxMessageBytes =>
        r.err = "too large" /\ r.used = HeaderBytes
  BY <1>3, ReadFrame
<1> HIDE DEF stop
<1>7. Len(b) >= HeaderBytes /\ ~(Len(p) > MaxMessageBytes) => r.err \in stop /\ r.used = Len(b)
  BY <1>3, <1>5, ReadFrame
<1> HIDE DEF r, rest
<1>8. \/ r.err \in stop /\ r.used = Len(b)
      \/ r.err = "too large" /\ r.used = HeaderBytes /\ Len(p) > MaxMessageBytes
  <2>1. Len(b) < HeaderBytes \/ Len(b) >= HeaderBytes
    BY <1>1, HeaderIsNat
  <2> QED
    BY <1>2, <1>6, <1>7, <2>1
<1>9. r.err # "ok"
  BY <1>8 DEF stop
<1>10. ReadFrameDecompressed(b, tail) = r
  BY <1>9 DEF ReadFrameDecompressed, r
<1> QED
  BY <1>8, <1>10 DEF stop, Broke, Oversized

\* Of whatever bytes, a frame is made only of a header and as many bytes as it says, which
\* are then consumed; never are more consumed than there are.
LEMMA ReadAny ==
  ASSUME NEW b \in Seq(Byte), NEW tail \in {"EOF", "reset"}
  PROVE  LET r == ReadFrameDecompressed(b, tail)
         IN  /\ r.used \in 0..Len(b) /\ r.payload \in Seq(Byte)
             /\ r.err = "ok" =>
                  /\ Len(b) >= HeaderBytes /\ Length(b) \in Nat
                  /\ Len(b) >= HeaderBytes + Length(b)
                  /\ r.used = HeaderBytes + Length(b) /\ r.flags = b[1]
<1> DEFINE f == readFrameFlags(b, tail)
           r == ReadFrameDecompressed(b, tail)
           Good(x) == /\ x.used \in 0..Len(b) /\ x.payload \in Seq(Byte)
                      /\ x.err = "ok" =>
                           /\ Len(b) >= HeaderBytes /\ Length(b) \in Nat
                           /\ Len(b) >= HeaderBytes + Length(b)
                           /\ x.used = HeaderBytes + Length(b) /\ x.flags = b[1]
<1>1. Good(f)
  <2> DEFINE rest == SubSeq(b, HeaderBytes + 1, Len(b))
  <2>1. Len(b) \in Nat /\ HeaderBytes \in Nat /\ << >> \in Seq(Byte)
    BY HeaderIsNat
  <2>2. CASE Len(b) < HeaderBytes
    <3>1. ReadFull(b, HeaderBytes, tail) # "ok"
      BY <2>1, <2>2, ReadFullStops
    <3>2. f.err # "ok" /\ f.used = Len(b) /\ f.payload = << >>
      BY <2>2, <3>1, ReadFrame
    <3> HIDE DEF f
    <3> QED
      BY <2>1, <3>2
  <2>3. CASE Len(b) >= HeaderBytes /\ Length(b) > MaxMessageBytes
    <3>1. f.err # "ok" /\ f.used = HeaderBytes /\ f.payload = << >>
      BY <2>3, ReadFrame
    <3> HIDE DEF f
    <3> QED
      BY <2>1, <2>3, <3>1
  <2>4. CASE Len(b) >= HeaderBytes /\ ~(Length(b) > MaxMessageBytes) /\ Len(b) < HeaderBytes + Length(b)
    <3>1. Length(b) \in Nat
      BY <2>4, LengthOfHeader
    <3>2. Len(rest) \in Nat /\ Len(rest) < Length(b)
      BY <2>1, <2>4, <3>1, Rest
    <3>3. ReadFull(rest, Length(b), tail) # "ok"
      BY <3>1, <3>2, ReadFullStops
    <3>4. f.err # "ok" /\ f.used = Len(b) /\ f.payload = << >>
      BY <2>4, <3>3, ReadFrame
    <3> HIDE DEF f
    <3> QED
      BY <2>1, <3>4
  <2>5. CASE /\ Len(b) >= HeaderBytes /\ ~(Length(b) > MaxMessageBytes)
             /\ ~(Len(b) < HeaderBytes + Length(b))
    <3>1. Length(b) \in Nat
      BY <2>5, LengthOfHeader
    <3>2. f.used = HeaderBytes + Length(b) /\ f.flags = b[1] /\ f.payload = Payload(b)
      BY <2>5, ReadFrame
    <3>3. Payload(b) \in Seq(Byte)
      BY <2>1, <2>5, <3>1, Slice DEF Payload
    <3>4. HeaderBytes + Length(b) \in 0..Len(b) /\ Len(b) >= HeaderBytes + Length(b)
      BY <2>1, <2>5, <3>1
    <3> HIDE DEF f
    <3> QED
      BY <2>5, <3>1, <3>2, <3>3, <3>4
  <2>6. Len(b) < HeaderBytes \/ Len(b) >= HeaderBytes
    BY <2>1
  <2> HIDE DEF Good
  <2> QED
    BY <2>2, <2>3, <2>4, <2>5, <2>6
<1>2. \/ r = f
      \/ IsGzip(f.payload) /\ r = [f EXCEPT !.payload = GzipDecompress(@)]
      \/ r = [f EXCEPT !.err = "corrupt gzip"]
  BY DEF ReadFrameDecompressed
<1>3. \E e, u, g, p : f = [err |-> e, used |-> u, flags |-> g, payload |-> p]
  BY DEF readFrameFlags, readResult
<1> HIDE DEF f, r
<1>4. CASE IsGzip(f.payload) /\ r = [f EXCEPT !.payload = GzipDecompress(@)]
  <2>1. r.used = f.used /\ r.err = f.err /\ r.flags = f.flags /\ r.payload = Tail(f.payload)
    BY <1>3, <1>4 DEF GzipDecompress
  <2>2. Tail(f.payload) \in Seq(Byte)
    BY <1>1, <1>4 DEF IsGzip
  <2> QED
    BY <1>1, <2>1, <2>2 DEF r
<1>5. CASE r = [f EXCEPT !.err = "corrupt gzip"]
  <2>1. r.used = f.used /\ r.err = "corrupt gzip" /\ r.payload = f.payload
    BY <1>3, <1>5
  <2> QED
    BY <1>1, <2>1 DEF r
<1> QED
  BY <1>1, <1>2, <1>4, <1>5 DEF r

-----------------------------------------------------------------------------
(* The variables and their types.                                          *)

Results == [kind : {"message", "eof", "rpc", "raw"}, value : Seq(Byte) \cup Nat]

Types ==
  /\ TypeOK
  /\ written \in [payloads : Seq(Payloads), code : Codes \cup {-1}]
  /\ log \in Seq(Results)

\* What Recv reads, and what it makes of it.
behind == IF conn = "reset" THEN "reset" ELSE "EOF"
got == ReadFrameDecompressed(left, behind)
answer ==
  IF got.err # "ok" THEN recvError(got.err)
  ELSE IF ~EndStream(got.flags) THEN Result("message", got.payload)
  ELSE IF DecodeEnd(got.payload) # 0 THEN Result("rpc", DecodeEnd(got.payload))
  ELSE Result("eof", 0)

LEMMA CodesAreBytes == Codes \subseteq Byte
BY CodesAssumption DEF Byte

LEMMA EndPayload ==
  ASSUME NEW code \in Codes
  PROVE  EncodeEnd(code) \in Seq(Byte) /\ Len(EncodeEnd(code)) <= 1
         /\ DecodeEnd(EncodeEnd(code)) = code
<1>1. code \in Byte
  BY CodesAreBytes
<1>3. code = 0 => EncodeEnd(code) = << >>
  BY DEF EncodeEnd
<1>4. code # 0 => EncodeEnd(code) = << code >>
  BY DEF EncodeEnd
<1>5. CASE code = 0
  <2>1. << >> \in Seq(Byte) /\ Len(<< >>) = 0
    OBVIOUS
  <2>2. Len(<< >>) <= 1 /\ DecodeEnd(<< >>) = 0
    BY <2>1 DEF DecodeEnd
  <2> QED
    BY <1>3, <1>5, <2>1, <2>2, Zenon
<1>6. CASE code # 0
  <2> DEFINE s == << code >>
  <2>1. s \in Seq(Byte) /\ Len(s) = 1 /\ s[1] = code
    BY <1>1
  <2> HIDE DEF s
  <2>2. Len(s) <= 1 /\ DecodeEnd(s) = code
    BY <2>1 DEF DecodeEnd
  <2>3. EncodeEnd(code) = s
    BY <1>4, <1>6 DEF s
  <2> QED
    BY <2>1, <2>2, <2>3, Zenon
<1> QED
  BY <1>5, <1>6

LEMMA Left ==
  ASSUME Types
  PROVE  /\ left \in Seq(Byte) /\ Len(left) = Len(wire) - pos
         /\ \A i \in 1..(Len(wire) - pos) : left[i] = wire[pos + i]
<1>1. wire \in Seq(Byte) /\ pos \in Nat /\ pos <= Len(wire)
  BY DEF Types, TypeOK
<1> QED
  BY <1>1, Rest DEF left

LEMMA Got ==
  ASSUME Types
  PROVE  /\ got.used \in 0..Len(left) /\ got.payload \in Seq(Byte)
         /\ got.err = "ok" =>
              /\ Len(left) >= HeaderBytes /\ Length(left) \in Nat
              /\ Len(left) >= HeaderBytes + Length(left)
              /\ got.used = HeaderBytes + Length(left) /\ got.flags = left[1]
<1>1. behind \in {"EOF", "reset"}
  BY DEF behind
<1>2. left \in Seq(Byte)
  BY Left
<1> QED
  BY <1>1, <1>2, ReadAny DEF got

\* The four kinds of answers, and what each is proof of.
LEMMA Answer ==
  ASSUME Types
  PROVE  /\ answer \in Results
         /\ answer.kind = "message" =>
              got.err = "ok" /\ ~EndStream(got.flags) /\ answer.value = got.payload
         /\ answer.kind = "eof" /\ ~ended =>
              /\ got.err = "ok" /\ EndStream(got.flags)
              /\ DecodeEnd(got.payload) = 0 /\ answer.value = 0
         /\ answer.kind = "rpc" /\ answer.value \notin {8, 13} =>
              /\ got.err = "ok" /\ EndStream(got.flags)
              /\ answer.value = DecodeEnd(got.payload)
<1> DEFINE g == got
<1>1. g.payload \in Seq(Byte)
  BY Got
<1>2. DecodeEnd(g.payload) \in Nat
  BY <1>1 DEF DecodeEnd, Byte
<1>3. CASE g.err # "ok"
  <2>1. answer \in {Result("rpc", 8), Result("rpc", 13), Result("eof", 0), Result("raw", 0)}
        /\ (answer = Result("eof", 0) => ended)
    BY <1>3 DEF answer, recvError, Result
  <2> HIDE DEF g
  <2> QED
    BY <2>1 DEF Result, Results
<1>4. CASE g.err = "ok" /\ ~EndStream(g.flags)
  <2>1. answer = Result("message", g.payload)
    BY <1>4 DEF answer
  <2> QED
    BY <1>1, <1>4, <2>1 DEF Result, Results
<1>5. CASE g.err = "ok" /\ EndStream(g.flags) /\ DecodeEnd(g.payload) # 0
  <2>1. answer = Result("rpc", DecodeEnd(g.payload))
    BY <1>5 DEF answer
  <2> QED
    BY <1>2, <1>5, <2>1 DEF Result, Results
<1>6. CASE g.err = "ok" /\ EndStream(g.flags) /\ DecodeEnd(g.payload) = 0
  <2>1. answer = Result("eof", 0)
    BY <1>6 DEF answer
  <2> QED
    BY <1>6, <2>1 DEF Result, Results
<1> QED
  BY <1>3, <1>4, <1>5, <1>6

LEMMA RecvStep ==
  ASSUME Recv
  PROVE  /\ UNCHANGED << foreign, wire, conn, wend, written >> /\ arrived
         /\ pos' = pos + got.used /\ log' = Append(log, answer)
         /\ ended' = (ended \/ (got.err = "ok" /\ EndStream(got.flags)))
<1>1. UNCHANGED << foreign, wire, conn, wend, written >> /\ arrived
  BY DEF Recv
<1>2. pos' = pos + got.used /\ ended' = (ended \/ (got.err = "ok" /\ EndStream(got.flags)))
  BY DEF Recv, got, behind
<1>3. log' = Append(log, answer)
  BY DEF Recv, got, behind, answer
<1> QED
  BY <1>1, <1>2, <1>3

\* What a write leaves of the frame s on the wire: all of it, or a part of it and an end.
LEMMA WriteStep ==
  ASSUME Types, NEW s \in Seq(Byte), writeOrFail(s)
  PROVE  /\ wire' \in Seq(Byte) /\ Len(wire') >= Len(wire)
         /\ \A i \in 1..Len(wire) : wire'[i] = wire[i]
         /\ conn' \in {"up", "eof", "reset"}
         /\ conn # "up" => wire' = wire /\ conn' = conn
         /\ conn = "up" =>
              /\ Len(wire') <= Len(wire) + Len(s)
              /\ conn' = "up" => Len(wire') = Len(wire) + Len(s)
              /\ \A j \in 1..Len(s) : Len(wire) + j <= Len(wire') => wire'[Len(wire) + j] = s[j]
<1>1. wire \in Seq(Byte) /\ Len(wire) \in Nat /\ conn \in {"up", "eof", "reset"}
  BY DEF Types, TypeOK
<1>2. CASE conn # "up"
  BY <1>1, <1>2 DEF writeOrFail
<1>3. CASE conn = "up" /\ wire' = wire \o s /\ UNCHANGED conn
  BY <1>1, <1>3, Concatenation
<1>4. CASE conn = "up" /\ \E n \in 0..(Len(s) - 1) :
             wire' = wire \o SubSeq(s, 1, n) /\ conn' \in {"eof", "reset"}
  <2>1. PICK n \in 0..(Len(s) - 1) :
             wire' = wire \o SubSeq(s, 1, n) /\ conn' \in {"eof", "reset"}
    BY <1>4
  <2> DEFINE t == SubSeq(s, 1, n)
  <2>2. t \in Seq(Byte) /\ Len(t) = n /\ n \in Nat /\ n < Len(s) /\ \A j \in 1..n : t[j] = s[j]
    <3>1. 0 \in Nat /\ n \in Nat /\ n < Len(s) /\ 0 + n <= Len(s)
      OBVIOUS
    <3>2. SubSeq(s, 0 + 1, 0 + n) \in Seq(Byte) /\ Len(SubSeq(s, 0 + 1, 0 + n)) = n
          /\ \A j \in 1..n : SubSeq(s, 0 + 1, 0 + n)[j] = s[0 + j]
      BY <3>1, Slice
    <3> QED
      BY <3>1, <3>2
  <2> HIDE DEF t
  <2>3. wire' = wire \o t
    BY <2>1 DEF t
  <2>4. wire' \in Seq(Byte) /\ Len(wire') = Len(wire) + Len(t)
    BY <1>1, <2>2, <2>3, Concatenation
  <2>5. /\ \A i \in 1..Len(wire) : wire'[i] = wire[i]
        /\ \A i \in 1..Len(t) : wire'[Len(wire) + i] = t[i]
    BY <1>1, <2>2, <2>3, Concatenation
  <2> QED
    BY <1>1, <1>4, <2>1, <2>2, <2>4, <2>5
<1>5. CASE conn = "up"
  BY <1>3, <1>4, <1>5 DEF writeOrFail, write
<1> QED
  BY <1>2, <1>5

LEMMA FrameIsBytes ==
  ASSUME NEW p \in Seq(Byte), NEW endStream \in BOOLEAN
  PROVE  Frame(p, endStream) \in Seq(Byte)
BY FrameBytes

LEMMA TypesHold == Spec => []Types
<1>1. ASSUME Init PROVE Types
  <2>6. << >> \in Seq(Byte)
    OBVIOUS
  <2>5. wire \in Seq(Byte)
    BY <1>1, <2>6, BytesAssumption, Zenon DEF Init
  <2>1. /\ wire \in Seq(Byte) /\ conn \in {"up", "eof", "reset"} /\ foreign \in BOOLEAN
        /\ wend = FALSE /\ ended = FALSE /\ pos = 0 /\ log = << >>
    BY <1>1, <2>5 DEF Init
  <2>2. written = [payloads |-> << >>, code |-> -1]
    BY <1>1 DEF Init
  <2>3. written \in [payloads : Seq(Payloads), code : Codes \cup {-1}]
        /\ written.code \in Codes \cup {-1}
    BY <2>2
  <2>4. pos \in 0..Len(wire) /\ log \in Seq(Results) /\ DOMAIN log = {}
    BY <2>1
  <2> QED
    BY <2>1, <2>3, <2>4 DEF Types, TypeOK
<1>2. ASSUME Types, [Next]_vars PROVE Types'
  <2>1. wire \in Seq(Byte) /\ Len(wire) \in Nat /\ pos \in 0..Len(wire)
    BY <1>2 DEF Types, TypeOK
  <2>2. ASSUME NEW p \in Payloads, Write(p) PROVE Types'
    <3>1. Frame(p, FALSE) \in Seq(Byte) /\ writeOrFail(Frame(p, FALSE))
      BY <2>2, FrameIsBytes, BytesAssumption DEF Write
    <3>2. wire' \in Seq(Byte) /\ Len(wire') >= Len(wire) /\ conn' \in {"up", "eof", "reset"}
      BY <1>2, <3>1, WriteStep
    <3>3. pos' \in 0..Len(wire')
      BY <2>1, <2>2, <3>2 DEF Write, reader
    <3>4. /\ written' \in [payloads : Seq(Payloads), code : Codes \cup {-1}]
          /\ written'.code \in Codes \cup {-1}
      <4> DEFINE w == written
                 q == Append(w.payloads, p)
      <4>1. w \in [payloads : Seq(Payloads), code : Codes \cup {-1}]
        BY <1>2 DEF Types
      <4>2. w.payloads \in Seq(Payloads)
        BY <4>1
      <4>3. q \in Seq(Payloads)
        BY <4>2
      <4>4. written' = [w EXCEPT !.payloads = q]
        BY <2>2 DEF Write
      <4> HIDE DEF q, w
      <4> QED
        BY <4>1, <4>3, <4>4
    <3> QED
      BY <1>2, <2>2, <3>2, <3>3, <3>4 DEF Write, Types, TypeOK, reader
  <2>3. ASSUME NEW c \in Codes, End(c) PROVE Types'
    <3>1. Frame(EncodeEnd(c), TRUE) \in Seq(Byte) /\ writeOrFail(Frame(EncodeEnd(c), TRUE))
      BY <2>3, FrameIsBytes, EndPayload DEF End
    <3>2. wire' \in Seq(Byte) /\ Len(wire') >= Len(wire) /\ conn' \in {"up", "eof", "reset"}
      BY <1>2, <3>1, WriteStep
    <3>3. pos' \in 0..Len(wire')
      BY <2>1, <2>3, <3>2 DEF End, reader
    <3>4. /\ written' \in [payloads : Seq(Payloads), code : Codes \cup {-1}]
          /\ written'.code \in Codes \cup {-1}
      BY <1>2, <2>3 DEF End, Types
    <3> QED
      BY <1>2, <2>3, <3>2, <3>3, <3>4 DEF End, Types, TypeOK, reader
  <2>4. CASE CloseBody
    BY <1>2, <2>4 DEF CloseBody, Types, TypeOK, reader
  <2>5. CASE Recv
    <3>1. /\ UNCHANGED << foreign, wire, conn, wend, written >>
          /\ pos' = pos + got.used /\ log' = Append(log, answer)
          /\ ended' = (ended \/ (got.err = "ok" /\ EndStream(got.flags)))
      BY <2>5, RecvStep
    <3>2. got.used \in 0..Len(left) /\ Len(left) = Len(wire) - pos
      BY <1>2, Got, Left
    <3>3. pos' \in 0..Len(wire)
      BY <2>1, <3>1, <3>2
    <3>4. log' \in Seq(Results)
      BY <1>2, <3>1, Answer DEF Types
    <3>5. \A i \in DOMAIN log' : log'[i].kind \in {"message", "eof", "rpc", "raw"}
      <4>1. \A i \in DOMAIN log' : log'[i] \in Results
        BY <3>4
      <4> QED
        BY <4>1 DEF Results
    <3>6. ended' \in BOOLEAN
      BY <1>2, <3>1 DEF Types, TypeOK
    <3> QED
      BY <1>2, <3>1, <3>3, <3>4, <3>5, <3>6 DEF Types, TypeOK
  <2>6. CASE UNCHANGED vars
    BY <1>2, <2>6 DEF vars, Types, TypeOK
  <2> QED
    BY <1>2, <2>2, <2>3, <2>4, <2>5, <2>6 DEF Next
<1> QED
  BY <1>1, <1>2, PTL DEF Spec

\* Every variable keeps to its values: nothing the reader consumes lies outside the body.
THEOREM TypeCorrect == Spec => []TypeOK
<1>1. Types => TypeOK
  BY DEF Types
<1> QED
  BY <1>1, TypesHold, PTL

-----------------------------------------------------------------------------
(* The messages before anything else.                                      *)

Delivered(l, d) ==
  /\ d \in 0..Len(l)
  /\ \A i \in 1..d : l[i].kind = "message"
  /\ d < Len(l) => l[d + 1].kind # "message"

LEMMA DeliveredIs ==
  ASSUME Types, NEW d, Delivered(log, d)
  PROVE  delivered = d
<1>1. Len(log) \in Nat
  BY DEF Types
<1>2. ASSUME NEW n, Delivered(log, n), NEW m, Delivered(log, m), n < m PROVE FALSE
  <2>1. n \in Nat /\ m \in Nat /\ n + 1 \in 1..m /\ n < Len(log)
    BY <1>1, <1>2 DEF Delivered
  <2> QED
    BY <1>2, <2>1 DEF Delivered
<1>3. ASSUME NEW n, Delivered(log, n) PROVE n = d
  <2>1. n \in Nat /\ d \in Nat
    BY <1>1, <1>3 DEF Delivered
  <2>2. ~(n < d) /\ ~(d < n)
    BY <1>2, <1>3
  <2> QED
    BY <2>1, <2>2
<1>4. delivered = CHOOSE n \in 0..Len(log) : Delivered(log, n)
  BY DEF delivered, Delivered
<1>5. d \in 0..Len(log)
  BY DEF Delivered
<1>6. Delivered(log, delivered)
  BY <1>4, <1>5
<1> QED
  BY <1>3, <1>6

LEMMA DeliveredStep ==
  ASSUME Types, NEW d, Delivered(log, d), Recv
  PROVE  /\ Len(log') = Len(log) + 1
         /\ \A i \in 1..Len(log) : log'[i] = log[i]
         /\ log'[Len(log) + 1] = answer
         /\ d < Len(log) => Delivered(log', d)
         /\ d = Len(log) /\ answer.kind # "message" => Delivered(log', d)
         /\ d = Len(log) /\ answer.kind = "message" => Delivered(log', d + 1)
<1>1. log \in Seq(Results) /\ Len(log) \in Nat /\ log' = Append(log, answer)
  BY RecvStep DEF Types
<1>2. answer \in Results
  BY Answer
<1>3. /\ Len(log') = Len(log) + 1
      /\ \A i \in 1..Len(log) : log'[i] = log[i]
      /\ log'[Len(log) + 1] = answer
  BY <1>1, <1>2
<1>4. d \in Nat /\ d <= Len(log)
  BY <1>1 DEF Delivered
<1>5. CASE d < Len(log)
  <2>1. d \in 0..Len(log') /\ d + 1 \in 1..Len(log) /\ \A i \in 1..d : i \in 1..Len(log)
    BY <1>1, <1>3, <1>4, <1>5
  <2>2. Delivered(log', d)
    BY <1>3, <1>5, <2>1 DEF Delivered
  <2> QED
    BY <1>3, <1>4, <1>5, <2>2
<1>6. CASE d = Len(log)
  <2>1. /\ d \in 0..Len(log') /\ d + 1 \in 0..Len(log') /\ \A i \in 1..d : i \in 1..Len(log)
        /\ ~(d + 1 < Len(log')) /\ \A i \in 1..(d + 1) : i \in 1..Len(log) \/ i = Len(log) + 1
        /\ ~(d < Len(log))
    BY <1>1, <1>3, <1>4, <1>6
  <2>2. \A i \in 1..d : log'[i].kind = "message"
    BY <1>3, <2>1 DEF Delivered
  <2>3. answer.kind # "message" => Delivered(log', d)
    BY <1>3, <1>6, <2>1, <2>2 DEF Delivered
  <2>4. answer.kind = "message" => Delivered(log', d + 1)
    <3>1. ASSUME answer.kind = "message", NEW i \in 1..(d + 1) PROVE log'[i].kind = "message"
      BY <1>3, <1>6, <2>1, <2>2, <3>1
    <3> QED
      BY <2>1, <3>1 DEF Delivered
  <2> QED
    BY <1>3, <1>6, <2>1, <2>3, <2>4
<1> QED
  BY <1>4, <1>5, <1>6

\* A step that is not a call of Recv leaves the results alone, and only adds to the body.
LEMMA OtherStep ==
  ASSUME Types, Next \/ UNCHANGED vars, ~Recv
  PROVE  /\ UNCHANGED << pos, ended, log >>
         /\ wire \in Seq(Byte) /\ wire' \in Seq(Byte) /\ Len(wire') >= Len(wire)
         /\ \A i \in 1..Len(wire) : wire'[i] = wire[i]
<1>1. wire \in Seq(Byte) /\ Len(wire) \in Nat
  BY DEF Types, TypeOK
<1>2. CASE \E p \in Payloads : Write(p)
  <2>1. PICK p \in Payloads : Write(p)
    BY <1>2
  <2>2. Frame(p, FALSE) \in Seq(Byte) /\ writeOrFail(Frame(p, FALSE))
    BY <2>1, FrameIsBytes, BytesAssumption DEF Write
  <2> QED
    BY <1>1, <2>1, <2>2, WriteStep DEF Write, reader
<1>3. CASE \E c \in Codes : End(c)
  <2>1. PICK c \in Codes : End(c)
    BY <1>3
  <2>2. Frame(EncodeEnd(c), TRUE) \in Seq(Byte) /\ writeOrFail(Frame(EncodeEnd(c), TRUE))
    BY <2>1, FrameIsBytes, EndPayload DEF End
  <2> QED
    BY <1>1, <2>1, <2>2, WriteStep DEF End, reader
<1>4. CASE CloseBody \/ UNCHANGED vars
  BY <1>1, <1>4 DEF CloseBody, reader, vars
<1> QED
  BY <1>2, <1>3, <1>4 DEF Next

-----------------------------------------------------------------------------
(* The end of a stream, whoever wrote the body.  The invariant names the   *)
(* places of the frames that have been read.                               *)

\* A frame that lies in the bytes w as a whole, at place a, and ends at place e.
FrameIn(w, a, e) ==
  /\ Len(w) >= a + HeaderBytes
  /\ e = a + HeaderBytes + Length(SubSeq(w, a + 1, a + HeaderBytes))
  /\ e <= Len(w)

ReadTo(d, at) ==
  /\ Delivered(log, d)
  /\ at \in [Nat -> Nat] /\ at[0] = 0
  /\ \A k \in Nat : k < d => FrameIn(wire, at[k], at[k + 1])
  /\ d = Len(log) => pos = at[d] /\ ~ended
  /\ d < Len(log) /\ log[d + 1].kind = "eof" =>
       FrameIn(wire, at[d], at[d + 1]) /\ EndStream(wire[at[d] + 1])

LEMMA SameSlice ==
  ASSUME NEW s \in Seq(Byte), NEW t \in Seq(Byte), NEW m \in Nat, NEW k \in Nat, NEW n \in Nat,
         m + n <= Len(s), k + n <= Len(t), \A i \in 1..n : s[m + i] = t[k + i]
  PROVE  SubSeq(s, m + 1, m + n) = SubSeq(t, k + 1, k + n)
<1> DEFINE u == SubSeq(s, m + 1, m + n)
           v == SubSeq(t, k + 1, k + n)
<1>1. u \in Seq(Byte) /\ Len(u) = n /\ \A i \in 1..n : u[i] = s[m + i]
  BY Slice
<1>2. v \in Seq(Byte) /\ Len(v) = n /\ \A i \in 1..n : v[i] = t[k + i]
  BY Slice
<1> HIDE DEF u, v
<1>3. \A i \in 1..n : u[i] = v[i]
  BY <1>1, <1>2
<1>4. u = v
  <2>1. u \in Seq(Byte) /\ v \in Seq(Byte) /\ Len(u) = Len(v) /\ \A i \in 1..Len(u) : u[i] = v[i]
    BY <1>1, <1>2, <1>3
  <2> QED
    BY <2>1, SeqEqual
<1> QED
  BY <1>4 DEF u, v

\* The length is a matter of the header alone.
LEMMA LengthOfSlice ==
  ASSUME NEW b \in Seq(Byte), NEW w \in Seq(Byte), NEW a \in Nat, Len(b) >= HeaderBytes,
         a + HeaderBytes <= Len(w), \A i \in 1..HeaderBytes : b[i] = w[a + i]
  PROVE  Length(SubSeq(w, a + 1, a + HeaderBytes)) = Length(b)
<1> DEFINE s == SubSeq(w, a + 1, a + HeaderBytes)
<1>1. s \in Seq(Byte) /\ Len(s) = HeaderBytes /\ \A i \in 1..HeaderBytes : s[i] = w[a + i]
  BY HeaderIsNat, Slice
<1> HIDE DEF s
<1>2. SubSeq(s, 1 + 1, 1 + 4) = SubSeq(b, 1 + 1, 1 + 4)
  <2>1. \A i \in 1..4 : s[1 + i] = b[1 + i]
    <3>1. \A i \in 1..4 : 1 + i \in 1..HeaderBytes
      BY DEF HeaderBytes
    <3> QED
      BY <1>1, <3>1
  <2>2. 1 + 4 <= Len(s) /\ 1 + 4 <= Len(b)
    BY <1>1 DEF HeaderBytes
  <2> QED
    BY <1>1, <2>1, <2>2, SameSlice
<1>3. SubSeq(s, 2, 5) = SubSeq(b, 2, 5)
  BY <1>2
<1>4. Length(s) = Length(b)
  BY <1>3 DEF Length, HeaderBytes
<1> QED
  BY <1>4 DEF s

LEMMA FrameStays ==
  ASSUME NEW a \in Nat, NEW e, FrameIn(wire, a, e), wire \in Seq(Byte), wire' \in Seq(Byte),
         Len(wire') >= Len(wire), \A i \in 1..Len(wire) : wire'[i] = wire[i]
  PROVE  FrameIn(wire', a, e) /\ wire'[a + 1] = wire[a + 1]
<1>1. a + HeaderBytes <= Len(wire) /\ a + HeaderBytes <= Len(wire')
  BY HeaderIsNat DEF FrameIn
<1>2. \A i \in 1..HeaderBytes : wire[a + i] = wire'[a + i]
  BY <1>1, HeaderIsNat
<1>3. SubSeq(wire, a + 1, a + HeaderBytes) = SubSeq(wire', a + 1, a + HeaderBytes)
  BY <1>1, <1>2, HeaderIsNat, SameSlice
<1>4. SubSeq(wire, a + 1, a + HeaderBytes) \in Seq(Byte)
      /\ Len(SubSeq(wire, a + 1, a + HeaderBytes)) >= HeaderBytes
  BY <1>1, HeaderIsNat, Slice
<1>5. Length(SubSeq(wire, a + 1, a + HeaderBytes)) \in Nat
  BY <1>4, LengthOfHeader
<1>6. e \in Nat /\ e <= Len(wire')
  BY <1>5, HeaderIsNat DEF FrameIn
<1>7. wire'[a + 1] = wire[a + 1]
  BY <1>1 DEF HeaderBytes
<1>8. /\ Len(wire') >= a + HeaderBytes /\ e <= Len(wire')
      /\ e = a + HeaderBytes + Length(SubSeq(wire', a + 1, a + HeaderBytes))
  BY <1>1, <1>3, <1>6, HeaderIsNat DEF FrameIn
<1> QED
  BY <1>7, <1>8 DEF FrameIn

LEMMA FrameGot ==
  ASSUME Types, got.err = "ok"
  PROVE  FrameIn(wire, pos, pos + got.used) /\ got.flags = wire[pos + 1]
<1>1. wire \in Seq(Byte) /\ Len(wire) \in Nat /\ pos \in Nat /\ pos <= Len(wire)
  BY DEF Types, TypeOK
<1>2. /\ left \in Seq(Byte) /\ Len(left) = Len(wire) - pos
      /\ \A i \in 1..(Len(wire) - pos) : left[i] = wire[pos + i]
  BY Left
<1>3. /\ Len(left) >= HeaderBytes /\ Length(left) \in Nat
      /\ Len(left) >= HeaderBytes + Length(left)
      /\ got.used = HeaderBytes + Length(left) /\ got.flags = left[1]
  BY Got
<1>4. /\ pos + HeaderBytes <= Len(wire)
      /\ \A i \in 1..HeaderBytes : i \in 1..(Len(wire) - pos)
  BY <1>1, <1>2, <1>3, HeaderIsNat
<1>5. \A i \in 1..HeaderBytes : left[i] = wire[pos + i]
  BY <1>2, <1>4
<1>6. Length(SubSeq(wire, pos + 1, pos + HeaderBytes)) = Length(left)
  BY <1>1, <1>2, <1>3, <1>4, <1>5, LengthOfSlice
<1>7. got.flags = wire[pos + 1]
  BY <1>3, <1>5 DEF HeaderBytes
<1>8. pos + got.used <= Len(wire) /\ Len(wire) >= pos + HeaderBytes
      /\ pos + got.used = pos + HeaderBytes + Length(left)
  BY <1>1, <1>2, <1>3, <1>4, HeaderIsNat
<1> QED
  BY <1>6, <1>7, <1>8 DEF FrameIn

LEMMA Extend ==
  ASSUME NEW f \in [Nat -> Nat], NEW n \in Nat, NEW v \in Nat
  PROVE  LET g == [f EXCEPT ![n + 1] = v]
         IN  /\ g \in [Nat -> Nat] /\ g[n + 1] = v
             /\ \A k \in Nat : k <= n => g[k] = f[k]
             /\ \A k \in Nat : k < n => g[k + 1] = f[k + 1]
OBVIOUS

LEMMA ReadToHolds == Spec => [](\E d, at : ReadTo(d, at))
<1> DEFINE Inv == \E d, at : ReadTo(d, at)
<1>1. ASSUME Init PROVE Inv
  <2> DEFINE at == [k \in Nat |-> 0]
  <2>1. log = << >> /\ Len(log) = 0 /\ pos = 0 /\ ~ended
    BY <1>1 DEF Init
  <2>2. Delivered(log, 0)
    BY <2>1 DEF Delivered
  <2>3. ReadTo(0, at)
    BY <2>1, <2>2 DEF ReadTo
  <2> QED
    BY <2>3
<1>2. ASSUME Types, Inv, [Next]_vars PROVE Inv'
  <2>1. PICK d, at : ReadTo(d, at)
    BY <1>2
  <2>2. Len(log) \in Nat /\ d \in Nat /\ d <= Len(log)
    BY <1>2, <2>1 DEF Types, ReadTo, Delivered
  <2>5. at \in [Nat -> Nat]
    BY <2>1 DEF ReadTo
  <2>3. ASSUME ~Recv PROVE ReadTo(d, at)'
    <3>1. /\ UNCHANGED << pos, ended, log >>
          /\ wire \in Seq(Byte) /\ wire' \in Seq(Byte) /\ Len(wire') >= Len(wire)
          /\ \A i \in 1..Len(wire) : wire'[i] = wire[i]
      BY <1>2, <2>3, OtherStep
    <3>2. \A k \in Nat : FrameIn(wire, at[k], at[k + 1]) =>
            FrameIn(wire', at[k], at[k + 1]) /\ wire'[at[k] + 1] = wire[at[k] + 1]
      BY <2>5, <3>1, FrameStays
    <3> QED
      BY <2>1, <2>2, <3>1, <3>2 DEF ReadTo, Delivered
  <2>4. ASSUME Recv PROVE \E e, to : ReadTo(e, to)'
    <3>1. /\ Len(log') = Len(log) + 1
          /\ \A i \in 1..Len(log) : log'[i] = log[i]
          /\ log'[Len(log) + 1] = answer
          /\ d < Len(log) => Delivered(log', d)
          /\ d = Len(log) /\ answer.kind # "message" => Delivered(log', d)
          /\ d = Len(log) /\ answer.kind = "message" => Delivered(log', d + 1)
      BY <1>2, <2>1, <2>4, DeliveredStep DEF ReadTo
    <3>2. /\ wire' = wire /\ pos' = pos + got.used
          /\ ended' = (ended \/ (got.err = "ok" /\ EndStream(got.flags)))
      BY <2>4, RecvStep
    <3>3. CASE d < Len(log)
      <4>1. ~(d = Len(log')) /\ d + 1 \in 1..Len(log)
        BY <2>2, <3>1, <3>3
      <4>2. ReadTo(d, at)'
        BY <2>1, <3>1, <3>2, <3>3, <4>1 DEF ReadTo, FrameIn
      <4> QED
        BY <4>2
    <3>4. CASE d = Len(log) /\ got.err = "ok"
      <4>10. PICK to : to = [at EXCEPT ![d + 1] = pos + got.used]
        OBVIOUS
      <4>1. FrameIn(wire, pos, pos + got.used) /\ got.flags = wire[pos + 1]
        BY <1>2, <3>4, FrameGot
      <4>2. pos = at[d] /\ ~ended
        BY <2>1, <3>4 DEF ReadTo
      <4>3. pos + got.used \in Nat
        BY <1>2, Got, Left DEF Types, TypeOK
      <4>4. /\ to \in [Nat -> Nat] /\ to[d + 1] = pos + got.used
            /\ \A k \in Nat : k <= d => to[k] = at[k]
            /\ \A k \in Nat : k < d => to[k + 1] = at[k + 1]
        <5>1. d \in Nat
          BY <2>2
        <5> QED
          BY <5>1, <2>5, <4>3, <4>10, Extend
      <4>5. FrameIn(wire, to[d], to[d + 1]) /\ got.flags = wire[to[d] + 1]
        <5>1. to[d] = pos
          BY <2>2, <4>2, <4>4
        <5> QED
          BY <4>1, <4>4, <5>1
      <4>6. ASSUME NEW k \in Nat, k < d + 1 PROVE FrameIn(wire, to[k], to[k + 1])
        <5>1. CASE k = d
          BY <4>5, <5>1
        <5>2. CASE k < d
          <6>1. to[k] = at[k]
            <7>1. k <= d
              BY <2>2, <5>2
            <7> QED
              BY <4>4, <7>1
          <6>2. to[k + 1] = at[k + 1]
            BY <4>4, <5>2
          <6>3. FrameIn(wire, at[k], at[k + 1])
            BY <2>1, <5>2 DEF ReadTo
          <6> QED
            BY <6>1, <6>2, <6>3
        <5> QED
          BY <2>2, <4>6, <5>1, <5>2
      <4>7. to[0] = 0
        BY <2>1, <2>2, <4>4 DEF ReadTo
      <4>8. CASE answer.kind = "message"
        <5>1. ~EndStream(got.flags)
          BY <1>2, <4>8, Answer
        <5>6. ~ended' /\ pos' = to[d + 1]
          BY <3>2, <4>2, <4>4, <5>1
        <5>2. ~ended' /\ pos' = to[d + 1] /\ ~(d + 1 < Len(log'))
          BY <2>2, <3>1, <3>4, <5>6
        <5>3. Delivered(log', d + 1)
          BY <3>1, <3>4, <4>8
        <5>4. \A k \in Nat : k < d + 1 => FrameIn(wire', to[k], to[k + 1])
          BY <3>2, <4>6 DEF FrameIn
        <5> DEFINE e == d + 1
        <5>7. to \in [Nat -> Nat]
          BY <4>4
        <5>8. /\ ~ended' /\ pos' = to[e] /\ ~(e < Len(log')) /\ Delivered(log', e)
              /\ \A k \in Nat : k < e => FrameIn(wire', to[k], to[k + 1])
          BY <5>2, <5>3, <5>4
        <5> HIDE DEF e
        <5>5. ReadTo(e, to)'
          BY <4>7, <5>7, <5>8 DEF ReadTo
        <5> QED
          BY <5>5
      <4>9. CASE answer.kind # "message"
        <5>1. Delivered(log', d) /\ d < Len(log') /\ log'[d + 1] = answer
          BY <2>2, <3>1, <3>4, <4>9
        <5>2. \A k \in Nat : k < d => FrameIn(wire', to[k], to[k + 1])
          BY <2>2, <3>2, <4>6 DEF FrameIn
        <5>3. answer.kind = "eof" => EndStream(got.flags)
          BY <1>2, <4>2, Answer
        <5>4. answer.kind = "eof" => FrameIn(wire', to[d], to[d + 1]) /\ EndStream(wire'[to[d] + 1])
          BY <3>2, <4>5, <5>3 DEF FrameIn
        <5>5. ~(d = Len(log'))
          BY <2>2, <5>1
        <5>6. ReadTo(d, to)'
          <6>1. to \in [Nat -> Nat]
            BY <4>4
          <6>2. log'[d + 1].kind = answer.kind
            BY <5>1
          <6> QED
            BY <4>7, <5>1, <5>2, <5>4, <5>5, <6>1, <6>2 DEF ReadTo
        <5> QED
          BY <5>6
      <4> QED
        BY <4>8, <4>9
    <3>5. CASE d = Len(log) /\ got.err # "ok"
      <4>1. ~ended
        BY <2>1, <3>5 DEF ReadTo
      <4>2. answer.kind # "message" /\ answer.kind # "eof"
        BY <1>2, <3>5, <4>1, Answer
      <4>3. Delivered(log', d) /\ d < Len(log') /\ log'[d + 1] = answer /\ ~(d = Len(log'))
        BY <2>2, <3>1, <3>5, <4>2
      <4>4. \A k \in Nat : k < d => FrameIn(wire', at[k], at[k + 1])
        BY <2>1, <3>2 DEF FrameIn, ReadTo
      <4>5. ReadTo(d, at)'
        BY <2>1, <4>2, <4>3, <4>4 DEF ReadTo
      <4> QED
        BY <4>5
    <3> QED
      BY <2>2, <3>3, <3>4, <3>5
  <2> QED
    BY <2>3, <2>4
<1> QED
  BY <1>1, <1>2, TypesHold, PTL DEF Spec

\* The function offset is what its recursion says.
LEMMA Offset ==
  ASSUME wire \in Seq(Byte)
  PROVE  \A k \in Nat :
           offset[k] = IF k = 0 THEN 0
                       ELSE IF Len(wire) < offset[k - 1] + HeaderBytes THEN offset[k - 1]
                       ELSE offset[k - 1] + HeaderBytes
                              + Length(SubSeq(wire, offset[k - 1] + 1, offset[k - 1] + HeaderBytes))
<1> DEFINE up(n) == IF Len(wire) < n + HeaderBytes THEN n
                    ELSE n + HeaderBytes + Length(SubSeq(wire, n + 1, n + HeaderBytes))
           step == [x \in Nat \X Nat |-> up(x[1])]
           Off(f) == f = [k \in Nat |-> IF k = 0 THEN 0 ELSE up(f[k - 1])]
<1>1. ASSUME NEW n \in Nat PROVE up(n) \in Nat
  <2>1. CASE Len(wire) < n + HeaderBytes
    BY <2>1
  <2>2. CASE ~(Len(wire) < n + HeaderBytes)
    <3>1. n + HeaderBytes <= Len(wire)
      BY <2>2, HeaderIsNat
    <3>2. SubSeq(wire, n + 1, n + HeaderBytes) \in Seq(Byte)
          /\ Len(SubSeq(wire, n + 1, n + HeaderBytes)) >= HeaderBytes
      BY <3>1, HeaderIsNat, Slice
    <3>3. Length(SubSeq(wire, n + 1, n + HeaderBytes)) \in Nat
      BY <3>2, LengthOfHeader
    <3> QED
      BY <2>2, <3>3, HeaderIsNat
  <2> QED
    BY <2>1, <2>2
<1> HIDE DEF up
<1>2. step \in [Nat \X Nat -> Nat]
  BY <1>1
<1>3. \A n \in Nat, k \in Nat : step[<< n, k >>] = up(n)
  OBVIOUS
<1> HIDE DEF step
<1>4. PICK f \in [Nat -> Nat] : CountsUp(f, 0, step)
  BY <1>2, RecursionUp, Zenon
<1>5. \A k \in Nat : f[k] = IF k = 0 THEN 0 ELSE up(f[k - 1])
  <2>1. ASSUME NEW k \in Nat, k # 0 PROVE f[k] = up(f[k - 1])
    <3>1. k - 1 \in Nat
      BY <2>1
    <3>2. f[k - 1] \in Nat
      BY <3>1
    <3> QED
      BY <1>3, <1>4, <2>1, <3>2 DEF CountsUp
  <2> QED
    BY <1>4, <2>1 DEF CountsUp
<1>6. Off(f)
  BY <1>5
<1>7. offset = CHOOSE g : Off(g)
  BY DEF offset, up
<1>8. Off(offset)
  <2> HIDE DEF Off
  <2> QED
    BY <1>6, <1>7
<1>9. \A k \in Nat : offset[k] = IF k = 0 THEN 0 ELSE up(offset[k - 1])
  <2> HIDE DEF up
  <2> QED
    BY <1>8
<1> QED
  BY <1>9 DEF up

\* Whatever bytes a server sends and however often Recv is called: io.EOF stands behind
\* the messages only where a whole END frame lies behind theirs.
THEOREM EofComesFromEnd == Spec => []EofNeedsEnd
<1>1. ASSUME Types, \E d, at : ReadTo(d, at) PROVE EofNeedsEnd
  <2>1. PICK d, at : ReadTo(d, at)
    BY <1>1
  <2>2. delivered = d /\ d \in Nat
    <3>1. Delivered(log, d) /\ Len(log) \in Nat
      BY <1>1, <2>1 DEF ReadTo, Types
    <3>2. d \in Nat
      BY <3>1 DEF Delivered
    <3> QED
      BY <1>1, <3>1, <3>2, DeliveredIs
  <2>3. SUFFICES ASSUME d < Len(log), log[d + 1].kind = "eof"
                 PROVE  /\ Len(wire) >= offset[d] + HeaderBytes
                        /\ Len(wire) >= offset[d + 1]
                        /\ EndStream(wire[offset[d] + 1])
    BY <2>2 DEF EofNeedsEnd
  <2>4. wire \in Seq(Byte)
    BY <1>1 DEF Types, TypeOK
  <2> DEFINE S == {k \in Nat : offset[k] = at[k]}
             next(n) == n + HeaderBytes + Length(SubSeq(wire, n + 1, n + HeaderBytes))
  <2>5. ASSUME NEW k \in Nat, k \in S, FrameIn(wire, at[k], at[k + 1]) PROVE k + 1 \in S
    <3>1. /\ at[k] \in Nat /\ Len(wire) >= at[k] + HeaderBytes
          /\ at[k + 1] = next(at[k])
      BY <2>1, <2>5 DEF FrameIn, ReadTo
    <3>2. ~(Len(wire) < at[k] + HeaderBytes) /\ k + 1 \in Nat /\ k + 1 # 0 /\ (k + 1) - 1 = k
      BY <2>4, <3>1, HeaderIsNat
    <3> DEFINE j == k + 1
    <3>3. offset[j] = IF j = 0 THEN 0
                      ELSE IF Len(wire) < offset[j - 1] + HeaderBytes THEN offset[j - 1]
                      ELSE next(offset[j - 1])
      BY <2>4, <3>2, Offset
    <3>4. j \in Nat /\ j # 0 /\ j - 1 = k /\ offset[k] = at[k]
      BY <2>5, <3>2
    <3> HIDE DEF j, next
    <3>5. offset[j] = next(at[k])
      BY <3>2, <3>3, <3>4
    <3> QED
      BY <3>1, <3>2, <3>5 DEF j
  <2>6. 0 \in S
    BY <2>1, <2>4, Offset DEF ReadTo
  <2>7. d \in S
    <3>1. \A k \in 0..(d - 1) : k \in S => k + 1 \in S
      BY <2>1, <2>2, <2>5 DEF ReadTo
    <3> HIDE DEF S
    <3>2. 0..d \subseteq S
      BY <2>2, <2>6, <3>1, InductionUpTo
    <3> QED
      BY <2>2, <3>2
  <2>8. FrameIn(wire, at[d], at[d + 1]) /\ EndStream(wire[at[d] + 1])
    BY <2>1, <2>3 DEF ReadTo
  <2>9. d + 1 \in S
    BY <2>2, <2>5, <2>7, <2>8
  <2>10. offset[d] = at[d] /\ offset[d + 1] = at[d + 1]
    BY <2>7, <2>9
  <2>11. Len(wire) >= at[d] + HeaderBytes /\ at[d + 1] <= Len(wire)
    BY <2>8 DEF FrameIn
  <2>12. at[d + 1] \in Nat
    BY <2>1, <2>2 DEF ReadTo
  <2> QED
    BY <2>4, <2>8, <2>10, <2>11, <2>12
<1> QED
  BY <1>1, TypesHold, ReadToHolds, PTL

-----------------------------------------------------------------------------
(* A body that a StreamWriter wrote.  The invariant names the places where *)
(* its frames begin, of those too that did not reach the wire, and says    *)
(* that the reader is always at one of them.                               *)

Agrees(w, at, f) == \A j \in 1..Len(f) : at + j <= Len(w) => w[at + j] = f[j]

\* cut[k] is the place behind the k-th frame.
Layout(ps, cut) ==
  /\ cut \in [Nat -> Nat] /\ cut[0] = 0
  /\ \A k \in Nat : k < Len(ps) => cut[k + 1] = cut[k] + HeaderBytes + Len(ps[k + 1])
  /\ \A k \in Nat : k <= Len(ps) => cut[k] <= cut[Len(ps)]

Frames(w, ps, cut) ==
  \A k \in Nat : k < Len(ps) => Agrees(w, cut[k], Frame(ps[k + 1], FALSE))

\* The body is a part of all that was written, and all of it while the connection is up.
Sent(place, isEnded, code) ==
  place + IF isEnded THEN Len(Frame(EncodeEnd(code), TRUE)) ELSE 0
Body(w, up, place, isEnded, code) ==
  /\ isEnded => code \in Codes /\ Agrees(w, place, Frame(EncodeEnd(code), TRUE))
  /\ Len(w) <= Sent(place, isEnded, code)
  /\ up => Len(w) = Sent(place, isEnded, code)

Genuine(result) ==
  result.kind = "eof" \/ (result.kind = "rpc" /\ result.value \notin {8, 13})

AtMost(ps, n) == \A i \in 1..Len(ps) : Len(ps[i]) <= n

Wrote(d, cut) ==
  LET ps == written.payloads
      n == Len(ps)
  IN  /\ Layout(ps, cut) /\ Frames(wire, ps, cut)
      /\ Body(wire, conn = "up", cut[n], wend, written.code)
      /\ Delivered(log, d) /\ d <= n
      /\ \A i \in 1..d : log[i].value = ps[i]
      /\ d = Len(log) => pos = cut[d] /\ ~ended
      /\ d < Len(log) /\ Genuine(log[d + 1]) => d = n /\ wend /\ written.code = log[d + 1].value
      /\ d < Len(log) /\ AtMost(ps, MaxMessageBytes) =>
           /\ pos = Len(wire) /\ (wend \/ conn # "up")
           /\ \A i \in 1..Len(log) : i > d => log[i].kind # "message"

LEMMA PayloadsAre ==
  ASSUME Types
  PROVE  /\ written.payloads \in Seq(Payloads) /\ Len(written.payloads) \in Nat
         /\ \A i \in 1..Len(written.payloads) :
              written.payloads[i] \in Seq(Byte) /\ Len(written.payloads[i]) \in Nat
<1>1. written.payloads \in Seq(Payloads)
  BY DEF Types
<1>2. \A i \in 1..Len(written.payloads) : written.payloads[i] \in Payloads
  BY <1>1
<1>3. \A i \in 1..Len(written.payloads) : written.payloads[i] \in Seq(Byte)
  BY <1>2, BytesAssumption
<1> QED
  BY <1>1, <1>3

\* A frame behind the others: what a write adds.
LEMMA NextFrame ==
  ASSUME Types, NEW cut, Layout(written.payloads, cut),
         Frames(wire, written.payloads, cut),
         Body(wire, conn = "up", cut[Len(written.payloads)], FALSE, written.code),
         NEW s \in Seq(Byte), writeOrFail(s)
  PROVE  LET n == Len(written.payloads)
         IN  /\ Frames(wire', written.payloads, cut) /\ Agrees(wire', cut[n], s)
             /\ Len(wire') <= cut[n] + Len(s)
             /\ conn' = "up" => Len(wire') = cut[n] + Len(s)
<1> DEFINE ps == written.payloads
           n == Len(ps)
<1>1. /\ wire' \in Seq(Byte) /\ Len(wire') >= Len(wire)
      /\ \A i \in 1..Len(wire) : wire'[i] = wire[i]
      /\ conn # "up" => wire' = wire /\ conn' = conn
      /\ conn = "up" =>
           /\ Len(wire') <= Len(wire) + Len(s)
           /\ conn' = "up" => Len(wire') = Len(wire) + Len(s)
           /\ \A j \in 1..Len(s) : Len(wire) + j <= Len(wire') => wire'[Len(wire) + j] = s[j]
  BY WriteStep
<1>2. n \in Nat /\ Len(wire) \in Nat /\ Len(s) \in Nat
  BY PayloadsAre DEF Types, TypeOK
<1>3. cut[n] \in Nat
  BY <1>2 DEF Layout
<1>4. Len(wire) <= cut[n] /\ (conn = "up" => Len(wire) = cut[n])
  BY <1>3 DEF Body, Sent
<1>5. ASSUME NEW k \in Nat, k < n PROVE Agrees(wire', cut[k], Frame(ps[k + 1], FALSE))
  <2> DEFINE f == Frame(ps[k + 1], FALSE)
  <2>1. Agrees(wire, cut[k], f)
    BY <1>5 DEF Frames
  <2>2. CASE conn # "up"
    BY <1>1, <2>1, <2>2
  <2>3. CASE conn = "up"
    <3>1. k + 1 \in 1..n /\ k + 1 \in Nat /\ k + 1 <= n
      BY <1>2, <1>5
    <3>2. ps[k + 1] \in Seq(Byte) /\ Len(ps[k + 1]) \in Nat
      BY <3>1, PayloadsAre
    <3>3. Len(f) = HeaderBytes + Len(ps[k + 1])
      BY <3>2, FrameBytes DEF HeaderBytes
    <3>4. cut[k + 1] <= cut[n] /\ cut[k + 1] = cut[k] + HeaderBytes + Len(ps[k + 1])
      BY <1>5, <3>1 DEF Layout
    <3>5. cut[k] \in Nat
      BY DEF Layout
    <3> HIDE DEF f
    <3>6. ASSUME NEW j \in 1..Len(f) PROVE cut[k] + j \in 1..Len(wire)
      <4>1. Len(f) \in Nat /\ cut[k] + Len(f) <= cut[n]
        BY <1>3, <3>2, <3>3, <3>4, <3>5, HeaderIsNat
      <4> QED
        BY <1>2, <1>3, <1>4, <2>3, <3>5, <4>1
    <3>7. \A j \in 1..Len(f) : wire'[cut[k] + j] = wire[cut[k] + j] /\ cut[k] + j <= Len(wire)
      BY <1>1, <1>2, <3>5, <3>6
    <3> QED
      BY <2>1, <3>7 DEF Agrees, f
  <2> QED
    BY <2>2, <2>3
<1>6. Agrees(wire', cut[n], s)
  <2>1. CASE conn = "up"
    BY <1>1, <1>4, <2>1 DEF Agrees
  <2>2. CASE conn # "up"
    <3>1. \A j \in 1..Len(s) : ~(cut[n] + j <= Len(wire'))
      BY <1>1, <1>2, <1>3, <1>4, <2>2
    <3> QED
      BY <3>1 DEF Agrees
  <2> QED
    BY <2>1, <2>2
<1>7. Len(wire') <= cut[n] + Len(s) /\ (conn' = "up" => Len(wire') = cut[n] + Len(s))
  BY <1>1, <1>2, <1>3, <1>4
<1> QED
  BY <1>5, <1>6, <1>7 DEF Frames

LEMMA WroteWrite ==
  ASSUME Types, NEW d, NEW cut, Wrote(d, cut), NEW p \in Payloads, Write(p)
  PROVE  \E to : Wrote(d, to)'
<1> DEFINE ps == written.payloads
           s == Frame(p, FALSE)
<1>27. PICK n : n = Len(ps)
  OBVIOUS
<1>1. n \in Nat /\ p \in Seq(Byte) /\ Len(p) \in Nat /\ d \in Nat /\ d <= n
  <2>1. Len(log) \in Nat /\ n \in Nat /\ Delivered(log, d) /\ d <= n
    BY <1>27, PayloadsAre DEF Wrote, Types
  <2>2. d \in Nat
    BY <2>1 DEF Delivered
  <2> QED
    BY <2>1, <2>2, BytesAssumption
<1>2. /\ written'.payloads = Append(ps, p) /\ written'.code = written.code
      /\ wend = FALSE /\ wend' = FALSE /\ writeOrFail(s)
      /\ UNCHANGED << foreign, pos, ended, log >>
  <2>1. written \in [payloads : Seq(Payloads), code : Codes \cup {-1}]
    BY DEF Types
  <2>2. written' = [written EXCEPT !.payloads = Append(@, p)]
    BY DEF Write
  <2>3. written'.payloads = Append(ps, p) /\ written'.code = written.code
    BY <2>1, <2>2
  <2>4. wend \in BOOLEAN
    BY DEF Types, TypeOK
  <2> QED
    BY <2>3, <2>4 DEF Write, mayWrite, reader
<1>3. /\ Layout(ps, cut) /\ Frames(wire, ps, cut) /\ Body(wire, conn = "up", cut[n], FALSE, written.code)
  BY <1>2, <1>27 DEF Wrote
<1>4. cut \in [Nat -> Nat] /\ cut[0] = 0
  BY <1>3 DEF Layout
<1>5. s \in Seq(Byte) /\ Len(s) = HeaderBytes + Len(p)
  BY <1>1, FrameBytes DEF HeaderBytes
<1>6. /\ Frames(wire', ps, cut) /\ Agrees(wire', cut[n], s)
      /\ Len(wire') <= cut[n] + Len(s)
      /\ conn' = "up" => Len(wire') = cut[n] + Len(s)
  <2>1. Body(wire, conn = "up", cut[Len(written.payloads)], FALSE, written.code)
    BY <1>3, <1>27
  <2>2. LET l == Len(written.payloads)
        IN  /\ Frames(wire', ps, cut) /\ Agrees(wire', cut[l], s)
            /\ Len(wire') <= cut[l] + Len(s)
            /\ conn' = "up" => Len(wire') = cut[l] + Len(s)
    BY <1>2, <1>3, <1>5, <2>1, NextFrame
  <2> QED
    BY <1>27, <2>2
<1>7. /\ Len(Append(ps, p)) = n + 1 /\ Append(ps, p)[n + 1] = p
      /\ \A i \in 1..n : Append(ps, p)[i] = ps[i]
  <2>1. ps \in Seq(Payloads)
    BY PayloadsAre
  <2> QED
    BY <1>27, <2>1
<1>8. PICK qs : qs = Append(ps, p)
  OBVIOUS
<1>9. PICK e : e = cut[n] + HeaderBytes + Len(p)
  OBVIOUS
<1>10. e \in Nat /\ e >= cut[n] /\ cut[n] \in Nat
  <2>1. cut[n] \in Nat
    BY <1>1, <1>4
  <2> QED
    BY <1>1, <1>9, <2>1, HeaderIsNat
<1>11. PICK to : to = [cut EXCEPT ![n + 1] = e]
  OBVIOUS
<1>12. /\ to \in [Nat -> Nat] /\ to[n + 1] = e
       /\ \A k \in Nat : k <= n => to[k] = cut[k]
       /\ \A k \in Nat : k < n => to[k + 1] = cut[k + 1]
  <2>1. n \in Nat /\ cut \in [Nat -> Nat] /\ e \in Nat
    BY <1>1, <1>4, <1>10
  <2> QED
    BY <2>1, <1>11, Extend
<1>13. PICK m : m = n + 1
  OBVIOUS
<1>14. m \in Nat /\ Len(qs) = m /\ qs[m] = p /\ to[m] = e /\ n < m
  <2>1. m \in Nat /\ n < m
    BY <1>1, <1>13
  <2>2. Len(qs) = m /\ qs[m] = p
    BY <1>7, <1>8, <1>13
  <2>3. to[m] = e
    BY <1>12, <1>13
  <2> QED
    BY <2>1, <2>2, <2>3
<1>15. \A k \in Nat : k < m => k < n \/ k = n
  BY <1>1, <1>13
<1>16. \A k \in Nat : k < n => k <= n /\ k + 1 \in 1..n /\ k + 1 <= n
  BY <1>1
<1>17. \A k \in Nat : k <= m => k <= n \/ k = m
  BY <1>1, <1>13
<1>18. to[n] = cut[n] /\ to[0] = 0
  <2>1. n <= n /\ 0 <= n /\ 0 \in Nat
    BY <1>1
  <2> QED
    BY <1>1, <1>4, <1>12, <2>1
<1>19. Layout(qs, to)
  <2>1. ASSUME NEW k \in Nat, k < m PROVE to[k + 1] = to[k] + HeaderBytes + Len(qs[k + 1])
    <3>1. CASE k < n
      <4>1. to[k + 1] = cut[k + 1] /\ to[k] = cut[k]
        BY <1>12, <1>16, <3>1
      <4>2. qs[k + 1] = ps[k + 1]
        BY <1>7, <1>8, <1>16, <3>1
      <4>3. cut[k + 1] = cut[k] + HeaderBytes + Len(ps[k + 1])
        <5>1. k < Len(ps)
          BY <1>27, <3>1
        <5> QED
          BY <1>3, <5>1 DEF Layout
      <4> QED
        BY <4>1, <4>2, <4>3
    <3>2. CASE k = n
      BY <1>9, <1>13, <1>14, <1>18, <3>2
    <3> QED
      BY <1>15, <2>1, <3>1, <3>2
  <2>2. ASSUME NEW k \in Nat, k <= m PROVE to[k] <= to[m]
    <3>1. CASE k <= n
      <4>1. cut[k] <= cut[n]
        <5>1. k <= Len(ps)
          BY <1>27, <3>1
        <5> QED
          BY <1>3, <1>27, <5>1 DEF Layout
      <4>2. cut[k] \in Nat
        BY <1>4
      <4>3. to[k] = cut[k]
        BY <1>12, <3>1
      <4> QED
        BY <1>10, <1>14, <4>1, <4>2, <4>3
    <3>2. CASE k = m
      BY <1>10, <1>14, <3>2
    <3> QED
      BY <1>17, <2>2, <3>1, <3>2
  <2> QED
    BY <1>12, <1>14, <1>18, <2>1, <2>2 DEF Layout
<1>20. Frames(wire', qs, to)
  <2>1. ASSUME NEW k \in Nat, k < m PROVE Agrees(wire', to[k], Frame(qs[k + 1], FALSE))
    <3>1. CASE k < n
      <4>1. to[k] = cut[k]
        BY <1>12, <1>16, <3>1
      <4>2. qs[k + 1] = ps[k + 1]
        BY <1>7, <1>8, <1>16, <3>1
      <4>3. Agrees(wire', cut[k], Frame(ps[k + 1], FALSE))
        <5>1. k < Len(ps)
          BY <1>27, <3>1
        <5> QED
          BY <1>6, <5>1 DEF Frames
      <4> QED
        BY <4>1, <4>2, <4>3
    <3>2. CASE k = n
      BY <1>6, <1>13, <1>14, <1>18, <3>2
    <3> QED
      BY <1>15, <2>1, <3>1, <3>2
  <2> QED
    BY <1>14, <2>1 DEF Frames
<1>21. Body(wire', conn' = "up", to[m], FALSE, written.code)
  <2>1. cut[n] + Len(s) = e
    <3>1. Len(s) = HeaderBytes + Len(p) /\ Len(p) \in Nat /\ cut[n] \in Nat
      BY <1>1, <1>5, <1>10
    <3> HIDE DEF s
    <3> QED
      BY <1>9, <3>1, HeaderIsNat
  <2>2. Sent(to[m], FALSE, written.code) = e
    BY <1>10, <1>14 DEF Sent
  <2> QED
    BY <1>6, <2>1, <2>2 DEF Body
<1>22. ASSUME d < Len(log), AtMost(qs, MaxMessageBytes)
       PROVE  /\ pos' = Len(wire') /\ (wend' \/ conn' # "up")
              /\ \A i \in 1..Len(log) : i > d => log[i].kind # "message"
  <2>1. AtMost(ps, MaxMessageBytes)
    BY <1>1, <1>7, <1>8, <1>14, <1>22 DEF AtMost
  <2>2. pos = Len(wire) /\ conn # "up"
        /\ \A i \in 1..Len(log) : i > d => log[i].kind # "message"
    BY <1>2, <1>22, <2>1 DEF Wrote
  <2>3. wire' = wire /\ conn' = conn
    BY <1>2, <2>2 DEF writeOrFail
  <2> QED
    BY <1>2, <2>2, <2>3
<1>23. \A i \in 1..d : log[i].value = qs[i]
  <2>1. \A i \in 1..d : i \in 1..n
    BY <1>1
  <2> QED
    BY <1>7, <1>8, <2>1 DEF Wrote
<1>24. d = Len(log) => pos = to[d] /\ ~ended
  BY <1>1, <1>12 DEF Wrote
<1>25. d <= m /\ (d < Len(log) => ~Genuine(log[d + 1])) /\ Delivered(log, d)
  BY <1>1, <1>2, <1>13 DEF Wrote
<1>26. Wrote(d, to)'
  <2>1. written'.payloads = qs /\ Len(qs) = m /\ written'.code = written.code
    BY <1>2, <1>8, <1>14
  <2>2. Body(wire', conn' = "up", to[m], wend', written'.code)
    BY <1>2, <1>21
  <2> QED
    BY <1>2, <1>19, <1>20, <1>22, <1>23, <1>24, <1>25, <2>1, <2>2 DEF Wrote
<1> QED
  BY <1>26

LEMMA WroteEnd ==
  ASSUME Types, NEW d, NEW cut, Wrote(d, cut), NEW c \in Codes, End(c)
  PROVE  Wrote(d, cut)'
<1> DEFINE ps == written.payloads
           n == Len(written.payloads)
           s == Frame(EncodeEnd(c), TRUE)
<1>1. /\ written'.payloads = ps /\ written'.code = c
      /\ wend = FALSE /\ wend' = TRUE /\ writeOrFail(s)
      /\ UNCHANGED << foreign, pos, ended, log >>
  <2>1. written \in [payloads : Seq(Payloads), code : Codes \cup {-1}]
    BY DEF Types
  <2>2. written'.payloads = ps /\ written'.code = c
    BY <2>1 DEF End
  <2>3. wend \in BOOLEAN
    BY DEF Types, TypeOK
  <2> QED
    BY <2>2, <2>3 DEF End, reader
<1>2. Layout(ps, cut) /\ Frames(wire, ps, cut) /\ Body(wire, conn = "up", cut[n], FALSE, written.code)
  BY <1>1 DEF Wrote
<1>3. s \in Seq(Byte)
  BY EndPayload, FrameIsBytes
<1>4. /\ Frames(wire', ps, cut) /\ Agrees(wire', cut[n], s)
      /\ Len(wire') <= cut[n] + Len(s)
      /\ conn' = "up" => Len(wire') = cut[n] + Len(s)
  BY <1>1, <1>2, <1>3, NextFrame
<1>5. Body(wire', conn' = "up", cut[n], TRUE, c)
  BY <1>4 DEF Body, Sent
<1>6. ASSUME d < Len(log), AtMost(ps, MaxMessageBytes)
      PROVE  /\ pos' = Len(wire')
             /\ \A i \in 1..Len(log) : i > d => log[i].kind # "message"
  <2>1. pos = Len(wire) /\ conn # "up"
        /\ \A i \in 1..Len(log) : i > d => log[i].kind # "message"
    BY <1>1, <1>6 DEF Wrote
  <2>2. wire' = wire
    BY <1>1, <2>1 DEF writeOrFail
  <2> QED
    BY <1>1, <2>1, <2>2
<1>7. d < Len(log) => ~Genuine(log[d + 1])
  BY <1>1 DEF Wrote
<1> QED
  BY <1>1, <1>2, <1>4, <1>5, <1>6, <1>7 DEF Wrote

LEMMA WroteClose ==
  ASSUME Types, NEW d, NEW cut, Wrote(d, cut), CloseBody \/ UNCHANGED vars
  PROVE  Wrote(d, cut)'
<1>1. /\ UNCHANGED << foreign, wire, wend, written, pos, ended, log >>
      /\ conn' # "up" \/ conn' = conn
  BY DEF CloseBody, reader, vars
<1>2. Body(wire, conn' = "up", cut[Len(written.payloads)], wend, written.code)
  BY <1>1 DEF Wrote, Body
<1> QED
  BY <1>1, <1>2 DEF Wrote

\* The reader at the place of a frame.
LEMMA BeginsLeft ==
  ASSUME Types, NEW f, Agrees(wire, pos, f)
  PROVE  Begins(left, f)
<1>1. /\ Len(wire) \in Nat /\ pos \in Nat /\ pos <= Len(wire)
      /\ Len(left) = Len(wire) - pos
      /\ \A i \in 1..(Len(wire) - pos) : left[i] = wire[pos + i]
  BY Left DEF Types, TypeOK
<1>2. ASSUME NEW i \in 1..Len(f), i <= Len(left) PROVE left[i] = f[i]
  <2>1. i \in Int /\ i >= 1
    OBVIOUS
  <2>2. i \in 1..(Len(wire) - pos) /\ pos + i <= Len(wire)
    BY <1>1, <1>2, <2>1
  <2> QED
    BY <1>1, <2>2 DEF Agrees
<1> QED
  BY <1>2 DEF Begins

\* What a call of Recv makes of a frame of which a part is missing, and be it all of it.
LEMMA RecvCut ==
  ASSUME Types, Recv, ~ended, NEW p \in Seq(Byte), Len(p) < Width, NEW endStream \in BOOLEAN,
         Begins(left, Frame(p, endStream)), Len(left) < HeaderBytes + Len(p)
  PROVE  /\ answer.kind # "message" /\ ~Genuine(answer)
         /\ Len(p) <= MaxMessageBytes => pos' = Len(wire) /\ conn # "up"
<1>1. /\ left \in Seq(Byte) /\ Len(left) \in Nat /\ Len(left) = Len(wire) - pos
      /\ Len(wire) \in Nat /\ pos \in Nat
  <2>1. left \in Seq(Byte) /\ Len(left) = Len(wire) - pos
    BY Left
  <2>2. Len(left) \in Nat
    BY <2>1
  <2> QED
    BY <2>1, <2>2 DEF Types, TypeOK
<1>2. behind \in {"EOF", "reset"}
  BY DEF behind
<1>3. \/ Broke(got.err) /\ got.used = Len(left)
      \/ Oversized(got.err) /\ got.used = HeaderBytes /\ Len(p) > MaxMessageBytes
  BY <1>1, <1>2, ReadCut DEF got
<1>4. got.err # "ok"
  BY <1>3 DEF Broke, Oversized
<1>5. answer.kind # "message" /\ ~Genuine(answer)
  BY <1>4, Answer DEF Genuine
<1>6. ASSUME Len(p) <= MaxMessageBytes PROVE pos' = Len(wire) /\ conn # "up"
  <2>1. Len(p) \in Nat /\ ~(Len(p) > MaxMessageBytes)
    BY <1>6, CapIsNat
  <2>2. got.used = Len(left) /\ pos' = pos + got.used
    BY <1>3, <2>1, RecvStep
  <2>3. pos' = Len(wire)
    BY <1>1, <2>2
  <2>4. ASSUME Len(left) >= HeaderBytes PROVE Length(left) = Len(p)
    BY <1>1, <2>4, LengthOfFrame DEF HeaderBytes
  <2>5. ~(Len(left) >= HeaderBytes + Len(p))
    BY <1>1, <2>1, HeaderIsNat
  <2>6. ~(Len(left) >= HeaderBytes /\ (Length(left) > MaxMessageBytes \/ Len(left) >= HeaderBytes + Length(left)))
    BY <2>1, <2>4, <2>5
  <2>7. arrived
    BY RecvStep
  <2>8. conn # "up"
    BY <2>6, <2>7 DEF arrived
  <2> QED
    BY <2>3, <2>8
<1> QED
  BY <1>5, <1>6

\* What it makes of a message.
LEMMA RecvMessage ==
  ASSUME Types, Recv, ~ended, NEW p \in Seq(Byte), Len(p) < Width,
         Begins(left, Frame(p, FALSE)), Len(left) >= HeaderBytes + Len(p)
  PROVE  /\ ~Genuine(answer)
         /\ answer.kind = "message" => answer.value = p /\ pos' = pos + HeaderBytes + Len(p) /\ ~ended'
         /\ Len(p) <= MaxMessageBytes => answer.kind = "message"
<1>1. left \in Seq(Byte) /\ Len(p) \in Nat /\ pos \in Nat
  BY Left DEF Types, TypeOK
<1>2. IF Len(p) > MaxMessageBytes THEN Oversized(got.err) /\ got.used = HeaderBytes
      ELSE /\ got.err = "ok" /\ got.used = HeaderBytes + Len(p) /\ got.payload = p
           /\ EndStream(got.flags) <=> FALSE
  BY <1>1, ReadWhole DEF got
<1>3. CASE Len(p) > MaxMessageBytes
  <2>1. Oversized(got.err) /\ ~(Len(p) <= MaxMessageBytes)
    BY <1>1, <1>2, <1>3, CapIsNat
  <2>2. got.err # "ok"
    BY <2>1 DEF Oversized
  <2> QED
    BY <2>1, <2>2, Answer DEF Genuine
<1>4. CASE ~(Len(p) > MaxMessageBytes)
  <2>1. got.err = "ok" /\ got.used = HeaderBytes + Len(p) /\ got.payload = p /\ ~EndStream(got.flags)
    BY <1>2, <1>4
  <2>2. answer = Result("message", p)
    BY <2>1 DEF answer
  <2>3. answer.kind = "message" /\ answer.value = p
    BY <2>2 DEF Result
  <2>4. pos' = pos + HeaderBytes + Len(p)
    BY <1>1, <2>1, RecvStep, HeaderIsNat
  <2>5. ~ended'
    BY <2>1, RecvStep
  <2> QED
    BY <2>3, <2>4, <2>5 DEF Genuine
<1> QED
  BY <1>3, <1>4

\* What it makes of the END.
LEMMA RecvEnd ==
  ASSUME Types, Recv, ~ended, NEW c \in Codes,
         Begins(left, Frame(EncodeEnd(c), TRUE)), Len(left) >= HeaderBytes + Len(EncodeEnd(c))
  PROVE  /\ answer.kind # "message" /\ (Genuine(answer) => answer.value = c)
         /\ pos' = pos + HeaderBytes + Len(EncodeEnd(c))
<1> DEFINE p == EncodeEnd(c)
<1>1. left \in Seq(Byte) /\ p \in Seq(Byte) /\ Len(p) \in Nat /\ pos \in Nat
  BY Left, EndPayload DEF Types, TypeOK
<1>2. Len(p) <= 1 /\ DecodeEnd(p) = c
  BY EndPayload
<1>3. Len(p) < Width /\ ~(Len(p) > MaxMessageBytes)
  <2>1. Width > 1 /\ MaxMessageBytes >= 1 /\ MaxMessageBytes \in Nat /\ Width \in Nat
    BY CapAssumption DEF Width
  <2> HIDE DEF p
  <2> QED
    BY <1>1, <1>2, <2>1
<1> HIDE DEF p
<1>4. got.err = "ok" /\ got.used = HeaderBytes + Len(p) /\ got.payload = p /\ EndStream(got.flags)
  <2>1. Begins(left, Frame(p, TRUE)) /\ Len(left) >= HeaderBytes + Len(p)
    BY DEF p
  <2> QED
    BY <1>1, <1>3, <2>1, ReadWhole DEF got
<1>5. answer = IF c # 0 THEN Result("rpc", c) ELSE Result("eof", 0)
  BY <1>2, <1>4 DEF answer
<1>6. answer.kind # "message" /\ answer.value = c
  BY <1>5 DEF Result
<1>7. pos' = pos + HeaderBytes + Len(p)
  BY <1>1, <1>4, RecvStep, HeaderIsNat
<1> QED
  BY <1>6, <1>7 DEF p

\* What the reader makes of the place it is at: the next message, or a verdict that is
\* what the writer ended the stream with, or an error.
LEMMA RecvNext ==
  ASSUME Types, Recv, NEW d, NEW cut, Wrote(d, cut), d = Len(log),
         AtMost(written.payloads, Width - 1)
  PROVE  LET ps == written.payloads
             n == Len(written.payloads)
         IN  \/ /\ answer.kind = "message" /\ d < n /\ answer.value = ps[d + 1]
                /\ pos' = cut[d + 1] /\ ~ended'
             \/ /\ answer.kind # "message"
                /\ Genuine(answer) => d = n /\ wend /\ written.code = answer.value
                /\ AtMost(ps, MaxMessageBytes) => pos' = Len(wire) /\ (wend \/ conn # "up")
<1> DEFINE ps == written.payloads
<1>1. PICK n : n = Len(ps)
  OBVIOUS
<1>2. n \in Nat /\ d \in Nat /\ d <= n /\ pos = cut[d] /\ ~ended
  <2>1. Len(log) \in Nat
    BY DEF Types
  <2> QED
    BY <1>1, <2>1, PayloadsAre DEF Wrote
<1>3. /\ Layout(ps, cut) /\ Frames(wire, ps, cut)
      /\ Body(wire, conn = "up", cut[n], wend, written.code)
  BY <1>1 DEF Wrote
<1>4. Width \in Nat /\ Width > 1 /\ MaxMessageBytes \in Nat
  BY CapIsNat DEF Width
<1>5. Len(left) \in Nat /\ Len(left) = Len(wire) - pos /\ Len(wire) \in Nat /\ pos \in Nat
  <2>1. left \in Seq(Byte) /\ Len(left) = Len(wire) - pos
    BY Left
  <2>2. Len(left) \in Nat
    BY <2>1
  <2> QED
    BY <2>1, <2>2 DEF Types, TypeOK
<1>6. CASE d < n
  <2> DEFINE p == ps[d + 1]
  <2>1. d + 1 \in 1..n /\ d + 1 \in 1..Len(ps) /\ d < Len(ps)
    BY <1>1, <1>2, <1>6
  <2>2. p \in Seq(Byte) /\ Len(p) \in Nat
    BY <2>1, PayloadsAre
  <2>3. Len(p) < Width
    <3>1. Len(p) <= Width - 1
      BY <2>1 DEF AtMost
    <3> HIDE DEF p
    <3> QED
      BY <1>4, <2>2, <3>1
  <2>4. Begins(left, Frame(p, FALSE))
    <3>1. Agrees(wire, pos, Frame(p, FALSE))
      BY <1>2, <1>3, <2>1 DEF Frames
    <3> QED
      BY <3>1, BeginsLeft
  <2>5. cut[d + 1] = pos + HeaderBytes + Len(p)
    BY <1>2, <1>3, <2>1 DEF Layout
  <2>6. AtMost(ps, MaxMessageBytes) => Len(p) <= MaxMessageBytes
    BY <2>1 DEF AtMost
  <2> HIDE DEF p
  <2>7. CASE Len(left) < HeaderBytes + Len(p)
    <3>1. /\ answer.kind # "message" /\ ~Genuine(answer)
          /\ Len(p) <= MaxMessageBytes => pos' = Len(wire) /\ conn # "up"
      BY <1>2, <2>2, <2>3, <2>4, <2>7, RecvCut
    <3> QED
      BY <2>6, <3>1
  <2>8. CASE Len(left) >= HeaderBytes + Len(p)
    <3>1. /\ ~Genuine(answer)
          /\ answer.kind = "message" => answer.value = p /\ pos' = pos + HeaderBytes + Len(p) /\ ~ended'
          /\ Len(p) <= MaxMessageBytes => answer.kind = "message"
      BY <1>2, <2>2, <2>3, <2>4, <2>8, RecvMessage
    <3> QED
      BY <1>1, <1>6, <2>5, <2>6, <3>1 DEF p
  <2> QED
    BY <1>5, <2>2, <2>7, <2>8, HeaderIsNat
<1>7. CASE d = n /\ wend
  <2>1. PICK c : c = written.code
    OBVIOUS
  <2> DEFINE p == EncodeEnd(c)
  <2>2. c \in Codes /\ Agrees(wire, pos, Frame(p, TRUE))
        /\ Len(wire) <= pos + Len(Frame(p, TRUE))
    BY <1>2, <1>3, <1>7, <2>1 DEF Body, Sent
  <2>3. p \in Seq(Byte) /\ Len(p) \in Nat /\ Len(p) <= 1
    BY <2>2, EndPayload
  <2>4. Len(Frame(p, TRUE)) = HeaderBytes + Len(p)
    BY <2>3, FrameBytes DEF HeaderBytes
  <2>5. Begins(left, Frame(p, TRUE))
    BY <2>2, BeginsLeft
  <2>6. CASE Len(left) < HeaderBytes + Len(p)
    <3>1. Len(p) < Width
      <4> HIDE DEF p
      <4> QED
        BY <1>4, <2>3
    <3>2. /\ answer.kind # "message" /\ ~Genuine(answer)
          /\ Len(p) <= MaxMessageBytes => pos' = Len(wire) /\ conn # "up"
      BY <1>2, <2>3, <2>5, <2>6, <3>1, RecvCut
    <3>3. Len(p) <= MaxMessageBytes
      <4>1. MaxMessageBytes >= 1
        BY CapAssumption
      <4> HIDE DEF p
      <4> QED
        BY <1>4, <2>3, <4>1
    <3> QED
      BY <3>2, <3>3
  <2>7. CASE Len(left) >= HeaderBytes + Len(p)
    <3>1. /\ answer.kind # "message" /\ (Genuine(answer) => answer.value = c)
          /\ pos' = pos + HeaderBytes + Len(p)
      BY <1>2, <2>2, <2>5, <2>7, RecvEnd
    <3>3. PICK l : l = Len(p)
      OBVIOUS
    <3>4. l \in Nat /\ Len(wire) - pos >= HeaderBytes + l /\ pos' = pos + HeaderBytes + l
      BY <1>5, <2>3, <2>7, <3>1, <3>3
    <3>5. Len(wire) <= pos + (HeaderBytes + l)
      BY <2>2, <2>4, <3>3
    <3>2. pos' = Len(wire)
      BY <1>5, <3>4, <3>5, HeaderIsNat
    <3> QED
      BY <1>1, <1>7, <2>1, <3>1, <3>2
  <2> HIDE DEF p
  <2> QED
    BY <1>5, <2>3, <2>6, <2>7, HeaderIsNat
<1>8. CASE d = n /\ ~wend
  <2>1. << >> \in Seq(Byte) /\ Len(<< >>) = 0 /\ 0 < Width /\ 0 <= MaxMessageBytes
    BY <1>4
  <2>2. cut[n] \in Nat /\ Len(wire) <= cut[n]
    BY <1>2, <1>3, <1>8 DEF Body, Sent, Layout
  <2>3. Len(left) = 0
    BY <1>2, <1>5, <1>8, <2>2
  <2>4. Begins(left, Frame(<< >>, FALSE))
    <3>1. \A i \in 1..Len(Frame(<< >>, FALSE)) : ~(i <= Len(left))
      BY <2>3
    <3> QED
      BY <3>1 DEF Begins
  <2>5. Len(left) < HeaderBytes + Len(<< >>)
    BY <2>1, <2>3 DEF HeaderBytes
  <2>6. PICK p \in Seq(Byte) : p = << >>
    BY <2>1
  <2>7. Len(p) < Width /\ Len(p) <= MaxMessageBytes
    BY <2>1, <2>6
  <2>8. /\ answer.kind # "message" /\ ~Genuine(answer)
        /\ Len(p) <= MaxMessageBytes => pos' = Len(wire) /\ conn # "up"
    BY <1>2, <2>4, <2>5, <2>6, <2>7, RecvCut
  <2> QED
    BY <2>7, <2>8
<1> QED
  BY <1>2, <1>6, <1>7, <1>8

LEMMA WroteRecv ==
  ASSUME Types, Recv, NEW d, NEW cut, Wrote(d, cut), AtMost(written.payloads, Width - 1)
  PROVE  \E e : Wrote(e, cut)'
<1> DEFINE ps == written.payloads
<1>1. /\ Len(log') = Len(log) + 1
      /\ \A i \in 1..Len(log) : log'[i] = log[i]
      /\ log'[Len(log) + 1] = answer
      /\ d < Len(log) => Delivered(log', d)
      /\ d = Len(log) /\ answer.kind # "message" => Delivered(log', d)
      /\ d = Len(log) /\ answer.kind = "message" => Delivered(log', d + 1)
  BY DeliveredStep DEF Wrote
<1>2. UNCHANGED << foreign, wire, conn, wend, written >> /\ pos' = pos + got.used
  BY RecvStep
<1>3. Len(log) \in Nat /\ d \in Nat /\ d <= Len(log) /\ d <= Len(ps) /\ Len(ps) \in Nat
  <2>1. Len(log) \in Nat /\ Delivered(log, d)
    BY DEF Types, Wrote
  <2>2. d \in Nat /\ d <= Len(log)
    BY <2>1 DEF Delivered
  <2> QED
    BY <2>1, <2>2, PayloadsAre DEF Wrote
<1>4. /\ Layout(ps, cut) /\ Frames(wire, ps, cut)
      /\ Body(wire, conn = "up", cut[Len(ps)], wend, written.code)
      /\ \A i \in 1..d : log[i].value = ps[i]
  BY DEF Wrote
<1>5. \A i \in 1..d : log'[i].value = ps[i]
  <2>1. \A i \in 1..d : i \in 1..Len(log)
    BY <1>3
  <2> QED
    BY <1>1, <1>4, <2>1
<1>6. CASE d < Len(log)
  <2>1. d < Len(log') /\ ~(d = Len(log')) /\ log'[d + 1] = log[d + 1]
    <3>1. d + 1 \in 1..Len(log)
      BY <1>3, <1>6
    <3>2. log'[d + 1] = log[d + 1]
      BY <1>1, <3>1
    <3>3. Len(log) \in Nat /\ d \in Nat /\ Len(log') = Len(log) + 1
      BY <1>1, <1>3
    <3>4. d < Len(log') /\ ~(d = Len(log'))
      BY <1>6, <3>3
    <3> QED
      BY <3>2, <3>4
  <2>2. ASSUME AtMost(ps, MaxMessageBytes)
        PROVE  /\ pos' = Len(wire) /\ (wend \/ conn # "up")
               /\ \A i \in 1..Len(log') : i > d => log'[i].kind # "message"
    <3>1. /\ pos = Len(wire) /\ (wend \/ conn # "up")
          /\ \A i \in 1..Len(log) : i > d => log[i].kind # "message"
      BY <1>6, <2>2 DEF Wrote
    <3>2. Len(wire) \in Nat /\ Len(left) = 0
      <4>1. Len(wire) \in Nat /\ Len(left) = Len(wire) - pos
        BY Left DEF Types, TypeOK
      <4> QED
        BY <3>1, <4>1
    <3>3. got.used = 0 /\ ~(got.err = "ok")
      <4>1. got.used \in 0..Len(left) /\ (got.err = "ok" => Len(left) >= HeaderBytes)
        BY Got
      <4> QED
        BY <3>2, <4>1 DEF HeaderBytes
    <3>4. pos' = Len(wire)
      BY <1>2, <3>1, <3>2, <3>3
    <3>5. answer.kind # "message"
      BY <3>3, Answer
    <3>6. ASSUME NEW i \in 1..Len(log'), i > d PROVE log'[i].kind # "message"
      <4>1. i \in 1..Len(log) \/ i = Len(log) + 1
        BY <1>1, <1>3
      <4> QED
        BY <1>1, <3>1, <3>5, <3>6, <4>1
    <3> QED
      BY <3>1, <3>4, <3>6
  <2>3. Genuine(log'[d + 1]) => d = Len(ps) /\ wend /\ written.code = log'[d + 1].value
    BY <1>6, <2>1 DEF Wrote
  <2>4. Wrote(d, cut)'
    BY <1>1, <1>2, <1>3, <1>4, <1>5, <1>6, <2>1, <2>2, <2>3 DEF Wrote
  <2> QED
    BY <2>4
<1>7. CASE d = Len(log)
  <2>1. \/ /\ answer.kind = "message" /\ d < Len(ps) /\ answer.value = ps[d + 1]
           /\ pos' = cut[d + 1] /\ ~ended'
        \/ /\ answer.kind # "message"
           /\ Genuine(answer) => d = Len(ps) /\ wend /\ written.code = answer.value
           /\ AtMost(ps, MaxMessageBytes) => pos' = Len(wire) /\ (wend \/ conn # "up")
    BY <1>7, RecvNext
  <2>2. CASE answer.kind = "message"
    <3>1. PICK e : e = d + 1
      OBVIOUS
    <3>2. Delivered(log', e) /\ e = Len(log') /\ ~(e < Len(log')) /\ e <= Len(ps)
      BY <1>1, <1>3, <1>7, <2>1, <2>2, <3>1
    <3>3. \A i \in 1..e : i \in 1..d \/ i = d + 1
      BY <1>3, <3>1
    <3>4. log'[d + 1].value = ps[d + 1]
      BY <1>1, <1>7, <2>1, <2>2
    <3>5. \A i \in 1..e : log'[i].value = ps[i]
      BY <1>5, <3>3, <3>4
    <3>6. pos' = cut[e] /\ ~ended'
      BY <2>1, <2>2, <3>1
    <3>7. Wrote(e, cut)'
      BY <1>2, <1>4, <3>2, <3>5, <3>6 DEF Wrote
    <3> QED
      BY <3>7
  <2>3. CASE answer.kind # "message"
    <3>1. Delivered(log', d) /\ d < Len(log') /\ ~(d = Len(log')) /\ log'[d + 1] = answer
      BY <1>1, <1>3, <1>7, <2>3
    <3>2. \A i \in 1..Len(log') : i > d => log'[i].kind # "message"
      <4>1. \A i \in 1..Len(log') : i > d => i = d + 1
        BY <1>1, <1>3, <1>7
      <4> QED
        BY <2>3, <3>1, <4>1
    <3>3. Wrote(d, cut)'
      BY <1>2, <1>3, <1>4, <1>5, <2>1, <2>3, <3>1, <3>2 DEF Wrote
    <3> QED
      BY <3>3
  <2> QED
    BY <2>2, <2>3
<1> QED
  BY <1>3, <1>6, <1>7

\* What holds of a body a StreamWriter wrote, as long as it was given no payload that is
\* longer than a length can say.
WroteInv == ~foreign /\ AtMost(written.payloads, Width - 1) => \E d, cut : Wrote(d, cut)

LEMMA WroteHolds == Spec => []WroteInv
<1>1. ASSUME Init PROVE WroteInv
  <2> SUFFICES ASSUME ~foreign PROVE \E d, cut : Wrote(d, cut)
    BY DEF WroteInv
  <2>1. /\ wire = << >> /\ conn = "up" /\ wend = FALSE /\ pos = 0 /\ ~ended /\ log = << >>
        /\ written.payloads = << >>
    BY <1>1 DEF Init
  <2>2. Len(log) = 0 /\ Len(wire) = 0 /\ Len(written.payloads) = 0
    BY <2>1
  <2>3. PICK cut : cut = [k \in Nat |-> 0]
    OBVIOUS
  <2>4. cut \in [Nat -> Nat] /\ \A k \in Nat : cut[k] = 0
    BY <2>3
  <2>5. Layout(written.payloads, cut)
    BY <2>2, <2>4 DEF Layout
  <2>6. Frames(wire, written.payloads, cut)
    BY <2>2 DEF Frames
  <2>7. Body(wire, conn = "up", cut[0], wend, written.code)
    <3>1. cut[0] = 0
      BY <2>4
    <3>2. Sent(cut[0], wend, written.code) = 0
      BY <2>1, <3>1 DEF Sent
    <3> QED
      <4>1. Len(wire) <= Sent(cut[0], wend, written.code)
        BY <2>2, <3>2
      <4>2. ~wend
        BY <2>1
      <4> QED
        BY <2>2, <3>2, <4>1, <4>2, Zenon DEF Body
  <2>8. Delivered(log, 0)
    BY <2>2 DEF Delivered
  <2>9. Wrote(0, cut)
    <3>1. pos = cut[0]
      BY <2>1, <2>4
    <3> QED
      BY <2>1, <2>2, <2>5, <2>6, <2>7, <2>8, <3>1 DEF Wrote
  <2> QED
    BY <2>9
<1>2. ASSUME Types, Types', WroteInv, [Next]_vars PROVE WroteInv'
  <2> SUFFICES ASSUME ~foreign', AtMost(written'.payloads, Width - 1)
               PROVE  \E d, cut : Wrote(d, cut)'
    BY DEF WroteInv
  <2>1. foreign' = foreign
    BY <1>2 DEF Next, Write, End, CloseBody, Recv, vars
  <2>2. AtMost(written.payloads, Width - 1)
    <3>1. ASSUME NEW p \in Payloads, Write(p) PROVE AtMost(written.payloads, Width - 1)
      <4>1. written'.payloads = Append(written.payloads, p)
        <5>1. written \in [payloads : Seq(Payloads), code : Codes \cup {-1}]
          BY <1>2 DEF Types
        <5>2. written' = [written EXCEPT !.payloads = Append(@, p)]
          BY <3>1 DEF Write
        <5> QED
          BY <5>1, <5>2
      <4>2. /\ Len(written'.payloads) = Len(written.payloads) + 1 /\ Len(written.payloads) \in Nat
            /\ \A i \in 1..Len(written.payloads) : written'.payloads[i] = written.payloads[i]
        BY <1>2, <4>1, PayloadsAre
      <4>3. \A i \in 1..Len(written.payloads) : i \in 1..Len(written'.payloads)
        BY <4>2
      <4> QED
        BY <4>2, <4>3 DEF AtMost
    <3>2. ASSUME NEW c \in Codes, End(c) PROVE written'.payloads = written.payloads
      <4>1. written \in [payloads : Seq(Payloads), code : Codes \cup {-1}]
        BY <1>2 DEF Types
      <4> QED
        BY <3>2, <4>1 DEF End
    <3>3. ASSUME CloseBody \/ Recv \/ UNCHANGED vars PROVE written'.payloads = written.payloads
      BY <3>3 DEF CloseBody, Recv, vars
    <3> QED
      BY <1>2, <3>1, <3>2, <3>3 DEF Next
  <2>3. PICK d, cut : Wrote(d, cut)
    BY <1>2, <2>1, <2>2 DEF WroteInv
  <2>4. ASSUME NEW p \in Payloads, Write(p) PROVE \E e, to : Wrote(e, to)'
    BY <1>2, <2>3, <2>4, WroteWrite
  <2>5. ASSUME NEW c \in Codes, End(c) PROVE \E e, to : Wrote(e, to)'
    BY <1>2, <2>3, <2>5, WroteEnd
  <2>6. ASSUME CloseBody \/ UNCHANGED vars PROVE \E e, to : Wrote(e, to)'
    BY <1>2, <2>3, <2>6, WroteClose
  <2>7. ASSUME Recv PROVE \E e, to : Wrote(e, to)'
    BY <1>2, <2>2, <2>3, <2>7, WroteRecv
  <2> QED
    BY <1>2, <2>4, <2>5, <2>6, <2>7 DEF Next
<1> QED
  BY <1>1, <1>2, TypesHold, PTL DEF Spec

\* What was written is read in order and without gaps, and the end after all of it, for
\* every number of writes and reads, wherever the connection breaks.  The hypothesis is
\* what the four bytes of the length can say, 2^32 - 1 in the code.
THEOREM WrittenIsRead ==
  ASSUME \A p \in Payloads : Len(p) < Width
  PROVE  Spec => []WriterRoundTrip
<1>1. ASSUME Types, WroteInv PROVE WriterRoundTrip
  <2> SUFFICES ASSUME ~foreign PROVE WriterRoundTrip
    BY DEF WriterRoundTrip
  <2>1. AtMost(written.payloads, Width - 1)
    <3>1. written.payloads \in Seq(Payloads)
      BY <1>1, PayloadsAre
    <3>2. ASSUME NEW i \in 1..Len(written.payloads) PROVE Len(written.payloads[i]) <= Width - 1
      <4>1. written.payloads[i] \in Payloads /\ Len(written.payloads[i]) \in Nat
        BY <1>1, <3>1, PayloadsAre
      <4>2. Len(written.payloads[i]) < Width
        BY <4>1
      <4>3. Width \in Nat
        BY DEF Width
      <4> QED
        BY <4>1, <4>2, <4>3
    <3> QED
      BY <3>2 DEF AtMost
  <2>2. PICK d, cut : Wrote(d, cut)
    BY <1>1, <2>1 DEF WroteInv
  <2>3. delivered = d
    BY <1>1, <2>2, DeliveredIs DEF Wrote
  <2>4. /\ d <= Len(written.payloads)
        /\ \A i \in 1..d : log[i].value = written.payloads[i]
        /\ d < Len(log) /\ Genuine(log[d + 1]) =>
             d = Len(written.payloads) /\ written.code = log[d + 1].value
    BY <2>2 DEF Wrote
  <2> QED
    BY <2>3, <2>4 DEF WriterRoundTrip, Genuine
<1> QED
  BY <1>1, TypesHold, WroteHolds, PTL

\* A consumer that goes on calling Recv gets no message after the end or an error.
THEOREM NothingAfterVerdict == Spec => []NoMessageAfterVerdict
<1>1. ASSUME Types, WroteInv PROVE NoMessageAfterVerdict
  <2> SUFFICES ASSUME ~foreign, \A i \in DOMAIN written.payloads : Len(written.payloads[i]) <= MaxMessageBytes
               PROVE  \A i \in DOMAIN log : i > delivered => log[i].kind # "message"
    BY DEF NoMessageAfterVerdict
  <2>1. DOMAIN written.payloads = 1..Len(written.payloads) /\ DOMAIN log = 1..Len(log) /\ Len(log) \in Nat
    <3>1. written.payloads \in Seq(Payloads) /\ log \in Seq(Results)
      BY <1>1, PayloadsAre DEF Types
    <3> QED
      BY <3>1
  <2>2. AtMost(written.payloads, MaxMessageBytes)
    BY <2>1 DEF AtMost
  <2>3. AtMost(written.payloads, Width - 1)
    <3>1. MaxMessageBytes \in Nat /\ MaxMessageBytes <= Width - 1 /\ Width \in Nat
      BY CapAssumption DEF Width
    <3>2. \A i \in 1..Len(written.payloads) : Len(written.payloads[i]) \in Nat
      BY <1>1, PayloadsAre
    <3> QED
      BY <2>2, <3>1, <3>2 DEF AtMost
  <2>4. PICK d, cut : Wrote(d, cut)
    BY <1>1, <2>3 DEF WroteInv
  <2>5. delivered = d /\ d \in 0..Len(log)
    BY <1>1, <2>4, DeliveredIs DEF Wrote, Delivered
  <2>6. d < Len(log) => \A i \in 1..Len(log) : i > d => log[i].kind # "message"
    BY <2>2, <2>4 DEF Wrote
  <2>7. \A i \in 1..Len(log) : i > d => d < Len(log)
    BY <2>1, <2>5
  <2> QED
    BY <2>1, <2>5, <2>6, <2>7
<1> QED
  BY <1>1, TypesHold, WroteHolds, PTL

-----------------------------------------------------------------------------
(* A request body that is there as a whole.                                *)

Counted == [code : {0}, value : Nat] \cup [code : {8, 13}, value : {<< >>}]

\* f counts the frames of b from every offset on, as countFrames does.
Counts(b, f) ==
  \A off \in Nat :
    LET size == Uint32(SubSeq(b, off + 2, off + HeaderBytes))
        more == f[off + HeaderBytes + size]
    IN  f[off] = IF off >= Len(b) THEN [code |-> 0, value |-> 0]
                 ELSE IF off + HeaderBytes > Len(b) THEN Fail(13)
                 ELSE IF size > MaxMessageBytes THEN Fail(8)
                 ELSE IF more.code # 0 THEN more
                 ELSE [more EXCEPT !.value = @ + 1]

LEMMA SizeAt ==
  ASSUME NEW b \in Seq(Byte), NEW off \in Nat, off + HeaderBytes <= Len(b)
  PROVE  Uint32(SubSeq(b, off + 2, off + HeaderBytes)) \in Nat
<1>1. off + 1 \in Nat /\ (off + 1) + 4 <= Len(b) /\ off + HeaderBytes = (off + 1) + 4
  BY DEF HeaderBytes
<1>2. /\ SubSeq(b, (off + 1) + 1, (off + 1) + 4) \in Seq(Byte)
      /\ Len(SubSeq(b, (off + 1) + 1, (off + 1) + 4)) = 4
  BY <1>1, Slice
<1>3. (off + 1) + 1 = off + 2
  OBVIOUS
<1>4. PICK t : t = SubSeq(b, off + 2, off + HeaderBytes)
  OBVIOUS
<1>5. t \in Seq(Byte) /\ Len(t) >= 4
  BY <1>1, <1>2, <1>3, <1>4
<1>6. Uint32(t) \in Nat
  BY <1>5, LengthIsNat
<1> QED
  BY <1>4, <1>6

LEMMA CountHolds ==
  ASSUME NEW b \in Seq(Byte)
  PROVE  \E f \in [Nat -> Counted] : Counts(b, f) /\ countFrames(b) = f[0]
<1> DEFINE N == Len(b)
           zero == [code |-> 0, value |-> 0]
           size(off) == Uint32(SubSeq(b, off + 2, off + HeaderBytes))
           add(more, off) == IF off + HeaderBytes > N THEN Fail(13)
                             ELSE IF size(off) > MaxMessageBytes THEN Fail(8)
                             ELSE IF more.code # 0 THEN more
                             ELSE [more EXCEPT !.value = @ + 1]
           to(off) == IF off + HeaderBytes > N THEN off + 1 ELSE off + HeaderBytes + size(off)
           base == [off \in Nat |-> zero]
           step == [x \in Counted \X Nat |-> add(x[1], x[2])]
           next == [off \in Nat |-> to(off)]
           Same(f) == f = [off \in Nat |-> IF off >= N THEN zero
                             ELSE add(f[off + HeaderBytes + size(off)], off)]
<1>1. N \in Nat /\ HeaderBytes \in Nat /\ HeaderBytes > 0 /\ HeaderBytes = 1 + 4
  BY DEF HeaderBytes
<1>2. ASSUME NEW off \in Nat, ~(off + HeaderBytes > N) PROVE size(off) \in Nat
  BY <1>1, <1>2, SizeAt
<1> HIDE DEF size
<1>3. \A off \in Nat : to(off) \in Nat /\ to(off) > off
  BY <1>1, <1>2
<1>4. ASSUME NEW more \in Counted, NEW off \in Nat PROVE add(more, off) \in Counted
  <2>1. Fail(13) \in Counted /\ Fail(8) \in Counted
    BY DEF Fail, Counted
  <2>2. more.code = 0 => [more EXCEPT !.value = @ + 1] \in Counted
    BY DEF Counted
  <2> QED
    BY <2>1, <2>2
<1>5. zero \in Counted
  BY DEF Counted
<1>6. base \in [Nat -> Counted]
  BY <1>5
<1> HIDE DEF add, to, zero
<1>7. step \in [Counted \X Nat -> Counted]
  BY <1>4
<1>8. next \in [Nat -> Nat] /\ \A o \in Nat : next[o] > o
  BY <1>3
<1>9. /\ \A more \in Counted, off \in Nat : step[<< more, off >>] = add(more, off)
      /\ \A off \in Nat : next[off] = to(off) /\ base[off] = zero
  OBVIOUS
<1> HIDE DEF step, next, base
<1>10. PICK f \in [Nat -> Counted] : CountsDown(f, N, base, step, next)
  BY <1>1, <1>6, <1>7, <1>8, RecursionDown, Zenon
<1>11. ASSUME NEW off \in Nat
       PROVE  f[off] = IF off >= N THEN zero ELSE add(f[off + HeaderBytes + size(off)], off)
  <2>1. f[off] = IF off >= N THEN base[off] ELSE step[<< f[next[off]], off >>]
    BY <1>10 DEF CountsDown
  <2>2. f[to(off)] \in Counted
    BY <1>3
  <2>3. f[off] = IF off >= N THEN zero ELSE add(f[to(off)], off)
    BY <1>9, <2>1, <2>2
  <2>4. add(f[to(off)], off) = add(f[off + HeaderBytes + size(off)], off)
    BY DEF add, to
  <2> QED
    BY <2>3, <2>4
<1>12. Same(f)
  BY <1>11
<1>13. countFrames(b) = (CHOOSE g : Same(g))[0]
  BY DEF countFrames, size, add, zero
<1> DEFINE from == CHOOSE g : Same(g)
<1>14. Same(from)
  <2> HIDE DEF Same
  <2> QED
    BY <1>12
<1> HIDE DEF from
<1>15. DOMAIN from = Nat
       /\ \A off \in Nat : from[off] = IF off >= N THEN zero ELSE add(from[to(off)], off)
  <2>2. ASSUME NEW off \in Nat
        PROVE  from[off] = IF off >= N THEN zero ELSE add(from[to(off)], off)
    <3>1. from[off] = IF off >= N THEN zero ELSE add(from[off + HeaderBytes + size(off)], off)
      BY <1>14
    <3>2. add(from[to(off)], off) = add(from[off + HeaderBytes + size(off)], off)
      BY DEF add, to
    <3> QED
      BY <3>1, <3>2
  <2> QED
    BY <1>14, <2>2
<1> DEFINE Typed == {k \in Nat : \A off \in Nat : off + k >= N => from[off] \in Counted}
<1>16. Typed = Nat
  <2>1. 0 \in Typed
    BY <1>1, <1>5, <1>15
  <2>2. ASSUME NEW k \in Typed PROVE k + 1 \in Typed
    <3> SUFFICES ASSUME NEW off \in Nat, off + (k + 1) >= N PROVE from[off] \in Counted
      OBVIOUS
    <3>1. k \in Nat /\ \A o \in Nat : o + k >= N => from[o] \in Counted
      BY <2>2
    <3>2. to(off) \in Nat /\ to(off) + k >= N
      <4>1. PICK o : o = to(off)
        OBVIOUS
      <4>2. o \in Nat /\ o > off
        BY <1>3, <4>1
      <4>3. k \in Nat /\ N \in Nat
        BY <1>1, <3>1
      <4> QED
        BY <4>1, <4>2, <4>3
    <3>3. from[to(off)] \in Counted
      BY <3>1, <3>2
    <3>4. add(from[to(off)], off) \in Counted
      BY <1>4, <3>3
    <3> QED
      BY <1>5, <1>15, <3>4
  <2> HIDE DEF Typed
  <2>3. Typed \subseteq Nat
    BY DEF Typed
  <2> QED
    BY <2>1, <2>2, <2>3, InductionOnNat
<1>17. from \in [Nat -> Counted]
  <2>1. ASSUME NEW off \in Nat PROVE from[off] \in Counted
    <3>1. N \in Typed /\ off + N >= N
      BY <1>1, <1>16
    <3> QED
      BY <3>1
  <2>2. from = [off \in Nat |-> IF off >= N THEN zero ELSE add(from[off + HeaderBytes + size(off)], off)]
    BY <1>14
  <2> QED
    BY <1>15, <2>1, <2>2
<1>18. Counts(b, from)
  <2>1. ASSUME NEW off \in Nat
        PROVE  from[off] = IF off >= N THEN zero ELSE add(from[off + HeaderBytes + size(off)], off)
    BY <1>14
  <2> QED
    BY <2>1 DEF Counts, add, size, zero
<1> QED
  BY <1>13, <1>17, <1>18 DEF from

\* A frame lies there, within the cap.
Whole(b) ==
  Len(b) >= HeaderBytes /\ ~(Length(b) > MaxMessageBytes) /\ ~(Len(b) < HeaderBytes + Length(b))

LEMMA ReadOk ==
  ASSUME NEW b \in Seq(Byte), NEW tail \in {"EOF", "reset"}
  PROVE  LET r == readFrameFlags(b, tail)
         IN  /\ r.err = "ok" <=> Whole(b)
             /\ Whole(b) => /\ r.used = HeaderBytes + Length(b)
                            /\ r.flags = b[1] /\ r.payload = Payload(b)
<1> DEFINE rest == SubSeq(b, HeaderBytes + 1, Len(b))
           r == readFrameFlags(b, tail)
<1>1. Len(b) \in Nat /\ HeaderBytes \in Nat /\ MaxMessageBytes \in Nat
  BY HeaderIsNat, CapIsNat
<1>2. CASE Len(b) < HeaderBytes
  <2>1. ReadFull(b, HeaderBytes, tail) # "ok"
    BY <1>1, <1>2, ReadFullStops
  <2>2. r.err # "ok"
    BY <1>2, <2>1, ReadFrame
  <2> QED
    BY <1>1, <1>2, <2>2 DEF Whole
<1>3. CASE Len(b) >= HeaderBytes /\ Length(b) > MaxMessageBytes
  <2>1. r.err # "ok"
    BY <1>3, ReadFrame
  <2> QED
    BY <1>3, <2>1 DEF Whole
<1>4. CASE Len(b) >= HeaderBytes /\ ~(Length(b) > MaxMessageBytes) /\ Len(b) < HeaderBytes + Length(b)
  <2>1. Length(b) \in Nat /\ Len(rest) \in Nat /\ Len(rest) < Length(b)
    BY <1>1, <1>4, LengthOfHeader, Rest
  <2>2. ReadFull(rest, Length(b), tail) # "ok"
    BY <2>1, ReadFullStops
  <2>3. r.err # "ok"
    BY <1>4, <2>2, ReadFrame
  <2> QED
    BY <1>4, <2>3 DEF Whole
<1>5. CASE Whole(b)
  BY <1>5, ReadFrame DEF Whole
<1> QED
  BY <1>1, <1>2, <1>3, <1>4, <1>5 DEF Whole

LEMMA ReadDecompressed ==
  ASSUME NEW b \in Seq(Byte), NEW tail \in {"EOF", "reset"}
  PROVE  LET r == ReadFrameDecompressed(b, tail)
         IN  /\ r.err = "ok" <=> Whole(b) /\ (Compressed(b[1]) => IsGzip(Payload(b)))
             /\ r.err = "ok" =>
                  /\ r.used = HeaderBytes + Length(b)
                  /\ r.payload = IF Compressed(b[1]) THEN GzipDecompress(Payload(b)) ELSE Payload(b)
<1> DEFINE f == readFrameFlags(b, tail)
           r == ReadFrameDecompressed(b, tail)
<1>1. /\ f.err = "ok" <=> Whole(b)
      /\ Whole(b) => f.used = HeaderBytes + Length(b) /\ f.flags = b[1] /\ f.payload = Payload(b)
  BY ReadOk
<1>2. /\ f.err # "ok" \/ ~Compressed(f.flags) => r = f
      /\ f.err = "ok" /\ Compressed(f.flags) /\ IsGzip(f.payload) =>
           r = [f EXCEPT !.payload = GzipDecompress(@)]
  BY DEF ReadFrameDecompressed
<1>3. \E e, u, g, p : f = [err |-> e, used |-> u, flags |-> g, payload |-> p]
  BY DEF readFrameFlags, readResult
<1>4. f.err = "ok" /\ Compressed(f.flags) /\ ~IsGzip(f.payload) => r.err # "ok"
  <2> HIDE DEF f
  <2>1. f.err = "ok" /\ Compressed(f.flags) /\ ~IsGzip(f.payload) => r = [f EXCEPT !.err = "corrupt gzip"]
    BY DEF ReadFrameDecompressed, f
  <2> HIDE DEF r
  <2> QED
    BY <1>3, <2>1
<1> HIDE DEF f, r
<1>5. f.err = "ok" /\ Compressed(f.flags) /\ IsGzip(f.payload) =>
        r.err = f.err /\ r.used = f.used /\ r.payload = GzipDecompress(f.payload)
  BY <1>2, <1>3
<1>6. /\ r.err = "ok" <=> Whole(b) /\ (Compressed(b[1]) => IsGzip(Payload(b)))
      /\ r.err = "ok" =>
           /\ r.used = HeaderBytes + Length(b)
           /\ r.payload = IF Compressed(b[1]) THEN GzipDecompress(Payload(b)) ELSE Payload(b)
  <2>1. CASE ~Whole(b)
    BY <1>1, <1>2, <2>1
  <2>2. CASE Whole(b) /\ ~Compressed(b[1])
    BY <1>1, <1>2, <2>2
  <2>3. CASE Whole(b) /\ Compressed(b[1]) /\ IsGzip(Payload(b))
    BY <1>1, <1>5, <2>3
  <2>4. CASE Whole(b) /\ Compressed(b[1]) /\ ~IsGzip(Payload(b))
    BY <1>1, <1>4, <2>4
  <2> QED
    BY <2>1, <2>2, <2>3, <2>4
<1> QED
  BY <1>6 DEF r

\* countFrames finds one frame in b where one lies there, or has begun, and none behind it.
LEMMA CountsOne ==
  ASSUME NEW b \in Seq(Byte)
  PROVE  LET n == countFrames(b)
         IN  n.code = 0 /\ n.value = 1 <=>
               /\ Len(b) >= HeaderBytes /\ ~(Length(b) > MaxMessageBytes)
               /\ HeaderBytes + Length(b) >= Len(b)
<1> DEFINE N == Len(b)
           next == HeaderBytes + Length(b)
<1>1. PICK f \in [Nat -> Counted] : Counts(b, f) /\ countFrames(b) = f[0]
  BY CountHolds
<1>2. N \in Nat /\ HeaderBytes \in Nat /\ HeaderBytes > 0
  BY DEF HeaderBytes
<1>3. \A off \in Nat : off >= N => f[off] = [code |-> 0, value |-> 0]
  BY <1>1 DEF Counts
<1>4. ASSUME NEW off \in Nat, off < N, f[off].code = 0 PROVE f[off].value \in Nat /\ f[off].value > 0
  <2> DEFINE size == Uint32(SubSeq(b, off + 2, off + HeaderBytes))
             more == f[off + HeaderBytes + size]
  <2>1. f[off] = IF off + HeaderBytes > N THEN Fail(13)
                 ELSE IF size > MaxMessageBytes THEN Fail(8)
                 ELSE IF more.code # 0 THEN more
                 ELSE [more EXCEPT !.value = @ + 1]
    BY <1>1, <1>2, <1>4 DEF Counts
  <2>2. off + HeaderBytes <= N /\ more.code = 0 /\ f[off] = [more EXCEPT !.value = @ + 1]
    BY <1>2, <1>4, <2>1 DEF Fail
  <2>3. size \in Nat
    BY <2>2, SizeAt
  <2> HIDE DEF size
  <2>4. more \in Counted
    BY <1>2, <2>3
  <2> HIDE DEF more
  <2>5. more \in [code : {0}, value : Nat]
    BY <2>2, <2>4 DEF Counted
  <2> QED
    BY <2>2, <2>5
<1>5. CASE N < HeaderBytes
  <2>1. f[0] = [code |-> 0, value |-> 0] \/ f[0] = Fail(13)
    BY <1>1, <1>2, <1>5 DEF Counts
  <2>2. ~(f[0].code = 0 /\ f[0].value = 1)
    BY <2>1 DEF Fail
  <2> QED
    BY <1>1, <1>2, <1>5, <2>2
<1>6. CASE N >= HeaderBytes
  <2> DEFINE more == f[next]
  <2>1. next \in Nat
    BY <1>2, <1>6, LengthOfHeader
  <2>2. f[0] = IF Length(b) > MaxMessageBytes THEN Fail(8)
               ELSE IF more.code # 0 THEN more
               ELSE [more EXCEPT !.value = @ + 1]
    <3>1. 0 + 2 = 2 /\ 0 + HeaderBytes = HeaderBytes /\ ~(0 >= N) /\ ~(0 + HeaderBytes > N)
      BY <1>2, <1>6
    <3>2. Uint32(SubSeq(b, 0 + 2, 0 + HeaderBytes)) = Length(b) /\ 0 + HeaderBytes + Length(b) = next
      BY <3>1 DEF Length
    <3> QED
      BY <1>1, <3>1, <3>2 DEF Counts
  <2>3. more \in Counted
    BY <2>1
  <2>4. next >= N => more = [code |-> 0, value |-> 0]
    BY <1>3, <2>1
  <2>5. next < N /\ more.code = 0 => more.value \in Nat /\ more.value > 0
    BY <1>4, <2>1
  <2> HIDE DEF more
  <2>6. more.code = 0 => more \in [code : {0}, value : Nat]
    BY <2>3 DEF Counted
  <2>7. CASE Length(b) > MaxMessageBytes
    <3>1. f[0].code # 0
      BY <2>2, <2>7 DEF Fail
    <3> QED
      BY <1>1, <2>7, <3>1
  <2>8. CASE ~(Length(b) > MaxMessageBytes) /\ more.code # 0
    <3>1. ~(next >= N) /\ f[0].code # 0
      BY <2>2, <2>4, <2>8
    <3> QED
      BY <1>1, <3>1
  <2>9. CASE ~(Length(b) > MaxMessageBytes) /\ more.code = 0
    <3>1. f[0].code = 0 /\ f[0].value = more.value + 1 /\ more.value \in Nat
      BY <2>2, <2>6, <2>9
    <3>2. f[0].value = 1 <=> next >= N
      BY <1>2, <2>1, <2>4, <2>5, <2>9, <3>1
    <3> QED
      BY <1>1, <1>6, <2>9, <3>1, <3>2
  <2> QED
    BY <2>7, <2>8, <2>9
<1> QED
  BY <1>2, <1>5, <1>6

\* For every body: Dispatch takes it for a request exactly where a reader of the stream
\* would read one message and nothing behind it, and takes the same message.
THEOREM OneMessage == Spec => []OneMessageRequests
<1>1. ASSUME NEW b \in Seq(Byte)
      PROVE  LET r == ReadFrameDecompressed(b, "EOF")
                 m == requestMessage(b)
             IN  /\ m.code = 0 <=> r.err = "ok" /\ r.used = Len(b) /\ Len(b) <= MaxMessageBytes
                 /\ m.code = 0 => m.value = r.payload
  <2> DEFINE r == ReadFrameDecompressed(b, "EOF")
             m == requestMessage(b)
             n == countFrames(b)
             one == readSingleFrame(b)
             opens == Compressed(b[1]) => IsGzip(Payload(b))
             message == IF Compressed(b[1]) THEN GzipDecompress(Payload(b)) ELSE Payload(b)
  <2>1. Len(b) \in Nat /\ HeaderBytes \in Nat /\ MaxMessageBytes \in Nat
        /\ (Len(b) >= HeaderBytes => Length(b) \in Nat)
    BY HeaderIsNat, CapIsNat, LengthOfHeader
  <2>2. /\ r.err = "ok" <=> Whole(b) /\ opens
        /\ r.err = "ok" => r.used = HeaderBytes + Length(b) /\ r.payload = message
    BY ReadDecompressed
  <2>3. n.code = 0 /\ n.value = 1 <=> /\ Len(b) >= HeaderBytes /\ ~(Length(b) > MaxMessageBytes)
                                      /\ HeaderBytes + Length(b) >= Len(b)
    BY CountsOne
  <2>4. m = IF tooLarge(b) THEN Fail(8) ELSE IF n.code # 0 THEN n
            ELSE IF n.value # 1 THEN Fail(12) ELSE one
    BY DEF requestMessage
  <2>5. /\ Whole(b) /\ opens => one = [code |-> 0, value |-> message]
        /\ ~(Whole(b) /\ opens) => one.code # 0
    <3>1. one = IF Len(b) < HeaderBytes THEN Fail(13)
                ELSE IF Length(b) > MaxMessageBytes THEN Fail(8)
                ELSE IF Len(b) < HeaderBytes + Length(b) THEN Fail(13)
                ELSE IF ~Compressed(b[1]) THEN [code |-> 0, value |-> Payload(b)]
                ELSE IF IsGzip(Payload(b))
                THEN [code |-> 0, value |-> GzipDecompress(Payload(b))] ELSE Fail(13)
      BY DEF readSingleFrame
    <3> HIDE DEF one
    <3>2. Fail(13).code = 13 /\ Fail(8).code = 8
      BY DEF Fail
    <3> QED
      BY <2>1, <3>1, <3>2 DEF Whole
  <2> HIDE DEF one, n, r, m, opens, message
  <2>6. Fail(12).code = 12 /\ Fail(8).code = 8
    BY DEF Fail
  <2>7. m.code = 0 <=> ~tooLarge(b) /\ n.code = 0 /\ n.value = 1 /\ one.code = 0
    BY <2>4, <2>6
  <2>8. m.code = 0 => m = one
    BY <2>4, <2>6
  <2>9. one.code = 0 <=> Whole(b) /\ opens
    BY <2>5
  <2>10. tooLarge(b) <=> ~(Len(b) <= MaxMessageBytes)
    BY <2>1 DEF tooLarge
  <2>11. m.code = 0 <=> r.err = "ok" /\ r.used = Len(b) /\ Len(b) <= MaxMessageBytes
    BY <2>1, <2>2, <2>3, <2>7, <2>9, <2>10 DEF Whole
  <2>12. m.code = 0 => m.value = r.payload
    BY <2>2, <2>5, <2>7, <2>8, <2>9
  <2> QED
    BY <2>11, <2>12 DEF m, r
<1>2. TypeOK => OneMessageRequests
  BY <1>1 DEF TypeOK, OneMessageRequests
<1> QED
  BY <1>2, TypeCorrect, PTL

-----------------------------------------------------------------------------
(* The request body as Negotiation sees it.                                *)

\* What abstractBody can be.
Envelope == [len : Nat, have : Nat, flagged : BOOLEAN, gzip : BOOLEAN]
AbstractBody == [frames : Seq(Envelope), extra : Nat, gzip : {FALSE}]

\* g adds up the bytes of a body, frame by frame.
AddsUp(g, body) ==
  /\ g[0] = body.extra
  /\ \A i \in 1..Len(body.frames) : g[i] = g[i - 1] + HeaderBytes + body.frames[i].have

\* BodyBytes, a fold, is such a sum.
LEMMA BytesAddUp ==
  ASSUME NEW body \in AbstractBody
  PROVE  \E g \in [Nat -> Nat] : AddsUp(g, body) /\ Negotiation!BodyBytes(body) = g[Len(body.frames)]
<1> DEFINE q == body.frames
           n == Len(q)
           base == body.extra
           more(m, i) == m + HeaderBytes + q[i].have
           step == [x \in Nat \X Nat |-> IF x[2] \in 1..n THEN more(x[1], x[2]) ELSE x[1]]
           F(it) == it = [s \in SUBSET (DOMAIN q) |->
                           IF s = {} THEN base ELSE more(it[s \ {Max(s)}], Max(s))]
           it == CHOOSE f : F(f)
<1>1. q \in Seq(Envelope) /\ n \in Nat /\ DOMAIN q = 1..n /\ base \in Nat
  BY DEF AbstractBody
<1>2. \A i \in 1..n : q[i].have \in Nat
  <2>1. \A i \in 1..n : q[i] \in Envelope
    BY <1>1
  <2>2. \A e \in Envelope : e.have \in Nat
    BY DEF Envelope
  <2> QED
    BY <2>1, <2>2
<1>3. ASSUME NEW m \in Nat, NEW i \in 1..n PROVE more(m, i) \in Nat
  BY <1>2, HeaderIsNat
<1> HIDE DEF more
<1>4. step \in [Nat \X Nat -> Nat]
  BY <1>3
<1>5. \A m \in Nat, i \in 1..n : step[<< m, i >>] = more(m, i)
  BY <1>1
<1> HIDE DEF step, n, q, base
<1>6. PICK g \in [Nat -> Nat] : CountsUp(g, base, step)
  BY <1>1, <1>4, RecursionUp
<1>7. PICK f \in [SUBSET (1..n) -> Nat] : FoldsUp(f, n, base, step)
  BY <1>1, <1>4, FoldingUp
<1>8. F(f)
  <2>1. ASSUME NEW s \in SUBSET (1..n)
        PROVE  f[s] = IF s = {} THEN base ELSE more(f[s \ {Max(s)}], Max(s))
    <3>1. CASE s = {}
      BY <1>7, <3>1 DEF FoldsUp
    <3>2. CASE s # {}
      <4>1. s \subseteq 0..n
        BY <1>1
      <4>2. Max(s) \in 1..n /\ s \ {Max(s)} \in SUBSET (1..n)
        BY <1>1, <3>2, <4>1, MaxOf
      <4>3. f[s \ {Max(s)}] \in Nat
        BY <4>2
      <4> QED
        BY <1>5, <1>7, <3>2, <4>2, <4>3 DEF FoldsUp
    <3> QED
      BY <3>1, <3>2
  <2>2. f = [s \in SUBSET (1..n) |-> f[s]]
    OBVIOUS
  <2>3. f = [s \in SUBSET (1..n) |-> IF s = {} THEN base ELSE more(f[s \ {Max(s)}], Max(s))]
    BY <2>1, <2>2
  <2> QED
    BY <1>1, <2>3
<1>9. Negotiation!BodyBytes(body) = it[DOMAIN q]
  BY DEF Negotiation!BodyBytes, Negotiation!FoldLeft, Negotiation!MapThenFoldSet, Negotiation!Max, Max,
         Negotiation!HeaderBytes, HeaderBytes, more, q, base
<1>10. F(it)
  <2> HIDE DEF F
  <2> QED
    BY <1>8
<1> HIDE DEF it
<1>11. \A s \in SUBSET (1..n) : it[s] = IF s = {} THEN base ELSE more(it[s \ {Max(s)}], Max(s))
  BY <1>1, <1>10
<1> HIDE DEF F
<1>12. g[0] = base /\ \A i \in 1..n : g[i] = more(g[i - 1], i)
  <2>1. g[0] = base
    BY <1>6 DEF CountsUp
  <2>2. ASSUME NEW i \in 1..n PROVE g[i] = more(g[i - 1], i)
    <3>1. i \in Nat /\ i # 0 /\ i - 1 \in Nat
      BY <1>1
    <3>2. g[i] = step[<< g[i - 1], i >>] /\ g[i - 1] \in Nat
      BY <1>6, <3>1 DEF CountsUp
    <3> QED
      BY <1>5, <3>2
  <2> QED
    BY <2>1, <2>2
<1> DEFINE T == {k \in 0..n : it[1..k] = g[k]}
<1>13. 0 \in T
  <2>1. 1..0 = {} /\ {} \in SUBSET (1..n)
    OBVIOUS
  <2>2. it[1..0] = base
    BY <1>11, <2>1
  <2> QED
    BY <1>1, <1>12, <2>2
<1>14. ASSUME NEW k \in 0..(n - 1), k \in T PROVE k + 1 \in T
  <2>1. PICK m : m = k + 1
    OBVIOUS
  <2>2. m \in Nat /\ m # 0 /\ m \in 1..n /\ m - 1 = k /\ m \in 0..n
    BY <1>1, <2>1
  <2>7. m \in 1..m /\ \A i \in 1..m : i \in 1..n
    BY <1>1, <2>2
  <2>3. Max(1..m) = m /\ (1..m) \ {m} = 1..k
    BY <2>2, MaxOfInterval
  <2>4. it[1..m] = more(it[1..k], m)
    BY <1>11, <2>3, <2>7
  <2>5. it[1..k] = g[k]
    BY <1>14
  <2>6. g[m] = more(g[k], m)
    BY <1>12, <2>2
  <2> QED
    BY <2>1, <2>2, <2>4, <2>5, <2>6
<1> HIDE DEF T
<1>15. 0..n \subseteq T
  BY <1>1, <1>13, <1>14, InductionUpTo
<1>16. it[1..n] = g[n]
  BY <1>1, <1>15 DEF T
<1>17. AddsUp(g, body)
  BY <1>12 DEF AddsUp, more, q, n, base
<1> QED
  BY <1>1, <1>9, <1>16, <1>17 DEF n, q

\* A frame in front of a body adds its header and what there is of its payload.
LEMMA BytesInFront ==
  ASSUME NEW body \in AbstractBody, NEW rest \in AbstractBody, NEW e \in Envelope,
         body.frames = << e >> \o rest.frames, body.extra = rest.extra
  PROVE  Negotiation!BodyBytes(body) = Negotiation!BodyBytes(rest) + HeaderBytes + e.have
<1> DEFINE q == rest.frames
           r == body.frames
           n == Len(q)
<1>1. q \in Seq(Envelope) /\ n \in Nat /\ rest.extra \in Nat
  BY DEF AbstractBody
<1>2. e.have \in Nat /\ \A i \in 1..n : q[i].have \in Nat
  <2>1. \A i \in 1..n : q[i] \in Envelope
    BY <1>1
  <2>2. \A x \in Envelope : x.have \in Nat
    BY DEF Envelope
  <2> QED
    BY <2>1, <2>2
<1>3. Len(r) = n + 1 /\ r[1] = e /\ \A i \in 1..n : r[i + 1] = q[i]
  <2> HIDE DEF q, r
  <2>1. q \in Seq(Envelope) /\ r = << e >> \o q
    BY <1>1 DEF q, r
  <2> QED
    BY <2>1
<1>4. PICK g \in [Nat -> Nat] : AddsUp(g, rest) /\ Negotiation!BodyBytes(rest) = g[n]
  BY BytesAddUp
<1>5. PICK h \in [Nat -> Nat] : AddsUp(h, body) /\ Negotiation!BodyBytes(body) = h[Len(r)]
  BY BytesAddUp
<1>6. g[0] = rest.extra /\ \A i \in 1..n : g[i] = g[i - 1] + HeaderBytes + q[i].have
  BY <1>4 DEF AddsUp
<1>7. h[0] = rest.extra /\ \A i \in 1..(n + 1) : h[i] = h[i - 1] + HeaderBytes + r[i].have
  BY <1>3, <1>5 DEF AddsUp
<1> HIDE DEF q, r, n
<1> DEFINE T == {k \in 0..n : h[k + 1] = g[k] + HeaderBytes + e.have}
<1>8. 0 \in T
  <2>1. PICK j : j = 1
    OBVIOUS
  <2>2. j \in 1..(n + 1) /\ j - 1 = 0 /\ j = 0 + 1
    BY <1>1, <2>1
  <2>3. h[j] = h[0] + HeaderBytes + r[j].have
    BY <1>7, <2>2
  <2>4. h[0] = g[0] /\ r[j] = e
    BY <1>3, <1>6, <1>7, <2>1
  <2>5. h[0 + 1] = g[0] + HeaderBytes + e.have
    BY <2>2, <2>3, <2>4
  <2>6. 0 \in 0..n
    BY <1>1
  <2> QED
    BY <2>5, <2>6
<1>9. ASSUME NEW k \in 0..(n - 1), k \in T PROVE k + 1 \in T
  <2>1. PICK i, j : i = k + 1 /\ j = i + 1
    OBVIOUS
  <2>2. i \in 1..n /\ i \in 0..n /\ i - 1 = k /\ j \in 1..(n + 1) /\ j - 1 = i /\ k \in Nat /\ i \in Nat
    BY <1>1, <2>1
  <2>3. g[i] = g[k] + HeaderBytes + q[i].have
    BY <1>6, <2>2
  <2>4. h[j] = h[i] + HeaderBytes + q[i].have
    BY <1>3, <1>7, <2>1, <2>2
  <2>5. h[i] = g[k] + HeaderBytes + e.have
    BY <1>9, <2>1
  <2>6. g[k] \in Nat /\ q[i].have \in Nat
    BY <1>2, <2>2
  <2>7. h[j] = g[i] + HeaderBytes + e.have
    <3>1. PICK w, x, y, u : w = HeaderBytes /\ x = q[i].have /\ y = e.have /\ u = g[k]
      OBVIOUS
    <3>2. w \in Nat /\ x \in Nat /\ y \in Nat /\ u \in Nat
      BY <1>2, <2>6, <3>1, HeaderIsNat
    <3>3. (u + w + y) + w + x = (u + w + x) + w + y
      BY <3>2
    <3> QED
      BY <2>3, <2>4, <2>5, <3>1, <3>3
  <2> QED
    BY <2>1, <2>2, <2>7
<1> HIDE DEF T
<1>10. 0..n \subseteq T
  BY <1>1, <1>8, <1>9, InductionUpTo
<1>11. n \in T
  BY <1>1, <1>10
<1> QED
  BY <1>3, <1>4, <1>5, <1>11 DEF T, n

\* Without frames there are only the bytes behind them.
LEMMA NoBytes ==
  ASSUME NEW body \in AbstractBody, body.frames = << >>
  PROVE  Negotiation!BodyBytes(body) = body.extra
<1>1. Len(body.frames) = 0
  OBVIOUS
<1>2. PICK g \in [Nat -> Nat] : AddsUp(g, body) /\ Negotiation!BodyBytes(body) = g[Len(body.frames)]
  BY BytesAddUp
<1> QED
  BY <1>1, <1>2 DEF AddsUp


\* What abstractBody makes of the frame that b begins with.
arrivedOf(b) == IF Len(b) < HeaderBytes + Length(b) THEN Len(b) - HeaderBytes ELSE Length(b)

envelope(b) ==
  [len |-> Length(b), have |-> arrivedOf(b), flagged |-> Compressed(b[1]),
   gzip |-> arrivedOf(b) = Length(b) /\ IsGzip(Payload(b))]

leftAt(off) == SubSeq(wire, off + 1, Len(wire))

\* f describes the frames of the body from every offset on, as abstractBody does.
Describes(f) ==
  \A off \in Nat :
    LET b == leftAt(off)
    IN  f[off] = IF Len(b) < HeaderBytes THEN [frames |-> << >>, extra |-> Len(b), gzip |-> FALSE]
                 ELSE [f[off + HeaderBytes + Length(b)] EXCEPT !.frames = << envelope(b) >> \o @]

LEMMA EnvelopeType ==
  ASSUME NEW b \in Seq(Byte), Len(b) >= HeaderBytes
  PROVE  envelope(b) \in Envelope
<1>1. Length(b) \in Nat /\ Len(b) \in Nat
  BY LengthOfHeader
<1>2. arrivedOf(b) \in Nat
  BY <1>1, HeaderIsNat DEF arrivedOf
<1>3. Compressed(b[1]) \in BOOLEAN /\ (arrivedOf(b) = Length(b) /\ IsGzip(Payload(b))) \in BOOLEAN
  BY DEF Compressed
<1> QED
  BY <1>1, <1>2, <1>3 DEF envelope, Envelope

LEMMA LeftAt ==
  ASSUME wire \in Seq(Byte), NEW off \in Nat
  PROVE  leftAt(off) \in Seq(Byte)
         /\ Len(leftAt(off)) = IF off >= Len(wire) THEN 0 ELSE Len(wire) - off
<1>1. CASE off >= Len(wire)
  BY <1>1 DEF leftAt
<1>2. CASE ~(off >= Len(wire))
  BY <1>2, Rest DEF leftAt
<1> QED
  BY <1>1, <1>2

LEMMA DescriptionHolds ==
  ASSUME wire \in Seq(Byte)
  PROVE  \E f \in [Nat -> AbstractBody] : Describes(f) /\ abstractBody = f[0]
<1> DEFINE N == Len(wire)
           none(off) == [frames |-> << >>, extra |-> Len(leftAt(off)), gzip |-> FALSE]
           size(off) == Length(leftAt(off))
           short(off) == Len(leftAt(off)) < HeaderBytes
           add(more, off) == IF short(off) THEN none(off)
                             ELSE [more EXCEPT !.frames = << envelope(leftAt(off)) >> \o @]
           to(off) == IF short(off) THEN off + 1 ELSE off + HeaderBytes + size(off)
           base == [off \in Nat |-> none(off)]
           step == [x \in AbstractBody \X Nat |-> add(x[1], x[2])]
           next == [off \in Nat |-> to(off)]
           Same(f) == f = [off \in Nat |-> IF short(off) THEN none(off)
                      ELSE [f[off + HeaderBytes + size(off)] EXCEPT !.frames = << envelope(leftAt(off)) >> \o @]]
<1>1. N \in Nat /\ HeaderBytes \in Nat /\ HeaderBytes > 0
  BY DEF HeaderBytes
<1>2. \A off \in Nat : leftAt(off) \in Seq(Byte) /\ Len(leftAt(off)) \in Nat
  BY LeftAt
<1>3. \A off \in Nat : off >= N => short(off)
  BY <1>1, LeftAt
<1>4. ASSUME NEW off \in Nat, ~short(off)
      PROVE  size(off) \in Nat /\ envelope(leftAt(off)) \in Envelope
  <2>1. leftAt(off) \in Seq(Byte) /\ Len(leftAt(off)) >= HeaderBytes
    BY <1>1, <1>2, <1>4
  <2> QED
    BY <2>1, LengthOfHeader, EnvelopeType
<1> HIDE DEF size, short
<1>5. \A off \in Nat : to(off) \in Nat /\ to(off) > off
  BY <1>1, <1>4
<1>6. ASSUME NEW off \in Nat PROVE none(off) \in AbstractBody
  <2>1. << >> \in Seq(Envelope) /\ Len(leftAt(off)) \in Nat
    BY <1>2
  <2> QED
    BY <2>1 DEF AbstractBody
<1>7. ASSUME NEW more \in AbstractBody, NEW off \in Nat PROVE add(more, off) \in AbstractBody
  <2>1. CASE short(off)
    BY <1>6, <2>1
  <2>2. CASE ~short(off)
    <3>1. PICK e : e = envelope(leftAt(off))
      OBVIOUS
    <3>2. e \in Envelope /\ more.frames \in Seq(Envelope)
      BY <1>4, <2>2, <3>1 DEF AbstractBody
    <3>3. << e >> \o more.frames \in Seq(Envelope)
      BY <3>2
    <3>4. [more EXCEPT !.frames = << e >> \o @] \in AbstractBody
      BY <3>3 DEF AbstractBody
    <3> QED
      BY <2>2, <3>1, <3>4
  <2> QED
    BY <2>1, <2>2
<1>8. base \in [Nat -> AbstractBody]
  BY <1>6
<1> HIDE DEF add, to, none
<1>9. step \in [AbstractBody \X Nat -> AbstractBody]
  BY <1>7
<1>10. next \in [Nat -> Nat] /\ \A o \in Nat : next[o] > o
  BY <1>5
<1>11. /\ \A more \in AbstractBody, off \in Nat : step[<< more, off >>] = add(more, off)
       /\ \A off \in Nat : next[off] = to(off) /\ base[off] = none(off)
  OBVIOUS
<1> HIDE DEF step, next, base
<1>12. PICK f \in [Nat -> AbstractBody] : CountsDown(f, N, base, step, next)
  BY <1>1, <1>8, <1>9, <1>10, RecursionDown, Zenon
<1>13. ASSUME NEW g, NEW off \in Nat
       PROVE  add(g[to(off)], off) =
                IF short(off) THEN none(off)
                ELSE [g[off + HeaderBytes + size(off)] EXCEPT !.frames = << envelope(leftAt(off)) >> \o @]
  BY DEF add, to
<1>14. ASSUME NEW off \in Nat PROVE f[off] = add(f[to(off)], off)
  <2>1. f[off] = IF off >= N THEN base[off] ELSE step[<< f[next[off]], off >>]
    BY <1>12 DEF CountsDown
  <2>2. f[to(off)] \in AbstractBody
    BY <1>5
  <2>3. f[off] = IF off >= N THEN none(off) ELSE add(f[to(off)], off)
    BY <1>11, <2>1, <2>2
  <2>4. off >= N => add(f[to(off)], off) = none(off)
    BY <1>3 DEF add
  <2> QED
    BY <2>3, <2>4
<1>15. Same(f)
  <2>1. f = [off \in Nat |-> f[off]]
    OBVIOUS
  <2>2. \A off \in Nat : f[off] = IF short(off) THEN none(off)
          ELSE [f[off + HeaderBytes + size(off)] EXCEPT !.frames = << envelope(leftAt(off)) >> \o @]
    BY <1>13, <1>14
  <2> QED
    BY <2>1, <2>2
<1> DEFINE from == CHOOSE g : Same(g)
<1>16. abstractBody = from[0]
  BY DEF abstractBody, size, short, none, leftAt, envelope, arrivedOf
<1>17. Same(from)
  <2> HIDE DEF Same
  <2> QED
    BY <1>15
<1> HIDE DEF from
<1>18. DOMAIN from = Nat /\ from = [off \in Nat |-> from[off]]
  BY <1>17
<1>19. \A off \in Nat : from[off] = IF short(off) THEN none(off)
          ELSE [from[off + HeaderBytes + size(off)] EXCEPT !.frames = << envelope(leftAt(off)) >> \o @]
  BY <1>17
<1> HIDE DEF Same
<1>20. \A off \in Nat : from[off] = add(from[to(off)], off)
  BY <1>13, <1>19
<1> DEFINE Typed == {k \in Nat : \A off \in Nat : off + k >= N => from[off] \in AbstractBody}
<1>21. 0 \in Typed
  <2>1. \A off \in Nat : off >= N => from[off] = none(off)
    BY <1>3, <1>19
  <2> QED
    BY <1>1, <1>6, <2>1
<1>22. ASSUME NEW k \in Typed PROVE k + 1 \in Typed
  <2> SUFFICES ASSUME NEW off \in Nat, off + (k + 1) >= N PROVE from[off] \in AbstractBody
    OBVIOUS
  <2>1. k \in Nat /\ \A o \in Nat : o + k >= N => from[o] \in AbstractBody
    BY <1>22
  <2>2. PICK o : o = to(off)
    OBVIOUS
  <2>3. o \in Nat /\ o > off
    BY <1>5, <2>2
  <2>4. from[o] \in AbstractBody
    BY <1>1, <2>1, <2>3
  <2> QED
    BY <1>7, <1>20, <2>2, <2>4
<1> HIDE DEF Typed
<1>23. Typed = Nat
  <2>1. Typed \subseteq Nat
    BY DEF Typed
  <2> QED
    BY <1>21, <1>22, <2>1, InductionOnNat
<1>24. from \in [Nat -> AbstractBody]
  <2>1. ASSUME NEW off \in Nat PROVE from[off] \in AbstractBody
    <3>1. N \in Typed /\ off + N >= N
      BY <1>1, <1>23
    <3> QED
      BY <3>1 DEF Typed
  <2> QED
    BY <1>18, <2>1
<1>25. Describes(from)
  BY <1>19 DEF Describes, none, size, short
<1> QED
  BY <1>16, <1>24, <1>25

\* The length that countFrames looks up in the whole body.
LEMMA LengthAt ==
  ASSUME wire \in Seq(Byte), NEW off \in Nat, off + HeaderBytes <= Len(wire)
  PROVE  Length(leftAt(off)) = Uint32(SubSeq(wire, off + 2, off + HeaderBytes))
<1>1. PICK m : m = off + 1
  OBVIOUS
<1>2. m \in Nat /\ m + 4 <= Len(wire) /\ m + 1 = off + 2 /\ m + 4 = off + HeaderBytes /\ off <= Len(wire)
  BY <1>1 DEF HeaderBytes
<1>3. PICK b : b = leftAt(off)
  OBVIOUS
<1>4. b \in Seq(Byte) /\ Len(b) = Len(wire) - off /\ \A i \in 1..(Len(wire) - off) : b[i] = wire[off + i]
  BY <1>2, <1>3, Rest DEF leftAt
<1>5. 1 + 4 <= Len(b) /\ \A i \in 1..4 : b[1 + i] = wire[m + i]
  <2>1. 1 + 4 <= Len(b)
    BY <1>1, <1>2, <1>4
  <2>2. \A i \in 1..4 : 1 + i \in 1..(Len(wire) - off) /\ off + (1 + i) = m + i
    BY <1>1, <1>2
  <2>3. ASSUME NEW i \in 1..4 PROVE b[1 + i] = wire[m + i]
    <3>1. PICK j : j = 1 + i
      OBVIOUS
    <3>2. j \in 1..(Len(wire) - off) /\ off + j = m + i
      BY <2>2, <3>1
    <3> QED
      BY <1>4, <3>1, <3>2
  <2> QED
    BY <2>1, <2>3
<1>6. SubSeq(b, 1 + 1, 1 + 4) = SubSeq(wire, m + 1, m + 4)
  BY <1>2, <1>4, <1>5, SameSlice
<1>7. SubSeq(b, 2, 5) = SubSeq(wire, off + 2, off + HeaderBytes)
  <2>1. SubSeq(b, 1 + 1, 1 + 4) = SubSeq(b, 2, 5)
    OBVIOUS
  <2>2. SubSeq(wire, m + 1, m + 4) = SubSeq(wire, off + 2, off + HeaderBytes)
    BY <1>2, Zenon
  <2> QED
    BY <1>6, <2>1, <2>2, Zenon
<1> QED
  BY <1>3, <1>7 DEF Length, HeaderBytes

\* A frame above the cap.
HasOversized(q) == \E i \in DOMAIN q : q[i].len > MaxMessageBytes

LEMMA OversizedInFront ==
  ASSUME NEW q \in Seq(Envelope), NEW e \in Envelope
  PROVE  /\ << e >> \o q \in Seq(Envelope) /\ Len(<< e >> \o q) = Len(q) + 1 /\ (<< e >> \o q)[1] = e
         /\ HasOversized(<< e >> \o q) <=> e.len > MaxMessageBytes \/ HasOversized(q)
<1>1. PICK r : r = << e >> \o q
  OBVIOUS
<1>2. r \in Seq(Envelope) /\ Len(r) = Len(q) + 1 /\ r[1] = e /\ \A i \in 1..Len(q) : r[i + 1] = q[i]
  BY <1>1
<1>3. Len(q) \in Nat /\ DOMAIN q = 1..Len(q) /\ DOMAIN r = 1..(Len(q) + 1)
  BY <1>2
<1>4. ASSUME HasOversized(r) PROVE e.len > MaxMessageBytes \/ HasOversized(q)
  <2>1. PICK i \in DOMAIN r : r[i].len > MaxMessageBytes
    BY <1>4 DEF HasOversized
  <2>2. CASE i = 1
    BY <1>2, <2>1, <2>2
  <2>3. CASE i # 1
    <3>3. i \in 1..(Len(q) + 1)
      BY <1>3
    <3>4. i - 1 \in 1..Len(q) /\ i = (i - 1) + 1
      BY <1>3, <2>3, <3>3
    <3>1. PICK j \in 1..Len(q) : i = j + 1
      BY <3>4
    <3>2. r[i] = q[j] /\ j \in DOMAIN q
      BY <1>2, <1>3, <3>1
    <3> QED
      BY <2>1, <3>2 DEF HasOversized
  <2> QED
    BY <2>2, <2>3
<1>5. ASSUME e.len > MaxMessageBytes PROVE HasOversized(r)
  <2>1. 1 \in DOMAIN r
    BY <1>3
  <2> QED
    BY <1>2, <1>5, <2>1 DEF HasOversized
<1>6. ASSUME HasOversized(q) PROVE HasOversized(r)
  <2>1. PICK i \in DOMAIN q : q[i].len > MaxMessageBytes
    BY <1>6 DEF HasOversized
  <2>2. PICK j : j = i + 1
    OBVIOUS
  <2>3. j \in DOMAIN r /\ r[j] = q[i]
    BY <1>2, <1>3, <2>2
  <2> QED
    BY <2>1, <2>3 DEF HasOversized
<1> QED
  BY <1>1, <1>2, <1>4, <1>5, <1>6

\* The check on the described body.
LEMMA CountError ==
  ASSUME NEW body
  PROVE  Negotiation!countFramesError(body) =
           IF HasOversized(body.frames) THEN 8 ELSE IF body.extra > 0 THEN 13 ELSE 0
  BY DEF Negotiation!countFramesError, HasOversized

\* What is counted from the bytes is what is counted in the description.
Agree(off, n, body) ==
  /\ Negotiation!BodyBytes(body) = Len(leftAt(off))
  /\ n.code = Negotiation!countFramesError(body)
  /\ n.code = 0 => n.value = Len(body.frames)

LEMMA AgreeAtEnd ==
  ASSUME wire \in Seq(Byte), NEW off \in Nat, off + HeaderBytes > Len(wire),
         NEW f \in [Nat -> Counted], Counts(wire, f), NEW g \in [Nat -> AbstractBody], Describes(g)
  PROVE  Agree(off, f[off], g[off])
<1>1. PICK b, n : b = leftAt(off) /\ n = Len(b)
  OBVIOUS
<1>2. n \in Nat /\ n < HeaderBytes /\ (n = 0 <=> off >= Len(wire))
  <2>1. n = IF off >= Len(wire) THEN 0 ELSE Len(wire) - off
    BY <1>1, LeftAt
  <2> QED
    BY <2>1 DEF HeaderBytes
<1>3. PICK body : body = g[off]
  OBVIOUS
<1>4. body = [frames |-> << >>, extra |-> n, gzip |-> FALSE]
  BY <1>1, <1>2, <1>3 DEF Describes
<1>5. body \in AbstractBody /\ body.frames = << >> /\ body.extra = n
  <2>1. body \in AbstractBody
    BY <1>3
  <2> QED
    BY <1>4, <2>1
<1>6. Negotiation!BodyBytes(body) = n
  BY <1>5, NoBytes
<1>7. ~HasOversized(body.frames) /\ Len(body.frames) = 0
  BY <1>5 DEF HasOversized
<1>8. Negotiation!countFramesError(body) = IF n > 0 THEN 13 ELSE 0
  BY <1>5, <1>7, CountError
<1>9. f[off] = IF off >= Len(wire) THEN [code |-> 0, value |-> 0] ELSE Fail(13)
  BY HeaderIsNat DEF Counts
<1>10. /\ f[off].code = IF n > 0 THEN 13 ELSE 0
       /\ f[off].code = 0 => f[off].value = 0
  BY <1>2, <1>9 DEF Fail
<1> QED
  BY <1>1, <1>3, <1>6, <1>7, <1>8, <1>10 DEF Agree

LEMMA AgreeInFront ==
  ASSUME wire \in Seq(Byte), NEW off \in Nat, off + HeaderBytes <= Len(wire),
         NEW f \in [Nat -> Counted], Counts(wire, f), NEW g \in [Nat -> AbstractBody], Describes(g),
         NEW o \in Nat, o = off + HeaderBytes + Length(leftAt(off)), Agree(o, f[o], g[o])
  PROVE  Agree(off, f[off], g[off])
<1>1. PICK b, size, N : b = leftAt(off) /\ size = Length(b) /\ N = Len(wire)
  OBVIOUS
<1>2. b \in Seq(Byte) /\ Len(b) = N - off /\ N \in Nat /\ Len(b) >= HeaderBytes /\ HeaderBytes \in Nat
  <2>1. b \in Seq(Byte) /\ Len(b) = IF off >= N THEN 0 ELSE N - off
    BY <1>1, LeftAt
  <2>2. N \in Nat /\ off + HeaderBytes <= N
    BY <1>1
  <2> QED
    BY <2>1, <2>2 DEF HeaderBytes
<1>3. size \in Nat /\ envelope(b) \in Envelope /\ o = off + HeaderBytes + size
  BY <1>1, <1>2, LengthOfHeader, EnvelopeType
<1>4. PICK e, rest, body : e = envelope(b) /\ rest = g[o] /\ body = g[off]
  OBVIOUS
<1>5. e.len = size /\ e.have = arrivedOf(b) /\ e \in Envelope /\ rest \in AbstractBody /\ body \in AbstractBody
  BY <1>1, <1>3, <1>4 DEF envelope
<1>6. body = [rest EXCEPT !.frames = << e >> \o @]
  <2>1. ~(Len(b) < HeaderBytes)
    BY <1>2
  <2> QED
    BY <1>1, <1>3, <1>4, <2>1 DEF Describes
<1>7. body.frames = << e >> \o rest.frames /\ body.extra = rest.extra /\ rest.frames \in Seq(Envelope)
  BY <1>5, <1>6 DEF AbstractBody
<1>8. Negotiation!BodyBytes(body) = Len(b)
  <2>1. Negotiation!BodyBytes(body) = Negotiation!BodyBytes(rest) + HeaderBytes + e.have
    BY <1>5, <1>7, BytesInFront
  <2>2. Negotiation!BodyBytes(rest) = IF o >= N THEN 0 ELSE N - o
    BY <1>1, <1>4, LeftAt DEF Agree
  <2>3. e.have = IF Len(b) < HeaderBytes + size THEN Len(b) - HeaderBytes ELSE size
    BY <1>1, <1>5 DEF arrivedOf
  <2>4. PICK x, y : x = Negotiation!BodyBytes(rest) /\ y = e.have
    OBVIOUS
  <2>5. x + HeaderBytes + y = N - off
    <3>1. CASE Len(b) < HeaderBytes + size
      <4>1. o >= N /\ y = N - off - HeaderBytes /\ x = 0
        BY <1>2, <1>3, <2>2, <2>3, <2>4, <3>1
      <4> QED
        BY <1>2, <4>1
    <3>2. CASE ~(Len(b) < HeaderBytes + size)
      <4>1. o <= N /\ y = size /\ x = N - o
        BY <1>2, <1>3, <2>2, <2>3, <2>4, <3>2
      <4> QED
        BY <1>2, <1>3, <4>1
    <3> QED
      BY <3>1, <3>2
  <2> QED
    BY <1>2, <2>1, <2>4, <2>5
<1>9. /\ HasOversized(body.frames) <=> size > MaxMessageBytes \/ HasOversized(rest.frames)
      /\ Len(body.frames) = Len(rest.frames) + 1
  BY <1>5, <1>7, OversizedInFront
<1>10. PICK more, n : more = f[o] /\ n = f[off]
  OBVIOUS
<1>11. n = IF size > MaxMessageBytes THEN Fail(8)
           ELSE IF more.code # 0 THEN more ELSE [more EXCEPT !.value = @ + 1]
  <2>1. PICK s : s = Uint32(SubSeq(wire, off + 2, off + HeaderBytes))
    OBVIOUS
  <2>2. s = size
    BY <1>1, <2>1, LengthAt
  <2>3. ~(off >= Len(wire)) /\ ~(off + HeaderBytes > Len(wire))
    BY DEF HeaderBytes
  <2>4. n = IF s > MaxMessageBytes THEN Fail(8)
            ELSE IF f[off + HeaderBytes + s].code # 0 THEN f[off + HeaderBytes + s]
            ELSE [f[off + HeaderBytes + s] EXCEPT !.value = @ + 1]
    BY <1>10, <2>1, <2>3 DEF Counts
  <2> QED
    BY <1>3, <1>10, <2>2, <2>4
<1>12. /\ more.code = IF HasOversized(rest.frames) THEN 8 ELSE IF rest.extra > 0 THEN 13 ELSE 0
       /\ more.code = 0 => more.value = Len(rest.frames)
  BY <1>4, <1>10, CountError DEF Agree
<1>13. more.code = 0 => more \in [code : {0}, value : Nat]
  BY <1>10 DEF Counted
<1>14. /\ n.code = IF HasOversized(body.frames) THEN 8 ELSE IF body.extra > 0 THEN 13 ELSE 0
       /\ n.code = 0 => n.value = Len(body.frames)
  <2>1. CASE size > MaxMessageBytes
    BY <1>9, <1>11, <2>1 DEF Fail
  <2>2. CASE ~(size > MaxMessageBytes) /\ more.code # 0
    BY <1>7, <1>9, <1>11, <1>12, <2>2
  <2>3. CASE ~(size > MaxMessageBytes) /\ more.code = 0
    <3>1. n.code = 0 /\ n.value = more.value + 1
      BY <1>11, <1>13, <2>3
    <3> QED
      BY <1>7, <1>9, <1>12, <2>3, <3>1
  <2> QED
    BY <2>1, <2>2, <2>3
<1> QED
  BY <1>1, <1>4, <1>8, <1>10, <1>14, CountError DEF Agree

LEMMA AgreeEverywhere ==
  ASSUME wire \in Seq(Byte),
         NEW f \in [Nat -> Counted], Counts(wire, f), NEW g \in [Nat -> AbstractBody], Describes(g)
  PROVE  \A off \in Nat : Agree(off, f[off], g[off])
<1> DEFINE N == Len(wire)
           T == {k \in Nat : \A off \in Nat : off + k >= N => Agree(off, f[off], g[off])}
<1>1. N \in Nat /\ HeaderBytes \in Nat /\ HeaderBytes > 0
  BY DEF HeaderBytes
<1>2. 0 \in T
  <2>1. ASSUME NEW off \in Nat, off + 0 >= N PROVE Agree(off, f[off], g[off])
    <3>1. off + HeaderBytes > Len(wire)
      BY <1>1, <2>1
    <3> QED
      BY <3>1, AgreeAtEnd
  <2> QED
    BY <2>1
<1>3. ASSUME NEW k \in T PROVE k + 1 \in T
  <2>1. ASSUME NEW off \in Nat, off + (k + 1) >= N PROVE Agree(off, f[off], g[off])
    <3>1. CASE off + HeaderBytes > Len(wire)
      BY <3>1, AgreeAtEnd
    <3>2. CASE ~(off + HeaderBytes > Len(wire))
      <4>1. off + HeaderBytes <= Len(wire)
        BY <1>1, <3>2
      <4>2. leftAt(off) \in Seq(Byte) /\ Len(leftAt(off)) >= HeaderBytes
        <5>1. PICK b : b = leftAt(off)
          OBVIOUS
        <5>2. b \in Seq(Byte) /\ Len(b) = IF off >= N THEN 0 ELSE N - off
          BY <5>1, LeftAt
        <5> QED
          BY <1>1, <4>1, <5>1, <5>2
      <4>3. Length(leftAt(off)) \in Nat
        BY <4>2, LengthOfHeader
      <4>4. PICK o : o = off + HeaderBytes + Length(leftAt(off))
        OBVIOUS
      <4>5. o \in Nat /\ k \in Nat /\ o + k >= N
        BY <1>1, <2>1, <4>3, <4>4
      <4>6. Agree(o, f[o], g[o])
        BY <4>5
      <4> QED
        BY <4>1, <4>4, <4>5, <4>6, AgreeInFront
    <3> QED
      BY <3>1, <3>2
  <2> HIDE DEF Agree
  <2> QED
    BY <2>1
<1> HIDE DEF T
<1>4. T = Nat
  <2>1. T \subseteq Nat
    BY DEF T
  <2> QED
    BY <1>2, <1>3, <2>1, InductionOnNat
<1>5. N \in T /\ \A off \in Nat : off + N >= N
  BY <1>1, <1>4
<1> QED
  BY <1>5 DEF T

\* For every body of bytes: described as frames, it has the same length, and within the
\* cap the checks of module Negotiation give it the code that Dispatch does.
THEOREM AbstractionIsExact == Spec => []NegotiationIsExact
<1>1. ASSUME wire \in Seq(Byte) PROVE NegotiationIsExact
  <2>1. PICK f \in [Nat -> Counted] : Counts(wire, f) /\ countFrames(wire) = f[0]
    BY <1>1, CountHolds
  <2>2. PICK g \in [Nat -> AbstractBody] : Describes(g) /\ abstractBody = g[0]
    BY <1>1, DescriptionHolds
  <2>3. PICK n, body, b : n = f[0] /\ body = g[0] /\ b = wire
    OBVIOUS
  <2>4. Agree(0, n, body)
    BY <1>1, <2>1, <2>2, <2>3, AgreeEverywhere
  <2>5. leftAt(0) = b /\ b \in Seq(Byte) /\ Len(b) \in Nat
    <3>1. PICK t : t = leftAt(0)
      OBVIOUS
    <3>2. t \in Seq(Byte) /\ Len(t) = Len(wire) /\ \A i \in 1..Len(wire) : t[i] = wire[i]
      <4>1. 0 <= Len(wire) /\ Len(wire) - 0 = Len(wire) /\ \A i \in 1..Len(wire) : 0 + i = i
        BY <1>1
      <4> QED
        BY <1>1, <3>1, <4>1, Rest DEF leftAt
    <3>3. t = wire
      BY <1>1, <3>2, SeqEqual
    <3> QED
      BY <1>1, <2>3, <3>1, <3>3
  <2>6. Negotiation!BodyBytes(body) = Len(b)
    BY <2>4, <2>5 DEF Agree
  <2>7. n.code = Negotiation!countFramesError(body) /\ (n.code = 0 => n.value = Len(body.frames))
    BY <2>4 DEF Agree
  <2>8. ASSUME Len(b) <= MaxMessageBytes
        PROVE  Negotiation!streamBodyError(body) = requestMessage(b).code
    <3> DEFINE one == readSingleFrame(b)
               lone == Negotiation!readSingleFrameError(body)
    <3>1. requestMessage(b) = IF n.code # 0 THEN n ELSE IF n.value # 1 THEN Fail(12) ELSE one
      <4>1. ~tooLarge(b)
        BY <2>5, <2>8, CapIsNat DEF tooLarge
      <4> QED
        BY <2>1, <2>3, <4>1 DEF requestMessage
    <3>2. Negotiation!streamBodyError(body) =
            IF n.code # 0 THEN n.code ELSE IF Len(body.frames) # 1 THEN 12 ELSE lone
      BY <2>7 DEF Negotiation!streamBodyError
    <3>3. ASSUME n.code = 0, Len(body.frames) = 1 PROVE lone = one.code
      <4>1. Len(b) >= HeaderBytes
        <5>1. CASE Len(b) < HeaderBytes
          <6>1. body = [frames |-> << >>, extra |-> Len(b), gzip |-> FALSE]
            BY <2>2, <2>3, <2>5, <5>1, Zenon DEF Describes
          <6> QED
            BY <3>3, <6>1
        <5> QED
          BY <2>5, <5>1, HeaderIsNat
      <4>2. PICK o : o = 0 + HeaderBytes + Length(b)
        OBVIOUS
      <4>3. o \in Nat /\ Length(b) \in Nat
        BY <2>5, <4>1, <4>2, HeaderIsNat, LengthOfHeader
      <4>4. PICK e, rest : e = envelope(b) /\ rest = g[o]
        OBVIOUS
      <4>5. body = [rest EXCEPT !.frames = << e >> \o @]
        <5>1. ~(Len(b) < HeaderBytes)
          BY <2>5, <4>1, HeaderIsNat
        <5> QED
          BY <2>2, <2>3, <2>5, <4>2, <4>4, <5>1 DEF Describes
      <4>6. rest \in AbstractBody /\ rest.frames \in Seq(Envelope) /\ body.frames = << e >> \o rest.frames
        <5>1. rest \in AbstractBody
          BY <4>3, <4>4
        <5> QED
          BY <4>5, <5>1 DEF AbstractBody
      <4>7. e \in Envelope
        BY <2>5, <4>1, <4>4, EnvelopeType
      <4>8. body.frames[1] = e /\ (HasOversized(body.frames) <=> e.len > MaxMessageBytes \/ HasOversized(rest.frames))
        BY <4>6, <4>7, OversizedInFront
      <4>9. ~(e.len > MaxMessageBytes)
        <5>1. n.code = IF HasOversized(body.frames) THEN 8 ELSE IF body.extra > 0 THEN 13 ELSE 0
          BY <2>7, CountError, Zenon
        <5> QED
          BY <3>3, <4>8, <5>1
      <4>10. /\ e.len = Length(b) /\ e.have = arrivedOf(b) /\ e.flagged = Compressed(b[1])
             /\ e.gzip = (arrivedOf(b) = Length(b) /\ IsGzip(Payload(b)))
        BY <4>4 DEF envelope
      <4>11. lone = IF e.have < e.len \/ (e.flagged /\ ~e.gzip) THEN 13 ELSE 0
        BY <4>8 DEF Negotiation!readSingleFrameError
      <4>12. one = IF Len(b) < HeaderBytes + Length(b) THEN Fail(13)
                   ELSE IF ~Compressed(b[1]) THEN [code |-> 0, value |-> Payload(b)]
                   ELSE IF IsGzip(Payload(b))
                   THEN [code |-> 0, value |-> GzipDecompress(Payload(b))] ELSE Fail(13)
        <5>1. ~(Len(b) < HeaderBytes) /\ ~(Length(b) > MaxMessageBytes)
          BY <2>5, <4>1, <4>9, <4>10, HeaderIsNat
        <5> QED
          BY <5>1 DEF readSingleFrame
      <4> HIDE DEF one, lone
      <4>13. CASE Len(b) < HeaderBytes + Length(b)
        <5>1. e.have < e.len
          BY <2>5, <4>3, <4>10, <4>13, HeaderIsNat DEF arrivedOf
        <5>2. one.code = 13
          BY <4>12, <4>13 DEF Fail
        <5> QED
          BY <4>11, <5>1, <5>2
      <4>14. CASE ~(Len(b) < HeaderBytes + Length(b))
        <5>1. arrivedOf(b) = Length(b) /\ ~(e.have < e.len)
          BY <4>3, <4>10, <4>14 DEF arrivedOf
        <5>2. lone = IF Compressed(b[1]) /\ ~IsGzip(Payload(b)) THEN 13 ELSE 0
          BY <4>10, <4>11, <5>1
        <5>3. one.code = IF Compressed(b[1]) /\ ~IsGzip(Payload(b)) THEN 13 ELSE 0
          BY <4>12, <4>14 DEF Fail
        <5> QED
          BY <5>2, <5>3
      <4> QED
        BY <4>13, <4>14
    <3> HIDE DEF one, lone
    <3>4. Fail(12).code = 12
      BY DEF Fail
    <3> QED
      BY <2>7, <3>1, <3>2, <3>3, <3>4
  <2> QED
    BY <2>2, <2>3, <2>6, <2>8 DEF NegotiationIsExact
<1>2. TypeOK => NegotiationIsExact
  BY <1>1 DEF TypeOK
<1> QED
  BY <1>2, TypeCorrect, PTL
=============================================================================
