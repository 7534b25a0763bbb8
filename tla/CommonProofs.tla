---------------------------- MODULE CommonProofs ----------------------------
(***************************************************************************)
(* What the proofs of several components rest on: induction and recursion  *)
(* on the natural numbers, what the community modules' recursive operators *)
(* compute, and what the error vocabulary preserves.                       *)
(***************************************************************************)
EXTENDS Codes, SequencesExt, FiniteSetTheorems, TLAPS

-----------------------------------------------------------------------------
(* Induction and recursion, stated with sets and functions in place of     *)
(* predicates and operators, so that a proof can cite them: P(n) for all n *)
(* is { n \in Nat : P(n) } = Nat.  From them FlattenSeq, folds, and the    *)
(* order that SetToSeq puts a set in.                                      *)

\* Induction.  The intervals 0..n are finite sets, which inclusion orders well, so there
\* is a least one whose n is missing from S.
LEMMA InductionOnNat ==
  ASSUME NEW S, S \subseteq Nat, 0 \in S, \A n \in S : n + 1 \in S
  PROVE  S = Nat
<1> DEFINE T == {0..n : n \in Nat \ S}
<1>1. ASSUME NEW n \in Nat \ S PROVE FALSE
  <2>1. T \subseteq FiniteSubsetsOf(Nat)
    <3>1. ASSUME NEW k \in Nat PROVE 0..k \in SUBSET Nat /\ IsFiniteSet(0..k)
      BY FS_Interval
    <3> QED
      BY <3>1 DEF FiniteSubsetsOf
  <2>2. T # {}
    BY <1>1
  <2>3. PICK x \in T : \A y \in T : << y, x >> \notin StrictSubsetOrdering(Nat)
    <3> HIDE DEF T
    <3> QED
      BY <2>1, <2>2, FS_StrictSubsetOrderingWellFounded, WFMin
  <2>4. PICK k \in Nat \ S : x = 0..k
    OBVIOUS
  <2>5. k - 1 \in Nat \ S
    OBVIOUS
  <2>6. 0..(k - 1) \in T
    BY <2>5
  <2>7. << 0..(k - 1), 0..k >> \in StrictSubsetOrdering(Nat)
    <3>1. k \in 0..k /\ k \notin 0..(k - 1)
      OBVIOUS
    <3>2. 0..(k - 1) \subseteq 0..k /\ 0..(k - 1) # 0..k
      BY <3>1
    <3>3. 0..k \in SUBSET Nat /\ 0..(k - 1) \in SUBSET Nat
      OBVIOUS
    <3> QED
      BY <3>2, <3>3 DEF StrictSubsetOrdering
  <2> QED
    BY <2>3, <2>4, <2>6, <2>7
<1> QED
  BY <1>1

\* Induction up to a bound.
LEMMA InductionUpTo ==
  ASSUME NEW N \in Nat, NEW S, 0 \in S, \A n \in 0..(N - 1) : n \in S => n + 1 \in S
  PROVE  0..N \subseteq S
<1> DEFINE T == {n \in Nat : n <= N => n \in S}
<1>1. T \subseteq Nat /\ 0 \in T
  OBVIOUS
<1>2. \A n \in T : n + 1 \in T
  OBVIOUS
<1> HIDE DEF T
<1>3. T = Nat
  BY <1>1, <1>2, InductionOnNat
<1> QED
  BY <1>3 DEF T

\* A bounded set of numbers has a largest.
LEMMA Largest ==
  ASSUME NEW N \in Nat, NEW S, S \subseteq 0..N, S # {}
  PROVE  \E m \in S : \A y \in S : m >= y
<1> DEFINE Found == \E m \in S : \A y \in S : m >= y
           T == {n \in 0..N : Found \/ S \subseteq 0..(N - n)}
<1>1. 0 \in T
  OBVIOUS
<1>2. ASSUME NEW n \in 0..(N - 1), n \in T PROVE n + 1 \in T
  <2>1. CASE Found
    BY <2>1
  <2>2. CASE S \subseteq 0..(N - n) /\ N - n \in S
    <3>1. Found
      BY <2>2
    <3> QED
      BY <3>1
  <2>3. CASE S \subseteq 0..(N - n) /\ N - n \notin S
    BY <2>3
  <2> QED
    BY <1>2, <2>1, <2>2, <2>3
<1> HIDE DEF T
<1>3. N \in T
  BY <1>1, <1>2, InductionUpTo
<1>4. Found \/ S \subseteq 0..(N - N)
  BY <1>3 DEF T
<1>5. CASE S \subseteq 0..(N - N)
  <2>1. PICK y \in S : TRUE
    OBVIOUS
  <2>2. \A z \in S : z = 0
    BY <1>5
  <2>3. y \in S /\ \A z \in S : y >= z
    BY <2>1, <2>2
  <2> QED
    BY <2>3
<1> QED
  BY <1>4, <1>5

\* What counts up: the first value is base, the next one made by step.
CountsUp(f, base, step) ==
  \A i \in Nat : f[i] = IF i = 0 THEN base ELSE step[<< f[i - 1], i >>]

\* What counts down to N: the value at o is made by step of the value at next[o].
CountsDown(f, N, base, step, next) ==
  \A o \in Nat : f[o] = IF o >= N THEN base[o] ELSE step[<< f[next[o]], o >>]

\* For a recursion whose values stay in V there is such a function.
LEMMA RecursionUp ==
  ASSUME NEW V, NEW base \in V, NEW step \in [V \X Nat -> V]
  PROVE  \E f \in [Nat -> V] : CountsUp(f, base, step)
<1> DEFINE Obeys(f, n) == \A i \in 0..n : f[i] = IF i = 0 THEN base ELSE step[<< f[i - 1], i >>]
           Begun == {n \in Nat : \E f \in [Nat -> V] : Obeys(f, n)}
<1>1. Begun = Nat
  <2>1. 0 \in Begun
    <3> DEFINE f == [i \in Nat |-> base]
    <3>1. f \in [Nat -> V] /\ Obeys(f, 0)
      OBVIOUS
    <3> QED
      BY <3>1
  <2>2. ASSUME NEW n \in Begun PROVE n + 1 \in Begun
    <3>1. PICK f \in [Nat -> V] : Obeys(f, n)
      OBVIOUS
    <3> DEFINE g == [f EXCEPT ![n + 1] = step[<< f[n], n + 1 >>]]
    <3>2. step[<< f[n], n + 1 >>] \in V
      OBVIOUS
    <3>3. g \in [Nat -> V] /\ g[n + 1] = step[<< f[n], n + 1 >>]
          /\ \A i \in 0..n : g[i] = f[i]
      BY <3>2
    <3> HIDE DEF g
    <3>4. Obeys(g, n + 1)
      <4> SUFFICES ASSUME NEW i \in 0..(n + 1)
                   PROVE  g[i] = IF i = 0 THEN base ELSE step[<< g[i - 1], i >>]
        OBVIOUS
      <4>1. CASE i = n + 1
        BY <3>3, <4>1
      <4>2. CASE i # n + 1
        <5>1. i \in 0..n /\ (i # 0 => i - 1 \in 0..n)
          BY <4>2
        <5> QED
          BY <3>1, <3>3, <5>1
      <4> QED
        BY <4>1, <4>2
    <3> HIDE DEF Obeys
    <3> QED
      BY <3>3, <3>4
  <2> HIDE DEF Begun
  <2>3. Begun \subseteq Nat
    BY DEF Begun
  <2> QED
    BY <2>1, <2>2, <2>3, InductionOnNat
<1>2. ASSUME NEW f \in [Nat -> V], NEW m \in Nat, Obeys(f, m),
             NEW g \in [Nat -> V], NEW n \in Nat, Obeys(g, n), m <= n
      PROVE  f[m] = g[m]
  <2> DEFINE Same == {i \in Nat : i <= m => f[i] = g[i]}
  <2>1. /\ \A i \in 0..m : f[i] = IF i = 0 THEN base ELSE step[<< f[i - 1], i >>]
        /\ \A i \in 0..m : g[i] = IF i = 0 THEN base ELSE step[<< g[i - 1], i >>]
    BY <1>2
  <2>2. 0 \in Same
    <3>1. 0 \in 0..m
      OBVIOUS
    <3> QED
      BY <2>1, <3>1
  <2>3. ASSUME NEW i \in Same PROVE i + 1 \in Same
    <3>1. SUFFICES ASSUME i + 1 <= m PROVE f[i + 1] = g[i + 1]
      OBVIOUS
    <3>2. i + 1 \in 0..m /\ i + 1 # 0 /\ (i + 1) - 1 = i /\ f[i] = g[i]
      BY <3>1
    <3> QED
      BY <2>1, <3>2
  <2> HIDE DEF Same
  <2>4. Same \subseteq Nat
    BY DEF Same
  <2>5. Same = Nat
    BY <2>2, <2>3, <2>4, InductionOnNat
  <2> QED
    BY <2>5 DEF Same
<1> DEFINE upTo(n) == CHOOSE f \in [Nat -> V] : Obeys(f, n)
           whole == [n \in Nat |-> upTo(n)[n]]
<1> HIDE DEF Obeys
<1>3. \A n \in Nat : upTo(n) \in [Nat -> V] /\ Obeys(upTo(n), n)
  BY <1>1
<1> HIDE DEF upTo
<1>4. whole \in [Nat -> V]
  BY <1>3
<1>5. ASSUME NEW i \in Nat
      PROVE  whole[i] = IF i = 0 THEN base ELSE step[<< whole[i - 1], i >>]
  <2>1. upTo(i)[i] = IF i = 0 THEN base ELSE step[<< upTo(i)[i - 1], i >>]
    BY <1>3 DEF Obeys
  <2>2. ASSUME i # 0 PROVE upTo(i)[i - 1] = upTo(i - 1)[i - 1]
    <3>1. i - 1 \in Nat /\ i - 1 <= i
      BY <2>2
    <3> QED
      BY <3>1, <1>2, <1>3
  <2> QED
    BY <2>1, <2>2
<1> QED
  BY <1>4, <1>5 DEF CountsUp

\* Likewise for a recursion that moves up, by next, until it has reached N.
LEMMA RecursionDown ==
  ASSUME NEW V, NEW N \in Nat, NEW base \in [Nat -> V], NEW step \in [V \X Nat -> V],
         NEW next \in [Nat -> Nat], \A o \in Nat : next[o] > o
  PROVE  \E f \in [Nat -> V] : CountsDown(f, N, base, step, next)
<1> DEFINE Obeys(f, n) == \A o \in Nat :
             o + n >= N => f[o] = IF o >= N THEN base[o] ELSE step[<< f[next[o]], o >>]
           Begun == {n \in Nat : \E f \in [Nat -> V] : Obeys(f, n)}
<1>1. 0 \in Begun
  <2>1. Obeys(base, 0)
    OBVIOUS
  <2> QED
    BY <2>1
<1>2. ASSUME NEW n \in Begun PROVE n + 1 \in Begun
  <2>1. PICK f \in [Nat -> V] : Obeys(f, n)
    OBVIOUS
  <2>2. CASE n + 1 > N
    <3>1. Obeys(f, n + 1)
      BY <2>1, <2>2
    <3> QED
      BY <3>1
  <2>3. CASE ~(n + 1 > N)
    <3> DEFINE p == N - (n + 1)
               g == [f EXCEPT ![p] = step[<< f[next[p]], p >>]]
    <3>1. p \in Nat /\ next[p] \in Nat /\ next[p] > p /\ p < N /\ p + n < N
      BY <2>3
    <3>2. step[<< f[next[p]], p >>] \in V
      BY <3>1
    <3>3. g \in [Nat -> V] /\ g[p] = step[<< f[next[p]], p >>]
          /\ \A o \in Nat : o > p => g[o] = f[o]
      BY <3>1, <3>2
    <3> HIDE DEF g
    <3>4. Obeys(g, n + 1)
      <4> SUFFICES ASSUME NEW o \in Nat, o + (n + 1) >= N
                   PROVE  g[o] = IF o >= N THEN base[o] ELSE step[<< g[next[o]], o >>]
        OBVIOUS
      <4>1. CASE o = p
        BY <3>1, <3>3, <4>1
      <4>2. CASE o # p
        <5>1. o > p /\ next[o] \in Nat /\ next[o] > p /\ o + n >= N
          BY <4>2, <3>1
        <5> QED
          BY <2>1, <3>3, <5>1
      <4> QED
        BY <4>1, <4>2
    <3> HIDE DEF Obeys
    <3> QED
      BY <3>3, <3>4
  <2> QED
    BY <2>2, <2>3
<1> HIDE DEF Begun
<1>3. Begun \subseteq Nat
  BY DEF Begun
<1>4. Begun = Nat
  BY <1>1, <1>2, <1>3, InductionOnNat
<1>5. PICK f \in [Nat -> V] : Obeys(f, N)
  BY <1>4 DEF Begun
<1> QED
  BY <1>5 DEF CountsDown

-----------------------------------------------------------------------------
(* Sequences made from sets and from other sequences.                     *)

\* How FlattenSeq comes about.
FlattensTo(q, f) ==
  /\ FlattenSeq(q) = f[Len(q)]
  /\ f[0] = << >>
  /\ \A i \in 1..Len(q) : f[i] = f[i - 1] \o q[i]

LEMMA Flattening ==
  ASSUME NEW V, NEW q \in Seq(Seq(V)), Len(q) > 0
  PROVE  \E f \in [0..Len(q) -> Seq(V)] : FlattensTo(q, f)
<1> DEFINE n == Len(q)
           W == Seq(V)
           step == [p \in W \X Nat |-> IF p[2] \in 1..n THEN p[1] \o q[p[2]] ELSE p[1]]
           F(f) == f = [i \in 1..n |-> IF i = 1 THEN q[i] ELSE f[i - 1] \o q[i]]
           flatten == CHOOSE f : F(f)
<1>1. n \in Nat /\ << >> \in W /\ n # 0 /\ \A i \in 1..n : q[i] \in W
  OBVIOUS
<1>2. step \in [W \X Nat -> W]
  <2>1. ASSUME NEW p \in W \X Nat
        PROVE  (IF p[2] \in 1..n THEN p[1] \o q[p[2]] ELSE p[1]) \in W
    <3>1. p[1] \in W
      OBVIOUS
    <3>2. ASSUME p[2] \in 1..n PROVE p[1] \o q[p[2]] \in W
      <4>1. PICK a, b : a = p[1] /\ b = q[p[2]]
        OBVIOUS
      <4>2. a \in W /\ b \in W
        BY <1>1, <3>1, <3>2, <4>1
      <4>3. a \o b \in W
        BY <4>2
      <4> QED
        BY <4>1, <4>3
    <3> QED
      BY <3>1, <3>2
  <2> HIDE DEF W
  <2> QED
    BY <2>1
<1>3. PICK g \in [Nat -> W] : CountsUp(g, << >>, step)
  <2> HIDE DEF W, step
  <2> QED
    BY <1>1, <1>2, RecursionUp
<1>4. g[0] = << >> /\ \A i \in 1..n : g[i] = g[i - 1] \o q[i]
  <2>1. g[0] = << >>
    BY <1>3 DEF CountsUp
  <2>2. ASSUME NEW i \in 1..n PROVE g[i] = g[i - 1] \o q[i]
    <3>1. i \in Nat /\ i # 0 /\ i - 1 \in Nat
      BY <1>1
    <3>2. g[i] = step[<< g[i - 1], i >>] /\ << g[i - 1], i >> \in W \X Nat
      BY <1>3, <3>1 DEF CountsUp
    <3> HIDE DEF W
    <3> QED
      BY <3>2
  <2> QED
    BY <2>1, <2>2
<1> DEFINE h == [i \in 1..n |-> g[i]]
<1>5. \A i \in 1..n : h[i] = IF i = 1 THEN q[i] ELSE h[i - 1] \o q[i]
  <2> SUFFICES ASSUME NEW i \in 1..n PROVE h[i] = IF i = 1 THEN q[i] ELSE h[i - 1] \o q[i]
    OBVIOUS
  <2>1. CASE i = 1
    <3>1. g[1] = << >> \o q[1] /\ q[1] \in W
      <4>1. g[i] = g[i - 1] \o q[i] /\ q[i] \in W
        BY <1>1, <1>4
      <4>2. PICK k : k = i - 1
        OBVIOUS
      <4>3. k = 0
        BY <2>1, <4>2
      <4>4. g[i] = g[k] \o q[i] /\ g[k] = << >>
        BY <1>4, <4>1, <4>2, <4>3
      <4> QED
        BY <2>1, <4>1, <4>4
    <3>2. \A a \in Seq(V) : << >> \o a = a
      OBVIOUS
    <3>3. h[1] = q[1]
      BY <1>1, <2>1, <3>1, <3>2
    <3> HIDE DEF h
    <3> QED
      BY <2>1, <3>3
  <2>2. CASE i # 1
    <3>1. i - 1 \in 1..n
      BY <1>1, <2>2
    <3> QED
      BY <1>4, <2>2, <3>1
  <2> QED
    BY <2>1, <2>2
<1> HIDE DEF n, W, step
<1>6. F(h)
  BY <1>5
<1>7. DOMAIN h = 1..n
  OBVIOUS
<1> HIDE DEF F, h
<1>8. F(flatten)
  BY <1>6
<1>9. FlattenSeq(q) = flatten[n]
  BY <1>1 DEF FlattenSeq, flatten, F, n
<1> HIDE DEF flatten
<1>10. \A i \in 1..n : flatten[i] = IF i = 1 THEN q[i] ELSE flatten[i - 1] \o q[i]
  BY <1>8 DEF F
<1>11. \A i \in 1..n : flatten[i] = h[i]
  <2> DEFINE T == {i \in 0..n : i # 0 => flatten[i] = h[i]}
  <2>1. 0 \in T
    BY <1>1
  <2>2. ASSUME NEW i \in 0..(n - 1), i \in T PROVE i + 1 \in T
    <3>1. i + 1 \in 1..n /\ i + 1 \in 0..n /\ (i + 1) - 1 = i /\ (i # 0 => i + 1 # 1)
      BY <1>1
    <3>2. flatten[i + 1] = h[i + 1]
      <4>1. CASE i = 0
        <5>1. 1 \in 1..n /\ i + 1 = 1
          BY <3>1, <4>1
        <5>2. flatten[1] = q[1] /\ h[1] = q[1]
          BY <1>5, <1>10, <5>1
        <5> QED
          BY <5>1, <5>2
      <4>2. CASE i # 0
        <5>1. PICK k : k = i + 1
          OBVIOUS
        <5>2. k \in 1..n /\ k # 1 /\ k - 1 = i
          BY <3>1, <4>2, <5>1
        <5>3. flatten[k] = flatten[i] \o q[k] /\ h[k] = h[i] \o q[k]
          BY <1>5, <1>10, <5>2
        <5>4. flatten[i] = h[i]
          BY <2>2, <4>2
        <5> QED
          BY <5>1, <5>3, <5>4
      <4> QED
        BY <4>1, <4>2
    <3> QED
      BY <3>1, <3>2
  <2> HIDE DEF T
  <2>3. 0..n \subseteq T
    BY <1>1, <2>1, <2>2, InductionUpTo
  <2> QED
    BY <1>1, <2>3 DEF T
<1>12. FlattenSeq(q) = g[n]
  <2>1. n \in 1..n
    BY <1>1
  <2> QED
    BY <1>9, <1>11, <2>1 DEF h
<1> DEFINE r == [i \in 0..n |-> g[i]]
<1>13. r \in [0..n -> W]
  BY <1>1, <1>3
<1>14. r[0] = << >> /\ r[n] = g[n] /\ \A i \in 1..n : r[i] = r[i - 1] \o q[i]
  <2>1. 0 \in 0..n /\ n \in 0..n /\ \A i \in 1..n : i \in 0..n /\ i - 1 \in 0..n
    BY <1>1
  <2> QED
    BY <1>4, <2>1
<1> HIDE DEF r
<1>15. FlattensTo(q, r)
  BY <1>12, <1>14 DEF FlattensTo, n
<1> QED
  BY <1>13, <1>15 DEF n, W

\* s consists of the first n sequences of q, the j-th of them behind o[j].
Blocks(s, q, o, n) ==
  /\ \A j \in 1..n : o[j] \in Nat
  /\ \A j \in 1..n : \A a \in 1..Len(q[j]) : o[j] + a \in 1..Len(s) /\ s[o[j] + a] = q[j][a]
  /\ \A x \in 1..Len(s) : \E j \in 1..n : \E a \in 1..Len(q[j]) : x = o[j] + a

LEMMA NextBlock ==
  ASSUME NEW V, NEW q \in Seq(Seq(V)), NEW n \in Nat, n + 1 \in 1..Len(q), NEW s \in Seq(V), NEW o,
         Blocks(s, q, o, n)
  PROVE  \E p : Blocks(s \o q[n + 1], q, p, n + 1)
<1>1. PICK b, m : b = q[n + 1] /\ m = n + 1
  OBVIOUS
<1>2. b \in Seq(V) /\ m \in Nat /\ 1..m = 1..n \cup {m} /\ m \notin 1..n
  BY <1>1
<1> DEFINE t == s \o b
           p == [j \in 1..m |-> IF j = m THEN Len(s) ELSE o[j]]
<1>3. /\ Len(s) \in Nat /\ Len(b) \in Nat /\ Len(t) = Len(s) + Len(b)
      /\ \A x \in 1..Len(s) : t[x] = s[x]
      /\ \A a \in 1..Len(b) : t[Len(s) + a] = b[a]
  BY <1>2
<1>4. p[m] = Len(s) /\ \A j \in 1..n : p[j] = o[j]
  BY <1>2
<1> HIDE DEF t, p
<1>5. ASSUME NEW j \in 1..m
      PROVE  p[j] \in Nat /\ \A a \in 1..Len(q[j]) : p[j] + a \in 1..Len(t) /\ t[p[j] + a] = q[j][a]
  <2>1. CASE j = m
    <3>1. q[j] = b /\ p[j] = Len(s)
      BY <1>1, <1>4, <2>1
    <3>2. \A a \in 1..Len(b) : Len(s) + a \in 1..Len(t)
      BY <1>3
    <3> QED
      BY <1>3, <3>1, <3>2
  <2>2. CASE j \in 1..n
    <3>1. p[j] = o[j] /\ o[j] \in Nat
      BY <1>4, <2>2 DEF Blocks
    <3>2. ASSUME NEW a \in 1..Len(q[j]) PROVE o[j] + a \in 1..Len(t) /\ t[o[j] + a] = q[j][a]
      <4>1. o[j] + a \in 1..Len(s) /\ s[o[j] + a] = q[j][a]
        BY <2>2 DEF Blocks
      <4> QED
        BY <1>3, <4>1
    <3> QED
      BY <3>1, <3>2
  <2> QED
    BY <1>2, <2>1, <2>2
<1>6. ASSUME NEW x \in 1..Len(t)
      PROVE  \E j \in 1..m : \E a \in 1..Len(q[j]) : x = p[j] + a
  <2>1. CASE x \in 1..Len(s)
    <3>1. PICK j \in 1..n : \E a \in 1..Len(q[j]) : x = o[j] + a
      BY <2>1 DEF Blocks
    <3>2. j \in 1..m /\ p[j] = o[j]
      BY <1>2, <1>4
    <3> QED
      BY <3>1, <3>2
  <2>2. CASE x \notin 1..Len(s)
    <3>1. x - Len(s) \in 1..Len(q[m]) /\ x = p[m] + (x - Len(s)) /\ m \in 1..m
      BY <1>1, <1>2, <1>3, <1>4, <2>2
    <3> QED
      BY <3>1
  <2> QED
    BY <2>1, <2>2
<1>7. Blocks(t, q, p, m)
  BY <1>5, <1>6 DEF Blocks
<1> QED
  BY <1>1, <1>7 DEF t

\* What FlattenSeq makes of sequences.
LEMMA Flattened ==
  ASSUME NEW V, NEW q \in Seq(Seq(V)), Len(q) > 0
  PROVE  FlattenSeq(q) \in Seq(V) /\ \E o : Blocks(FlattenSeq(q), q, o, Len(q))
<1> DEFINE n == Len(q)
<1>1. PICK f \in [0..n -> Seq(V)] : FlattensTo(q, f)
  BY Flattening
<1>2. n \in Nat
  OBVIOUS
<1> DEFINE T == {i \in 0..n : \E o : Blocks(f[i], q, o, i)}
<1>3. 0 \in T
  <2>1. f[0] = << >>
    BY <1>1 DEF FlattensTo
  <2>2. Blocks(<< >>, q, << >>, 0)
    BY DEF Blocks
  <2> QED
    BY <1>2, <2>1, <2>2
<1>4. ASSUME NEW i \in 0..(n - 1), i \in T PROVE i + 1 \in T
  <2>1. PICK o : Blocks(f[i], q, o, i)
    BY <1>4
  <2>2. i \in Nat /\ i + 1 \in 1..n /\ i \in 0..n /\ i + 1 \in 0..n /\ (i + 1) - 1 = i
    BY <1>2
  <2>3. f[i] \in Seq(V)
    BY <2>2
  <2>4. \E p : Blocks(f[i] \o q[i + 1], q, p, i + 1)
    BY <2>1, <2>2, <2>3, NextBlock
  <2>5. f[i + 1] = f[i] \o q[i + 1]
    <3>1. PICK k : k = i + 1
      OBVIOUS
    <3>2. f[k] = f[k - 1] \o q[k]
      BY <1>1, <2>2, <3>1 DEF FlattensTo
    <3> QED
      BY <2>2, <3>1, <3>2
  <2> QED
    BY <2>2, <2>4, <2>5
<1> HIDE DEF T
<1>5. 0..n \subseteq T
  BY <1>2, <1>3, <1>4, InductionUpTo
<1>6. n \in T /\ f[n] \in Seq(V)
  <2>1. n \in 0..n
    BY <1>2
  <2> QED
    BY <1>5, <2>1
<1>7. FlattenSeq(q) = f[n]
  BY <1>1 DEF FlattensTo
<1> QED
  BY <1>6, <1>7 DEF T

\* No element occurs twice, in one sequence or in two.
Parted(q) ==
  \A i, j \in DOMAIN q : \A a \in DOMAIN q[i], b \in DOMAIN q[j] : q[i][a] = q[j][b] => i = j /\ a = b

\* The elements of t keep their order in s.
InOrder(s, t) ==
  \A x, y \in DOMAIN s : \A a, b \in DOMAIN t : s[x] = t[a] /\ s[y] = t[b] /\ a < b => x < y

\* The elements of the sequences q[j], each once, those of one sequence in their order.
LEMMA Joined ==
  ASSUME NEW V, NEW q \in Seq(Seq(V)), Len(q) > 0, Parted(q), NEW s, s = FlattenSeq(q)
  PROVE  /\ s \in Seq(V)
         /\ IsInjective(s)
         /\ \A v : v \in ToSet(s) <=> \E j \in 1..Len(q) : v \in ToSet(q[j])
         /\ \A j \in 1..Len(q) : InOrder(s, q[j])
<1> DEFINE n == Len(q)
<1>1. s \in Seq(V) /\ Len(s) \in Nat /\ DOMAIN s = 1..Len(s)
  BY Flattened
<1>2. PICK o : Blocks(s, q, o, n)
  BY Flattened
<1>3. /\ n \in Nat /\ DOMAIN q = 1..n
      /\ \A j \in 1..n : q[j] \in Seq(V) /\ DOMAIN q[j] = 1..Len(q[j]) /\ Len(q[j]) \in Nat
  OBVIOUS
<1> HIDE DEF n
<1>4. \A x \in DOMAIN s : \E j \in 1..n : \E a \in 1..Len(q[j]) : x = o[j] + a /\ s[x] = q[j][a]
  <2> SUFFICES ASSUME NEW x \in 1..Len(s)
               PROVE  \E j \in 1..n : \E a \in 1..Len(q[j]) : x = o[j] + a /\ s[x] = q[j][a]
    BY <1>1
  <2>1. PICK j \in 1..n : \E a \in 1..Len(q[j]) : x = o[j] + a
    BY <1>2 DEF Blocks
  <2>2. PICK a \in 1..Len(q[j]) : x = o[j] + a
    BY <2>1
  <2>3. s[o[j] + a] = q[j][a]
    BY <1>2, <2>2 DEF Blocks
  <2> QED
    BY <2>2, <2>3
<1>5. \A j \in 1..n : \A a \in 1..Len(q[j]) : o[j] + a \in DOMAIN s /\ s[o[j] + a] = q[j][a]
  BY <1>1, <1>2 DEF Blocks
<1>6. \A i \in 1..n, j \in 1..n : \A a \in 1..Len(q[i]), b \in 1..Len(q[j]) :
        q[i][a] = q[j][b] => i = j /\ a = b
  <2> SUFFICES ASSUME NEW i \in 1..n, NEW j \in 1..n,
                      NEW a \in 1..Len(q[i]), NEW b \in 1..Len(q[j]), q[i][a] = q[j][b]
               PROVE  i = j /\ a = b
    OBVIOUS
  <2>1. i \in DOMAIN q /\ j \in DOMAIN q /\ a \in DOMAIN q[i] /\ b \in DOMAIN q[j]
    BY <1>3
  <2> QED
    BY <2>1 DEF Parted
<1>7. IsInjective(s)
  <2> SUFFICES ASSUME NEW x \in DOMAIN s, NEW y \in DOMAIN s, s[x] = s[y] PROVE x = y
    BY DEF IsInjective
  <2>1. PICK i \in 1..n : \E a \in 1..Len(q[i]) : x = o[i] + a /\ s[x] = q[i][a]
    BY <1>4
  <2>2. PICK a \in 1..Len(q[i]) : x = o[i] + a /\ s[x] = q[i][a]
    BY <2>1
  <2>3. PICK j \in 1..n : \E b \in 1..Len(q[j]) : y = o[j] + b /\ s[y] = q[j][b]
    BY <1>4
  <2>4. PICK b \in 1..Len(q[j]) : y = o[j] + b /\ s[y] = q[j][b]
    BY <2>3
  <2>5. i = j /\ a = b
    BY <1>6, <2>2, <2>4
  <2> QED
    BY <2>2, <2>4, <2>5
<1>8. ASSUME NEW v PROVE v \in ToSet(s) <=> \E j \in 1..n : v \in ToSet(q[j])
  <2>1. ASSUME v \in ToSet(s) PROVE \E j \in 1..n : v \in ToSet(q[j])
    <3>1. PICK x \in DOMAIN s : v = s[x]
      BY <2>1 DEF ToSet
    <3>2. PICK j \in 1..n : \E a \in 1..Len(q[j]) : x = o[j] + a /\ s[x] = q[j][a]
      BY <1>4
    <3> QED
      BY <1>3, <3>1, <3>2 DEF ToSet
  <2>2. ASSUME NEW j \in 1..n, v \in ToSet(q[j]) PROVE v \in ToSet(s)
    <3>1. PICK a \in 1..Len(q[j]) : v = q[j][a]
      BY <1>3, <2>2 DEF ToSet
    <3> QED
      BY <1>5, <3>1 DEF ToSet
  <2> QED
    BY <2>1, <2>2
<1>9. ASSUME NEW j \in 1..n PROVE InOrder(s, q[j])
  <2> SUFFICES ASSUME NEW x \in DOMAIN s, NEW y \in DOMAIN s, NEW a \in DOMAIN q[j],
                      NEW b \in DOMAIN q[j], s[x] = q[j][a], s[y] = q[j][b], a < b
               PROVE  x < y
    BY DEF InOrder
  <2>1. a \in 1..Len(q[j]) /\ b \in 1..Len(q[j])
    BY <1>3
  <2>2. o[j] + a \in DOMAIN s /\ s[o[j] + a] = q[j][a] /\ o[j] + b \in DOMAIN s /\ s[o[j] + b] = q[j][b]
    BY <1>5, <2>1
  <2>3. x = o[j] + a /\ y = o[j] + b
    BY <1>7, <2>2 DEF IsInjective
  <2>4. o[j] \in Nat /\ a \in Nat /\ b \in Nat
    BY <1>2, <2>1 DEF Blocks
  <2> QED
    BY <2>3, <2>4
<1> QED
  BY <1>1, <1>7, <1>8, <1>9 DEF n

\* A set in some order.
Lists(o, K) == o \in Seq(K) /\ Len(o) = Cardinality(K) /\ IsInjective(o) /\ \A k \in K : \E i \in 1..Len(o) : o[i] = k

LEMMA Listing ==
  ASSUME NEW K, IsFiniteSet(K)
  PROVE  /\ Lists(SetToSeq(K), K)
         /\ \A o \in SetToSeqs(K) : Lists(o, K)
<1> DEFINE n == Cardinality(K)
<1>1. n \in Nat /\ ExistsBijection(1..n, K)
  BY FS_CardinalityType
<1>2. IsFiniteSet(1..n) /\ Cardinality(1..n) = n
  <2>1. Cardinality(1..n) = IF 1 > n THEN 0 ELSE n - 1 + 1
    BY <1>1, FS_Interval
  <2> QED
    BY <1>1, <2>1, FS_Interval
<1>3. ASSUME NEW o \in [1..n -> K], IsInjective(o) PROVE Lists(o, K)
  <2>1. o \in Injection(1..n, K)
    BY <1>3 DEF Injection, IsInjective
  <2>2. o \in Surjection(1..n, K)
    BY <1>2, <2>1, FS_Injection
  <2>3. \A k \in K : \E i \in 1..n : o[i] = k
    BY <2>2 DEF Surjection
  <2>4. o \in Seq(K) /\ Len(o) = n
    BY <1>1
  <2> QED
    BY <1>3, <2>3, <2>4 DEF Lists
<1>4. \E o \in [1..n -> K] : IsInjective(o)
  <2>1. PICK o : o \in Bijection(1..n, K)
    BY <1>1 DEF ExistsBijection
  <2>2. o \in [1..n -> K] /\ IsInjective(o)
    BY <2>1 DEF Bijection, Injection, IsInjective
  <2> QED
    BY <2>2
<1>5. SetToSeq(K) \in [1..n -> K] /\ IsInjective(SetToSeq(K))
  BY <1>4 DEF SetToSeq
<1>6. ASSUME NEW o \in SetToSeqs(K) PROVE o \in [1..n -> K] /\ IsInjective(o)
  BY DEF SetToSeqs, IsInjective
<1> QED
  BY <1>3, <1>5, <1>6

\* A sequence of one sequence, flattened.
LEMMA FlattenOne ==
  ASSUME NEW s
  PROVE  FlattenSeq(<< s >>) = s
<1> DEFINE seqs == << s >>
           F(f) == f = [i \in 1..Len(seqs) |-> IF i = 1 THEN seqs[i] ELSE f[i - 1] \o seqs[i]]
           flat == CHOOSE f : F(f)
<1>1. Len(seqs) = 1 /\ seqs[1] = s
  OBVIOUS
<1>2. FlattenSeq(seqs) = IF Len(seqs) = 0 THEN seqs ELSE flat[Len(seqs)]
  BY DEF FlattenSeq
<1> HIDE DEF seqs
<1>3. \E f : F(f)
  <2> DEFINE g == [i \in 1..1 |-> s]
  <2>1. \A i \in 1..1 : g[i] = IF i = 1 THEN seqs[i] ELSE g[i - 1] \o seqs[i]
    BY <1>1
  <2> HIDE DEF g
  <2>2. g = [i \in 1..1 |-> g[i]]
    BY DEF g
  <2>3. F(g)
    BY <1>1, <2>1, <2>2
  <2> QED
    BY <2>3
<1> HIDE DEF F
<1>4. F(flat)
  BY <1>3
<1> HIDE DEF flat
<1>5. flat[1] = s
  BY <1>1, <1>4 DEF F
<1> QED
  BY <1>1, <1>2, <1>5 DEF seqs

\* The elements of a set of one.
LEMMA SequenceOfOne ==
  ASSUME NEW k
  PROVE  SetToSeq({k}) = << k >>
<1> DEFINE P(f) == f \in [1..Cardinality({k}) -> {k}] /\ IsInjective(f)
           f == CHOOSE f \in [1..Cardinality({k}) -> {k}] : IsInjective(f)
<1>1. Cardinality({k}) = 1
  BY FS_Singleton
<1>2. << k >> \in [1..1 -> {k}] /\ IsInjective(<< k >>)
  BY DEF IsInjective
<1>3. f \in [1..1 -> {k}]
  BY <1>1, <1>2
<1>4. SetToSeq({k}) = f
  BY DEF SetToSeq
<1> HIDE DEF f
<1> QED
  BY <1>3, <1>4

-----------------------------------------------------------------------------
(* Folds, which the community modules define by recursion on sets.         *)

\* The largest number of a set, which folds begin with.
LEMMA MaxOf ==
  ASSUME NEW n \in Nat, NEW s, s \subseteq 0..n, s # {}
  PROVE  Max(s) \in s /\ \A y \in s : Max(s) >= y
<1>1. \E x \in s : \A y \in s : x >= y
  BY Largest
<1> QED
  BY <1>1 DEF Max

\* Without it an interval is the one before.
LEMMA MaxOfInterval ==
  ASSUME NEW k \in Nat, k # 0
  PROVE  Max(1..k) = k /\ (1..k) \ {k} = 1..(k - 1)
<1>1. 1..k \subseteq 0..k /\ 1..k # {}
  OBVIOUS
<1>2. Max(1..k) \in 1..k /\ \A y \in 1..k : Max(1..k) >= y
  BY <1>1, MaxOf
<1>3. k \in 1..k
  OBVIOUS
<1> QED
  BY <1>2, <1>3

\* A fold over the elements of a set, the largest last.
FoldsUp(it, n, base, step) ==
  \A s \in SUBSET (1..n) :
    it[s] = IF s = {} THEN base ELSE step[<< it[s \ {Max(s)}], Max(s) >>]

\* There is such a function: go through the numbers up to n and take those in the set.
LEMMA FoldingUp ==
  ASSUME NEW V, NEW n \in Nat, NEW base \in V, NEW step \in [V \X Nat -> V]
  PROVE  \E it \in [SUBSET (1..n) -> V] : FoldsUp(it, n, base, step)
<1> DEFINE P == SUBSET (1..n)
           W == [P -> V]
           all == [s \in P |-> base]
           take(h, i) == [s \in P |-> IF i \in s THEN step[<< h[s], i >>] ELSE h[s]]
           go == [x \in W \X Nat |-> take(x[1], x[2])]
<1>1. all \in W
  OBVIOUS
<1>2. ASSUME NEW h \in W, NEW i \in Nat PROVE take(h, i) \in W
  <2>1. ASSUME NEW s \in P PROVE (IF i \in s THEN step[<< h[s], i >>] ELSE h[s]) \in V
    OBVIOUS
  <2> HIDE DEF P
  <2> QED
    BY <2>1
<1>3. \A h \in W, i \in Nat, s \in P : take(h, i)[s] = IF i \in s THEN step[<< h[s], i >>] ELSE h[s]
  OBVIOUS
<1> HIDE DEF take, W
<1>4. go \in [W \X Nat -> W]
  BY <1>2
<1>5. \A h \in W, i \in Nat : go[<< h, i >>] = take(h, i)
  OBVIOUS
<1> HIDE DEF go, all
<1>6. PICK h \in [Nat -> W] : CountsUp(h, all, go)
  BY <1>1, <1>4, RecursionUp
<1>7. h[0] = all /\ \A i \in Nat : h[i] \in W /\ h[i + 1] = take(h[i], i + 1)
  <2>1. \A i \in Nat : i + 1 \in Nat /\ i + 1 # 0 /\ (i + 1) - 1 = i
    OBVIOUS
  <2>2. h[0] = all
    BY <1>6 DEF CountsUp
  <2>3. ASSUME NEW i \in Nat PROVE h[i + 1] = take(h[i], i + 1)
    <3>1. PICK j : j = i + 1
      OBVIOUS
    <3>2. j \in Nat /\ j # 0 /\ j - 1 = i
      BY <2>1, <3>1
    <3>3. h[j] = go[<< h[i], j >>] /\ h[i] \in W
      BY <1>6, <3>2 DEF CountsUp
    <3> QED
      BY <1>5, <3>1, <3>2, <3>3
  <2> QED
    BY <2>2, <2>3
<1>8. \A s \in P : h[0][s] = base
  BY <1>7 DEF all
<1>9. ASSUME NEW s \in P, NEW i \in Nat
      PROVE  h[i + 1][s] = IF i + 1 \in s THEN step[<< h[i][s], i + 1 >>] ELSE h[i][s]
  <2>1. PICK j, g : j = i + 1 /\ g = h[i]
    OBVIOUS
  <2>2. j \in Nat /\ g \in W /\ h[i + 1] = take(g, j)
    BY <1>7, <2>1
  <2>3. take(g, j)[s] = IF j \in s THEN step[<< g[s], j >>] ELSE g[s]
    BY <1>3, <2>2
  <2> QED
    BY <2>1, <2>2, <2>3
<1>10. ASSUME NEW s \in P, NEW m \in 0..n, \A y \in s : y <= m PROVE h[n][s] = h[m][s]
  <2> DEFINE T == {i \in Nat : h[m + i][s] = h[m][s]}
  <2>1. 0 \in T
    OBVIOUS
  <2>2. ASSUME NEW i \in T PROVE i + 1 \in T
    <3>1. m + i \in Nat /\ m + (i + 1) = (m + i) + 1 /\ (m + i) + 1 \notin s
      BY <1>10
    <3>2. h[(m + i) + 1][s] = h[m + i][s]
      BY <1>9, <3>1
    <3> QED
      BY <2>2, <3>1, <3>2
  <2> HIDE DEF T
  <2>3. T \subseteq Nat
    BY DEF T
  <2>4. T = Nat
    BY <2>1, <2>2, <2>3, InductionOnNat
  <2>5. n - m \in T /\ m + (n - m) = n
    BY <2>4
  <2> QED
    BY <2>5 DEF T
<1>11. ASSUME NEW s \in P, NEW m \in 1..n PROVE h[m - 1][s] = h[m - 1][s \ {m}]
  <2> DEFINE r == s \ {m}
             T == {i \in Nat : i < m => h[i][s] = h[i][r]}
  <2>1. r \in P /\ \A y : y # m => (y \in s <=> y \in r)
    OBVIOUS
  <2> HIDE DEF r
  <2>2. 0 \in T
    BY <1>8, <2>1
  <2>3. ASSUME NEW i \in T PROVE i + 1 \in T
    <3>1. i \in Nat /\ (i + 1 < m => i < m /\ i + 1 # m)
      OBVIOUS
    <3>2. h[i + 1][r] = IF i + 1 \in r THEN step[<< h[i][r], i + 1 >>] ELSE h[i][r]
      BY <1>9, <2>1, <3>1
    <3> QED
      BY <1>9, <2>1, <2>3, <3>1, <3>2
  <2> HIDE DEF T
  <2>4. T \subseteq Nat
    BY DEF T
  <2>5. T = Nat
    BY <2>2, <2>3, <2>4, InductionOnNat
  <2>6. m - 1 \in T /\ m - 1 < m
    BY <2>5
  <2> QED
    BY <2>6 DEF T, r
<1>12. ASSUME NEW s \in P
       PROVE  h[n][s] = IF s = {} THEN base ELSE step[<< h[n][s \ {Max(s)}], Max(s) >>]
  <2>1. CASE s = {}
    <3>1. 0 \in 0..n /\ \A y \in s : y <= 0
      BY <2>1
    <3> QED
      BY <1>8, <1>10, <2>1, <3>1
  <2>2. CASE s # {}
    <3>1. s \subseteq 0..n
      OBVIOUS
    <3>2. Max(s) \in s /\ \A y \in s : Max(s) >= y
      BY <2>2, <3>1, MaxOf
    <3>3. PICK m \in 1..n : m = Max(s)
      BY <3>2
    <3>4. PICK k \in Nat : m = k + 1
      BY <3>3
    <3>5. k \in 0..n /\ m - 1 = k /\ m \in 0..n
      BY <3>4
    <3>6. PICK r : r = s \ {m}
      OBVIOUS
    <3>7. r \in P /\ (\A y \in r : y <= k) /\ (\A y \in s : y <= m) /\ m \in s
      BY <3>2, <3>3, <3>4, <3>6
    <3>8. h[n][s] = h[m][s] /\ h[n][r] = h[k][r]
      BY <1>10, <3>5, <3>7
    <3>9. h[k][s] = h[k][r]
      BY <1>11, <3>5, <3>6
    <3>10. h[m][s] = step[<< h[k][s], m >>]
      BY <1>9, <3>4, <3>7
    <3> QED
      BY <2>2, <3>3, <3>6, <3>8, <3>9, <3>10
  <2> QED
    BY <2>1, <2>2
<1>13. h[n] \in [P -> V]
  BY <1>7 DEF W
<1>14. FoldsUp(h[n], n, base, step)
  BY <1>12 DEF FoldsUp
<1> QED
  BY <1>13, <1>14

-----------------------------------------------------------------------------
(* The error vocabulary: the names of the codes, the statuses, and the     *)
(* code and metadata of an END frame.                                      *)

\* The code a reader should see for a code the server used.
Canonical(c) == IF c \in KnownCodes THEN c ELSE 2

\* No two codes share a name.
LEMMA NamesDiffer ==
  ASSUME NEW c \in 0..16, NEW d \in 0..16, CodeNames[c] = CodeNames[d]
  PROVE  c = d
BY DEF CodeNames, NameTable

\* CodeFromString undoes CodeToString for the codes of the protocol.
LEMMA NameRoundTrip ==
  ASSUME NEW c \in 0..16
  PROVE  CodeFromString(CodeToString(c)) = c
<1>1. CodeToString(c) = CodeNames[c]
  BY DEF CodeToString
<1>2. \E d \in 0..16 : CodeNames[d] = CodeNames[c]
  OBVIOUS
<1>3. PICK d \in 0..16 : d = CodeFromString(CodeToString(c)) /\ CodeNames[d] = CodeNames[c]
  BY <1>1, <1>2 DEF CodeFromString
<1> QED
  BY <1>3, NamesDiffer

\* A code the protocol does not know travels as "unknown" and comes back as 2.
LEMMA UnknownRoundTrip ==
  ASSUME NEW c \in Nat, c \notin 0..16
  PROVE  CodeFromString(CodeToString(c)) = 2
<1>1. CodeToString(c) = CodeToString(2)
  BY DEF CodeToString, CodeNames, NameTable
<1> QED
  BY <1>1, NameRoundTrip

\* Every code has a name.
LEMMA NameIsNotEmpty ==
  ASSUME NEW c
  PROVE  CodeToString(c) # ""
<1>1. \A d \in 0..16 : CodeNames[d] # ""
  <2> SUFFICES ASSUME NEW d \in 0..16 PROVE CodeNames[d] # ""
    OBVIOUS
  <2>1. CodeNames[d] = NameTable[d + 1]
    BY DEF CodeNames
  <2>2. NameTable[d + 1] \in {NameTable[i] : i \in 1..17}
    OBVIOUS
  <2>3. {NameTable[i] : i \in 1..17} =
          {"ok", "canceled", "unknown", "invalid_argument", "deadline_exceeded",
           "not_found", "already_exists", "permission_denied", "resource_exhausted",
           "failed_precondition", "aborted", "out_of_range", "unimplemented",
           "internal", "unavailable", "data_loss", "unauthenticated"}
    BY DEF NameTable
  <2> QED
    BY <2>1, <2>2, <2>3
<1> QED
  BY <1>1 DEF CodeToString

\* Whatever name arrives, the code read from it is one of the protocol.
LEMMA CodeFromStringRange ==
  ASSUME NEW name
  PROVE  CodeFromString(name) \in 0..16
BY DEF CodeFromString

\* Every error maps to a status that a client takes for an error.
LEMMA StatusIsError ==
  ASSUME NEW code
  PROVE  HTTPStatus(code) \in Nat /\ HTTPStatus(code) >= 400
BY DEF HTTPStatus, StatusTable, KnownCodes

\* Reading a code from a status loses the code but never the status: the code that
\* is read stands for the same status.
THEOREM StatusSurvives ==
  ASSUME NEW code \in KnownCodes
  PROVE  /\ ConnectFromStatus(HTTPStatus(code)) \in KnownCodes
         /\ HTTPStatus(ConnectFromStatus(HTTPStatus(code))) = HTTPStatus(code)
<1>1. HTTPStatus(code) \in {499, 500, 400, 504, 404, 409, 403, 429, 501, 503, 401}
  BY DEF HTTPStatus, StatusTable, KnownCodes
<1>2. /\ ConnectFromStatus(499) = 1  /\ HTTPStatus(1) = 499
      /\ ConnectFromStatus(500) = 13 /\ HTTPStatus(13) = 500
      /\ ConnectFromStatus(400) = 3  /\ HTTPStatus(3) = 400
      /\ ConnectFromStatus(504) = 4  /\ HTTPStatus(4) = 504
      /\ ConnectFromStatus(404) = 5  /\ HTTPStatus(5) = 404
      /\ ConnectFromStatus(409) = 10 /\ HTTPStatus(10) = 409
      /\ ConnectFromStatus(403) = 7  /\ HTTPStatus(7) = 403
      /\ ConnectFromStatus(429) = 8  /\ HTTPStatus(8) = 429
      /\ ConnectFromStatus(501) = 12 /\ HTTPStatus(12) = 501
      /\ ConnectFromStatus(503) = 14 /\ HTTPStatus(14) = 503
      /\ ConnectFromStatus(401) = 16 /\ HTTPStatus(16) = 401
  BY DEF HTTPStatus, StatusTable, KnownCodes, ConnectFromStatus
<1> QED
  BY <1>1, <1>2 DEF KnownCodes

\* EncodeEndStream, then DecodeEndStream: the metadata arrives, a clean end stays
\* one, and an error arrives with its code, unknown codes as 2.  The one exception is
\* an error with code 0 and no details, which nothing tells from a clean end.
THEOREM EndStreamRoundTrip ==
  ASSUME NEW c \in Nat, NEW details, NEW metadata
  PROVE  LET m == DecodeEndStream(EncodeEndStream(EndStreamMessage(c, details, metadata)))
         IN  /\ m.metadata = metadata
             /\ m.code = IF c = 0 /\ details = << >> THEN 0 ELSE Canonical(c)
<1> DEFINE M == EndStreamMessage(c, details, metadata)
           P == EncodeEndStream(M)
           sentCode == IF c = 0 THEN 2 ELSE c
<1>1. CASE c = 0 /\ details = << >>
  BY <1>1 DEF EndStreamMessage, EncodeEndStream, DecodeEndStream, JSONPayload
<1>2. CASE ~(c = 0 /\ details = << >>)
  <2>1. P = JSONPayload(<< [code |-> CodeToString(sentCode),
                            details |-> encodeWireDetails(details)] >>, metadata)
    BY <1>2 DEF EndStreamMessage, EncodeEndStream
  <2>2. CodeToString(sentCode) # ""
    BY NameIsNotEmpty
  <2>3. CodeFromString(CodeToString(sentCode)) = Canonical(c)
    BY NameRoundTrip, UnknownRoundTrip DEF Canonical, KnownCodes
  <2>4. P = [form |-> "json", metadata |-> metadata,
             error |-> << [code |-> CodeToString(sentCode),
                           details |-> encodeWireDetails(details)] >>]
    BY <2>1 DEF JSONPayload
  <2>5. P.form = "json" /\ P.metadata = metadata /\ P.error # << >>
        /\ P.error[1].code = CodeToString(sentCode)
    BY <2>4
  <2>6. DecodeEndStream(P) =
          [code |-> CodeFromString(P.error[1].code),
           details |-> decodeWireDetails(P.error[1].details), metadata |-> P.metadata]
    BY <2>2, <2>5 DEF DecodeEndStream, EndStreamMessage
  <2>7. DecodeEndStream(P).metadata = metadata /\ DecodeEndStream(P).code = Canonical(c)
    BY <2>3, <2>5, <2>6
  <2> QED
    BY <1>2, <2>7
<1> QED
  BY <1>1, <1>2

-----------------------------------------------------------------------------
(* Error details.                                                          *)

\* How selected comes about, place by place.
SelectsTo(s, I, f) ==
  /\ selected(s, I) = f[Len(s)]
  /\ f[0] = << >>
  /\ \A i \in 1..Len(s) : f[i] = IF i \in I THEN Append(f[i - 1], s[i]) ELSE f[i - 1]

LEMMA Selecting ==
  ASSUME NEW S, NEW s \in Seq(S), NEW I
  PROVE  \E f \in [0..Len(s) -> Seq(S)] : SelectsTo(s, I, f)
<1> DEFINE n == Len(s)
           V == Seq(S)
           step == [p \in V \X Nat |-> IF p[2] \in I \cap 1..n THEN Append(p[1], s[p[2]]) ELSE p[1]]
           F(f) == f = [i \in 0..n |-> IF i = 0 THEN << >>
                                       ELSE IF i \in I THEN Append(f[i - 1], s[i]) ELSE f[i - 1]]
           upTo == CHOOSE f : F(f)
<1>1. n \in Nat /\ << >> \in V
  OBVIOUS
<1>2. step \in [V \X Nat -> V]
  <2>1. ASSUME NEW p \in V \X Nat
        PROVE  (IF p[2] \in I \cap 1..n THEN Append(p[1], s[p[2]]) ELSE p[1]) \in V
    <3>1. CASE p[2] \in I \cap 1..n
      BY <3>1
    <3>2. CASE p[2] \notin I \cap 1..n
      BY <3>2
    <3> QED
      BY <3>1, <3>2
  <2> QED
    BY <2>1
<1>3. PICK g \in [Nat -> V] : CountsUp(g, << >>, step)
  BY <1>1, <1>2, RecursionUp
<1> DEFINE h == [i \in 0..n |-> g[i]]
<1>4. \A i \in 0..n : h[i] = IF i = 0 THEN << >>
                             ELSE IF i \in I THEN Append(h[i - 1], s[i]) ELSE h[i - 1]
  <2> SUFFICES ASSUME NEW i \in 0..n
               PROVE  h[i] = IF i = 0 THEN << >>
                             ELSE IF i \in I THEN Append(h[i - 1], s[i]) ELSE h[i - 1]
    OBVIOUS
  <2>1. CASE i = 0
    BY <1>3, <2>1 DEF CountsUp
  <2>2. CASE i # 0
    <3>1. i \in Nat /\ i - 1 \in Nat /\ i \in 1..n /\ i - 1 \in 0..n
      BY <1>1, <2>2
    <3>2. g[i] = step[<< g[i - 1], i >>] /\ g[i - 1] \in V
      BY <1>3, <2>2, <3>1 DEF CountsUp
    <3>3. step[<< g[i - 1], i >>] = IF i \in I THEN Append(g[i - 1], s[i]) ELSE g[i - 1]
      BY <3>1, <3>2
    <3> QED
      BY <2>2, <3>1, <3>2, <3>3
  <2> QED
    BY <2>1, <2>2
<1>5. h \in [0..n -> V]
  OBVIOUS
<1> HIDE DEF h, n, V, step
<1>6. F(h)
  BY <1>4, <1>5
<1> HIDE DEF F
<1>7. F(upTo)
  BY <1>6
<1>8. selected(s, I) = upTo[n]
  BY DEF selected, upTo, F, n
<1> HIDE DEF upTo
<1>9. \A i \in 0..n : upTo[i] = IF i = 0 THEN << >>
                                ELSE IF i \in I THEN Append(upTo[i - 1], s[i]) ELSE upTo[i - 1]
  BY <1>7 DEF F
<1>10. \A i \in 0..n : upTo[i] = h[i]
  <2> DEFINE T == {i \in 0..n : upTo[i] = h[i]}
  <2>1. 0 \in T
    BY <1>1, <1>4, <1>9
  <2>2. ASSUME NEW i \in 0..(n - 1), i \in T PROVE i + 1 \in T
    <3>1. i + 1 \in 0..n /\ (i + 1) - 1 = i /\ i + 1 # 0
      BY <1>1
    <3> QED
      BY <1>4, <1>9, <2>2, <3>1
  <2> HIDE DEF T
  <2>3. 0..n \subseteq T
    BY <1>1, <2>1, <2>2, InductionUpTo
  <2> QED
    BY <1>1, <2>3 DEF T
<1>11. \A i \in 0..n : upTo[i] \in V
  BY <1>5, <1>10
<1>12. DOMAIN upTo = 0..n /\ upTo = [i \in 0..n |-> upTo[i]]
  BY <1>7 DEF F
<1>13. upTo \in [0..n -> V]
  BY <1>11, <1>12
<1>14. \A i \in 1..n : i \in 0..n /\ i # 0
  BY <1>1
<1>15. upTo[0] = << >> /\ \A i \in 1..n : upTo[i] = IF i \in I THEN Append(upTo[i - 1], s[i]) ELSE upTo[i - 1]
  BY <1>1, <1>9, <1>14
<1>16. SelectsTo(s, I, upTo)
  BY <1>8, <1>15 DEF SelectsTo, n
<1> QED
  BY <1>13, <1>16 DEF n, V

\* What is selected consists of what is there.
LEMMA SelectedIs ==
  ASSUME NEW S, NEW s \in Seq(S), NEW I
  PROVE  selected(s, I) \in Seq(S)
<1>1. PICK f \in [0..Len(s) -> Seq(S)] : SelectsTo(s, I, f)
  BY Selecting
<1>2. Len(s) \in 0..Len(s)
  OBVIOUS
<1> QED
  BY <1>1, <1>2 DEF SelectsTo

\* When the last element is selected, it comes after what is selected of the others.
LastSelected(S, b, x, I) ==
  \E c \in Seq(S) :
    /\ selected(Append(b, x), I) = Append(c, x)
    /\ (\A i \in 1..Len(b) : i \notin I) => c = << >>

LEMMA SelectsLast ==
  ASSUME NEW S, NEW b \in Seq(S), NEW x, NEW I, Len(b) + 1 \in I
  PROVE  LastSelected(S, b, x, I)
<1>1. PICK n, s, X : n = Len(b) /\ s = Append(b, x) /\ X = S \cup {x}
  OBVIOUS
<1>2. n \in Nat /\ s \in Seq(X) /\ Len(s) = n + 1 /\ s[n + 1] = x /\ \A i \in 1..n : s[i] = b[i] /\ b[i] \in S
  <2>1. b \in Seq(X) /\ x \in X
    BY <1>1
  <2>2. s \in Seq(X) /\ n \in Nat /\ Len(s) = n + 1
    BY <1>1, <2>1
  <2>3. s[n + 1] = x /\ \A i \in 1..n : s[i] = b[i]
    BY <1>1, <2>1
  <2>4. \A i \in 1..n : b[i] \in S
    BY <1>1
  <2> QED
    BY <2>2, <2>3, <2>4
<1>3. PICK f \in [0..Len(s) -> Seq(X)] : SelectsTo(s, I, f)
  BY <1>2, Selecting
<1>4. /\ selected(s, I) = f[n + 1] /\ f[0] = << >>
      /\ \A i \in 1..(n + 1) : f[i] = IF i \in I THEN Append(f[i - 1], s[i]) ELSE f[i - 1]
  BY <1>2, <1>3 DEF SelectsTo
<1> DEFINE None(i) == \A j \in 1..i : j \notin I
           Fine(i) == f[i] \in Seq(S) /\ (None(i) => f[i] = << >>)
           T == {i \in 0..n : Fine(i)}
<1>5. 0 \in T
  BY <1>2, <1>4
<1>6. ASSUME NEW i \in 0..(n - 1), i \in T PROVE i + 1 \in T
  <2>1. i + 1 \in 1..n /\ i + 1 \in 1..(n + 1) /\ (i + 1) - 1 = i /\ i + 1 \in 0..n
    BY <1>2
  <2>2. f[i + 1] = IF i + 1 \in I THEN Append(f[i], s[i + 1]) ELSE f[i]
    BY <1>4, <2>1
  <2>3. f[i] \in Seq(S) /\ s[i + 1] \in S
    BY <1>2, <1>6, <2>1
  <2>4. f[i + 1] \in Seq(S)
    BY <2>2, <2>3
  <2>5. ASSUME None(i + 1) PROVE f[i + 1] = << >>
    <3>1. i + 1 \notin I /\ None(i)
      BY <1>2, <2>1, <2>5
    <3> QED
      BY <1>6, <2>2, <3>1
  <2> HIDE DEF None
  <2> QED
    BY <2>1, <2>4, <2>5
<1> HIDE DEF T
<1>7. 0..n \subseteq T
  BY <1>2, <1>5, <1>6, InductionUpTo
<1>8. Fine(n)
  BY <1>2, <1>7 DEF T
<1>9. n + 1 \in I /\ n + 1 \in 1..(n + 1) /\ (n + 1) - 1 = n
  BY <1>1, <1>2
<1>10. f[n + 1] = Append(f[n], x)
  BY <1>2, <1>4, <1>9
<1>11. /\ selected(Append(b, x), I) = Append(f[n], x)
       /\ (\A i \in 1..Len(b) : i \notin I) => f[n] = << >>
  BY <1>1, <1>4, <1>8, <1>10
<1> QED
  BY <1>8, <1>11 DEF LastSelected

LEMMA AppendIs ==
  ASSUME NEW S, NEW s \in Seq(S), NEW x \in S, NEW j \in 1..(Len(s) + 1)
  PROVE  Append(s, x)[j] = IF j <= Len(s) THEN s[j] ELSE x
  OBVIOUS

LEMMA DetailWellFormed ==
  ASSUME NEW d, IsDetail(d), NEW w, w = [type |-> d.type, value |-> [ok |-> TRUE, raw |-> d.value]]
  PROVE  /\ WellFormed(w) <=> Representable(d)
         /\ [type |-> w.type, value |-> w.value.raw] = d
<1>1. w.type = d.type /\ w.value = [ok |-> TRUE, raw |-> d.value]
  OBVIOUS
<1>2. w.value.ok = TRUE /\ w.value.raw = d.value
  BY <1>1
<1>3. w.value = EmptyText <=> d.value = << >>
  <2>1. ASSUME w.value = EmptyText PROVE d.value = << >>
    <3>1. EmptyText.raw = << >>
      BY DEF EmptyText
    <3> QED
      BY <1>2, <2>1, <3>1
  <2>2. ASSUME d.value = << >> PROVE w.value = EmptyText
    BY <1>1, <2>2 DEF EmptyText
  <2> QED
    BY <2>1, <2>2
<1> QED
  BY <1>1, <1>2, <1>3 DEF WellFormed, Representable, IsDetail

\* Details that are encoded and decoded again are those that can be written down, unchanged
\* and in their order (toWireDetails and fromWireDetails of protocol.go).
THEOREM DetailsRoundTrip ==
  ASSUME NEW S, NEW ds \in Seq(S), \A d \in S : IsDetail(d)
  PROVE  decodeWireDetails(encodeWireDetails(ds)) = representable(ds)
<1> DEFINE ws == encodeWireDetails(ds)
           wired(d) == [type |-> d.type, value |-> [ok |-> TRUE, raw |-> d.value]]
           W == {wired(d) : d \in S}
           I == {i \in DOMAIN ds : Representable(ds[i])}
           read(w) == [type |-> w.type, value |-> w.value.raw]
           n == Len(ds)
<1>0. ws = [i \in DOMAIN ds |-> wired(ds[i])]
  BY DEF encodeWireDetails
<1>1. ws \in Seq(W) /\ Len(ws) = n /\ DOMAIN ws = 1..n /\ \A i \in 1..n : ws[i] = wired(ds[i])
  <2> HIDE DEF ws, wired
  <2> QED
    BY <1>0
<1>2. n \in Nat /\ \A i \in 1..n : ds[i] \in S
  OBVIOUS
<1>3. \A i \in 1..n : (WellFormed(ws[i]) <=> Representable(ds[i])) /\ read(ws[i]) = ds[i]
  BY <1>1, <1>2, DetailWellFormed
<1>4. {i \in DOMAIN ws : WellFormed(ws[i])} = I
  <2> HIDE DEF ws, read
  <2> QED
    BY <1>1, <1>3
<1> HIDE DEF ws, I, W, wired
<1>5. PICK f \in [0..n -> Seq(S)] : SelectsTo(ds, I, f)
  BY Selecting
<1>6. PICK g \in [0..n -> Seq(W)] : SelectsTo(ws, I, g)
  BY <1>1, Selecting
<1> DEFINE Alike(i) == Len(g[i]) = Len(f[i]) /\ \A j \in 1..Len(f[i]) : read(g[i][j]) = f[i][j]
           T == {i \in 0..n : Alike(i)}
<1>7. 0 \in T
  BY <1>2, <1>5, <1>6 DEF SelectsTo
<1>8. ASSUME NEW i \in 0..(n - 1), i \in T PROVE i + 1 \in T
  <2>1. i + 1 \in 1..n /\ i + 1 \in 0..n /\ i \in 0..n /\ (i + 1) - 1 = i
    BY <1>2
  <2>2. /\ f[i + 1] = IF i + 1 \in I THEN Append(f[i], ds[i + 1]) ELSE f[i]
        /\ g[i + 1] = IF i + 1 \in I THEN Append(g[i], ws[i + 1]) ELSE g[i]
    BY <1>1, <1>5, <1>6, <2>1 DEF SelectsTo
  <2>3. f[i] \in Seq(S) /\ g[i] \in Seq(W) /\ Alike(i)
    BY <1>5, <1>6, <1>8, <2>1
  <2>4. CASE i + 1 \in I
    <3>1. PICK a, b, x, y : a = f[i] /\ b = g[i] /\ x = ds[i + 1] /\ y = ws[i + 1]
      OBVIOUS
    <3>2. x \in S /\ y \in W /\ read(y) = x
      BY <1>1, <1>2, <1>3, <2>1, <3>1
    <3>3. a \in Seq(S) /\ b \in Seq(W) /\ Len(b) = Len(a) /\ \A j \in 1..Len(a) : read(b[j]) = a[j]
      BY <2>3, <3>1
    <3> HIDE DEF read
    <3>4. Len(Append(b, y)) = Len(Append(a, x))
          /\ \A j \in 1..Len(Append(a, x)) : read(Append(b, y)[j]) = Append(a, x)[j]
      <4>1. a \in Seq(S) /\ x \in S /\ b \in Seq(W) /\ y \in W
        BY <3>2, <3>3
      <4>2. /\ \A j \in 1..(Len(a) + 1) : Append(a, x)[j] = IF j <= Len(a) THEN a[j] ELSE x
            /\ \A j \in 1..(Len(b) + 1) : Append(b, y)[j] = IF j <= Len(b) THEN b[j] ELSE y
        <5>1. \A j \in 1..(Len(a) + 1) : Append(a, x)[j] = IF j <= Len(a) THEN a[j] ELSE x
          BY <4>1, AppendIs
        <5>2. \A j \in 1..(Len(b) + 1) : Append(b, y)[j] = IF j <= Len(b) THEN b[j] ELSE y
          BY <4>1, AppendIs
        <5> QED
          BY <5>1, <5>2
      <4>3. Len(Append(a, x)) = Len(a) + 1 /\ Len(Append(b, y)) = Len(b) + 1 /\ Len(a) \in Nat
        BY <4>1
      <4>4. ASSUME NEW j \in 1..(Len(a) + 1) PROVE read(Append(b, y)[j]) = Append(a, x)[j]
        <5>1. CASE j <= Len(a)
          <6>1. j \in 1..Len(a) /\ j <= Len(b) /\ j \in 1..(Len(b) + 1)
            BY <3>3, <4>3, <5>1
          <6>2. Append(a, x)[j] = a[j] /\ Append(b, y)[j] = b[j]
            BY <4>2, <5>1, <6>1
          <6>3. read(b[j]) = a[j]
            BY <3>3, <6>1
          <6> QED
            BY <6>2, <6>3
        <5>2. CASE ~(j <= Len(a))
          <6>1. ~(j <= Len(b)) /\ j \in 1..(Len(b) + 1)
            BY <3>3, <4>3, <5>2
          <6>2. Append(a, x)[j] = x /\ Append(b, y)[j] = y
            BY <4>2, <5>2, <6>1
          <6> QED
            BY <3>2, <6>2
        <5> QED
          BY <5>1, <5>2
      <4> QED
        BY <3>3, <4>3, <4>4
    <3>5. f[i + 1] = Append(a, x) /\ g[i + 1] = Append(b, y)
      BY <2>2, <2>4, <3>1
    <3>6. Alike(i + 1)
      BY <3>4, <3>5
    <3> QED
      BY <2>1, <3>6
  <2>5. CASE i + 1 \notin I
    BY <2>1, <2>2, <2>3, <2>5
  <2> QED
    BY <2>4, <2>5
<1> HIDE DEF Alike
<1>9. n \in 0..n /\ Alike(n)
  <2> HIDE DEF T
  <2>1. 0..n \subseteq T
    BY <1>2, <1>7, <1>8, InductionUpTo
  <2> QED
    BY <1>2, <2>1 DEF T
<1>10. PICK a, b : a = f[n] /\ b = g[n]
  OBVIOUS
<1>11. a \in Seq(S) /\ b \in Seq(W) /\ Len(b) = Len(a) /\ \A j \in 1..Len(a) : read(b[j]) = a[j]
  BY <1>5, <1>6, <1>9, <1>10 DEF Alike
<1>12. a = selected(ds, I) /\ b = selected(ws, I)
  BY <1>1, <1>5, <1>6, <1>10 DEF SelectsTo
<1>13. decodeWireDetails(ws) = [j \in DOMAIN b |-> read(b[j])]
  BY <1>4, <1>12 DEF decodeWireDetails
<1> HIDE DEF read
<1>14. [j \in DOMAIN b |-> read(b[j])] = a
  BY <1>11
<1> QED
  BY <1>12, <1>13, <1>14 DEF ws, I, representable
=============================================================================
