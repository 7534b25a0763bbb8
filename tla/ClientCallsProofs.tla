-------------------------- MODULE ClientCallsProofs --------------------------
(***************************************************************************)
(* Deadlines, attempts and header maps of concurrent calls, for any number *)
(* of calls and any interceptor chains.                                    *)
(*                                                                         *)
(* Every step concerns one call: it replaces the record r of that call by  *)
(* another, so what is invariant is said of a record.                      *)
(***************************************************************************)
EXTENDS ClientCalls, CommonProofs

-----------------------------------------------------------------------------
(* The deadline a server reads from a header against the one the client    *)
(* was given, for every duration a Duration can hold.                      *)

\* Duration.Milliseconds is the quotient.
LEMMA Quotient ==
  ASSUME NEW d \in Nat
  PROVE  /\ Milliseconds(d) \in Nat
         /\ Milliseconds(d) * Millisecond <= d
         /\ d < Milliseconds(d) * Millisecond + Millisecond
  BY TimeoutsAssumption DEF Milliseconds

\* Two's complement leaves alone what fits.
LEMMA WrapFits ==
  ASSUME NEW n \in Nat, n < IntBound
  PROVE  Wrap(n) = n
  BY TimeoutsAssumption DEF Wrap

\* Whatever timeout a client is given, the server's is at most that, and less than a
\* millisecond shorter; there is none at all exactly when the client's is shorter than a
\* millisecond.  The unchecked product of ParseTimeout cannot overflow on a text that
\* WithTimeout wrote (protocol.go, WithTimeout and ParseTimeout).
THEOREM TimeoutTravels ==
  ASSUME NEW d \in 1..(IntBound - 1)
  PROVE  LET told == ParseTimeout(Milliseconds(d))
         IN  IF d < Millisecond THEN told = 0
             ELSE told > d - Millisecond /\ told <= d
<1> DEFINE q == Milliseconds(d)
<1>1. q \in Nat /\ q * Millisecond <= d /\ d < q * Millisecond + Millisecond
  BY Quotient
<1>2. CASE d < Millisecond
  <2>1. q = 0
    BY <1>2, TimeoutsAssumption DEF Milliseconds
  <2> QED BY <1>2, <2>1, TimeoutsAssumption DEF ParseTimeout
<1>3. CASE d >= Millisecond
  <2>1. q > 0
    BY <1>1, <1>3, TimeoutsAssumption
  <2>2. q <= q * Millisecond
    BY <1>1, TimeoutsAssumption
  <2>3. Wrap(q * Millisecond) = q * Millisecond
    BY <1>1, WrapFits, TimeoutsAssumption
  <2> HIDE DEF q
  <2>4. ~(q <= 0 \/ q >= IntBound)
    BY <1>1, <2>1, <2>2, TimeoutsAssumption
  <2>5. ParseTimeout(q) = q * Millisecond
    BY <2>3, <2>4 DEF ParseTimeout
  <2> QED
    BY <1>1, <1>3, <2>5, TimeoutsAssumption DEF q
<1> QED
  BY <1>2, <1>3, TimeoutsAssumption

-----------------------------------------------------------------------------
(* A call.                                                                 *)

IsASequence(s) == \E S : s \in Seq(S)

LEMMA Chained == \A s \in Starts : IsASequence(s.rt.chain)
BY StartsAssumption DEF IsASequence

Fields == {"st", "shape", "rt", "reqs", "timers", "via", "res", "tries", "own", "sent",
           "attempts", "answered"}

Typed(r) ==
  /\ DOMAIN r = Fields
  /\ r.st \in {"down", "wire", "up", "open", "done"}
  /\ \E s \in Starts : r.rt = s.rt /\ r.shape = s.shape /\ r.own = s.headers
  /\ IsASequence(r.reqs) /\ Len(r.reqs) >= 1 /\ Len(r.reqs) <= Len(r.rt.chain) + 1
  /\ IsASequence(r.rt.chain) /\ DOMAIN r.timers = DOMAIN r.rt.chain
  /\ \A i \in DOMAIN r.timers :
       /\ r.timers[i] \in {"off", "armed", "fired", "released"}
       /\ r.timers[i] # "off" => r.rt.chain[i].kind = "deadline"
  /\ r.via \in {"std", "h3"} /\ (r.via = "h3" => r.rt.leaf = "auto")

\* The levels of the chain that the call has not entered, or has left, hold no
\* deadline, except that an open stream keeps those around it on the way up.
Unwound(r) ==
  /\ r.st \in {"down", "wire", "up"} /\ ~(r.st = "up" /\ r.shape = "stream" /\ r.res = "ok") =>
       \A i \in DOMAIN r.timers : i >= Len(r.reqs) => r.timers[i] \in {"off", "released"}
  /\ r.st = "done" => \A i \in DOMAIN r.timers : r.timers[i] \in {"off", "released"}

\* An answer brings the call back up, with nothing to try again for.
Answered(r) ==
  r.answered /\ (r.shape = "unary" \/ r.rt.leaf = "std") =>
    r.st \in {"up", "open", "done"} /\ r.res \in {"ok", "refused"}

CallOK(r) == Typed(r) /\ Unwound(r) /\ Answered(r)

\* A step from r to q repeats nothing that was answered.
NoRepeat(r, q) ==
  q.answered /\ (r.shape = "unary" \/ r.rt.leaf = "std") => q.attempts = r.attempts

CallsInv ==
  /\ DOMAIN call = Calls
  /\ \A c \in Calls : call[c] = Idle \/ CallOK(call[c])

LEMMA NotIdle == ASSUME NEW r, CallOK(r) PROVE r # Idle /\ r.st # "idle" /\ "st" \in DOMAIN r
BY DEF CallOK, Typed, Idle, Fields

\* Sequences, whatever their elements.
LEMMA Lengthens ==
  ASSUME NEW s, IsASequence(s), NEW x
  PROVE  IsASequence(Append(s, x)) /\ Len(s) \in Nat /\ Len(Append(s, x)) = Len(s) + 1
<1>1. PICK S : s \in Seq(S)
  BY DEF IsASequence
<1>2. s \in Seq(S \cup {x}) /\ x \in S \cup {x}
  BY <1>1
<1>3. Append(s, x) \in Seq(S \cup {x}) /\ Len(s) \in Nat /\ Len(Append(s, x)) = Len(s) + 1
  BY <1>2
<1> QED
  BY <1>3 DEF IsASequence

LEMMA Shortens ==
  ASSUME NEW s, IsASequence(s), NEW n \in Nat, n <= Len(s)
  PROVE  IsASequence(SubSeq(s, 1, n)) /\ Len(SubSeq(s, 1, n)) = n
<1>1. PICK S : s \in Seq(S)
  BY DEF IsASequence
<1>2. SubSeq(s, 1, n) \in Seq(S) /\ Len(SubSeq(s, 1, n)) = n
  BY <1>1
<1> QED
  BY <1>2 DEF IsASequence

LEMMA Indices ==
  ASSUME NEW s, IsASequence(s)
  PROVE  Len(s) \in Nat /\ DOMAIN s = 1..Len(s)
<1>1. PICK S : s \in Seq(S)
  BY DEF IsASequence
<1> QED
  BY <1>1

-----------------------------------------------------------------------------
(* What the steps do to a record.                                          *)

\* A record of the same call at another level, with other timers.
LEMMA Retyped ==
  ASSUME NEW r, Typed(r), NEW q, DOMAIN q = Fields,
         q.rt = r.rt, q.shape = r.shape, q.own = r.own, q.via = r.via,
         q.st \in {"down", "wire", "up", "open", "done"},
         IsASequence(q.reqs), Len(q.reqs) >= 1, Len(q.reqs) <= Len(r.rt.chain) + 1,
         DOMAIN q.timers = DOMAIN r.timers,
         \A i \in DOMAIN r.timers :
           /\ q.timers[i] \in {"off", "armed", "fired", "released"}
           /\ q.timers[i] # "off" => r.timers[i] # "off" \/ r.rt.chain[i].kind = "deadline"
  PROVE  Typed(q)
<1>1. \E s \in Starts : q.rt = s.rt /\ q.shape = s.shape /\ q.own = s.headers
  BY DEF Typed
<1>2. ASSUME NEW i \in DOMAIN q.timers
      PROVE  /\ q.timers[i] \in {"off", "armed", "fired", "released"}
             /\ q.timers[i] # "off" => q.rt.chain[i].kind = "deadline"
  <2>1. i \in DOMAIN r.timers
    OBVIOUS
  <2>2. r.timers[i] # "off" => r.rt.chain[i].kind = "deadline"
    BY <2>1 DEF Typed
  <2> QED
    BY <2>1, <2>2
<1>3. /\ IsASequence(q.rt.chain) /\ DOMAIN q.timers = DOMAIN q.rt.chain
      /\ q.via \in {"std", "h3"} /\ (q.via = "h3" => q.rt.leaf = "auto")
  BY DEF Typed
<1>4. Len(q.reqs) >= 1 /\ Len(q.reqs) <= Len(q.rt.chain) + 1
  OBVIOUS
<1> QED
  BY <1>1, <1>2, <1>3, <1>4 DEF Typed

\* A wrapper calls next; a deadline interceptor has set the timer t of its level.
LEMMA GoesDown ==
  ASSUME NEW r, CallOK(r), r.st = "down", Len(r.reqs) \in DOMAIN r.rt.chain, NEW x,
         NEW t \in {"off", "armed", r.timers[Len(r.reqs)]},
         t = "armed" => r.rt.chain[Len(r.reqs)].kind = "deadline"
  PROVE  LET q == [r EXCEPT !.reqs = Append(@, x), !.timers[Len(r.reqs)] = t]
         IN  CallOK(q) /\ NoRepeat(r, q)
<1> DEFINE n == Len(r.reqs)
           ts == [r.timers EXCEPT ![n] = t]
           rs == Append(r.reqs, x)
           q == [[r EXCEPT !.reqs = rs] EXCEPT !.timers = ts]
<1>1. IsASequence(rs) /\ Len(rs) = n + 1 /\ n \in Nat /\ n >= 1
  BY Lengthens DEF CallOK, Typed
<1>2. /\ DOMAIN ts = DOMAIN r.timers /\ n \in DOMAIN r.timers /\ ts[n] = t
      /\ \A i \in DOMAIN r.timers : i # n => ts[i] = r.timers[i]
  BY DEF CallOK, Typed
<1>3. DOMAIN r.timers \subseteq Nat
  BY Indices DEF CallOK, Typed
<1> HIDE DEF rs, ts, n
<1>4. /\ DOMAIN q = Fields /\ q.reqs = rs /\ q.timers = ts /\ q.st = r.st /\ q.rt = r.rt
      /\ q.shape = r.shape /\ q.via = r.via /\ q.res = r.res /\ q.answered = r.answered
      /\ q.attempts = r.attempts /\ q.own = r.own
  BY DEF CallOK, Typed, Fields
<1>5. Typed(q)
  <2>1. n + 1 <= Len(r.rt.chain) + 1
    BY <1>1, Indices DEF CallOK, Typed, n
  <2>2. ASSUME NEW i \in DOMAIN r.timers
        PROVE  /\ ts[i] \in {"off", "armed", "fired", "released"}
               /\ ts[i] # "off" => r.timers[i] # "off" \/ r.rt.chain[i].kind = "deadline"
    <3>1. r.timers[i] \in {"off", "armed", "fired", "released"}
      BY DEF CallOK, Typed
    <3> QED
      BY <1>2, <3>1 DEF n
  <2>3. Typed(r) /\ r.st \in {"down", "wire", "up", "open", "done"}
    BY DEF CallOK, Typed
  <2> HIDE DEF q
  <2> QED
    BY <1>1, <1>2, <1>4, <2>1, <2>2, <2>3, Retyped
<1>6. Unwound(q)
  BY <1>1, <1>2, <1>3, <1>4 DEF CallOK, Unwound, n
<1>7. Answered(q) /\ NoRepeat(r, q)
  BY <1>4 DEF CallOK, Answered, NoRepeat
<1>8. q = [r EXCEPT !.reqs = Append(@, x), !.timers[Len(r.reqs)] = t]
  BY DEF rs, ts, n, CallOK, Typed, Fields
<1> HIDE DEF q
<1> QED
  BY <1>5, <1>6, <1>7, <1>8 DEF CallOK

LEMMA PassesOn ==
  ASSUME NEW r, CallOK(r), r.st = "down", Len(r.reqs) \in DOMAIN r.rt.chain, NEW x
  PROVE  LET q == [r EXCEPT !.reqs = Append(@, x)]
         IN  CallOK(q) /\ NoRepeat(r, q)
<1> DEFINE rs == Append(r.reqs, x)
           q == [r EXCEPT !.reqs = rs]
<1>1. IsASequence(rs) /\ Len(r.reqs) \in Nat /\ Len(rs) = Len(r.reqs) + 1
  BY Lengthens DEF CallOK, Typed
<1>2. DOMAIN r.timers \subseteq Nat
  BY Indices DEF CallOK, Typed
<1> HIDE DEF rs
<1>3. /\ DOMAIN q = Fields /\ q.reqs = rs /\ q.timers = r.timers /\ q.st = r.st /\ q.rt = r.rt
      /\ q.shape = r.shape /\ q.via = r.via /\ q.res = r.res /\ q.answered = r.answered
      /\ q.attempts = r.attempts /\ q.own = r.own
  BY DEF CallOK, Typed, Fields
<1>4. Typed(q)
  <2>1. Len(r.rt.chain) \in Nat /\ Len(r.reqs) <= Len(r.rt.chain)
    BY Indices DEF CallOK, Typed
  <2>2. Len(rs) >= 1 /\ Len(rs) <= Len(r.rt.chain) + 1
    BY <1>1, <2>1 DEF CallOK, Typed
  <2>3. Typed(r)
    BY DEF CallOK
  <2> HIDE DEF q
  <2> QED
    BY <1>1, <1>3, <2>2, <2>3 DEF Typed
<1>5. Unwound(q)
  BY <1>1, <1>2, <1>3 DEF CallOK, Unwound
<1>6. Answered(q) /\ NoRepeat(r, q)
  BY <1>3 DEF CallOK, Answered, NoRepeat
<1> QED
  BY <1>4, <1>5, <1>6 DEF CallOK, rs

\* HTTP/3 is tried by AutoHTTP only.
Over(r) == r.via \in {"std", "h3"} /\ (r.via = "h3" => r.rt.leaf = "auto")

\* The call stays at its level and only its progress changes.
Level(r) == << r.reqs, r.timers, r.rt, r.shape, r.own >>

LEMMA Moves ==
  ASSUME NEW r, CallOK(r), NEW q, DOMAIN q = Fields, Level(q) = Level(r),
         r.st \in {"down", "wire", "up"}, ~(r.st = "up" /\ r.shape = "stream" /\ r.res = "ok"),
         q.st \in {"down", "wire", "up"}, Over(q), Answered(q)
  PROVE  CallOK(q)
<1>1. /\ q.reqs = r.reqs /\ q.timers = r.timers /\ q.rt = r.rt /\ q.shape = r.shape
      /\ q.own = r.own
  BY DEF Level
<1>2. Typed(q)
  BY <1>1 DEF CallOK, Typed, Over
<1>3. Unwound(q)
  BY <1>1 DEF CallOK, Unwound
<1> QED
  BY <1>2, <1>3 DEF CallOK

\* An attempt begins, or fails at once.
LEMMA Attempts ==
  ASSUME NEW c, CallOK(call[c]), call[c].st \in {"down", "wire"},
         NEW via \in {"std", "h3"}, via = "h3" => call[c].rt.leaf = "auto"
  PROVE  LET q == attempted(c, via)
         IN  /\ DOMAIN q = Fields /\ Level(q) = Level(call[c]) /\ q.st \in {"wire", "up"}
             /\ q.answered = call[c].answered
             /\ Over(q)
<1> DEFINE r == call[c]
<1>1. DOMAIN r = Fields
  BY DEF CallOK, Typed
<1> HIDE DEF r
<1> DEFINE Good(q) == /\ DOMAIN q = Fields /\ Level(q) = Level(r) /\ q.st \in {"wire", "up"}
                      /\ q.answered = r.answered
                      /\ Over(q)
<1>2. ASSUME NEW n, NEW x
      PROVE  Good([r EXCEPT !.st = "wire", !.via = via, !.attempts = n, !.sent = x])
  BY <1>1 DEF Fields, Level, Over, r
<1>3. Good([r EXCEPT !.st = "up", !.via = via, !.res = "failed"])
  BY <1>1 DEF Fields, Level, Over, r
<1>4. ASSUME NEW x
      PROVE  Good([r EXCEPT !.st = "wire", !.via = via, !.attempts = @ + 1, !.sent = x])
  BY <1>2
<1> HIDE DEF Good
<1>5. Good(attempted(c, via))
  BY <1>3, <1>4 DEF attempted, r
<1> QED
  BY <1>5 DEF Good, r

\* An attempt ends.
LEMMA Ends ==
  ASSUME NEW c, CallOK(call[c]), call[c].st = "wire",
         NEW res \in {"ok", "refused", "failed"}
  PROVE  LET q == concluded(c, res)
         IN  /\ DOMAIN q = Fields /\ Level(q) = Level(call[c]) /\ q.st \in {"wire", "up"}
             /\ q.answered = call[c].answered
             /\ Over(q)
             /\ res # "failed" /\ (call[c].shape = "unary" \/ call[c].rt.leaf = "std") =>
                  q.st = "up" /\ q.res \in {"ok", "refused"} /\ q.attempts = call[c].attempts
<1> DEFINE r == call[c]
<1>1. DOMAIN r = Fields /\ Over(r)
  BY DEF CallOK, Typed, Over
<1>2. CASE fallsBack(r.shape, r.via, res)
  <2>1. concluded(c, res) = attempted(c, "std")
    BY <1>2 DEF concluded
  <2>2. ~(res # "failed" /\ (r.shape = "unary" \/ r.rt.leaf = "std"))
    BY <1>1, <1>2 DEF fallsBack, Over
  <2> QED
    BY <2>1, <2>2, Attempts
<1>3. CASE ~fallsBack(r.shape, r.via, res)
  <2> DEFINE s == seen(r.shape, r.via, res)
  <2>1. concluded(c, res) = [r EXCEPT !.st = "up", !.res = s]
    BY <1>3 DEF concluded
  <2>2. res # "failed" => s \in {"ok", "refused"}
    BY DEF seen
  <2> HIDE DEF s, r
  <2>3. PICK q : q = [r EXCEPT !.st = "up", !.res = s]
    OBVIOUS
  <2>4. /\ DOMAIN q = Fields /\ Level(q) = Level(r) /\ q.st = "up" /\ q.answered = r.answered
        /\ q.via = r.via /\ q.rt = r.rt /\ q.res = s /\ q.attempts = r.attempts
    BY <1>1, <2>3 DEF Fields, Level
  <2> QED
    BY <1>1, <2>1, <2>2, <2>3, <2>4 DEF r, Over
<1> QED
  BY <1>2, <1>3

-----------------------------------------------------------------------------
(* The steps of a call.                                                    *)

NoRepeats == \A d \in Running : NoRepeat(call[d], call'[d])

LEMMA Replaces ==
  ASSUME CallsInv, NEW c \in Calls, NEW q, CallOK(q), call[c] = Idle \/ NoRepeat(call[c], q),
         call' = [call EXCEPT ![c] = q]
  PROVE  CallsInv' /\ NoRepeats
<1>1. call'[c] = q /\ DOMAIN call' = Calls /\ \A d \in Calls : d # c => call'[d] = call[d]
  BY DEF CallsInv
<1>2. CallsInv'
  BY <1>1 DEF CallsInv
<1>3. ASSUME NEW d \in Running PROVE NoRepeat(call[d], call'[d])
  <2>1. CASE d = c
    <3>1. call[c] # Idle
      BY <2>1 DEF Running, Idle
    <3> QED
      BY <1>1, <2>1, <3>1
  <2>2. CASE d # c
    BY <1>1, <2>2 DEF NoRepeat, Running
  <2> QED
    BY <2>1, <2>2
<1> QED
  BY <1>2, <1>3 DEF NoRepeats

LEMMA StartStep ==
  ASSUME CallsInv, NEW c \in Calls, NEW s \in Starts, Start(c, s)
  PROVE  CallsInv' /\ NoRepeats
<1>1. PICK hdrs, q :
        /\ q = [st |-> "down", shape |-> s.shape, rt |-> s.rt,
                reqs |-> << [url |-> s.url, hdrs |-> hdrs] >>,
                timers |-> [i \in DOMAIN s.rt.chain |-> "off"],
                via |-> "std", res |-> "none", tries |-> 0,
                own |-> s.headers, sent |-> << >>, attempts |-> 0, answered |-> FALSE]
        /\ call' = [call EXCEPT ![c] = q] /\ call[c] = Idle
  BY DEF Start
<1>2. IsASequence(q.reqs) /\ Len(q.reqs) = 1
  <2>1. PICK x : q.reqs = << x >>
    BY <1>1
  <2>2. << x >> \in Seq({x}) /\ Len(<< x >>) = 1
    OBVIOUS
  <2> QED
    BY <2>1, <2>2 DEF IsASequence
<1>3. /\ DOMAIN q = Fields /\ q.st = "down" /\ q.rt = s.rt /\ q.via = "std" /\ ~q.answered
      /\ q.shape = s.shape /\ q.own = s.headers
      /\ q.timers = [i \in DOMAIN s.rt.chain |-> "off"]
  BY <1>1 DEF Fields
<1>4. CallOK(q)
  <2>1. Typed(q)
    <3>1. IsASequence(q.rt.chain) /\ Len(q.rt.chain) \in Nat
      BY <1>3, Chained, Indices
    <3>2. \A i \in DOMAIN q.timers : q.timers[i] = "off"
      BY <1>3
    <3>3. DOMAIN q.timers = DOMAIN q.rt.chain
      BY <1>3
    <3>4. \E t \in Starts : q.rt = t.rt /\ q.shape = t.shape /\ q.own = t.headers
      BY <1>3
    <3> QED
      BY <1>2, <1>3, <3>1, <3>2, <3>3, <3>4 DEF Typed
  <2>2. Unwound(q) /\ Answered(q)
    BY <1>3 DEF Unwound, Answered
  <2> QED
    BY <2>1, <2>2 DEF CallOK
<1> QED
  BY <1>1, <1>4, Replaces

LEMMA PassOnStep ==
  ASSUME CallsInv, NEW c \in Calls, CallOK(call[c]), call[c].st = "down",
         level(c) \in DOMAIN call[c].rt.chain, NEW x, passOn(c, x)
  PROVE  CallsInv' /\ NoRepeats
<1> DEFINE q == [call[c] EXCEPT !.reqs = Append(@, x)]
<1>1. call' = [call EXCEPT ![c] = q]
  BY DEF passOn
<1>2. CallOK(q) /\ NoRepeat(call[c], q)
  BY PassesOn DEF level
<1> HIDE DEF q
<1> QED
  BY <1>1, <1>2, Replaces

LEMMA EnterStep ==
  ASSUME CallsInv, NEW c \in Calls, CallOK(call[c]), Enter(c)
  PROVE  CallsInv' /\ NoRepeats
<1> DEFINE r == call[c]
<1>1. r.st = "down" /\ Len(r.reqs) \in DOMAIN r.rt.chain
  BY DEF Enter, level
<1>2. ASSUME \E x : passOn(c, x) PROVE CallsInv' /\ NoRepeats
  BY <1>1, <1>2, PassOnStep DEF level
<1>3. CASE EnterTimed(c)
  <2> DEFINE w == wrapper(c)
             x == IF w.d > 0 THEN [Last(r.reqs) EXCEPT !.hdrs = mapFor(c)] ELSE Last(r.reqs)
             t == IF w.kind = "deadline" THEN arm(w.d) ELSE r.timers[Len(r.reqs)]
             q == [r EXCEPT !.reqs = Append(@, x), !.timers[Len(r.reqs)] = t]
  <2>1. call' = [call EXCEPT ![c].reqs = Append(@, x), ![c].timers[level(c)] = t]
    <3>1. call' = [call EXCEPT
         ![c].reqs = Append(@, IF w.d > 0 THEN [Last(@) EXCEPT !.hdrs = mapFor(c)] ELSE Last(@)),
         ![c].timers[level(c)] = IF w.kind = "deadline" THEN arm(w.d) ELSE @]
      BY <1>3 DEF EnterTimed
    <3> HIDE DEF w
    <3> QED
      BY <3>1 DEF level, CallsInv, CallOK, Typed, Fields
  <2>2. /\ t \in {"off", "armed", r.timers[Len(r.reqs)]}
        /\ t = "armed" => r.rt.chain[Len(r.reqs)].kind = "deadline"
    <3>1. t # r.timers[Len(r.reqs)] => w.kind = "deadline" /\ t \in {"off", "armed"}
      BY DEF arm
    <3>2. w = r.rt.chain[Len(r.reqs)]
      BY DEF wrapper, level
    <3>3. r.timers[Len(r.reqs)] = "armed" => r.rt.chain[Len(r.reqs)].kind = "deadline"
      BY <1>1 DEF CallOK, Typed
    <3> HIDE DEF t, w
    <3> QED
      BY <3>1, <3>2, <3>3
  <2> HIDE DEF x, t
  <2>3. call' = [call EXCEPT ![c] = q]
    BY <2>1 DEF level, CallsInv, CallOK, Typed, Fields
  <2>4. CallOK(q) /\ NoRepeat(r, q)
    BY <1>1, <2>2, GoesDown
  <2> HIDE DEF q
  <2> QED
    BY <2>3, <2>4, Replaces
<1>4. CASE call' = [call EXCEPT ![c].st = "up", ![c].res = "ok"]
  <2> DEFINE q == [r EXCEPT !.st = "up", !.res = "ok"]
  <2>1. DOMAIN r = Fields
    BY DEF CallOK, Typed
  <2>2. call' = [call EXCEPT ![c] = q]
    BY <1>4, <2>1 DEF CallsInv, Fields
  <2>3. /\ DOMAIN q = Fields /\ Level(q) = Level(r) /\ q.st = "up" /\ q.res = "ok"
        /\ q.via = r.via /\ q.rt = r.rt /\ q.attempts = r.attempts
    BY <2>1 DEF Fields, Level
  <2> HIDE DEF q
  <2>4. CallOK(q)
    <3>1. Answered(q) /\ Over(q)
      BY <2>3 DEF Answered, CallOK, Typed, Over
    <3> HIDE DEF r
    <3> QED
      BY <1>1, <2>3, <3>1, Moves DEF r
  <2>5. NoRepeat(r, q)
    BY <2>3 DEF NoRepeat
  <2> QED
    BY <2>2, <2>4, <2>5, Replaces
<1> HIDE DEF r
<1> QED
  BY <1>2, <1>3, <1>4 DEF Enter, augment, EnterBaseURL, EnterUser

LEMMA DialStep ==
  ASSUME CallsInv, NEW c \in Calls, CallOK(call[c]), Dial(c)
  PROVE  CallsInv' /\ NoRepeats
<1> DEFINE r == call[c]
           via == IF r.rt.leaf = "auto" /\ isH3(current(c).url) THEN "h3" ELSE "std"
           q == attempted(c, via)
<1>1. r.st = "down" /\ call' = [call EXCEPT ![c] = q]
  BY DEF Dial
<1>2. /\ DOMAIN q = Fields /\ Level(q) = Level(r) /\ q.st \in {"wire", "up"}
      /\ q.answered = r.answered /\ Over(q)
  <2>1. via \in {"std", "h3"} /\ (via = "h3" => r.rt.leaf = "auto")
    OBVIOUS
  <2> HIDE DEF via
  <2> QED
    BY <1>1, <2>1, Attempts
<1> HIDE DEF q
<1>3. Answered(q) /\ NoRepeat(r, q)
  BY <1>1, <1>2 DEF CallOK, Answered, NoRepeat, Level
<1>4. CallOK(q)
  BY <1>1, <1>2, <1>3, Moves
<1> QED
  BY <1>1, <1>3, <1>4, Replaces

LEMMA AnswerStep ==
  ASSUME CallsInv, NEW c \in Calls, CallOK(call[c]), NEW res \in {"ok", "refused"}, Answer(c, res)
  PROVE  CallsInv' /\ NoRepeats
<1> DEFINE r == call[c]
           e == concluded(c, res)
           q == [e EXCEPT !.answered = TRUE]
<1>1. r.st = "wire" /\ call' = [call EXCEPT ![c] = q]
  BY DEF Answer
<1>2. /\ DOMAIN e = Fields /\ Level(e) = Level(r) /\ e.st \in {"wire", "up"}
      /\ Over(e)
      /\ r.shape = "unary" \/ r.rt.leaf = "std" =>
           e.st = "up" /\ e.res \in {"ok", "refused"} /\ e.attempts = r.attempts
  BY <1>1, Ends
<1> HIDE DEF e
<1>3. /\ DOMAIN q = Fields /\ Level(q) = Level(r) /\ q.st = e.st /\ q.res = e.res
      /\ q.via = e.via /\ q.rt = e.rt /\ q.attempts = e.attempts
  BY <1>2 DEF Fields, Level
<1> HIDE DEF q, r
<1>4. Answered(q) /\ NoRepeat(r, q)
  BY <1>2, <1>3 DEF Answered, NoRepeat, Level
<1>5. CallOK(q)
  <2>1. q.st \in {"down", "wire", "up"} /\ Over(q)
    BY <1>2, <1>3 DEF Over
  <2> QED
    BY <1>1, <1>2, <1>3, <1>4, <2>1, Moves DEF r
<1> QED
  BY <1>1, <1>4, <1>5, Replaces DEF r

LEMMA FailStep ==
  ASSUME CallsInv, NEW c \in Calls, CallOK(call[c]), AttemptFails(c)
  PROVE  CallsInv' /\ NoRepeats
<1> DEFINE r == call[c]
           q == concluded(c, "failed")
<1>1. r.st = "wire" /\ call' = [call EXCEPT ![c] = q]
  BY DEF AttemptFails
<1>2. /\ DOMAIN q = Fields /\ Level(q) = Level(r) /\ q.st \in {"wire", "up"}
      /\ q.answered = r.answered /\ Over(q)
  BY <1>1, Ends
<1> HIDE DEF q
<1>3. Answered(q) /\ NoRepeat(r, q)
  BY <1>1, <1>2 DEF CallOK, Answered, NoRepeat, Level
<1>4. CallOK(q)
  BY <1>1, <1>2, <1>3, Moves
<1> QED
  BY <1>1, <1>3, <1>4, Replaces

LEMMA ReturnStep ==
  ASSUME CallsInv, NEW c \in Calls, CallOK(call[c]), call[c].st = "up", Return(c)
  PROVE  CallsInv' /\ NoRepeats
<1> DEFINE r == call[c]
           s == IF r.shape = "stream" /\ r.res = "ok" THEN "open" ELSE "done"
           q == [r EXCEPT !.st = s]
<1>1. DOMAIN r = Fields /\ r.st = "up" /\ Len(r.reqs) = 1
  BY DEF Return, level, CallOK, Typed
<1>2. call' = [call EXCEPT ![c] = q]
  BY <1>1 DEF Return, CallsInv, Fields
<1>3. /\ DOMAIN q = Fields /\ q.st = s /\ q.reqs = r.reqs /\ q.timers = r.timers /\ q.rt = r.rt
      /\ q.shape = r.shape /\ q.via = r.via /\ q.res = r.res /\ q.answered = r.answered
      /\ q.attempts = r.attempts /\ q.own = r.own
  BY <1>1 DEF Fields
<1> HIDE DEF q
<1>4. Typed(q)
  BY <1>3 DEF CallOK, Typed
<1>5. Unwound(q)
  <2>1. \A i \in DOMAIN r.timers : i >= 1
    BY Indices DEF CallOK, Typed
  <2> QED
    BY <1>1, <1>3, <2>1 DEF CallOK, Unwound
<1>6. Answered(q) /\ NoRepeat(r, q)
  BY <1>1, <1>3 DEF CallOK, Answered, NoRepeat
<1> QED
  BY <1>2, <1>4, <1>5, <1>6, Replaces DEF CallOK

LEMMA AscendStep ==
  ASSUME CallsInv, NEW c \in Calls, CallOK(call[c]), call[c].st = "up", Ascend(c)
  PROVE  CallsInv' /\ NoRepeats
<1> DEFINE r == call[c]
           i == Len(r.reqs) - 1
<1>1. DOMAIN r = Fields /\ r.st = "up" /\ i \in Nat /\ i >= 1
  <2>1. DOMAIN r = Fields /\ IsASequence(r.reqs)
    BY DEF CallOK, Typed
  <2>2. Len(r.reqs) \in Nat /\ Len(r.reqs) > 1
    BY <2>1, Indices DEF Ascend, level
  <2> QED
    BY <2>1, <2>2
<1>2. CASE /\ r.res = "failed"
           /\ call' = [call EXCEPT ![c].st = "down", ![c].tries = @ + 1]
  <2> DEFINE q == [r EXCEPT !.st = "down", !.tries = @ + 1]
  <2>1. call' = [call EXCEPT ![c] = q]
    BY <1>1, <1>2 DEF CallsInv, Fields
  <2>2. /\ DOMAIN q = Fields /\ Level(q) = Level(r) /\ q.st = "down" /\ q.res = r.res
        /\ q.via = r.via /\ q.rt = r.rt /\ q.attempts = r.attempts /\ q.answered = r.answered
        /\ q.shape = r.shape
    BY <1>1 DEF Fields, Level
  <2> HIDE DEF q
  <2>3. Answered(q) /\ NoRepeat(r, q) /\ Over(q)
    BY <1>2, <2>2 DEF CallOK, Answered, NoRepeat, Typed, Over
  <2>4. CallOK(q)
    BY <1>1, <1>2, <2>2, <2>3, Moves
  <2> QED
    BY <2>1, <2>3, <2>4, Replaces
<1>3. CASE call' = [call EXCEPT ![c].reqs = SubSeq(@, 1, i),
                      ![c].timers[i] = afterReturn(r.shape, r.res, @)]
  <2> DEFINE rs == SubSeq(r.reqs, 1, i)
             t == afterReturn(r.shape, r.res, r.timers[i])
             ts == [r.timers EXCEPT ![i] = t]
             q == [[r EXCEPT !.reqs = rs] EXCEPT !.timers = ts]
  <2>1. call' = [call EXCEPT ![c] = q]
    BY <1>1, <1>3 DEF CallsInv, Fields
  <2>2. IsASequence(rs) /\ Len(rs) = i
    BY <1>1, Shortens DEF CallOK, Typed
  <2>3. /\ DOMAIN ts = DOMAIN r.timers
        /\ \A j \in DOMAIN r.timers : ts[j] = IF j = i THEN t ELSE r.timers[j]
    OBVIOUS
  <2>4. /\ t = r.timers[i] \/ t = "released"
        /\ ~(r.shape = "stream" /\ r.res = "ok") => t \in {"off", "released"}
    BY DEF afterReturn
  <2>5. \A j \in DOMAIN r.timers : j \in Nat
    BY Indices DEF CallOK, Typed
  <2> HIDE DEF rs, t, ts
  <2>6. /\ DOMAIN q = Fields /\ q.st = r.st /\ q.reqs = rs /\ q.timers = ts /\ q.rt = r.rt
        /\ q.shape = r.shape /\ q.via = r.via /\ q.res = r.res /\ q.answered = r.answered
        /\ q.attempts = r.attempts /\ q.own = r.own
    BY <1>1 DEF Fields
  <2> HIDE DEF q
  <2>7. Typed(q)
    <3>1. Typed(r) /\ Len(r.reqs) - 1 <= Len(r.rt.chain) + 1
      BY <1>1, Indices DEF CallOK, Typed
    <3>2. ASSUME NEW j \in DOMAIN r.timers
          PROVE  /\ ts[j] \in {"off", "armed", "fired", "released"}
                 /\ ts[j] # "off" => r.timers[j] # "off" \/ r.rt.chain[j].kind = "deadline"
      <4>1. r.timers[j] \in {"off", "armed", "fired", "released"}
        BY <3>1 DEF Typed
      <4>2. t # "off" => r.timers[i] # "off"
        BY DEF t, afterReturn
      <4> HIDE DEF r, i
      <4> QED
        BY <2>3, <2>4, <4>1, <4>2
    <3> HIDE DEF r
    <3> QED
      BY <1>1, <2>2, <2>3, <2>6, <3>1, <3>2, Retyped
  <2>8. Unwound(q)
    BY <1>1, <2>2, <2>3, <2>4, <2>5, <2>6 DEF CallOK, Unwound
  <2>9. Answered(q) /\ NoRepeat(r, q)
    BY <2>6 DEF CallOK, Answered, NoRepeat
  <2> QED
    BY <2>1, <2>7, <2>8, <2>9, Replaces DEF CallOK
<1> QED
  BY <1>2, <1>3 DEF Ascend, level

LEMMA CloseStep ==
  ASSUME CallsInv, NEW c \in Calls, CallOK(call[c]), Close(c)
  PROVE  CallsInv' /\ NoRepeats
<1> DEFINE r == call[c]
           ts == [i \in DOMAIN r.timers |-> IF r.timers[i] = "off" THEN "off" ELSE "released"]
           q == [[r EXCEPT !.st = "done"] EXCEPT !.timers = ts]
<1>1. DOMAIN r = Fields /\ r.st = "open"
  BY DEF Close, CallOK, Typed
<1>2. call' = [call EXCEPT ![c] = q]
  BY <1>1 DEF Close, CallsInv, Fields
<1>3. /\ DOMAIN ts = DOMAIN r.timers
      /\ \A i \in DOMAIN ts : ts[i] \in {"off", "released"} /\ (ts[i] # "off" => r.timers[i] # "off")
  OBVIOUS
<1> HIDE DEF ts
<1>4. /\ DOMAIN q = Fields /\ q.st = "done" /\ q.reqs = r.reqs /\ q.timers = ts /\ q.rt = r.rt
      /\ q.shape = r.shape /\ q.via = r.via /\ q.res = r.res /\ q.answered = r.answered
      /\ q.attempts = r.attempts /\ q.own = r.own
  BY <1>1 DEF Fields
<1> HIDE DEF q
<1>5. Typed(q)
  <2>1. Typed(r) /\ IsASequence(r.reqs) /\ Len(r.reqs) >= 1 /\ Len(r.reqs) <= Len(r.rt.chain) + 1
    BY DEF CallOK, Typed
  <2> HIDE DEF r
  <2> QED
    BY <1>3, <1>4, <2>1, Retyped
<1>6. Unwound(q)
  BY <1>3, <1>4 DEF Unwound
<1>7. Answered(q) /\ NoRepeat(r, q)
  BY <1>1, <1>4 DEF CallOK, Answered, NoRepeat
<1> QED
  BY <1>2, <1>5, <1>6, <1>7, Replaces DEF CallOK

LEMMA ExpireStep ==
  ASSUME CallsInv, NEW c \in Calls, CallOK(call[c]), NEW i, TimerExpires(c, i)
  PROVE  CallsInv' /\ NoRepeats
<1> DEFINE r == call[c]
           ts == [r.timers EXCEPT ![i] = "fired"]
           q == [r EXCEPT !.timers = ts]
<1>1. DOMAIN r = Fields /\ i \in DOMAIN r.timers /\ r.timers[i] = "armed"
  BY DEF TimerExpires, CallOK, Typed
<1>2. call' = [call EXCEPT ![c] = q]
  BY <1>1 DEF TimerExpires, CallsInv, Fields
<1>3. /\ DOMAIN ts = DOMAIN r.timers
      /\ \A j \in DOMAIN r.timers : ts[j] = IF j = i THEN "fired" ELSE r.timers[j]
  OBVIOUS
<1> HIDE DEF ts
<1>4. /\ DOMAIN q = Fields /\ q.st = r.st /\ q.reqs = r.reqs /\ q.timers = ts /\ q.rt = r.rt
      /\ q.shape = r.shape /\ q.via = r.via /\ q.res = r.res /\ q.answered = r.answered
      /\ q.attempts = r.attempts /\ q.own = r.own
  BY <1>1 DEF Fields
<1> HIDE DEF q
<1>5. Typed(q)
  <2>1. /\ Typed(r) /\ IsASequence(r.reqs) /\ Len(r.reqs) >= 1 /\ Len(r.reqs) <= Len(r.rt.chain) + 1
        /\ r.st \in {"down", "wire", "up", "open", "done"}
        /\ \A j \in DOMAIN r.timers : r.timers[j] \in {"off", "armed", "fired", "released"}
    BY DEF CallOK, Typed
  <2> HIDE DEF r
  <2>2. ASSUME NEW j \in DOMAIN r.timers
        PROVE  /\ ts[j] \in {"off", "armed", "fired", "released"}
               /\ ts[j] # "off" => r.timers[j] # "off" \/ r.rt.chain[j].kind = "deadline"
    BY <1>1, <1>3, <2>1
  <2> QED
    BY <1>3, <1>4, <2>1, <2>2, Retyped
<1>6. Unwound(q)
  BY <1>1, <1>3, <1>4 DEF CallOK, Unwound
<1>7. Answered(q) /\ NoRepeat(r, q)
  BY <1>4 DEF CallOK, Answered, NoRepeat
<1> QED
  BY <1>2, <1>5, <1>6, <1>7, Replaces DEF CallOK

-----------------------------------------------------------------------------
(* What holds of all calls.                                                *)

LEMMA InitCalls == Init => CallsInv
BY DEF Init, CallsInv

LEMMA NextCalls == CallsInv /\ [Next]_vars => CallsInv' /\ NoRepeats
<1> SUFFICES ASSUME CallsInv, [Next]_vars PROVE CallsInv' /\ NoRepeats
  OBVIOUS
<1>1. ASSUME NEW c \in Calls, NEW s \in Starts, Start(c, s) PROVE CallsInv' /\ NoRepeats
  BY <1>1, StartStep
<1>2. ASSUME NEW c \in Calls,
             \/ Enter(c) \/ Dial(c) \/ Up(c) \/ Close(c) \/ AttemptFails(c)
             \/ \E res \in {"ok", "refused"} : Answer(c, res)
             \/ \E i \in Levels : TimerExpires(c, i)
      PROVE  CallsInv' /\ NoRepeats
  <2>1. CallOK(call[c])
    <3>1. call[c].st # "idle"
      BY <1>2 DEF Enter, Dial, Up, Close, AttemptFails, Answer, TimerExpires
    <3> QED
      BY <3>1 DEF CallsInv, Idle
  <2> QED
    BY <1>2, <2>1, EnterStep, DialStep, ReturnStep, AscendStep, CloseStep, FailStep, AnswerStep,
       ExpireStep DEF Up
<1>3. CASE UNCHANGED vars
  <2>1. call' = call
    BY <1>3 DEF vars
  <2> QED
    BY <2>1 DEF CallsInv, NoRepeats, NoRepeat, Running
<1> QED
  BY <1>1, <1>2, <1>3 DEF Next, Done

\* The strengthened invariant: which deadlines each stage of a call may hold, and that
\* an answered call is on its way up with nothing to try again for.
THEOREM Invariant == Spec => []CallsInv
BY InitCalls, NextCalls, PTL DEF Spec

\* No deadline context outlives its call (TimersReleased): the cancel of
\* DeadlineInterceptor and cancelOnClose, at every level of every chain.
THEOREM TimersAreReleased == Spec => []TimersReleased
<1>1. CallsInv => TimersReleased
  BY DEF CallsInv, CallOK, Unwound, TimersReleased, Running, Idle
<1> QED
  BY <1>1, Invariant, PTL

\* A unary call, and a stream over net/http, is not sent again once the server has
\* answered (NoAttemptAfterAnswer): AutoHTTP's fallback and retrying interceptors.
THEOREM NothingIsRepeated == Spec => NoAttemptAfterAnswer
<1> DEFINE Once == \A c \in Running :
             call'[c].answered /\ (call[c].shape = "unary" \/ call[c].rt.leaf = "std")
               => call'[c].attempts = call[c].attempts
<1>1. CallsInv /\ [Next]_vars => [Once]_vars
  BY NextCalls DEF NoRepeats, NoRepeat
<1> QED
  BY <1>1, Invariant, PTL DEF Spec, NoAttemptAfterAnswer

-----------------------------------------------------------------------------
(* What a chain makes of the headers a caller gives.                       *)
(*                                                                         *)
(* A plan is what decides about the headers of a call: what its caller     *)
(* gave, the chain and the shape.                                          *)

PlanOf(r) == [own |-> r.own, chain |-> r.rt.chain, shape |-> r.shape]
StartPlan(s) == [own |-> s.headers, chain |-> s.rt.chain, shape |-> s.shape]

IsTimed(w) == w.kind \in {"timeout", "deadline"} /\ w.d > 0
IsMark(w, shape) == w.kind = "user" /\ hook(w, shape) = "mark"

TimedIn(x) == {i \in DOMAIN x.chain : IsTimed(x.chain[i])}
MetaIn(x) == {i \in DOMAIN x.chain : x.chain[i].kind = "metadata"}
MarkIn(x) == {i \in DOMAIN x.chain : IsMark(x.chain[i], x.shape)}
Naming(x, k) == {i \in MetaIn(x) : k \in DOMAIN MD[x.chain[i].md]}

Keys(x) == DOMAIN x.own \cup (UNION {DOMAIN MD[x.chain[i].md] : i \in MetaIn(x)})
             \cup (IF TimedIn(x) # {} THEN {HeaderTimeout} ELSE {})
             \cup (IF MarkIn(x) # {} THEN {Mark} ELSE {})

\* The value is the caller's, or else that of the outermost metadata with the key.
Given(x, k, v) ==
  \/ k \in DOMAIN x.own /\ v = x.own[k]
  \/ /\ k \notin DOMAIN x.own
     /\ \E i \in Naming(x, k) :
          (\A j \in Naming(x, k) : i <= j) /\ v = MD[x.chain[i].md][k]

\* The keys that interceptors overwrite.
Special(x, k) == (k = HeaderTimeout /\ TimedIn(x) # {}) \/ (k = Mark /\ MarkIn(x) # {})

\* The map m of call c when the levels above n have written what they write.  On a
\* second attempt, or in a map used before, the levels from n on may have as well.
MapOK(c, x, n, m) ==
  /\ DOMAIN m \subseteq Keys(x)
  /\ DOMAIN x.own \subseteq DOMAIN m
  /\ \A i \in MetaIn(x) : i < n => DOMAIN MD[x.chain[i].md] \subseteq DOMAIN m
  /\ \A k \in DOMAIN m : Special(x, k) \/ Given(x, k, m[k])
  /\ \A i \in TimedIn(x) : i < n =>
       /\ HeaderTimeout \in DOMAIN m
       /\ \E j \in TimedIn(x) : i <= j /\ m[HeaderTimeout] = << Milliseconds(x.chain[j].d) >>
  /\ \A i \in MarkIn(x) : i < n => Mark \in DOMAIN m /\ m[Mark] = << c >>

\* A call has no map as long as nobody had anything to write.
NoMapOK(x, n) ==
  DOMAIN x.own = {} /\ \A i \in MetaIn(x) \cup TimedIn(x) \cup MarkIn(x) : i >= n

IsPlan(x) == IsASequence(x.chain)

LEMMA LevelsAreNumbers ==
  ASSUME NEW x, IsPlan(x), NEW i \in MetaIn(x) \cup TimedIn(x) \cup MarkIn(x)
  PROVE  i \in Nat
BY Indices DEF IsPlan, MetaIn, TimedIn, MarkIn

LEMMA NoHeadersOK ==
  ASSUME NEW c, NEW x, IsPlan(x), NEW n \in Nat, NoMapOK(x, n)
  PROVE  MapOK(c, x, n, NoHeaders)
<1>1. DOMAIN NoHeaders = {}
  BY DEF NoHeaders
<1>2. \A i \in MetaIn(x) \cup TimedIn(x) \cup MarkIn(x) : ~(i < n)
  BY LevelsAreNumbers DEF NoMapOK
<1>3. DOMAIN x.own = {}
  BY DEF NoMapOK
<1> QED
  BY <1>1, <1>2, <1>3 DEF MapOK

LEMMA GivenOK ==
  ASSUME NEW c, NEW x, IsPlan(x)
  PROVE  MapOK(c, x, 1, x.own)
<1>1. \A i \in MetaIn(x) \cup TimedIn(x) \cup MarkIn(x) : ~(i < 1)
  BY Indices DEF IsPlan, MetaIn, TimedIn, MarkIn
<1>2. DOMAIN x.own \subseteq Keys(x)
  BY DEF Keys
<1>3. \A k \in DOMAIN x.own : Given(x, k, x.own[k])
  BY DEF Given
<1> QED
  BY <1>1, <1>2, <1>3 DEF MapOK

\* A level left, or entered again.
LEMMA LowerOK ==
  ASSUME NEW c, NEW x, IsPlan(x), NEW n \in Nat, NEW m \in Nat, m <= n, NEW h, MapOK(c, x, n, h)
  PROVE  MapOK(c, x, m, h)
<1>1. \A i \in MetaIn(x) \cup TimedIn(x) \cup MarkIn(x) : i < m => i < n
  BY LevelsAreNumbers
<1> QED
  BY <1>1 DEF MapOK

LEMMA NoMapLower ==
  ASSUME NEW x, IsPlan(x), NEW n \in Nat, NEW m \in Nat, m <= n, NoMapOK(x, n)
  PROVE  NoMapOK(x, m)
<1>1. \A i \in MetaIn(x) \cup TimedIn(x) \cup MarkIn(x) : i >= n => i >= m
  BY LevelsAreNumbers
<1> QED
  BY <1>1 DEF NoMapOK

\* A level that writes nothing.
LEMMA SkipOK ==
  ASSUME NEW c, NEW x, IsPlan(x), NEW n \in Nat, n \notin MetaIn(x) \cup TimedIn(x) \cup MarkIn(x)
  PROVE  /\ NoMapOK(x, n) => NoMapOK(x, n + 1)
         /\ \A h : MapOK(c, x, n, h) => MapOK(c, x, n + 1, h)
<1>1. \A i \in MetaIn(x) \cup TimedIn(x) \cup MarkIn(x) : (i < n + 1 => i < n) /\ (i >= n => i >= n + 1)
  BY LevelsAreNumbers
<1> QED
  BY <1>1 DEF MapOK, NoMapOK

\* WithMetadata: what is set already stays.
LEMMA MetadataOK ==
  ASSUME NEW c, NEW x, IsPlan(x), NEW n \in MetaIn(x), NEW h, MapOK(c, x, n, h)
  PROVE  MapOK(c, x, n + 1, merged(h, MD[x.chain[n].md]))
<1> DEFINE md == MD[x.chain[n].md]
           g == merged(h, md)
<1>1. /\ DOMAIN g = DOMAIN h \cup DOMAIN md
      /\ \A k \in DOMAIN h : g[k] = h[k]
      /\ \A k \in DOMAIN md : k \notin DOMAIN h => g[k] = md[k]
  BY DEF merged
<1>2. n \in Nat /\ \A i \in MetaIn(x) \cup TimedIn(x) \cup MarkIn(x) :
        i \in Nat /\ (i < n + 1 => i < n \/ i = n)
  BY LevelsAreNumbers
<1>3. n \notin TimedIn(x) /\ n \notin MarkIn(x)
  BY DEF MetaIn, TimedIn, MarkIn, IsTimed, IsMark
<1> HIDE DEF g
<1>4. DOMAIN md \subseteq Keys(x)
  BY DEF Keys
<1>5. ASSUME NEW k \in DOMAIN md, k \notin DOMAIN h
      PROVE  Given(x, k, g[k])
  <2>1. g[k] = MD[x.chain[n].md][k] /\ k \notin DOMAIN x.own
    BY <1>1, <1>5 DEF MapOK
  <2>2. n \in Naming(x, k)
    BY DEF Naming
  <2>3. ASSUME NEW j \in Naming(x, k) PROVE n <= j
    <3>1. j \in MetaIn(x) /\ k \in DOMAIN MD[x.chain[j].md]
      BY DEF Naming
    <3>2. ~(j < n)
      BY <1>5, <3>1 DEF MapOK
    <3> QED
      <4>1. n \in Nat /\ j \in Nat
        BY <1>2, <3>1
      <4> QED
        BY <3>2, <4>1
  <2> QED
    BY <2>1, <2>2, <2>3 DEF Given
<1>6. \A k \in DOMAIN g : Special(x, k) \/ Given(x, k, g[k])
  BY <1>1, <1>5 DEF MapOK
<1>7. DOMAIN g \subseteq Keys(x) /\ DOMAIN x.own \subseteq DOMAIN g
  BY <1>1, <1>4 DEF MapOK
<1>8. ASSUME NEW i \in MetaIn(x), i < n + 1 PROVE DOMAIN MD[x.chain[i].md] \subseteq DOMAIN g
  BY <1>1, <1>2, <1>8 DEF MapOK
<1>9. ASSUME NEW i \in TimedIn(x), i < n + 1
      PROVE  /\ HeaderTimeout \in DOMAIN g
             /\ \E j \in TimedIn(x) : i <= j /\ g[HeaderTimeout] = << Milliseconds(x.chain[j].d) >>
  <2>1. i < n
    BY <1>2, <1>3, <1>9
  <2>2. /\ HeaderTimeout \in DOMAIN h
        /\ \E j \in TimedIn(x) : i <= j /\ h[HeaderTimeout] = << Milliseconds(x.chain[j].d) >>
    BY <2>1 DEF MapOK
  <2> QED
    BY <1>1, <2>2
<1>10. ASSUME NEW i \in MarkIn(x), i < n + 1 PROVE Mark \in DOMAIN g /\ g[Mark] = << c >>
  <2>1. i < n
    BY <1>2, <1>3, <1>10
  <2>2. Mark \in DOMAIN h /\ h[Mark] = << c >>
    BY <2>1 DEF MapOK
  <2> QED
    BY <1>1, <2>2
<1>11. MapOK(c, x, n + 1, g)
  BY <1>6, <1>7, <1>8, <1>9, <1>10 DEF MapOK
<1> QED
  BY <1>11 DEF g

\* WithTimeout and DeadlineInterceptor: the header is set, whatever it was.
LEMMA TimedOK ==
  ASSUME NEW c, NEW x, IsPlan(x), NEW n \in TimedIn(x), NEW h, MapOK(c, x, n, h)
  PROVE  MapOK(c, x, n + 1, Set(h, HeaderTimeout, Milliseconds(x.chain[n].d)))
<1> DEFINE v == Milliseconds(x.chain[n].d)
           g == Set(h, HeaderTimeout, v)
<1>1. /\ DOMAIN g = DOMAIN h \cup {HeaderTimeout} /\ g[HeaderTimeout] = << v >>
      /\ \A k \in DOMAIN h : k # HeaderTimeout => g[k] = h[k]
  BY DEF Set
<1>2. n \in Nat /\ \A i \in MetaIn(x) \cup TimedIn(x) \cup MarkIn(x) :
        i \in Nat /\ (i < n + 1 => i < n \/ i = n)
  BY LevelsAreNumbers
<1>3. n \notin MetaIn(x) /\ n \notin MarkIn(x)
  BY DEF MetaIn, TimedIn, MarkIn, IsTimed, IsMark
<1>4. HeaderTimeout # Mark
  BY DEF HeaderTimeout, Mark, Key
<1>5. HeaderTimeout \in Keys(x) /\ Special(x, HeaderTimeout)
  BY DEF Keys, Special
<1> HIDE DEF g, v
<1>6. \A k \in DOMAIN g : Special(x, k) \/ Given(x, k, g[k])
  BY <1>1, <1>5 DEF MapOK
<1>7. DOMAIN g \subseteq Keys(x) /\ DOMAIN x.own \subseteq DOMAIN g
  BY <1>1, <1>5 DEF MapOK
<1>8. ASSUME NEW i \in MetaIn(x), i < n + 1 PROVE DOMAIN MD[x.chain[i].md] \subseteq DOMAIN g
  BY <1>1, <1>2, <1>3, <1>8 DEF MapOK
<1>9. ASSUME NEW i \in TimedIn(x), i < n + 1
      PROVE  /\ HeaderTimeout \in DOMAIN g
             /\ \E j \in TimedIn(x) : i <= j /\ g[HeaderTimeout] = << Milliseconds(x.chain[j].d) >>
  <2>1. i <= n
    BY <1>2, <1>9
  <2> QED
    BY <1>1, <2>1 DEF v
<1>10. ASSUME NEW i \in MarkIn(x), i < n + 1 PROVE Mark \in DOMAIN g /\ g[Mark] = << c >>
  <2>1. i < n
    BY <1>2, <1>3, <1>10
  <2>2. Mark \in DOMAIN h /\ h[Mark] = << c >>
    BY <2>1 DEF MapOK
  <2> QED
    BY <1>1, <1>4, <2>2
<1>11. MapOK(c, x, n + 1, g)
  BY <1>6, <1>7, <1>8, <1>9, <1>10 DEF MapOK
<1> QED
  BY <1>11 DEF g, v

\* An interceptor of the user.
LEMMA MarkOK ==
  ASSUME NEW c, NEW x, IsPlan(x), NEW n \in MarkIn(x), NEW h, MapOK(c, x, n, h)
  PROVE  MapOK(c, x, n + 1, Set(h, Mark, c))
<1> DEFINE g == Set(h, Mark, c)
<1>1. /\ DOMAIN g = DOMAIN h \cup {Mark} /\ g[Mark] = << c >>
      /\ \A k \in DOMAIN h : k # Mark => g[k] = h[k]
  BY DEF Set
<1>2. n \in Nat /\ \A i \in MetaIn(x) \cup TimedIn(x) \cup MarkIn(x) :
        i \in Nat /\ (i < n + 1 => i < n \/ i = n)
  BY LevelsAreNumbers
<1>3. n \notin MetaIn(x) /\ n \notin TimedIn(x)
  BY DEF MetaIn, TimedIn, MarkIn, IsTimed, IsMark
<1>4. HeaderTimeout # Mark
  BY DEF HeaderTimeout, Mark, Key
<1>5. Mark \in Keys(x) /\ Special(x, Mark)
  BY DEF Keys, Special
<1> HIDE DEF g
<1>6. \A k \in DOMAIN g : Special(x, k) \/ Given(x, k, g[k])
  BY <1>1, <1>5 DEF MapOK
<1>7. DOMAIN g \subseteq Keys(x) /\ DOMAIN x.own \subseteq DOMAIN g
  BY <1>1, <1>5 DEF MapOK
<1>8. ASSUME NEW i \in MetaIn(x), i < n + 1 PROVE DOMAIN MD[x.chain[i].md] \subseteq DOMAIN g
  BY <1>1, <1>2, <1>3, <1>8 DEF MapOK
<1>9. ASSUME NEW i \in TimedIn(x), i < n + 1
      PROVE  /\ HeaderTimeout \in DOMAIN g
             /\ \E j \in TimedIn(x) : i <= j /\ g[HeaderTimeout] = << Milliseconds(x.chain[j].d) >>
  <2>1. i < n
    BY <1>2, <1>3, <1>9
  <2>2. /\ HeaderTimeout \in DOMAIN h
        /\ \E j \in TimedIn(x) : i <= j /\ h[HeaderTimeout] = << Milliseconds(x.chain[j].d) >>
    BY <2>1 DEF MapOK
  <2> QED
    BY <1>1, <1>4, <2>2
<1>10. MapOK(c, x, n + 1, g)
  BY <1>1, <1>6, <1>7, <1>8, <1>9 DEF MapOK
<1> QED
  BY <1>10 DEF g

-----------------------------------------------------------------------------
(* The map of a whole chain is the one a call should go out with.          *)

LEMMA MaxIs ==
  ASSUME NEW S, S \subseteq Nat, NEW m \in S, \A y \in S : m >= y
  PROVE  Max(S) = m
<1> DEFINE P(x) == x \in S /\ \A y \in S : x >= y
<1>1. PICK u : u = Max(S)
  OBVIOUS
<1>2. Max(S) = CHOOSE x : P(x)
  BY DEF Max
<1>3. P(m)
  OBVIOUS
<1> HIDE DEF P
<1>4. P(u)
  BY <1>1, <1>2, <1>3
<1> USE DEF P
<1> QED
  BY <1>1, <1>4

LEMMA MinIs ==
  ASSUME NEW S, S \subseteq Nat, NEW m \in S, \A y \in S : m <= y
  PROVE  Min(S) = m
<1> DEFINE P(x) == x \in S /\ \A y \in S : x <= y
<1>1. PICK u : u = Min(S)
  OBVIOUS
<1>2. Min(S) = CHOOSE x : P(x)
  BY DEF Min
<1>3. P(m)
  OBVIOUS
<1> HIDE DEF P
<1>4. P(u)
  BY <1>1, <1>2, <1>3
<1> USE DEF P
<1> QED
  BY <1>1, <1>4

LEMMA InnermostIs ==
  ASSUME NEW x, IsPlan(x), TimedIn(x) # {}
  PROVE  Max(TimedIn(x)) \in TimedIn(x) /\ \A j \in TimedIn(x) : j \in Nat /\ j <= Max(TimedIn(x))
<1>1. Len(x.chain) \in Nat /\ TimedIn(x) \subseteq 0..Len(x.chain)
  BY Indices DEF IsPlan, TimedIn
<1>2. PICK m \in TimedIn(x) : \A y \in TimedIn(x) : m >= y
  BY <1>1, Largest
<1>3. TimedIn(x) \subseteq Nat
  BY <1>1
<1>4. Max(TimedIn(x)) = m
  BY <1>2, <1>3, MaxIs
<1> QED
  BY <1>2, <1>3, <1>4

LEMMA ExpectedIs ==
  ASSUME NEW c, NEW x, x = PlanOf(call[c]), IsPlan(x), NEW m, MapOK(c, x, Len(x.chain) + 1, m)
  PROVE  DOMAIN expected(c) = DOMAIN m /\ \A k \in DOMAIN m : expected(c)[k] = m[k]
<1> DEFINE n == Len(x.chain) + 1
<1>1. x.own = call[c].own /\ x.chain = call[c].rt.chain /\ x.shape = call[c].shape
  BY DEF PlanOf
<1>2. /\ timeouts(c) = TimedIn(x)
      /\ marked(c) <=> MarkIn(x) # {}
  BY <1>1 DEF timeouts, TimedIn, marked, MarkIn, IsTimed, IsMark
<1>3. \A i \in MetaIn(x) \cup TimedIn(x) \cup MarkIn(x) : i \in Nat /\ i < n
  BY Indices DEF IsPlan, MetaIn, TimedIn, MarkIn
<1> DEFINE value(k) ==
        IF k = HeaderTimeout /\ timeouts(c) # {} THEN << Milliseconds(innermost(c)) >>
        ELSE IF k = Mark /\ marked(c) THEN << c >>
        ELSE IF k \in DOMAIN call[c].own THEN call[c].own[k]
        ELSE MD[call[c].rt.chain[Min(Naming(x, k))].md][k]
<1>4. expected(c) = [k \in Keys(x) |-> value(k)]
  <2> DEFINE chain == call[c].rt.chain
             mds == {i \in DOMAIN chain : chain[i].kind = "metadata"}
             of(k) == {i \in mds : k \in DOMAIN MD[chain[i].md]}
             keys == DOMAIN call[c].own \cup (UNION {DOMAIN MD[chain[i].md] : i \in mds})
                       \cup (IF timeouts(c) # {} THEN {HeaderTimeout} ELSE {})
                       \cup (IF marked(c) THEN {Mark} ELSE {})
  <2>1. expected(c) = [k \in keys |->
          IF k = HeaderTimeout /\ timeouts(c) # {} THEN << Milliseconds(innermost(c)) >>
          ELSE IF k = Mark /\ marked(c) THEN << c >>
          ELSE IF k \in DOMAIN call[c].own THEN call[c].own[k]
          ELSE MD[chain[Min(of(k))].md][k]]
    BY Zenon DEF expected
  <2>2. mds = MetaIn(x)
    BY <1>1 DEF MetaIn
  <2>3. \A k : of(k) = Naming(x, k)
    BY <1>1, <2>2 DEF Naming
  <2>4. keys = Keys(x)
    <3>1. {DOMAIN MD[chain[i].md] : i \in mds} = {DOMAIN MD[x.chain[i].md] : i \in MetaIn(x)}
      BY <1>1, <2>2, Zenon
    <3> HIDE DEF mds, chain
    <3> QED
      BY <1>1, <1>2, <3>1 DEF Keys
  <2> HIDE DEF keys, mds, of
  <2> QED
    BY <2>1, <2>3, <2>4
<1>5. DOMAIN m = Keys(x)
  <2>1. Keys(x) \subseteq DOMAIN m
    <3>1. DOMAIN x.own \subseteq DOMAIN m
      BY DEF MapOK
    <3>2. \A i \in MetaIn(x) : DOMAIN MD[x.chain[i].md] \subseteq DOMAIN m
      BY <1>3 DEF MapOK
    <3>3. TimedIn(x) # {} => HeaderTimeout \in DOMAIN m
      BY <1>3 DEF MapOK
    <3>4. MarkIn(x) # {} => Mark \in DOMAIN m
      BY <1>3 DEF MapOK
    <3> QED
      BY <3>1, <3>2, <3>3, <3>4 DEF Keys
  <2> QED
    BY <2>1 DEF MapOK
<1>6. ASSUME NEW k \in DOMAIN m PROVE value(k) = m[k]
  <2>1. CASE k = HeaderTimeout /\ TimedIn(x) # {}
    <3>1. /\ Max(TimedIn(x)) \in TimedIn(x)
          /\ \A j \in TimedIn(x) : j \in Nat /\ j <= Max(TimedIn(x))
      BY <2>1, InnermostIs
    <3>2. PICK j \in TimedIn(x) :
            Max(TimedIn(x)) <= j /\ m[HeaderTimeout] = << Milliseconds(x.chain[j].d) >>
      BY <1>3, <3>1 DEF MapOK
    <3>3. j = Max(TimedIn(x))
      BY <3>1, <3>2
    <3>4. innermost(c) = x.chain[j].d
      BY <1>1, <1>2, <3>3 DEF innermost
    <3> QED
      BY <1>2, <2>1, <3>2, <3>4
  <2>2. CASE k = Mark /\ MarkIn(x) # {}
    <3>1. m[k] = << c >>
      BY <1>3, <2>2 DEF MapOK
    <3>2. HeaderTimeout # Mark
      BY DEF HeaderTimeout, Mark, Key
    <3> QED
      BY <1>2, <2>2, <3>1, <3>2
  <2>3. CASE ~Special(x, k)
    <3>1. Given(x, k, m[k])
      BY <2>3 DEF MapOK
    <3>2. CASE k \in DOMAIN x.own
      BY <1>1, <1>2, <2>3, <3>1, <3>2 DEF Special, Given
    <3>3. CASE k \notin DOMAIN x.own
      <4>1. PICK i \in Naming(x, k) :
              (\A j \in Naming(x, k) : i <= j) /\ m[k] = MD[x.chain[i].md][k]
        BY <3>1, <3>3 DEF Given
      <4>2. Naming(x, k) \subseteq Nat
        BY <1>3 DEF Naming
      <4>3. Min(Naming(x, k)) = i
        BY <4>1, <4>2, MinIs
      <4> QED
        BY <1>1, <1>2, <2>3, <3>3, <4>1, <4>3 DEF Special
    <3> QED
      BY <3>2, <3>3
  <2> QED
    BY <2>1, <2>2, <2>3 DEF Special
<1> HIDE DEF value
<1> QED
  BY <1>4, <1>5, <1>6

-----------------------------------------------------------------------------
(* Whose a map is.                                                         *)

Active(r) == r # Idle /\ r.st \in {"down", "wire", "up"}

HdrsOf(r) == r.reqs[Len(r.reqs)].hdrs

Places(h, c) == {p \in DOMAIN h : p[1] = c}

\* A call writes into maps of its own, or into the one its caller keeps.
Mine(c, r, p) ==
  \/ p[1] = c
  \/ p = Shared /\ \E s \in Starts : s.map = "shared" /\ PlanOf(r) = StartPlan(s)

\* A caller that keeps its headers uses them with one client, for calls of one shape.
OneUse ==
  \A s, t \in Starts :
    s.map = "shared" /\ t.map = "shared" => s.rt.chain = t.rt.chain /\ s.shape = t.shape

\* Where callers do, every map holds what its call has put there.
Kept(c, x, n, m) == OneUse => MapOK(c, x, n, m)

\* All levels hold the same map, but those that had none yet.
Carries(c, r, h) ==
  LET n == Len(r.reqs)
  IN  /\ \A i \in 1..n : DOMAIN r.reqs[i] = {"url", "hdrs"}
      /\ \A i \in 1..n :
           r.reqs[i].hdrs = HdrsOf(r) \/ (r.reqs[i].hdrs = NoMap /\ NoMapOK(PlanOf(r), i))
      /\ \A i \in 1..n, j \in 1..n : i <= j /\ r.reqs[j].hdrs = NoMap => r.reqs[i].hdrs = NoMap
      /\ \/ HdrsOf(r) = NoMap /\ NoMapOK(PlanOf(r), n)
         \/ /\ HdrsOf(r) # NoMap /\ HdrsOf(r) \in DOMAIN h /\ Mine(c, r, HdrsOf(r))
            /\ Kept(c, PlanOf(r), n, h[HdrsOf(r)])

\* What is on the wire came from the map of the whole chain.
GoesOut(c, r) ==
  r.st = "wire" =>
    /\ Len(r.reqs) = Len(r.rt.chain) + 1
    /\ \E m, u : /\ Kept(c, PlanOf(r), Len(r.rt.chain) + 1, m)
                 /\ r.sent = << [url |-> u, via |-> r.via, hdrs |-> wireHeaders(m, r.shape, r.via)] >>

HeapOK(h) ==
  /\ \A p \in DOMAIN MD : p \in DOMAIN h /\ h[p] = MD[p]
  /\ Shared \in DOMAIN h
  /\ \A s \in Starts : s.map = "shared" => \A c \in Calls : Kept(c, StartPlan(s), 1, h[Shared])
  /\ \A c \in Calls :
       /\ IsFiniteSet(Places(h, c))
       /\ \A p \in Places(h, c) : \E i \in Nat : p = << c, i >> /\ i <= Cardinality(Places(h, c))

MapsInv ==
  /\ HeapOK(heap)
  /\ \A c \in Calls : Active(call[c]) => Carries(c, call[c], heap) /\ GoesOut(c, call[c])
  /\ \A c \in Calls, d \in Calls :
       Active(call[c]) /\ Active(call[d]) /\ HdrsOf(call[c]) = Shared /\ HdrsOf(call[d]) = Shared => c = d

LEMMA OnePlan ==
  ASSUME OneUse, NEW s \in Starts, NEW t \in Starts, s.map = "shared", t.map = "shared"
  PROVE  StartPlan(s) = StartPlan(t)
BY StartsAssumption DEF OneUse, StartPlan

LEMMA PlansAreChained ==
  /\ \A s \in Starts : IsPlan(StartPlan(s))
  /\ \A r : Typed(r) => IsPlan(PlanOf(r))
BY Chained DEF IsPlan, StartPlan, PlanOf, Typed

\* No writer has written yet at the first level, whoever calls.
LEMMA AnyCall ==
  ASSUME NEW c, NEW x, IsPlan(x), NEW n \in Nat, n >= 1, NEW h, MapOK(c, x, n, h), NEW d
  PROVE  MapOK(d, x, 1, h)
<1>1. MapOK(c, x, 1, h)
  BY LowerOK
<1>2. \A i \in MarkIn(x) : ~(i < 1)
  BY Indices DEF IsPlan, MarkIn
<1> QED
  BY <1>1, <1>2 DEF MapOK

LEMMA PlacesDiffer ==
  /\ NoMap # Shared
  /\ \A c \in Calls : Shared[1] # c /\ NoMap # Shared /\ \A i \in Nat : << c, i >> # NoMap /\ << c, i >> # Shared
  /\ \A p \in DOMAIN MD : p # Shared /\ p # NoMap /\ p[1] \notin Calls
<1>1. Shared[1] = "shared" /\ NoMap[1] = "nil"
  BY DEF Shared, NoMap
<1>2. NoMap # Shared
  BY <1>1
<1>3. ASSUME NEW c \in Calls PROVE Shared[1] # c
  BY <1>1, PlacesAssumption
<1>4. ASSUME NEW c, NEW i PROVE << c, i >> # NoMap /\ << c, i >> # Shared
  <2>1. DOMAIN << c, i >> = {1, 2} /\ DOMAIN NoMap = {1} /\ DOMAIN Shared = {1}
    BY DEF NoMap, Shared
  <2> QED
    BY <2>1
<1>5. ASSUME NEW p \in DOMAIN MD PROVE p # Shared /\ p # NoMap /\ p[1] \notin Calls
  BY <1>1, PlacesAssumption
<1> QED
  BY <1>2, <1>3, <1>4, <1>5

\* A step of one call.
LEMMA FrameStep ==
  ASSUME CallsInv, MapsInv, NEW c \in Calls, NEW q, call' = [call EXCEPT ![c] = q], HeapOK(heap'),
         Active(q) => Carries(c, q, heap') /\ GoesOut(c, q),
         \A d \in Calls \ {c} : Active(call[d]) /\ HdrsOf(call[d]) # NoMap =>
           /\ HdrsOf(call[d]) \in DOMAIN heap' /\ heap'[HdrsOf(call[d])] = heap[HdrsOf(call[d])]
           /\ HdrsOf(call[d]) = Shared => ~(Active(q) /\ HdrsOf(q) = Shared)
  PROVE  MapsInv'
<1>1. call'[c] = q /\ \A d \in Calls : d # c => call'[d] = call[d]
  BY DEF CallsInv
<1>2. ASSUME NEW d \in Calls, Active(call'[d])
      PROVE  Carries(d, call'[d], heap') /\ GoesOut(d, call'[d])
  <2>1. CASE d = c
    BY <1>1, <1>2, <2>1
  <2>2. CASE d # c
    <3>1. call'[d] = call[d] /\ Carries(d, call[d], heap) /\ GoesOut(d, call[d]) /\ Active(call[d])
      BY <1>1, <1>2, <2>2 DEF MapsInv
    <3>2. Carries(d, call[d], heap')
      BY <2>2, <3>1 DEF Carries
    <3> QED
      BY <3>1, <3>2
  <2> QED
    BY <2>1, <2>2
<1>3. ASSUME NEW d \in Calls, NEW e \in Calls, Active(call'[d]), Active(call'[e]),
             HdrsOf(call'[d]) = Shared, HdrsOf(call'[e]) = Shared
      PROVE  d = e
  <2>1. CASE d # c /\ e # c
    BY <1>1, <1>3, <2>1 DEF MapsInv
  <2>2. CASE d # c /\ e = c
    BY <1>1, <1>3, <2>2, PlacesDiffer
  <2>3. CASE d = c /\ e # c
    BY <1>1, <1>3, <2>3, PlacesDiffer
  <2> QED
    BY <2>1, <2>2, <2>3
<1> QED
  BY <1>2, <1>3 DEF MapsInv

\* A step that writes no map and gets none.
LEMMA QuietStep ==
  ASSUME CallsInv, MapsInv, NEW c \in Calls, NEW q, call' = [call EXCEPT ![c] = q], heap' = heap,
         Active(q) => /\ Carries(c, q, heap) /\ GoesOut(c, q)
                      /\ Active(call[c]) /\ (HdrsOf(q) = NoMap \/ HdrsOf(q) = HdrsOf(call[c]))
  PROVE  MapsInv'
<1>1. HeapOK(heap')
  BY DEF MapsInv
<1>2. Active(q) => Carries(c, q, heap') /\ GoesOut(c, q)
  OBVIOUS
<1>3. ASSUME NEW d \in Calls \ {c}, Active(call[d]), HdrsOf(call[d]) # NoMap
      PROVE  /\ HdrsOf(call[d]) \in DOMAIN heap' /\ heap'[HdrsOf(call[d])] = heap[HdrsOf(call[d])]
             /\ HdrsOf(call[d]) = Shared => ~(Active(q) /\ HdrsOf(q) = Shared)
  <2>1. Carries(d, call[d], heap)
    BY <1>3 DEF MapsInv
  <2>2. HdrsOf(call[d]) \in DOMAIN heap
    BY <1>3, <2>1 DEF Carries
  <2>3. ASSUME HdrsOf(call[d]) = Shared, Active(q), HdrsOf(q) = Shared PROVE FALSE
    <3>1. HdrsOf(call[c]) = Shared /\ Active(call[c])
      BY <2>3, PlacesDiffer
    <3> QED
      BY <1>3, <2>3, <3>1 DEF MapsInv
  <2> QED
    BY <2>2, <2>3
<1> QED
  BY <1>1, <1>2, <1>3, FrameStep

\* The map a wrapper writes into holds what the levels above have written.
LEMMA MapForOK ==
  ASSUME CallsInv, MapsInv, NEW c \in Calls, CallOK(call[c]), Active(call[c])
  PROVE  /\ Kept(c, PlanOf(call[c]), level(c), found(c))
         /\ mapFor(c) # NoMap /\ Mine(c, call[c], mapFor(c))
         /\ \/ mapFor(c) \in DOMAIN heap /\ mapFor(c) = HdrsOf(call[c])
            \/ /\ HdrsOf(call[c]) = NoMap /\ mapFor(c) \notin DOMAIN heap
               /\ mapFor(c) = << c, Cardinality(Places(heap, c)) + 1 >>
<1> DEFINE r == call[c]
           n == Len(r.reqs)
<1>1. current(c).hdrs = HdrsOf(r) /\ level(c) = n
  BY DEF current, HdrsOf, level, Last
<1>2. Carries(c, r, heap)
  BY DEF MapsInv
<1>3. n \in Nat /\ IsPlan(PlanOf(r))
  BY Indices, PlansAreChained DEF CallOK, Typed
<1>4. CASE HdrsOf(r) # NoMap
  <2>1. mapFor(c) = HdrsOf(r)
    BY <1>1, <1>4 DEF mapFor
  <2>2. HdrsOf(r) \in DOMAIN heap /\ Mine(c, r, HdrsOf(r)) /\ Kept(c, PlanOf(r), n, heap[HdrsOf(r)])
    BY <1>2, <1>4 DEF Carries
  <2>3. found(c) = heap[HdrsOf(r)]
    BY <2>1, <2>2 DEF found
  <2> QED
    BY <1>1, <1>4, <2>1, <2>2, <2>3
<1>5. CASE HdrsOf(r) = NoMap
  <2> DEFINE N == Cardinality(Places(heap, c))
  <2>1. mapFor(c) = << c, N + 1 >>
    BY <1>1, <1>5 DEF mapFor, fresh, Places
  <2>2. N \in Nat /\ \A p \in Places(heap, c) : \E i \in Nat : p = << c, i >> /\ i <= N
    BY FS_CardinalityType DEF MapsInv, HeapOK
  <2> HIDE DEF N
  <2>3. << c, N + 1 >> \notin DOMAIN heap
    <3>1. SUFFICES ASSUME << c, N + 1 >> \in DOMAIN heap PROVE FALSE
      OBVIOUS
    <3>2. << c, N + 1 >> \in Places(heap, c)
      BY <3>1 DEF Places
    <3>3. PICK i \in Nat : << c, N + 1 >> = << c, i >> /\ i <= N
      BY <2>2, <3>2
    <3> QED
      BY <2>2, <3>3
  <2>4. found(c) = NoHeaders
    BY <2>1, <2>3 DEF found
  <2>5. NoMapOK(PlanOf(r), n)
    BY <1>2, <1>5 DEF Carries
  <2>6. Kept(c, PlanOf(r), n, NoHeaders)
    BY <1>3, <2>5, NoHeadersOK DEF Kept
  <2>7. << c, N + 1 >> # NoMap
    BY <2>2, PlacesDiffer
  <2>8. Mine(c, r, << c, N + 1 >>)
    BY DEF Mine
  <2> QED
    BY <1>1, <1>5, <2>1, <2>3, <2>4, <2>6, <2>7, <2>8 DEF N
<1> QED
  BY <1>4, <1>5

\* The places of a call are numbered, and its next is free.
LEMMA StoredPlaces ==
  ASSUME HeapOK(heap), NEW c \in Calls, NEW h,
         NEW i \in Nat,
         i = 0 \/ (i = Cardinality(Places(heap, c)) + 1 /\ << c, i >> \notin DOMAIN heap)
  PROVE  HeapOK(stored(<< c, i >>, h))
<1> DEFINE p == << c, i >>
           g == stored(p, h)
           P == Places(heap, c)
<1>1. /\ DOMAIN g = DOMAIN heap \cup {p} /\ \A o \in DOMAIN heap : o # p => g[o] = heap[o]
  BY DEF stored
<1>2. p[1] = c /\ p # Shared
  BY PlacesDiffer
<1> HIDE DEF g, p
<1>3. \A o \in DOMAIN MD : o \in DOMAIN g /\ g[o] = MD[o]
  BY <1>1, <1>2, PlacesDiffer DEF HeapOK
<1>4. Shared \in DOMAIN g /\ g[Shared] = heap[Shared]
  BY <1>1, <1>2 DEF HeapOK
<1>5. ASSUME NEW d \in Calls
      PROVE  /\ IsFiniteSet(Places(g, d))
             /\ \A o \in Places(g, d) : \E j \in Nat : o = << d, j >> /\ j <= Cardinality(Places(g, d))
  <2>1. CASE d # c
    <3>1. Places(g, d) = Places(heap, d)
      BY <1>1, <1>2, <2>1 DEF Places
    <3> QED
      BY <3>1 DEF HeapOK
  <2>2. CASE d = c
    <3>1. Places(g, c) = P \cup {p} /\ (p \in P => p \in DOMAIN heap)
      BY <1>1, <1>2 DEF Places, p
    <3>2. IsFiniteSet(P) /\ \A o \in P : \E j \in Nat : o = << c, j >> /\ j <= Cardinality(P)
      BY DEF HeapOK
    <3>3. (p \notin P /\ i = Cardinality(P) + 1) \/ i = 0
      BY <3>1 DEF p
    <3> HIDE DEF P
    <3> DEFINE N == Cardinality(P \cup {p})
    <3>4. /\ IsFiniteSet(P \cup {p}) /\ Cardinality(P) \in Nat
          /\ N = IF p \in P THEN Cardinality(P) ELSE Cardinality(P) + 1
      BY <3>2, FS_AddElement, FS_CardinalityType
    <3> HIDE DEF N
    <3>5. ASSUME NEW o \in P \cup {p}
          PROVE  \E j \in Nat : o = << c, j >> /\ j <= N
      <4>1. CASE o = p
        <5>1. i <= N
          BY <3>3, <3>4
        <5> QED
          BY <4>1, <5>1 DEF p
      <4>2. CASE o \in P
        <5>1. PICK j \in Nat : o = << c, j >> /\ j <= Cardinality(P)
          BY <3>2, <4>2
        <5>2. j <= N
          BY <3>4, <5>1
        <5> QED
          BY <5>1, <5>2
      <4> QED
        BY <4>1, <4>2
    <3> QED
      BY <2>2, <3>1, <3>4, <3>5 DEF N
  <2> QED
    BY <2>1, <2>2
<1>6. HeapOK(g)
  BY <1>3, <1>4, <1>5 DEF HeapOK
<1> QED
  BY <1>6 DEF g, p

\* A wrapper of call c writes g into its map and calls next.
LEMMA WriteStep ==
  ASSUME CallsInv, MapsInv, NEW c \in Calls, CallOK(call[c]), call[c].st = "down",
         level(c) \in DOMAIN call[c].rt.chain,
         NEW g, Kept(c, PlanOf(call[c]), level(c) + 1, g), heap' = stored(mapFor(c), g),
         NEW x, DOMAIN x = {"url", "hdrs"}, x.hdrs = mapFor(c),
         NEW q, call' = [call EXCEPT ![c] = q], q.st = "down", PlanOf(q) = PlanOf(call[c]),
         q.reqs = Append(call[c].reqs, x)
  PROVE  MapsInv'
<1> DEFINE r == call[c]
           n == Len(r.reqs)
           p == mapFor(c)
           N == Cardinality(Places(heap, c))
<1>1. /\ level(c) = n /\ n \in Nat /\ n >= 1 /\ IsPlan(PlanOf(r)) /\ IsASequence(r.reqs)
      /\ Active(r) /\ Carries(c, r, heap) /\ HeapOK(heap)
  BY Indices, PlansAreChained, NotIdle DEF level, CallOK, Typed, MapsInv, Active
<1>2. /\ p # NoMap /\ Mine(c, r, p)
      /\ \/ p \in DOMAIN heap /\ p = HdrsOf(r)
         \/ HdrsOf(r) = NoMap /\ p \notin DOMAIN heap /\ p = << c, N + 1 >>
  BY <1>1, MapForOK
<1>3. /\ DOMAIN heap' = DOMAIN heap \cup {p} /\ heap'[p] = g
      /\ \A o \in DOMAIN heap : o # p => heap'[o] = heap[o]
  BY DEF stored
<1>4. Len(q.reqs) = n + 1 /\ q.reqs[n + 1] = x /\ \A i \in 1..n : q.reqs[i] = r.reqs[i]
  <2>1. PICK S : r.reqs \in Seq(S)
    BY <1>1 DEF IsASequence
  <2> QED
    BY <1>1, <2>1
<1>5. Kept(c, PlanOf(r), n + 1, g)
  BY <1>1
<1> HIDE DEF p, n
<1>6. HeapOK(heap')
  <2>1. CASE p = << c, N + 1 >> /\ p \notin DOMAIN heap
    <3>1. N \in Nat
      BY <1>1, FS_CardinalityType DEF HeapOK
    <3>2. HeapOK(stored(<< c, N + 1 >>, g))
      BY <1>1, <2>1, <3>1, StoredPlaces
    <3> QED
      BY <2>1, <3>2 DEF p
  <2>2. CASE p \in DOMAIN heap
    <3>1. DOMAIN heap' = DOMAIN heap
      BY <1>3, <2>2
    <3>2. \A d \in Calls : Places(heap', d) = Places(heap, d)
      BY <3>1 DEF Places
    <3>3. p \notin DOMAIN MD
      BY <1>2, PlacesDiffer DEF Mine
    <3>4. \A o \in DOMAIN MD : o \in DOMAIN heap' /\ heap'[o] = MD[o]
      BY <1>1, <1>3, <3>3 DEF HeapOK
    <3>5. ASSUME NEW s \in Starts, s.map = "shared", NEW d \in Calls
          PROVE  Kept(d, StartPlan(s), 1, heap'[Shared])
      <4>1. CASE p = Shared
        <5>1. Shared[1] # c
          BY PlacesDiffer
        <5>2. PICK t \in Starts : t.map = "shared" /\ PlanOf(r) = StartPlan(t)
          BY <1>2, <4>1, <5>1 DEF Mine
        <5>3. OneUse => PlanOf(r) = StartPlan(s)
          BY <3>5, <5>2, OnePlan
        <5>4. Kept(d, PlanOf(r), 1, g)
          BY <1>1, <1>5, AnyCall DEF Kept
        <5> QED
          BY <1>3, <4>1, <5>3, <5>4 DEF Kept
      <4>2. CASE p # Shared
        BY <1>1, <1>3, <3>5, <4>2 DEF HeapOK
      <4> QED
        BY <4>1, <4>2
    <3> QED
      BY <1>1, <3>1, <3>2, <3>4, <3>5 DEF HeapOK
  <2> QED
    BY <1>2, <2>1, <2>2
<1>7. Carries(c, q, heap') /\ GoesOut(c, q)
  <2>1. HdrsOf(q) = p /\ PlanOf(q) = PlanOf(r)
    BY <1>4 DEF HdrsOf, p
  <2>2. ASSUME NEW i \in 1..(n + 1)
        PROVE  /\ DOMAIN q.reqs[i] = {"url", "hdrs"}
               /\ q.reqs[i].hdrs = p \/ (q.reqs[i].hdrs = NoMap /\ NoMapOK(PlanOf(r), i))
    <3>1. CASE i = n + 1
      BY <1>4, <3>1 DEF p
    <3>2. CASE i # n + 1
      <4>1. i \in 1..n /\ i \in Nat /\ i <= n
        BY <1>1, <3>2
      <4>2. DOMAIN r.reqs[i] = {"url", "hdrs"}
        BY <1>1, <4>1 DEF Carries, n
      <4>3. CASE p = HdrsOf(r)
        BY <1>1, <1>4, <4>1, <4>2, <4>3 DEF Carries, n
      <4>4. CASE HdrsOf(r) = NoMap
        <5>1. NoMapOK(PlanOf(r), n)
          BY <1>1, <4>4 DEF Carries, n
        <5>2. NoMapOK(PlanOf(r), i)
          BY <1>1, <4>1, <5>1, NoMapLower
        <5>3. r.reqs[i].hdrs = NoMap
          BY <1>1, <4>1, <4>4 DEF Carries, n
        <5> QED
          BY <1>4, <4>1, <4>2, <5>2, <5>3
      <4> QED
        BY <1>2, <4>3, <4>4
    <3> QED
      BY <3>1, <3>2
  <2>3. ASSUME NEW i \in 1..(n + 1), NEW j \in 1..(n + 1), i <= j, q.reqs[j].hdrs = NoMap
        PROVE  q.reqs[i].hdrs = NoMap
    <3>1. j # n + 1
      BY <1>2, <1>4, <2>3 DEF p
    <3>2. j \in 1..n /\ i \in 1..n
      BY <1>1, <2>3, <3>1
    <3> QED
      BY <1>1, <1>4, <2>3, <3>2 DEF Carries, n
  <2>6. Mine(c, q, p)
    BY <1>2, <2>1 DEF Mine
  <2>4. p \in DOMAIN heap' /\ heap'[p] = g
    BY <1>3
  <2>5. GoesOut(c, q)
    BY DEF GoesOut
  <2> QED
    BY <1>2, <1>4, <1>5, <2>1, <2>2, <2>3, <2>4, <2>5, <2>6 DEF Carries
<1>8. ASSUME NEW d \in Calls \ {c}, Active(call[d]), HdrsOf(call[d]) # NoMap
      PROVE  /\ HdrsOf(call[d]) \in DOMAIN heap' /\ heap'[HdrsOf(call[d])] = heap[HdrsOf(call[d])]
             /\ HdrsOf(call[d]) = Shared => ~(Active(q) /\ HdrsOf(q) = Shared)
  <2> DEFINE o == HdrsOf(call[d])
  <2>1. o \in DOMAIN heap /\ Mine(d, call[d], o)
    BY <1>8 DEF MapsInv, Carries
  <2>2. HdrsOf(q) = p
    BY <1>4 DEF HdrsOf, p
  <2>3. o = Shared => p # Shared
    <3>1. SUFFICES ASSUME o = Shared, p = Shared PROVE FALSE
      OBVIOUS
    <3>2. p # << c, N + 1 >>
      BY <3>1 DEF Shared
    <3>3. HdrsOf(r) = Shared
      BY <1>2, <3>1, <3>2
    <3> QED
      BY <1>1, <1>8, <3>1, <3>3 DEF MapsInv
  <2>4. o # p
    <3>1. CASE p = Shared
      BY <2>3, <3>1
    <3>2. CASE p[1] = c
      <4>1. o[1] = d \/ o = Shared
        BY <2>1 DEF Mine
      <4> QED
        BY <1>8, <3>2, <4>1, PlacesDiffer
    <3> QED
      BY <1>2, <3>1, <3>2 DEF Mine
  <2> QED
    BY <1>3, <2>1, <2>2, <2>3, <2>4
<1> QED
  BY <1>6, <1>7, <1>8, FrameStep

LEMMA StartMaps ==
  ASSUME CallsInv, MapsInv, NEW c \in Calls, NEW s \in Starts, Start(c, s)
  PROVE  MapsInv'
<1> DEFINE place == CASE s.map = "nil" -> NoMap
                      [] s.map = "shared" -> Shared
                      [] OTHER -> << c, 0 >>
<1>1. PICK q :
        /\ q = [st |-> "down", shape |-> s.shape, rt |-> s.rt,
                reqs |-> << [url |-> s.url, hdrs |-> place] >>,
                timers |-> [i \in DOMAIN s.rt.chain |-> "off"],
                via |-> "std", res |-> "none", tries |-> 0,
                own |-> s.headers, sent |-> << >>, attempts |-> 0, answered |-> FALSE]
        /\ call' = [call EXCEPT ![c] = q]
  BY DEF Start
<1>2. /\ heap' = IF s.map = "own" THEN stored(place, s.headers) ELSE heap
      /\ s.map = "shared" => \A d \in Calls : call[d].st \notin {"down", "wire", "up"}
  BY DEF Start
<1>3. s.map \in {"nil", "own", "shared"} /\ IsPlan(StartPlan(s)) /\ HeapOK(heap)
  BY StartsAssumption, PlansAreChained DEF MapsInv
<1>4. /\ s.map = "nil" => place = NoMap
      /\ s.map = "shared" => place = Shared
      /\ s.map = "own" => place = << c, 0 >>
  OBVIOUS
<1> HIDE DEF place
<1>5. PICK x : x = [url |-> s.url, hdrs |-> place] /\ q.reqs = << x >>
  BY <1>1
<1>6. /\ Len(q.reqs) = 1 /\ q.reqs[1] = x /\ x.hdrs = place /\ DOMAIN x = {"url", "hdrs"}
      /\ HdrsOf(q) = place
  <2>1. PICK t : t = << x >>
    OBVIOUS
  <2>2. Len(t) = 1 /\ t[1] = x
    BY <2>1
  <2> QED
    BY <1>5, <2>1, <2>2 DEF HdrsOf
<1>7. PlanOf(q) = StartPlan(s) /\ q.st = "down" /\ GoesOut(c, q) /\ Active(q)
  BY <1>1 DEF PlanOf, StartPlan, GoesOut, Active, Idle
<1>8. StartPlan(s).own = s.headers
  BY DEF StartPlan
<1>9. HeapOK(heap')
  <2>1. CASE s.map = "own"
    <3>1. HeapOK(stored(<< c, 0 >>, s.headers))
      BY <1>3, StoredPlaces
    <3> QED
      BY <1>2, <1>4, <2>1, <3>1
  <2> QED
    BY <1>2, <1>3, <2>1
<1>10. \/ place = NoMap /\ NoMapOK(StartPlan(s), 1)
       \/ /\ place # NoMap /\ place \in DOMAIN heap' /\ Mine(c, q, place)
          /\ Kept(c, StartPlan(s), 1, heap'[place])
  <2>1. CASE s.map = "nil"
    <3>1. DOMAIN StartPlan(s).own = {}
      BY <1>8, <2>1, StartsAssumption DEF NoHeaders
    <3>2. \A i \in MetaIn(StartPlan(s)) \cup TimedIn(StartPlan(s)) \cup MarkIn(StartPlan(s)) : i >= 1
      BY <1>3, Indices DEF IsPlan, MetaIn, TimedIn, MarkIn
    <3> QED
      BY <1>4, <2>1, <3>1, <3>2 DEF NoMapOK
  <2>2. CASE s.map = "shared"
    <3>1. Shared \in DOMAIN heap /\ Kept(c, StartPlan(s), 1, heap[Shared])
      BY <1>3, <2>2 DEF HeapOK
    <3>2. Mine(c, q, Shared)
      BY <1>7, <2>2 DEF Mine
    <3> QED
      BY <1>2, <1>4, <2>2, <3>1, <3>2, PlacesDiffer
  <2>3. CASE s.map = "own"
    <3>1. heap' = stored(<< c, 0 >>, s.headers)
      BY <1>2, <1>4, <2>3
    <3>2. << c, 0 >> \in DOMAIN heap' /\ heap'[<< c, 0 >>] = s.headers
      BY <3>1 DEF stored
    <3>3. Kept(c, StartPlan(s), 1, s.headers)
      BY <1>3, <1>8, GivenOK DEF Kept
    <3>4. Mine(c, q, << c, 0 >>) /\ << c, 0 >> # NoMap
      BY PlacesDiffer DEF Mine
    <3> QED
      BY <1>4, <2>3, <3>2, <3>3, <3>4
  <2> QED
    BY <1>3, <2>1, <2>2, <2>3
<1>11. Carries(c, q, heap')
  <2>1. \A i \in 1..1 : DOMAIN q.reqs[i] = {"url", "hdrs"} /\ q.reqs[i].hdrs = HdrsOf(q)
    BY <1>6
  <2>2. \A i \in 1..1, j \in 1..1 : q.reqs[j].hdrs = NoMap => q.reqs[i].hdrs = NoMap
    OBVIOUS
  <2> QED
    BY <1>6, <1>7, <1>10, <2>1, <2>2 DEF Carries
<1>12. ASSUME NEW d \in Calls \ {c}, Active(call[d]), HdrsOf(call[d]) # NoMap
       PROVE  /\ HdrsOf(call[d]) \in DOMAIN heap' /\ heap'[HdrsOf(call[d])] = heap[HdrsOf(call[d])]
              /\ HdrsOf(call[d]) = Shared => ~(Active(q) /\ HdrsOf(q) = Shared)
  <2> DEFINE o == HdrsOf(call[d])
  <2>1. o \in DOMAIN heap /\ Mine(d, call[d], o)
    BY <1>12 DEF MapsInv, Carries
  <2>2. s.map # "shared"
    BY <1>2, <1>12 DEF Active
  <2>3. place # Shared
    BY <1>3, <1>4, <2>2, PlacesDiffer
  <2>4. o # << c, 0 >>
    BY <1>12, <2>1, PlacesDiffer DEF Mine
  <2>5. o \in DOMAIN heap' /\ heap'[o] = heap[o]
    <3>1. CASE s.map = "own"
      <4>1. heap' = stored(<< c, 0 >>, s.headers)
        BY <1>2, <1>4, <3>1
      <4> QED
        BY <2>1, <2>4, <4>1 DEF stored
    <3> QED
      BY <1>2, <2>1, <3>1
  <2> QED
    BY <1>6, <2>3, <2>5
<1>13. call' = [call EXCEPT ![c] = q]
  BY <1>1
<1> QED
  BY <1>7, <1>9, <1>11, <1>12, <1>13, FrameStep

\* A wrapper that writes nothing calls next.
LEMMA SkipStep ==
  ASSUME CallsInv, MapsInv, NEW c \in Calls, CallOK(call[c]), call[c].st = "down",
         level(c) \notin MetaIn(PlanOf(call[c])) \cup TimedIn(PlanOf(call[c])) \cup MarkIn(PlanOf(call[c])),
         heap' = heap, NEW x, DOMAIN x = {"url", "hdrs"}, x.hdrs = HdrsOf(call[c]),
         NEW q, call' = [call EXCEPT ![c] = q], q.st = "down", PlanOf(q) = PlanOf(call[c]),
         q.reqs = Append(call[c].reqs, x)
  PROVE  MapsInv'
<1> DEFINE r == call[c]
           n == Len(r.reqs)
           M == HdrsOf(r)
<1>1. /\ level(c) = n /\ n \in Nat /\ n >= 1 /\ IsPlan(PlanOf(r)) /\ IsASequence(r.reqs)
      /\ Active(r) /\ Carries(c, r, heap)
  BY Indices, PlansAreChained, NotIdle DEF level, CallOK, Typed, MapsInv, Active
<1>2. Len(q.reqs) = n + 1 /\ q.reqs[n + 1] = x /\ \A i \in 1..n : q.reqs[i] = r.reqs[i]
  <2>1. PICK S : r.reqs \in Seq(S)
    BY <1>1 DEF IsASequence
  <2> QED
    BY <1>1, <2>1
<1>3. HdrsOf(q) = M
  BY <1>2 DEF HdrsOf
<1>4. /\ NoMapOK(PlanOf(r), n) => NoMapOK(PlanOf(r), n + 1)
      /\ \A h : Kept(c, PlanOf(r), n, h) => Kept(c, PlanOf(r), n + 1, h)
  BY <1>1, SkipOK DEF Kept
<1>5. M = r.reqs[n].hdrs
  BY DEF HdrsOf
<1> HIDE DEF n, M
<1>6. ASSUME NEW i \in 1..(n + 1)
      PROVE  /\ DOMAIN q.reqs[i] = {"url", "hdrs"}
             /\ q.reqs[i].hdrs = M \/ (q.reqs[i].hdrs = NoMap /\ NoMapOK(PlanOf(r), i))
  <2>1. CASE i = n + 1
    BY <1>2, <2>1 DEF M
  <2>2. CASE i # n + 1
    <3>1. i \in 1..n
      BY <1>1, <2>2
    <3> QED
      BY <1>1, <1>2, <3>1 DEF Carries, n, M
  <2> QED
    BY <2>1, <2>2
<1>7. ASSUME NEW i \in 1..(n + 1), NEW j \in 1..(n + 1), i <= j, q.reqs[j].hdrs = NoMap
      PROVE  q.reqs[i].hdrs = NoMap
  <2>1. CASE i = n + 1
    <3>1. j = n + 1
      BY <1>1, <1>7, <2>1
    <3> QED
      BY <1>7, <2>1, <3>1
  <2>2. CASE i # n + 1
    <3>1. i \in 1..n /\ n \in 1..n /\ i <= n
      BY <1>1, <2>2
    <3>2. CASE j = n + 1
      <4>1. r.reqs[n].hdrs = NoMap
        BY <1>2, <1>5, <1>7, <3>2 DEF M
      <4> QED
        BY <1>1, <1>2, <3>1, <4>1 DEF Carries, n
    <3>3. CASE j # n + 1
      <4>1. j \in 1..n
        BY <1>1, <3>3
      <4> QED
        BY <1>1, <1>2, <1>7, <3>1, <4>1 DEF Carries, n
    <3> QED
      BY <3>2, <3>3
  <2> QED
    BY <2>1, <2>2
<1>8. \/ M = NoMap /\ NoMapOK(PlanOf(r), n + 1)
      \/ /\ M # NoMap /\ M \in DOMAIN heap /\ Mine(c, q, M)
         /\ Kept(c, PlanOf(r), n + 1, heap[M])
  BY <1>1, <1>4 DEF Carries, Mine, n, M
<1>9. Carries(c, q, heap)
  BY <1>2, <1>3, <1>6, <1>7, <1>8 DEF Carries
<1>10. GoesOut(c, q)
  BY DEF GoesOut
<1>11. HdrsOf(q) = HdrsOf(r)
  BY <1>3 DEF M
<1> QED
  BY <1>1, <1>9, <1>10, <1>11, QuietStep

\* A call that stays at its level, or comes to its end.
LEMMA StayStep ==
  ASSUME CallsInv, MapsInv, NEW c \in Calls, NEW q, call' = [call EXCEPT ![c] = q], heap' = heap,
         Active(q) => /\ Active(call[c]) /\ q.reqs = call[c].reqs /\ PlanOf(q) = PlanOf(call[c])
                      /\ GoesOut(c, q)
  PROVE  MapsInv'
<1>1. ASSUME Active(q)
      PROVE  /\ Carries(c, q, heap) /\ GoesOut(c, q)
             /\ Active(call[c]) /\ (HdrsOf(q) = NoMap \/ HdrsOf(q) = HdrsOf(call[c]))
  <2>1. Active(call[c]) /\ q.reqs = call[c].reqs /\ PlanOf(q) = PlanOf(call[c]) /\ GoesOut(c, q)
    BY <1>1
  <2>2. Carries(c, call[c], heap)
    BY <2>1 DEF MapsInv
  <2>3. HdrsOf(q) = HdrsOf(call[c])
    BY <2>1 DEF HdrsOf
  <2>4. Carries(c, q, heap)
    BY <2>1, <2>2, <2>3 DEF Carries, Mine
  <2> QED
    BY <2>1, <2>3, <2>4
<1> QED
  BY <1>1, QuietStep

LEMMA SamePlan ==
  ASSUME NEW r, NEW q, Level(q) = Level(r)
  PROVE  /\ q.reqs = r.reqs /\ q.rt = r.rt /\ q.shape = r.shape /\ q.own = r.own
         /\ PlanOf(q) = PlanOf(r)
<1>1. q.reqs = r.reqs /\ q.rt = r.rt /\ q.shape = r.shape /\ q.own = r.own
  BY DEF Level
<1> QED
  BY <1>1 DEF PlanOf

LEMMA SameOut ==
  ASSUME NEW c, NEW r, NEW q, GoesOut(c, r), q.st = r.st, q.reqs = r.reqs, PlanOf(q) = PlanOf(r),
         q.rt = r.rt, q.shape = r.shape, q.via = r.via, q.sent = r.sent
  PROVE  GoesOut(c, q)
BY DEF GoesOut

\* An attempt sends the headers of the current level.
LEMMA AttemptOut ==
  ASSUME CallsInv, MapsInv, NEW c \in Calls, CallOK(call[c]), Active(call[c]),
         Len(call[c].reqs) = Len(call[c].rt.chain) + 1, NEW via
  PROVE  GoesOut(c, attempted(c, via))
<1> DEFINE r == call[c]
           m == headersOf(current(c))
           n == Len(r.rt.chain) + 1
           sent == [url |-> current(c).url, via |-> via, hdrs |-> wireHeaders(m, r.shape, via)]
<1>1. DOMAIN r = Fields /\ Carries(c, r, heap) /\ n \in Nat /\ IsPlan(PlanOf(r))
  BY Indices, PlansAreChained DEF CallOK, Typed, MapsInv
<1>2. Kept(c, PlanOf(r), n, m)
  <2>1. current(c).hdrs = HdrsOf(r)
    BY DEF current, HdrsOf, Last
  <2>2. CASE HdrsOf(r) = NoMap
    <3>1. m = NoHeaders /\ NoMapOK(PlanOf(r), n)
      BY <1>1, <2>1, <2>2 DEF headersOf, Carries
    <3> QED
      BY <1>1, <3>1, NoHeadersOK DEF Kept
  <2>3. CASE HdrsOf(r) # NoMap
    <3>1. m = heap[HdrsOf(r)]
      BY <2>1, <2>3 DEF headersOf
    <3> QED
      BY <1>1, <2>3, <3>1 DEF Carries
  <2> QED
    BY <2>2, <2>3
<1>3. PICK a : a = attempted(c, via)
  OBVIOUS
<1>4. CASE live(c) /\ current(c).url # "relative"
  <2>1. a = [r EXCEPT !.st = "wire", !.via = via, !.attempts = @ + 1, !.sent = << sent >>]
    BY <1>3, <1>4 DEF attempted
  <2> HIDE DEF sent, r
  <2>2. /\ a.via = via /\ a.sent = << sent >> /\ a.reqs = r.reqs /\ a.rt = r.rt
        /\ a.shape = r.shape /\ a.own = r.own
    BY <1>1, <2>1 DEF Fields
  <2>3. PlanOf(a) = PlanOf(r)
    BY <2>2 DEF PlanOf
  <2>4. a.sent = << [url |-> current(c).url, via |-> a.via, hdrs |-> wireHeaders(m, a.shape, a.via)] >>
    BY <2>2 DEF sent
  <2> HIDE DEF m
  <2> QED
    BY <1>2, <1>3, <2>2, <2>3, <2>4 DEF GoesOut, r
<1>5. CASE ~(live(c) /\ current(c).url # "relative")
  <2>1. a = [r EXCEPT !.st = "up", !.via = via, !.res = "failed"]
    BY <1>3, <1>5 DEF attempted
  <2>2. a.st = "up"
    BY <1>1, <2>1 DEF Fields
  <2> QED
    BY <1>3, <2>2 DEF GoesOut
<1> QED
  BY <1>4, <1>5

LEMMA ConcludedOut ==
  ASSUME CallsInv, MapsInv, NEW c \in Calls, CallOK(call[c]), call[c].st = "wire", NEW res
  PROVE  GoesOut(c, concluded(c, res))
<1>1. Active(call[c]) /\ Len(call[c].reqs) = Len(call[c].rt.chain) + 1 /\ DOMAIN call[c] = Fields
  BY NotIdle DEF Active, MapsInv, GoesOut, CallOK, Typed
<1>2. CASE fallsBack(call[c].shape, call[c].via, res)
  BY <1>1, <1>2, AttemptOut DEF concluded
<1>3. CASE ~fallsBack(call[c].shape, call[c].via, res)
  <2> DEFINE s == seen(call[c].shape, call[c].via, res)
  <2>1. concluded(c, res) = [call[c] EXCEPT !.st = "up", !.res = s]
    BY <1>3 DEF concluded
  <2> HIDE DEF s
  <2>2. concluded(c, res).st = "up"
    BY <1>1, <2>1 DEF Fields
  <2> QED
    BY <2>2 DEF GoesOut
<1> QED
  BY <1>2, <1>3

-----------------------------------------------------------------------------
(* The steps of a call and the maps.                                       *)

\* The request of the current level.
LEMMA CurrentIs ==
  ASSUME CallsInv, MapsInv, NEW c \in Calls, CallOK(call[c]), Active(call[c])
  PROVE  DOMAIN current(c) = {"url", "hdrs"} /\ current(c).hdrs = HdrsOf(call[c])
<1> DEFINE n == Len(call[c].reqs)
<1>1. n \in Nat /\ n >= 1 /\ Carries(c, call[c], heap)
  BY Indices DEF CallOK, Typed, MapsInv
<1>2. n \in 1..n /\ current(c) = call[c].reqs[n]
  BY <1>1 DEF current, Last
<1> QED
  BY <1>1, <1>2 DEF Carries, HdrsOf

LEMMA WrapperIs ==
  ASSUME CallsInv, NEW c \in Calls, CallOK(call[c]), level(c) \in DOMAIN call[c].rt.chain
  PROVE  /\ wrapper(c).kind = "metadata" => wrapper(c).md \in DOMAIN MD
         /\ LET x == PlanOf(call[c])
            IN  /\ x.chain[level(c)] = wrapper(c) /\ x.shape = call[c].shape
                /\ level(c) \in MetaIn(x) <=> wrapper(c).kind = "metadata"
                /\ level(c) \in TimedIn(x) <=> IsTimed(wrapper(c))
                /\ level(c) \in MarkIn(x) <=> IsMark(wrapper(c), call[c].shape)
<1> DEFINE x == PlanOf(call[c])
<1>1. x.chain = call[c].rt.chain /\ x.shape = call[c].shape
  BY DEF PlanOf
<1>2. wrapper(c) = x.chain[level(c)]
  BY <1>1 DEF wrapper
<1>3. PICK s \in Starts : call[c].rt = s.rt
  BY DEF CallOK, Typed
<1>4. wrapper(c) \in ToSet(s.rt.chain)
  BY <1>3 DEF wrapper, ToSet
<1>5. wrapper(c).kind = "metadata" => wrapper(c).md \in DOMAIN MD
  BY <1>4, StartsAssumption
<1> HIDE DEF x
<1>6. /\ level(c) \in MetaIn(x) <=> wrapper(c).kind = "metadata"
      /\ level(c) \in TimedIn(x) <=> IsTimed(wrapper(c))
      /\ level(c) \in MarkIn(x) <=> IsMark(wrapper(c), call[c].shape)
  BY <1>1, <1>2 DEF MetaIn, TimedIn, MarkIn
<1> QED
  BY <1>1, <1>2, <1>5, <1>6 DEF x

\* What a wrapper calls next with.
LEMMA NextRecord ==
  ASSUME NEW r, DOMAIN r = Fields, NEW x
  PROVE  LET q == [r EXCEPT !.reqs = Append(@, x)]
         IN  q.st = r.st /\ PlanOf(q) = PlanOf(r) /\ q.reqs = Append(r.reqs, x)
<1> DEFINE rs == Append(r.reqs, x)
           q == [r EXCEPT !.reqs = rs]
<1> HIDE DEF rs
<1>1. q.st = r.st /\ q.reqs = rs /\ q.own = r.own /\ q.rt = r.rt /\ q.shape = r.shape
  BY DEF Fields
<1> QED
  BY <1>1 DEF PlanOf, rs

LEMMA WriteOn ==
  ASSUME CallsInv, MapsInv, NEW c \in Calls, CallOK(call[c]), call[c].st = "down",
         level(c) \in DOMAIN call[c].rt.chain,
         NEW g, Kept(c, PlanOf(call[c]), level(c) + 1, g), writeHeaders(c, g),
         passOn(c, [current(c) EXCEPT !.hdrs = mapFor(c)])
  PROVE  MapsInv'
<1> DEFINE x == [current(c) EXCEPT !.hdrs = mapFor(c)]
           q == [call[c] EXCEPT !.reqs = Append(@, x)]
<1>1. Active(call[c]) /\ DOMAIN call[c] = Fields
  BY NotIdle DEF Active, CallOK, Typed
<1>2. DOMAIN x = {"url", "hdrs"} /\ x.hdrs = mapFor(c)
  BY <1>1, CurrentIs
<1> HIDE DEF x
<1>3. q.st = "down" /\ PlanOf(q) = PlanOf(call[c]) /\ q.reqs = Append(call[c].reqs, x)
  BY <1>1, NextRecord
<1>4. call' = [call EXCEPT ![c] = q] /\ heap' = stored(mapFor(c), g)
  BY DEF passOn, writeHeaders, x
<1> HIDE DEF q
<1> QED
  BY <1>2, <1>3, <1>4, WriteStep

LEMMA SkipOn ==
  ASSUME CallsInv, MapsInv, NEW c \in Calls, CallOK(call[c]), call[c].st = "down",
         level(c) \notin MetaIn(PlanOf(call[c])) \cup TimedIn(PlanOf(call[c])) \cup MarkIn(PlanOf(call[c])),
         heap' = heap, NEW x, DOMAIN x = {"url", "hdrs"}, x.hdrs = HdrsOf(call[c]), passOn(c, x)
  PROVE  MapsInv'
<1> DEFINE q == [call[c] EXCEPT !.reqs = Append(@, x)]
<1>1. DOMAIN call[c] = Fields
  BY DEF CallOK, Typed
<1>2. q.st = "down" /\ PlanOf(q) = PlanOf(call[c]) /\ q.reqs = Append(call[c].reqs, x)
  BY <1>1, NextRecord
<1>3. call' = [call EXCEPT ![c] = q]
  BY DEF passOn
<1> HIDE DEF q
<1> QED
  BY <1>2, <1>3, SkipStep

LEMMA EnterMaps ==
  ASSUME CallsInv, MapsInv, NEW c \in Calls, CallOK(call[c]), Enter(c)
  PROVE  MapsInv'
<1> DEFINE r == call[c]
           x == PlanOf(r)
           w == wrapper(c)
           n == level(c)
<1>1. /\ r.st = "down" /\ n \in DOMAIN r.rt.chain /\ Active(r) /\ DOMAIN r = Fields
      /\ IsPlan(x) /\ HeapOK(heap)
  BY NotIdle, PlansAreChained DEF Enter, Active, CallOK, Typed, MapsInv
<1>2. DOMAIN current(c) = {"url", "hdrs"} /\ current(c).hdrs = HdrsOf(r)
  BY <1>1, CurrentIs
<1>3. /\ w.kind = "metadata" => w.md \in DOMAIN MD
      /\ x.chain[n] = w /\ x.shape = r.shape
      /\ n \in MetaIn(x) <=> w.kind = "metadata"
      /\ n \in TimedIn(x) <=> IsTimed(w)
      /\ n \in MarkIn(x) <=> IsMark(w, r.shape)
  BY <1>1, WrapperIs
<1>4. Kept(c, x, n, found(c))
  BY <1>1, MapForOK
<1>5. CASE augment(c)
  <2> DEFINE g == merged(found(c), heap[w.md])
  <2>1. w.kind = "metadata" /\ writeHeaders(c, g) /\ passOn(c, [current(c) EXCEPT !.hdrs = mapFor(c)])
    BY <1>5 DEF augment
  <2>2. heap[w.md] = MD[x.chain[n].md] /\ n \in MetaIn(x)
    BY <1>1, <1>3, <2>1 DEF HeapOK
  <2>3. Kept(c, x, n + 1, g)
    BY <1>1, <1>4, <2>2, MetadataOK DEF Kept
  <2> HIDE DEF g
  <2> QED
    BY <1>1, <2>1, <2>3, WriteOn
<1>6. CASE EnterBaseURL(c)
  <2> DEFINE y == [current(c) EXCEPT !.url = prepend(w.base, @)]
  <2>1. w.kind = "baseURL" /\ passOn(c, y) /\ heap' = heap
    BY <1>6 DEF EnterBaseURL
  <2>2. DOMAIN y = {"url", "hdrs"} /\ y.hdrs = HdrsOf(r)
    BY <1>2
  <2>3. n \notin MetaIn(x) \cup TimedIn(x) \cup MarkIn(x)
    BY <1>3, <2>1 DEF IsTimed, IsMark
  <2> HIDE DEF y
  <2> QED
    BY <1>1, <2>1, <2>2, <2>3, SkipOn
<1>7. CASE EnterTimed(c)
  <2> DEFINE y == IF w.d > 0 THEN [Last(r.reqs) EXCEPT !.hdrs = mapFor(c)] ELSE Last(r.reqs)
             t == IF w.kind = "deadline" THEN arm(w.d) ELSE r.timers[n]
             rs == Append(r.reqs, y)
             ts == [r.timers EXCEPT ![n] = t]
             q == [[r EXCEPT !.reqs = rs] EXCEPT !.timers = ts]
  <2>1. call' = [call EXCEPT ![c] = q]
    <3>1. call' = [call EXCEPT
         ![c].reqs = Append(@, IF w.d > 0 THEN [Last(@) EXCEPT !.hdrs = mapFor(c)] ELSE Last(@)),
         ![c].timers[level(c)] = IF w.kind = "deadline" THEN arm(w.d) ELSE @]
      BY <1>7 DEF EnterTimed
    <3> HIDE DEF w
    <3> QED
      BY <1>1, <3>1 DEF CallsInv, Fields
  <2>2. Last(r.reqs) = current(c)
    BY DEF current
  <2>3. q.st = "down" /\ PlanOf(q) = x /\ q.reqs = rs
    <3> HIDE DEF rs, ts, r
    <3>1. /\ q.st = r.st /\ q.reqs = rs /\ q.own = r.own /\ q.rt = r.rt /\ q.shape = r.shape
      BY <1>1 DEF Fields
    <3> QED
      BY <1>1, <3>1 DEF PlanOf, r
  <2>4. w.kind \in {"timeout", "deadline"}
    BY <1>7 DEF EnterTimed
  <2> HIDE DEF q, t, ts
  <2>5. CASE w.d > 0
    <3> DEFINE g == Set(found(c), HeaderTimeout, Milliseconds(w.d))
    <3>1. heap' = stored(mapFor(c), g)
      BY <1>7, <2>5 DEF EnterTimed, writeHeaders
    <3>2. DOMAIN y = {"url", "hdrs"} /\ y.hdrs = mapFor(c)
      BY <1>2, <2>2, <2>5
    <3>3. n \in TimedIn(x)
      BY <1>3, <2>4, <2>5 DEF IsTimed
    <3>4. Kept(c, x, n + 1, g)
      <4>1. Kept(c, x, n + 1, Set(found(c), HeaderTimeout, Milliseconds(x.chain[n].d)))
        BY <1>1, <1>4, <3>3, TimedOK DEF Kept
      <4> QED
        BY <1>3, <4>1
    <3> HIDE DEF g, y
    <3> QED
      BY <1>1, <2>1, <2>3, <3>1, <3>2, <3>4, WriteStep DEF rs
  <2>6. CASE ~(w.d > 0)
    <3>1. heap' = heap
      BY <1>7, <2>6 DEF EnterTimed
    <3>2. DOMAIN y = {"url", "hdrs"} /\ y.hdrs = HdrsOf(r)
      BY <1>2, <2>2, <2>6
    <3>3. n \notin MetaIn(x) \cup TimedIn(x) \cup MarkIn(x)
      BY <1>3, <2>4, <2>6 DEF IsTimed, IsMark
    <3> HIDE DEF y
    <3> QED
      BY <1>1, <2>1, <2>3, <3>1, <3>2, <3>3, SkipStep DEF rs
  <2> QED
    BY <2>5, <2>6
<1>8. CASE EnterUser(c)
  <2>1. w.kind = "user" /\ n \notin MetaIn(x) /\ n \notin TimedIn(x)
    BY <1>3, <1>8 DEF EnterUser, IsTimed
  <2>2. CASE hook(w, r.shape) = "mark"
    <3> DEFINE g == Set(found(c), Mark, c)
    <3>1. writeHeaders(c, g) /\ passOn(c, [current(c) EXCEPT !.hdrs = mapFor(c)])
      BY <1>8, <2>2 DEF EnterUser
    <3>2. n \in MarkIn(x)
      BY <1>3, <2>1, <2>2 DEF IsMark
    <3>3. Kept(c, x, n + 1, g)
      BY <1>1, <1>4, <3>2, MarkOK DEF Kept
    <3> HIDE DEF g
    <3> QED
      BY <1>1, <3>1, <3>3, WriteOn
  <2>3. CASE hook(w, r.shape) = "answer"
    <3> DEFINE q == [r EXCEPT !.st = "up", !.res = "ok"]
    <3>1. call' = [call EXCEPT ![c].st = "up", ![c].res = "ok"] /\ heap' = heap
      BY <1>8, <2>3 DEF EnterUser
    <3>2. call' = [call EXCEPT ![c] = q]
      BY <1>1, <3>1 DEF CallsInv, Fields
    <3>3. Level(q) = Level(r) /\ q.st = "up"
      BY <1>1 DEF Fields, Level
    <3> HIDE DEF q
    <3>4. PlanOf(q) = x /\ q.reqs = r.reqs /\ GoesOut(c, q)
      BY <3>3, SamePlan DEF GoesOut
    <3> QED
      BY <1>1, <3>1, <3>2, <3>4, StayStep
  <2>4. CASE hook(w, r.shape) \notin {"mark", "answer"}
    <3>1. passOn(c, current(c)) /\ heap' = heap
      BY <1>8, <2>4 DEF EnterUser
    <3>2. n \notin MarkIn(x)
      BY <1>3, <2>4 DEF IsMark
    <3> QED
      BY <1>1, <1>2, <2>1, <3>1, <3>2, SkipOn
  <2> QED
    BY <2>2, <2>3, <2>4
<1> QED
  BY <1>5, <1>6, <1>7, <1>8 DEF Enter

LEMMA DialMaps ==
  ASSUME CallsInv, MapsInv, NEW c \in Calls, CallOK(call[c]), Dial(c)
  PROVE  MapsInv'
<1> DEFINE via == IF call[c].rt.leaf = "auto" /\ isH3(current(c).url) THEN "h3" ELSE "std"
           q == attempted(c, via)
<1>1. call[c].st = "down" /\ call' = [call EXCEPT ![c] = q] /\ heap' = heap
  BY DEF Dial
<1>2. Active(call[c]) /\ Len(call[c].reqs) = Len(call[c].rt.chain) + 1
  BY <1>1, NotIdle DEF Active, Dial, level
<1>3. via \in {"std", "h3"} /\ (via = "h3" => call[c].rt.leaf = "auto")
  OBVIOUS
<1> HIDE DEF via
<1>4. GoesOut(c, q) /\ Level(q) = Level(call[c])
  BY <1>1, <1>2, <1>3, AttemptOut, Attempts
<1> HIDE DEF q
<1>5. q.reqs = call[c].reqs /\ PlanOf(q) = PlanOf(call[c])
  BY <1>4, SamePlan
<1> QED
  BY <1>1, <1>2, <1>4, <1>5, StayStep

LEMMA AnswerMaps ==
  ASSUME CallsInv, MapsInv, NEW c \in Calls, CallOK(call[c]), NEW res \in {"ok", "refused"}, Answer(c, res)
  PROVE  MapsInv'
<1> DEFINE e == concluded(c, res)
           q == [e EXCEPT !.answered = TRUE]
<1>1. call[c].st = "wire" /\ call' = [call EXCEPT ![c] = q] /\ heap' = heap
  BY DEF Answer
<1>2. Active(call[c])
  BY <1>1, NotIdle DEF Active
<1>3. DOMAIN e = Fields /\ Level(e) = Level(call[c]) /\ GoesOut(c, e)
  BY <1>1, Ends, ConcludedOut
<1> HIDE DEF e
<1>4. /\ q.st = e.st /\ q.reqs = e.reqs /\ q.rt = e.rt /\ q.shape = e.shape /\ q.via = e.via
      /\ q.sent = e.sent /\ q.own = e.own
  BY <1>3 DEF Fields
<1> HIDE DEF q
<1>5. PlanOf(q) = PlanOf(e)
  BY <1>4 DEF PlanOf
<1>6. GoesOut(c, q)
  BY <1>3, <1>4, <1>5, SameOut
<1>7. q.reqs = call[c].reqs /\ PlanOf(q) = PlanOf(call[c])
  BY <1>3, <1>4, <1>5, SamePlan
<1> QED
  BY <1>1, <1>2, <1>6, <1>7, StayStep

LEMMA FailMaps ==
  ASSUME CallsInv, MapsInv, NEW c \in Calls, CallOK(call[c]), AttemptFails(c)
  PROVE  MapsInv'
<1> DEFINE q == concluded(c, "failed")
<1>1. call[c].st = "wire" /\ call' = [call EXCEPT ![c] = q] /\ heap' = heap
  BY DEF AttemptFails
<1>2. Active(call[c])
  BY <1>1, NotIdle DEF Active
<1>3. Level(q) = Level(call[c]) /\ GoesOut(c, q)
  BY <1>1, Ends, ConcludedOut
<1> HIDE DEF q
<1>4. q.reqs = call[c].reqs /\ PlanOf(q) = PlanOf(call[c])
  BY <1>3, SamePlan
<1> QED
  BY <1>1, <1>2, <1>3, <1>4, StayStep

LEMMA CloseMaps ==
  ASSUME CallsInv, MapsInv, NEW c \in Calls, CallOK(call[c]), Close(c)
  PROVE  MapsInv'
<1> DEFINE r == call[c]
           ts == [i \in DOMAIN r.timers |-> IF r.timers[i] = "off" THEN "off" ELSE "released"]
           q == [[r EXCEPT !.st = "done"] EXCEPT !.timers = ts]
<1>1. DOMAIN r = Fields
  BY DEF CallOK, Typed
<1>2. call' = [call EXCEPT ![c] = q] /\ heap' = heap
  BY <1>1 DEF Close, CallsInv, Fields
<1> HIDE DEF ts
<1>3. q.st = "done"
  BY <1>1 DEF Fields
<1> HIDE DEF q
<1> QED
  BY <1>2, <1>3, StayStep DEF Active

LEMMA ExpireMaps ==
  ASSUME CallsInv, MapsInv, NEW c \in Calls, CallOK(call[c]), NEW i, TimerExpires(c, i)
  PROVE  MapsInv'
<1> DEFINE r == call[c]
           ts == [r.timers EXCEPT ![i] = "fired"]
           q == [r EXCEPT !.timers = ts]
<1>1. DOMAIN r = Fields /\ r # Idle
  BY NotIdle DEF CallOK, Typed
<1>2. call' = [call EXCEPT ![c] = q] /\ heap' = heap
  BY <1>1 DEF TimerExpires, CallsInv, Fields
<1> HIDE DEF ts
<1>3. /\ q.st = r.st /\ q.reqs = r.reqs /\ q.rt = r.rt /\ q.shape = r.shape /\ q.via = r.via
      /\ q.sent = r.sent /\ q.own = r.own
  BY <1>1 DEF Fields
<1> HIDE DEF q
<1>4. PlanOf(q) = PlanOf(r)
  BY <1>3 DEF PlanOf
<1>5. ASSUME Active(q) PROVE Active(r) /\ GoesOut(c, q)
  <2>1. Active(r)
    BY <1>1, <1>3, <1>5 DEF Active
  <2>2. GoesOut(c, r)
    BY <2>1 DEF MapsInv
  <2> QED
    BY <1>3, <1>4, <2>1, <2>2, SameOut
<1> QED
  BY <1>2, <1>3, <1>4, <1>5, StayStep

\* The maps of the call become garbage; nobody else had them.
LEMMA ReturnMaps ==
  ASSUME CallsInv, MapsInv, NEW c \in Calls, CallOK(call[c]), call[c].st = "up", Return(c)
  PROVE  MapsInv'
<1> DEFINE r == call[c]
           s == IF r.shape = "stream" /\ r.res = "ok" THEN "open" ELSE "done"
           q == [r EXCEPT !.st = s]
<1>1. DOMAIN r = Fields
  BY DEF CallOK, Typed
<1>2. call' = [call EXCEPT ![c] = q] /\ heap' = [p \in {o \in DOMAIN heap : o[1] # c} |-> heap[p]]
  BY <1>1 DEF Return, CallsInv, Fields
<1>3. ~Active(q)
  BY <1>1 DEF Fields, Active
<1> HIDE DEF q
<1>4. /\ DOMAIN heap' = {o \in DOMAIN heap : o[1] # c}
      /\ \A o \in DOMAIN heap : o[1] # c => heap'[o] = heap[o]
  BY <1>2
<1>5. HeapOK(heap')
  <2>1. HeapOK(heap)
    BY DEF MapsInv
  <2>2. \A o \in DOMAIN MD : o \in DOMAIN heap' /\ heap'[o] = MD[o]
    BY <1>4, <2>1, PlacesDiffer DEF HeapOK
  <2>3. Shared \in DOMAIN heap' /\ heap'[Shared] = heap[Shared]
    BY <1>4, <2>1, PlacesDiffer DEF HeapOK
  <2>4. ASSUME NEW d \in Calls
        PROVE  /\ IsFiniteSet(Places(heap', d))
               /\ \A p \in Places(heap', d) :
                    \E i \in Nat : p = << d, i >> /\ i <= Cardinality(Places(heap', d))
    <3>1. CASE d = c
      <4>1. Places(heap', d) = {}
        BY <1>4, <3>1 DEF Places
      <4> QED
        BY <4>1, FS_EmptySet
    <3>2. CASE d # c
      <4>1. Places(heap', d) = Places(heap, d)
        BY <1>4, <3>2 DEF Places
      <4> QED
        BY <2>1, <4>1 DEF HeapOK
    <3> QED
      BY <3>1, <3>2
  <2> QED
    BY <2>1, <2>2, <2>3, <2>4 DEF HeapOK
<1>6. ASSUME NEW d \in Calls \ {c}, Active(call[d]), HdrsOf(call[d]) # NoMap
      PROVE  HdrsOf(call[d]) \in DOMAIN heap' /\ heap'[HdrsOf(call[d])] = heap[HdrsOf(call[d])]
  <2>1. HdrsOf(call[d]) \in DOMAIN heap /\ Mine(d, call[d], HdrsOf(call[d]))
    BY <1>6 DEF MapsInv, Carries
  <2>2. HdrsOf(call[d])[1] # c
    BY <1>6, <2>1, PlacesDiffer DEF Mine
  <2> QED
    BY <1>4, <2>1, <2>2
<1> QED
  BY <1>2, <1>3, <1>5, <1>6, FrameStep

LEMMA AscendMaps ==
  ASSUME CallsInv, MapsInv, NEW c \in Calls, CallOK(call[c]), call[c].st = "up", Ascend(c)
  PROVE  MapsInv'
<1> DEFINE r == call[c]
           i == Len(r.reqs) - 1
<1>1. /\ DOMAIN r = Fields /\ IsASequence(r.reqs) /\ i \in Nat /\ i >= 1 /\ heap' = heap
      /\ Active(r) /\ Carries(c, r, heap) /\ IsPlan(PlanOf(r))
  <2>1. DOMAIN r = Fields /\ IsASequence(r.reqs) /\ IsPlan(PlanOf(r))
    BY PlansAreChained DEF CallOK, Typed
  <2>2. Len(r.reqs) \in Nat /\ Len(r.reqs) > 1 /\ heap' = heap
    BY <2>1, Indices DEF Ascend, level
  <2>3. Active(r)
    BY NotIdle DEF Active
  <2> QED
    BY <2>1, <2>2, <2>3 DEF MapsInv
<1>2. CASE call' = [call EXCEPT ![c].st = "down", ![c].tries = @ + 1]
  <2> DEFINE q == [r EXCEPT !.st = "down", !.tries = @ + 1]
  <2>1. call' = [call EXCEPT ![c] = q]
    BY <1>1, <1>2 DEF CallsInv, Fields
  <2>2. Level(q) = Level(r) /\ q.st = "down"
    BY <1>1 DEF Fields, Level
  <2> HIDE DEF q
  <2>3. PlanOf(q) = PlanOf(r) /\ q.reqs = r.reqs /\ GoesOut(c, q)
    BY <2>2, SamePlan DEF GoesOut
  <2> QED
    BY <1>1, <2>1, <2>3, StayStep
<1>3. CASE call' = [call EXCEPT ![c].reqs = SubSeq(@, 1, i),
                      ![c].timers[i] = afterReturn(r.shape, r.res, @)]
  <2> DEFINE rs == SubSeq(r.reqs, 1, i)
             ts == [r.timers EXCEPT ![i] = afterReturn(r.shape, r.res, r.timers[i])]
             q == [[r EXCEPT !.reqs = rs] EXCEPT !.timers = ts]
             x == PlanOf(r)
  <2>1. call' = [call EXCEPT ![c] = q]
    BY <1>1, <1>3 DEF CallsInv, Fields
  <2>2. Len(rs) = i /\ \A j \in 1..i : rs[j] = r.reqs[j]
    <3>1. PICK S : r.reqs \in Seq(S)
      BY <1>1 DEF IsASequence
    <3> QED
      BY <1>1, <3>1
  <2> HIDE DEF rs, ts, r
  <2>3. q.st = r.st /\ q.reqs = rs /\ q.own = r.own /\ q.rt = r.rt /\ q.shape = r.shape
    BY <1>1 DEF Fields
  <2>4. PlanOf(q) = x
    BY <2>3 DEF PlanOf
  <2>5. q.st = "up"
    BY <2>3 DEF r
  <2> HIDE DEF q
  <2>6. HdrsOf(q) = r.reqs[i].hdrs
    BY <1>1, <2>2, <2>3 DEF HdrsOf
  <2> DEFINE n == Len(r.reqs)
             M == HdrsOf(r)
  <2>7. /\ n = i + 1 /\ n \in Nat
        /\ \A j \in 1..n : DOMAIN r.reqs[j] = {"url", "hdrs"}
        /\ \A j \in 1..n : r.reqs[j].hdrs = M \/ (r.reqs[j].hdrs = NoMap /\ NoMapOK(x, j))
        /\ \A j, k \in 1..n : j <= k /\ r.reqs[k].hdrs = NoMap => r.reqs[j].hdrs = NoMap
        /\ \/ M = NoMap /\ NoMapOK(x, n)
           \/ M # NoMap /\ M \in DOMAIN heap /\ Mine(c, r, M) /\ Kept(c, x, n, heap[M])
    BY <1>1 DEF Carries
  <2> HIDE DEF n, M, x, i
  <2>8. i \in 1..n /\ i <= n /\ \A j \in 1..i : j \in 1..n /\ j <= i
    BY <1>1, <2>7
  <2>9. \A j \in 1..i : DOMAIN q.reqs[j] = {"url", "hdrs"} /\ q.reqs[j].hdrs = r.reqs[j].hdrs
    BY <2>2, <2>3, <2>7, <2>8
  <2>10. \A j \in 1..i : q.reqs[j].hdrs = HdrsOf(q) \/ (q.reqs[j].hdrs = NoMap /\ NoMapOK(x, j))
    BY <2>6, <2>7, <2>8, <2>9
  <2>11. \A j, k \in 1..i : j <= k /\ q.reqs[k].hdrs = NoMap => q.reqs[j].hdrs = NoMap
    BY <2>7, <2>8, <2>9
  <2>12. \/ HdrsOf(q) = NoMap /\ NoMapOK(x, i)
         \/ /\ HdrsOf(q) # NoMap /\ HdrsOf(q) \in DOMAIN heap /\ Mine(c, q, HdrsOf(q))
            /\ Kept(c, x, i, heap[HdrsOf(q)])
    <3>1. CASE HdrsOf(q) = NoMap
      <4>1. M = NoMap => NoMapOK(x, i)
        BY <1>1, <2>7, <2>8, NoMapLower DEF x
      <4> QED
        BY <2>6, <2>7, <2>8, <3>1, <4>1
    <3>2. CASE HdrsOf(q) # NoMap
      <4>1. HdrsOf(q) = M /\ M # NoMap
        BY <2>6, <2>7, <2>8, <3>2
      <4>2. M \in DOMAIN heap /\ Mine(c, r, M) /\ Kept(c, x, n, heap[M])
        BY <2>7, <4>1
      <4>3. Kept(c, x, i, heap[M])
        BY <1>1, <2>7, <2>8, <4>2, LowerOK DEF x, Kept
      <4>4. Mine(c, q, M)
        BY <2>4, <4>2 DEF Mine, x
      <4> QED
        BY <4>1, <4>2, <4>3, <4>4
    <3> QED
      BY <3>1, <3>2
  <2>13. Carries(c, q, heap) /\ GoesOut(c, q)
    <3>1. Len(q.reqs) = i
      BY <2>2, <2>3
    <3> QED
      BY <2>4, <2>5, <2>9, <2>10, <2>11, <2>12, <3>1 DEF Carries, GoesOut
  <2>14. HdrsOf(q) = NoMap \/ HdrsOf(q) = HdrsOf(r)
    BY <2>6, <2>7, <2>8 DEF M
  <2> QED
    BY <1>1, <2>1, <2>13, <2>14, QuietStep DEF r
<1> QED
  BY <1>2, <1>3 DEF Ascend, level

LEMMA InitMaps == Init => MapsInv
<1> SUFFICES ASSUME Init PROVE MapsInv
  OBVIOUS
<1>1. /\ DOMAIN heap = DOMAIN MD \cup {Shared} /\ heap[Shared] = SharedMap
      /\ \A p \in DOMAIN MD : heap[p] = MD[p]
  BY PlacesDiffer DEF Init
<1>2. \A c \in Calls : ~Active(call[c])
  BY DEF Init, Active
<1>3. ASSUME NEW s \in Starts, s.map = "shared", NEW c \in Calls
      PROVE  Kept(c, StartPlan(s), 1, heap[Shared])
  <2>1. StartPlan(s).own = SharedMap
    BY <1>3, StartsAssumption DEF StartPlan
  <2>2. MapOK(c, StartPlan(s), 1, StartPlan(s).own)
    BY PlansAreChained, GivenOK
  <2> QED
    BY <1>1, <2>1, <2>2 DEF Kept
<1>4. ASSUME NEW c \in Calls PROVE Places(heap, c) = {}
  BY <1>1, PlacesDiffer DEF Places
<1>5. HeapOK(heap)
  BY <1>1, <1>3, <1>4, FS_EmptySet DEF HeapOK
<1> QED
  BY <1>2, <1>5 DEF MapsInv

LEMMA NextMaps == CallsInv /\ MapsInv /\ [Next]_vars => MapsInv'
<1> SUFFICES ASSUME CallsInv, MapsInv, [Next]_vars PROVE MapsInv'
  OBVIOUS
<1>1. ASSUME NEW c \in Calls, NEW s \in Starts, Start(c, s) PROVE MapsInv'
  BY <1>1, StartMaps
<1>2. ASSUME NEW c \in Calls,
             \/ Enter(c) \/ Dial(c) \/ Up(c) \/ Close(c) \/ AttemptFails(c)
             \/ \E res \in {"ok", "refused"} : Answer(c, res)
             \/ \E i \in Levels : TimerExpires(c, i)
      PROVE  MapsInv'
  <2>1. CallOK(call[c])
    <3>1. call[c].st # "idle"
      BY <1>2 DEF Enter, Dial, Up, Close, AttemptFails, Answer, TimerExpires
    <3> QED
      BY <3>1 DEF CallsInv, Idle
  <2> QED
    BY <1>2, <2>1, EnterMaps, DialMaps, ReturnMaps, AscendMaps, CloseMaps, FailMaps, AnswerMaps,
       ExpireMaps DEF Up
<1>3. CASE UNCHANGED vars
  <2>1. call' = call /\ heap' = heap
    BY <1>3 DEF vars
  <2> QED
    BY <2>1 DEF MapsInv
<1> QED
  BY <1>1, <1>2, <1>3 DEF Next, Done

\* The invariant of the maps: each is written by one call at a time and holds what that
\* call's interceptors have put there up to the level it is at (MetadataInterceptor,
\* WithTimeout, and what Go passes by reference).
THEOREM MapsInvariant == Spec => [](CallsInv /\ MapsInv)
<1>1. Init => CallsInv /\ MapsInv
  BY InitCalls, InitMaps
<1>2. (CallsInv /\ MapsInv) /\ [Next]_vars => (CallsInv /\ MapsInv)'
  BY NextCalls, NextMaps
<1> QED
  BY <1>1, <1>2, PTL DEF Spec

\* Interceptors leave the adapter alone.
LEMMA AdapterStays ==
  ASSUME NEW rt, "leaf" \in DOMAIN rt, NEW ics
  PROVE  /\ "leaf" \in DOMAIN WithInterceptors(rt, ics)
         /\ WithInterceptors(rt, ics).leaf = rt.leaf
  BY DEF WithInterceptors

\* Whatever the options, Connect ends in one of the two adapters: AutoHTTP is asked for
\* only where there is a factory, and an injected transport is taken as it is.
LEMMA ConnectIsSound ==
  ASSUME NEW opts,
         opts.adapter # << >> =>
           "leaf" \in DOMAIN opts.adapter[1] /\ opts.adapter[1].leaf \in {"std", "auto"}
  PROVE  Connect(opts).leaf \in {"std", "auto"}
<1> DEFINE Fine(rt) == "leaf" \in DOMAIN rt /\ rt.leaf \in {"std", "auto"}
<1>1. ASSUME NEW rt, Fine(rt), NEW ics PROVE Fine(WithInterceptors(rt, ics))
  BY <1>1, AdapterStays
<1>2. Fine(Adapter("std")) /\ Fine(Adapter("auto"))
  BY DEF Adapter
<1> HIDE DEF Fine
<1>3. ASSUME NEW realm, NEW linked PROVE Fine(NewTransport(realm, linked))
  <2>1. CASE linked
    <3>1. autoFactory(linked)[1] = Adapter("auto")
      BY <2>1 DEF autoFactory
    <3> QED
      BY <1>2, <3>1 DEF NewTransport
  <2>2. CASE ~linked
    <3>1. autoFactory(linked) = << >>
      BY <2>2 DEF autoFactory
    <3> QED
      BY <1>2, <3>1 DEF NewTransport
  <2> QED
    BY <2>1, <2>2
<1>4. ASSUME NEW rt, Fine(rt) PROVE Fine(withStandardInterceptors(opts, rt))
  BY <1>1, <1>4 DEF withStandardInterceptors
<1>5. CASE opts.adapter # << >>
  <2>1. Fine(opts.adapter[1])
    BY <1>5 DEF Fine
  <2>2. Connect(opts) = withStandardInterceptors(opts, opts.adapter[1])
    BY <1>5 DEF Connect
  <2> QED
    BY <1>4, <2>1, <2>2 DEF Fine
<1>6. CASE opts.adapter = << >>
  <2>1. PICK inner : Fine(inner) /\
          Connect(opts) = withStandardInterceptors(opts,
                            IF opts.base # "" THEN baseURLTransport(opts.base, inner) ELSE inner)
    BY <1>3, <1>6 DEF Connect
  <2>2. Fine(baseURLTransport(opts.base, inner))
    BY <1>1, <2>1 DEF baseURLTransport
  <2> QED
    BY <1>4, <2>1, <2>2 DEF Fine
<1> QED
  BY <1>5, <1>6

\* Every variable keeps to its values (TypeOK), if the adapter at the end of every chain
\* is one of the two there are, as it is for what Connect makes (ConnectIsSound).
THEOREM TypeCorrect ==
  ASSUME \A s \in Starts : s.rt.leaf \in {"std", "auto"}
  PROVE  Spec => []TypeOK
<1>1. CallsInv /\ MapsInv => TypeOK
  <2> SUFFICES ASSUME CallsInv, MapsInv PROVE TypeOK
    OBVIOUS
  <2>1. DOMAIN MD \subseteq DOMAIN heap
    BY DEF MapsInv, HeapOK
  <2>2. ASSUME NEW c \in Running
        PROVE  /\ call[c].rt.leaf \in {"std", "auto"} /\ call[c].via \in {"std", "h3"}
               /\ level(c) \in 1..(Len(call[c].rt.chain) + 1)
               /\ \A i \in DOMAIN call[c].timers :
                    /\ call[c].timers[i] \in {"off", "armed", "fired", "released"}
                    /\ call[c].timers[i] # "off" => call[c].rt.chain[i].kind = "deadline"
               /\ current(c).hdrs \in DOMAIN heap \cup {NoMap} \/ call[c].st \in {"open", "done"}
    <3>1. c \in Calls /\ CallOK(call[c])
      BY DEF Running, CallsInv, Idle
    <3>2. \E s \in Starts : call[c].rt = s.rt
      BY <3>1 DEF CallOK, Typed
    <3>3. level(c) \in 1..(Len(call[c].rt.chain) + 1)
      BY <3>1, Indices DEF CallOK, Typed, level
    <3>4. ASSUME call[c].st \notin {"open", "done"} PROVE current(c).hdrs \in DOMAIN heap \cup {NoMap}
      <4>1. Active(call[c])
        BY <3>1, <3>4, NotIdle DEF Active, CallOK, Typed
      <4>2. current(c).hdrs = HdrsOf(call[c]) /\ Carries(c, call[c], heap)
        BY <3>1, <4>1, CurrentIs DEF MapsInv
      <4> QED
        BY <4>2 DEF Carries
    <3> QED
      BY <3>1, <3>2, <3>3, <3>4 DEF CallOK, Typed
  <2> QED
    BY <2>1, <2>2 DEF TypeOK
<1> QED
  BY <1>1, MapsInvariant, PTL

\* What a call sends: the map of its whole chain, and what the adapter adds.
LEMMA Outgoing ==
  ASSUME CallsInv, MapsInv, OneUse, NEW c \in Sent
  PROVE  \E m, u :
           /\ DOMAIN expected(c) = DOMAIN m /\ \A k \in DOMAIN m : expected(c)[k] = m[k]
           /\ MapOK(c, PlanOf(call[c]), Len(call[c].rt.chain) + 1, m)
           /\ call[c].sent[1] = [url |-> u, via |-> call[c].via,
                                 hdrs |-> wireHeaders(m, call[c].shape, call[c].via)]
<1> DEFINE r == call[c]
           x == PlanOf(r)
<1>1. c \in Calls /\ r.st = "wire" /\ CallOK(r) /\ Active(r)
  BY NotIdle DEF Sent, CallsInv, Idle, Active
<1>2. PICK m, u : /\ Kept(c, x, Len(r.rt.chain) + 1, m)
                  /\ r.sent = << [url |-> u, via |-> r.via, hdrs |-> wireHeaders(m, r.shape, r.via)] >>
  BY <1>1 DEF MapsInv, GoesOut
<1>3. IsPlan(x) /\ x.chain = r.rt.chain
  BY <1>1, PlansAreChained DEF CallOK, PlanOf
<1>4. MapOK(c, x, Len(x.chain) + 1, m)
  BY <1>2, <1>3 DEF Kept
<1>5. DOMAIN expected(c) = DOMAIN m /\ \A k \in DOMAIN m : expected(c)[k] = m[k]
  BY <1>3, <1>4, ExpectedIs
<1>6. PICK o : o = [url |-> u, via |-> r.via, hdrs |-> wireHeaders(m, r.shape, r.via)]
  OBVIOUS
<1>7. r.sent[1] = o
  BY <1>2, <1>6
<1> QED
  BY <1>3, <1>4, <1>5, <1>6, <1>7

\* Nobody gives the two headers the adapter sets whatever is there.
AdapterSets ==
  /\ \A s \in Starts : {AcceptEncoding, ConnectAcceptEncoding} \cap DOMAIN s.headers = {}
  /\ \A p \in DOMAIN MD : {AcceptEncoding, ConnectAcceptEncoding} \cap DOMAIN MD[p] = {}

LEMMA KeysDiffer ==
  /\ HeaderTimeout \notin {AcceptEncoding, ConnectAcceptEncoding, ContentType, Mark}
  /\ Mark \notin {AcceptEncoding, ConnectAcceptEncoding, ContentType}
  /\ ContentType \notin {AcceptEncoding, ConnectAcceptEncoding}
BY DEF HeaderTimeout, Mark, ContentType, AcceptEncoding, ConnectAcceptEncoding, Key

\* The adapter adds to the headers and changes none but the two, and the content type of
\* a stream over HTTP/3.
AddsTo(m, h, shape, via) ==
  /\ DOMAIN h \ ({AcceptEncoding, ConnectAcceptEncoding, ContentType} \ DOMAIN m) = DOMAIN m
  /\ \A k \in DOMAIN m : h[k] = m[k] \/ (k = ContentType /\ shape = "stream" /\ via = "h3")

LEMMA WireHeadersAdd ==
  ASSUME NEW m, {AcceptEncoding, ConnectAcceptEncoding} \cap DOMAIN m = {},
         NEW shape \in {"unary", "stream"}, NEW via \in {"std", "h3"}
  PROVE  AddsTo(m, wireHeaders(m, shape, via), shape, via)
<1> DEFINE typed == IF ContentType \in DOMAIN m THEN m ELSE Set(m, ContentType, "proto")
           byAdapter == {AcceptEncoding, ConnectAcceptEncoding, ContentType} \ DOMAIN m
           Good(h) == /\ DOMAIN h \ byAdapter = DOMAIN m
                      /\ \A k \in DOMAIN m : h[k] = m[k] \/ (k = ContentType /\ shape = "stream" /\ via = "h3")
<1>1. DOMAIN typed = DOMAIN m \cup {ContentType} /\ \A k \in DOMAIN m : typed[k] = m[k]
  <2>1. CASE ContentType \in DOMAIN m
    BY <2>1
  <2>2. CASE ContentType \notin DOMAIN m
    <3>1. PICK g : g = Set(m, ContentType, "proto")
      OBVIOUS
    <3>2. DOMAIN g = DOMAIN m \cup {ContentType} /\ \A k \in DOMAIN m : g[k] = m[k]
      BY <2>2, <3>1 DEF Set
    <3> QED
      BY <2>2, <3>1, <3>2
  <2> QED
    BY <2>1, <2>2
<1> HIDE DEF typed
<1>2. ASSUME NEW a \in {AcceptEncoding, ConnectAcceptEncoding}
      PROVE  Good(Set(typed, a, "gzip"))
  <2>1. PICK g : g = Set(typed, a, "gzip")
    OBVIOUS
  <2>2. DOMAIN g = DOMAIN typed \cup {a} /\ \A k \in DOMAIN typed : k # a => g[k] = typed[k]
    BY <2>1 DEF Set
  <2>3. a \notin DOMAIN m
    OBVIOUS
  <2>4. DOMAIN g \ byAdapter = DOMAIN m
    BY <1>1, <2>2
  <2>5. \A k \in DOMAIN m : g[k] = m[k]
    BY <1>1, <2>2, <2>3
  <2> QED
    BY <2>1, <2>4, <2>5
<1>3. Good(typed)
  BY <1>1
<1>4. shape = "stream" /\ via = "h3" => Good(Set(m, ContentType, "proto"))
  <2>1. PICK g : g = Set(m, ContentType, "proto")
    OBVIOUS
  <2>2. DOMAIN g = DOMAIN m \cup {ContentType} /\ \A k \in DOMAIN m : k # ContentType => g[k] = m[k]
    BY <2>1 DEF Set
  <2>3. DOMAIN g \ byAdapter = DOMAIN m
    BY <2>2
  <2> QED
    BY <2>1, <2>2, <2>3
<1>5. \/ wireHeaders(m, shape, via) = Set(typed, AcceptEncoding, "gzip")
      \/ wireHeaders(m, shape, via) = Set(typed, ConnectAcceptEncoding, "gzip")
      \/ wireHeaders(m, shape, via) = typed
      \/ wireHeaders(m, shape, via) = Set(m, ContentType, "proto") /\ shape = "stream" /\ via = "h3"
  BY DEF wireHeaders, typed
<1> HIDE DEF Good
<1>6. Good(wireHeaders(m, shape, via))
  BY <1>2, <1>3, <1>4, <1>5
<1> QED
  BY <1>6 DEF Good, AddsTo

\* What goes out with a call is exactly what its caller, its client's metadata and its
\* interceptors give it (SendsOwnMetadata), whatever other calls do in between and however
\* often it was tried: MetadataInterceptor, WithTimeout, DeadlineInterceptor and the
\* adapters write maps that are passed by reference.  Without OneUse it does not hold, as
\* the run shared_headers shows.
THEOREM SendsWhatIsItsOwn ==
  ASSUME OneUse, AdapterSets
  PROVE  Spec => []SendsOwnMetadata
<1>1. CallsInv /\ MapsInv => SendsOwnMetadata
  <2> SUFFICES ASSUME CallsInv, MapsInv, NEW c \in Sent
               PROVE  LET byAdapter == {AcceptEncoding, ConnectAcceptEncoding, ContentType} \ DOMAIN expected(c)
                          h == call[c].sent[1].hdrs
                      IN  /\ DOMAIN h \ byAdapter = DOMAIN expected(c)
                          /\ \A k \in DOMAIN expected(c) :
                               \/ h[k] = expected(c)[k]
                               \/ k = ContentType /\ call[c].shape = "stream" /\ call[c].sent[1].via = "h3"
    BY DEF SendsOwnMetadata
  <2> DEFINE r == call[c]
  <2>1. PICK m, u :
           /\ DOMAIN expected(c) = DOMAIN m /\ \A k \in DOMAIN m : expected(c)[k] = m[k]
           /\ MapOK(c, PlanOf(r), Len(r.rt.chain) + 1, m)
           /\ r.sent[1] = [url |-> u, via |-> r.via, hdrs |-> wireHeaders(m, r.shape, r.via)]
    BY Outgoing
  <2>2. r.sent[1].via = r.via /\ r.sent[1].hdrs = wireHeaders(m, r.shape, r.via)
    BY <2>1
  <2>3. CallOK(r)
    BY DEF Sent, CallsInv, Idle
  <2>4. PICK s \in Starts : r.rt = s.rt /\ r.shape = s.shape /\ r.own = s.headers
    BY <2>3 DEF CallOK, Typed
  <2>5. r.shape \in {"unary", "stream"} /\ r.via \in {"std", "h3"}
    BY <2>3, <2>4, StartsAssumption DEF CallOK, Typed
  <2>6. {AcceptEncoding, ConnectAcceptEncoding} \cap DOMAIN m = {}
    <3>1. PlanOf(r).own = s.headers /\ PlanOf(r).chain = s.rt.chain
      BY <2>4 DEF PlanOf
    <3>2. ASSUME NEW i \in MetaIn(PlanOf(r))
          PROVE  {AcceptEncoding, ConnectAcceptEncoding} \cap DOMAIN MD[PlanOf(r).chain[i].md] = {}
      <4>1. s.rt.chain[i].md \in DOMAIN MD
        BY <3>1, StartsAssumption DEF MetaIn, ToSet
      <4> QED
        BY <3>1, <4>1 DEF AdapterSets
    <3>3. {AcceptEncoding, ConnectAcceptEncoding} \cap DOMAIN PlanOf(r).own = {}
      BY <3>1 DEF AdapterSets
    <3>4. {AcceptEncoding, ConnectAcceptEncoding} \cap Keys(PlanOf(r)) = {}
      BY <3>2, <3>3, KeysDiffer DEF Keys
    <3> QED
      BY <2>1, <3>4 DEF MapOK
  <2> HIDE DEF r
  <2> DEFINE h == wireHeaders(m, r.shape, r.via)
  <2>7. AddsTo(m, h, r.shape, r.via)
    BY <2>5, <2>6, WireHeadersAdd
  <2> HIDE DEF h
  <2> QED
    BY <2>1, <2>2, <2>7 DEF r, h, AddsTo
<1> QED
  BY <1>1, MapsInvariant, PTL

-----------------------------------------------------------------------------
(* What the server finds under connect-timeout-ms.                         *)

LEMMA Spelling ==
  ASSUME NEW p, NEW n, NEW f, NEW form
  PROVE  [[prefix |-> p, name |-> n, form |-> f] EXCEPT !.form = form]
           = [prefix |-> p, name |-> n, form |-> form]
  OBVIOUS

LEMMA SameSpelling ==
  ASSUME NEW p, NEW n, NEW f, NEW q, NEW t
  PROVE  [prefix |-> p, name |-> n, form |-> f] = [prefix |-> q, name |-> t, form |-> f]
           <=> p = q /\ n = t
<1>1. [prefix |-> p, name |-> n, form |-> f].prefix = p /\ [prefix |-> p, name |-> n, form |-> f].name = n
  OBVIOUS
<1>2. [prefix |-> q, name |-> t, form |-> f].prefix = q /\ [prefix |-> q, name |-> t, form |-> f].name = t
  OBVIOUS
<1> QED
  BY <1>1, <1>2

\* Spellings of one header meet in the canonical one.
LEMMA Spellings ==
  ASSUME NEW k, IsKey(k)
  PROVE  /\ CanonicalHeaderKey(k) # HeaderTimeout
         /\ CanonicalHeaderKey(k) = CanonicalHeaderKey(HeaderTimeout) <=> EqualFold(k, HeaderTimeout)
         /\ EqualFold(CanonicalHeaderKey(k), HeaderTimeout) <=> EqualFold(k, HeaderTimeout)
<1>1. PICK p, n, f : k = [prefix |-> p, name |-> n, form |-> f]
  BY DEF IsKey
<1>2. PICK q, t : HeaderTimeout = [prefix |-> q, name |-> t, form |-> "lower"]
  BY DEF HeaderTimeout, Key
<1>3. /\ CanonicalHeaderKey(k) = [prefix |-> p, name |-> n, form |-> "canonical"]
      /\ ToLower(k) = [prefix |-> p, name |-> n, form |-> "lower"]
  BY <1>1, Spelling DEF CanonicalHeaderKey, ToLower
<1>4. ToLower(CanonicalHeaderKey(k)) = [prefix |-> p, name |-> n, form |-> "lower"]
  BY <1>3, Spelling DEF ToLower
<1>5. /\ CanonicalHeaderKey(HeaderTimeout) = [prefix |-> q, name |-> t, form |-> "canonical"]
      /\ ToLower(HeaderTimeout) = [prefix |-> q, name |-> t, form |-> "lower"]
  BY <1>2, Spelling DEF CanonicalHeaderKey, ToLower
<1>6. CanonicalHeaderKey(k) # HeaderTimeout
  <2>1. CanonicalHeaderKey(k).form = "canonical" /\ HeaderTimeout.form = "lower"
    BY <1>2, <1>3
  <2> QED
    BY <2>1
<1>7. CanonicalHeaderKey(k) = CanonicalHeaderKey(HeaderTimeout) <=> p = q /\ n = t
  BY <1>3, <1>5, SameSpelling
<1>8. EqualFold(k, HeaderTimeout) <=> p = q /\ n = t
  BY <1>3, <1>5, SameSpelling DEF EqualFold
<1>9. EqualFold(CanonicalHeaderKey(k), HeaderTimeout) <=> p = q /\ n = t
  BY <1>4, <1>5, SameSpelling DEF EqualFold
<1> QED
  BY <1>6, <1>7, <1>8, <1>9

\* What a server finds under connect-timeout-ms, however net/http spells it: the value of
\* the one header so called, if there is one.
LEMMA TimeoutArrives ==
  ASSUME NEW h, \A k \in DOMAIN h : IsKey(k),
         \A k \in DOMAIN h : EqualFold(k, HeaderTimeout) => k = HeaderTimeout,
         NEW v, HeaderTimeout \in DOMAIN h => h[HeaderTimeout] = << v >>,
         NEW g \in canonicalised(h)
  PROVE  Get(g, HeaderTimeout) = IF HeaderTimeout \in DOMAIN h THEN {<< v >>} ELSE {<< >>}
<1> DEFINE H == HeaderTimeout
           C == CanonicalHeaderKey(H)
           keys == {CanonicalHeaderKey(k) : k \in DOMAIN h}
           spelled(c) == {k \in DOMAIN h : CanonicalHeaderKey(k) = c}
           several == {c \in keys : Cardinality(spelled(c)) > 1}
           order(f, c) == IF c \in several THEN f[c] ELSE SetToSeq(spelled(c))
<1>1. PICK f : g = [c \in keys |-> join([i \in DOMAIN order(f, c) |-> h[order(f, c)[i]]])]
  BY DEF canonicalised
<1>2. DOMAIN g = keys
  BY <1>1
<1>3. \A k \in DOMAIN h : /\ CanonicalHeaderKey(k) # H
                          /\ CanonicalHeaderKey(k) = C <=> k = H
                          /\ EqualFold(CanonicalHeaderKey(k), H) <=> k = H
  <2>1. EqualFold(H, H)
    BY DEF EqualFold
  <2> QED
    BY <2>1, Spellings
<1>4. H \notin DOMAIN g
  BY <1>2, <1>3
<1>5. CASE H \in DOMAIN h
  <2>1. C \in keys /\ spelled(C) = {H}
    BY <1>3, <1>5
  <2>2. C \notin several
    <3>1. Cardinality({H}) = 1
      BY FS_Singleton
    <3> QED
      BY <2>1, <3>1
  <2>3. order(f, C) = << H >>
    BY <2>1, <2>2, SequenceOfOne
  <2>4. g[C] = join([i \in DOMAIN order(f, C) |-> h[order(f, C)[i]]])
    BY <1>1, <2>1
  <2>5. [i \in DOMAIN << H >> |-> h[<< H >>[i]]] = << h[H] >>
    OBVIOUS
  <2> HIDE DEF H, C, order
  <2>6. g[C] = << v >>
    BY <1>5, <2>3, <2>4, <2>5, FlattenOne DEF join, H
  <2>7. C \in DOMAIN g
    BY <1>2, <2>1
  <2>8. values(g, H) = << >> /\ values(g, C) = << v >>
    BY <1>4, <2>6, <2>7 DEF values
  <2>9. Get(g, H) = {<< values(g, C)[1] >>}
    <3>1. values(g, C) # << >>
      BY <2>8
    <3> QED
      BY <2>8, <3>1 DEF Get, C
  <2>10. values(g, C)[1] = v
    BY <2>8
  <2> QED
    BY <1>5, <2>9, <2>10 DEF H
<1>6. CASE H \notin DOMAIN h
  <2>1. C \notin keys
    BY <1>3, <1>6
  <2>2. \A j \in DOMAIN g : ~EqualFold(j, H)
    BY <1>2, <1>3, <1>6
  <2> HIDE DEF H, C, keys
  <2>3. values(g, H) = << >> /\ values(g, C) = << >>
    BY <1>2, <1>4, <2>1 DEF values
  <2>4. {j \in DOMAIN g : EqualFold(j, H) /\ g[j] # << >>} = {}
    BY <2>2
  <2>5. Get(g, H) = {<< >>}
    BY <2>3, <2>4 DEF Get, C
  <2> QED
    BY <1>6, <2>5 DEF H
<1> QED
  BY <1>5, <1>6

\* Nobody writes connect-timeout-ms by hand, in no spelling.
NoHandwrittenTimeout ==
  /\ \A s \in Starts : \A k \in DOMAIN s.headers : IsKey(k) /\ ~EqualFold(k, HeaderTimeout)
  /\ \A p \in DOMAIN MD : \A k \in DOMAIN MD[p] : IsKey(k) /\ ~EqualFold(k, HeaderTimeout)

\* A timeout is a time.Duration.
DurationsFit ==
  \A s \in Starts : \A w \in ToSet(s.rt.chain) : w.kind \in {"timeout", "deadline"} => w.d < IntBound

LEMMA StandardKeys ==
  /\ \A k \in {HeaderTimeout, Mark, ContentType, AcceptEncoding, ConnectAcceptEncoding} : IsKey(k)
  /\ \A k \in {Mark, ContentType, AcceptEncoding, ConnectAcceptEncoding} : ~EqualFold(k, HeaderTimeout)
<1>1. IsKey(HeaderTimeout) /\ IsKey(Mark) /\ IsKey(ContentType) /\ IsKey(AcceptEncoding)
      /\ IsKey(ConnectAcceptEncoding)
  BY DEF IsKey, HeaderTimeout, Mark, ContentType, AcceptEncoding, ConnectAcceptEncoding, Key
<1>2. ASSUME NEW k \in {Mark, ContentType, AcceptEncoding, ConnectAcceptEncoding}
      PROVE  ~EqualFold(k, HeaderTimeout)
  <2>1. k.name # HeaderTimeout.name
    BY DEF HeaderTimeout, Mark, ContentType, AcceptEncoding, ConnectAcceptEncoding, Key
  <2>2. ToLower(k).name = k.name /\ ToLower(HeaderTimeout).name = HeaderTimeout.name
    BY <1>1 DEF ToLower, IsKey
  <2> QED
    BY <2>1, <2>2 DEF EqualFold
<1> QED
  BY <1>1, <1>2

\* The adapter leaves the timeout alone.
LEMMA WireHeadersKeep ==
  ASSUME NEW m, NEW shape, NEW via, NEW h, h = wireHeaders(m, shape, via)
  PROVE  /\ DOMAIN m \subseteq DOMAIN h
         /\ DOMAIN h \subseteq DOMAIN m \cup {ContentType, AcceptEncoding, ConnectAcceptEncoding}
         /\ HeaderTimeout \in DOMAIN m => h[HeaderTimeout] = m[HeaderTimeout]
<1> DEFINE Keeps(g, k) == /\ DOMAIN g = DOMAIN k \/ \E a \in {ContentType, AcceptEncoding, ConnectAcceptEncoding} :
                                                      DOMAIN g = DOMAIN k \cup {a}
                          /\ HeaderTimeout \in DOMAIN k => g[HeaderTimeout] = k[HeaderTimeout]
<1>1. ASSUME NEW k, NEW v, NEW a \in {ContentType, AcceptEncoding, ConnectAcceptEncoding}
      PROVE  Keeps(Set(k, a, v), k)
  <2>1. PICK g : g = Set(k, a, v)
    OBVIOUS
  <2>2. DOMAIN g = DOMAIN k \cup {a} /\ (HeaderTimeout \in DOMAIN k => g[HeaderTimeout] = k[HeaderTimeout])
    BY <2>1, KeysDiffer DEF Set
  <2> QED
    BY <2>1, <2>2
<1> DEFINE typed == IF ContentType \in DOMAIN m THEN m ELSE Set(m, ContentType, "proto")
<1>2. Keeps(typed, m)
  BY <1>1
<1>3. \/ h = Set(typed, AcceptEncoding, "gzip")
      \/ h = Set(typed, ConnectAcceptEncoding, "gzip")
      \/ h = typed
      \/ h = Set(m, ContentType, "proto")
  BY DEF wireHeaders
<1> HIDE DEF typed, Keeps
<1>4. (Keeps(h, typed) /\ Keeps(typed, m)) \/ Keeps(h, m)
  BY <1>1, <1>2, <1>3
<1> QED
  BY <1>4 DEF Keeps

\* The deadline the server reads is the innermost timeout, cut to whole milliseconds, and
\* there is one only if there is such a timeout (ServerKeepsDeadline): through the chain,
\* retries and shared maps (WithTimeout, DeadlineInterceptor), the adapter's header copy,
\* net/http's spelling and Headers.Get.
THEOREM ServerIsToldDeadline ==
  ASSUME OneUse, NoHandwrittenTimeout, DurationsFit
  PROVE  Spec => []ServerKeepsDeadline
<1>1. CallsInv /\ MapsInv => ServerKeepsDeadline
  <2> SUFFICES ASSUME CallsInv, MapsInv, NEW c \in Sent,
                      NEW g \in canonicalised(call[c].sent[1].hdrs), NEW v \in Get(g, HeaderTimeout)
               PROVE  LET told == ParseTimeout(IF v = << >> THEN NoText ELSE v[1])
                          d == innermost(c)
                      IN  IF timeouts(c) = {} \/ d < Millisecond THEN told = 0
                          ELSE told > d - Millisecond /\ told <= d
    BY DEF ServerKeepsDeadline
  <2> DEFINE r == call[c]
             x == PlanOf(r)
  <2>1. PICK m, u :
           /\ MapOK(c, x, Len(r.rt.chain) + 1, m)
           /\ r.sent[1] = [url |-> u, via |-> r.via, hdrs |-> wireHeaders(m, r.shape, r.via)]
    BY Outgoing
  <2>2. PICK h : h = wireHeaders(m, r.shape, r.via)
    OBVIOUS
  <2>3. r.sent[1].hdrs = h
    BY <2>1, <2>2
  <2>4. CallOK(r)
    BY DEF Sent, CallsInv, Idle
  <2>5. PICK s \in Starts : r.rt = s.rt /\ r.own = s.headers
    BY <2>4 DEF CallOK, Typed
  <2>6. x.own = s.headers /\ x.chain = s.rt.chain /\ x.chain = r.rt.chain /\ IsPlan(x)
    BY <2>5, Chained DEF PlanOf, IsPlan
  <2>7. timeouts(c) = TimedIn(x) /\ innermost(c) = x.chain[Max(TimedIn(x))].d
    BY <2>6 DEF timeouts, innermost, TimedIn, IsTimed
  <2>8. \A k \in DOMAIN m : /\ IsKey(k)
                            /\ EqualFold(k, HeaderTimeout) => k = HeaderTimeout /\ TimedIn(x) # {}
    <3> SUFFICES ASSUME NEW k \in DOMAIN m
                 PROVE  IsKey(k) /\ (EqualFold(k, HeaderTimeout) => k = HeaderTimeout /\ TimedIn(x) # {})
      OBVIOUS
    <3>1. k \in Keys(x)
      BY <2>1 DEF MapOK
    <3>2. CASE k \in DOMAIN x.own
      BY <2>6, <3>2 DEF NoHandwrittenTimeout
    <3>3. CASE \E i \in MetaIn(x) : k \in DOMAIN MD[x.chain[i].md]
      <4>1. PICK i \in MetaIn(x) : k \in DOMAIN MD[x.chain[i].md]
        BY <3>3
      <4>2. x.chain[i].md \in DOMAIN MD
        BY <2>6, StartsAssumption DEF MetaIn, ToSet
      <4> QED
        BY <4>1, <4>2 DEF NoHandwrittenTimeout
    <3>4. CASE k = HeaderTimeout /\ TimedIn(x) # {}
      BY <3>4, StandardKeys
    <3>5. CASE k = Mark
      BY <3>5, StandardKeys
    <3> QED
      BY <3>1, <3>2, <3>3, <3>4, <3>5 DEF Keys
  <2>9. (\A k \in DOMAIN h : IsKey(k)) /\ (\A k \in DOMAIN h : EqualFold(k, HeaderTimeout) => k = HeaderTimeout)
        /\ (HeaderTimeout \in DOMAIN h <=> HeaderTimeout \in DOMAIN m)
        /\ (HeaderTimeout \in DOMAIN m => h[HeaderTimeout] = m[HeaderTimeout])
    BY <2>2, <2>8, WireHeadersKeep, StandardKeys, KeysDiffer
  <2>10. CASE TimedIn(x) = {}
    <3>1. HeaderTimeout \notin DOMAIN h
      <4>1. EqualFold(HeaderTimeout, HeaderTimeout)
        BY DEF EqualFold
      <4> QED
        BY <2>8, <2>9, <2>10, <4>1
    <3>2. v = << >>
      BY <2>3, <2>9, <3>1, TimeoutArrives
    <3>3. ParseTimeout(NoText) = 0
      BY DEF ParseTimeout, NoText
    <3> QED
      BY <2>7, <2>10, <3>2, <3>3
  <2>11. CASE TimedIn(x) # {}
    <3> DEFINE i == Max(TimedIn(x))
               d == x.chain[i].d
    <3>1. i \in TimedIn(x) /\ i \in Nat /\ \A j \in TimedIn(x) : j \in Nat /\ j <= i
      BY <2>6, <2>11, InnermostIs
    <3> HIDE DEF i
    <3>2. i < Len(r.rt.chain) + 1
      BY <2>6, <3>1, Indices DEF TimedIn, IsPlan
    <3>3. PICK j \in TimedIn(x) : i <= j /\ HeaderTimeout \in DOMAIN m
                                  /\ m[HeaderTimeout] = << Milliseconds(x.chain[j].d) >>
      BY <2>1, <3>1, <3>2 DEF MapOK
    <3>4. j = i
      <4>1. j \in Nat /\ j <= i /\ i <= j /\ i \in Nat
        BY <3>1, <3>3
      <4> QED
        BY <4>1
    <3>5. d \in 1..(IntBound - 1)
      <4>1. x.chain[i] \in ToSet(s.rt.chain) /\ x.chain[i].kind \in {"timeout", "deadline"} /\ d > 0
        BY <2>6, <3>1 DEF TimedIn, IsTimed, ToSet
      <4>2. d \in Int /\ d < IntBound
        BY <4>1, StartsAssumption DEF DurationsFit
      <4> QED
        BY <4>1, <4>2, TimeoutsAssumption
    <3> DEFINE q == Milliseconds(d)
    <3>6. v = << q >>
      BY <2>3, <2>9, <3>3, <3>4, TimeoutArrives
    <3>7. v # << >> /\ v[1] = q
      BY <3>6
    <3>8. IF d < Millisecond THEN ParseTimeout(q) = 0
          ELSE ParseTimeout(q) > d - Millisecond /\ ParseTimeout(q) <= d
      BY <3>5, TimeoutTravels
    <3>9. innermost(c) = d
      BY <2>7 DEF i
    <3> HIDE DEF d, q
    <3> QED
      BY <2>7, <2>11, <3>7, <3>8, <3>9
  <2> QED
    BY <2>10, <2>11
<1> QED
  BY <1>1, MapsInvariant, PTL
=============================================================================
