------------------------------ MODULE Headers ------------------------------
(***************************************************************************)
(* Headers (protocol.go): maps from keys to sequences of values, and what  *)
(* net/http makes of them.                                                 *)
(*                                                                         *)
(* A key is [prefix, name, form]: prefix tells keys that begin with        *)
(* "trailer-", form is "lower", "canonical" (as net/http spells it) or     *)
(* "mixed" (any other spelling).  Go ranges over a map in any order; an    *)
(* operator whose result depends on it is the set of the possible results. *)
(***************************************************************************)
EXTENDS Integers, SequencesExt

IsKey(k) == k.prefix \in BOOLEAN /\ k = [prefix |-> k.prefix, name |-> k.name, form |-> k.form]
Key(name, form) == [prefix |-> FALSE, name |-> name, form |-> form]

ToLower(k) == [k EXCEPT !.form = "lower"]
CanonicalHeaderKey(k) == [k EXCEPT !.form = "canonical"]
EqualFold(a, b) == ToLower(a) = ToLower(b)

NoHeaders == << >>   \* the empty map

values(h, k) == IF k \in DOMAIN h THEN h[k] ELSE << >>

\* Headers.Get: the exact key, then the canonical one, then any that is equal but for
\* case; << >> stands for the empty string.
Get(h, k) ==
  LET first(j) == << values(h, j)[1] >>
      folded == {j \in DOMAIN h : EqualFold(j, k) /\ h[j] # << >>}
  IN  IF values(h, k) # << >> THEN {first(k)}
      ELSE IF values(h, CanonicalHeaderKey(k)) # << >> THEN {first(CanonicalHeaderKey(k))}
      ELSE IF folded # {} THEN {first(j) : j \in folded}
      ELSE {<< >>}

Set(h, k, v) == [j \in DOMAIN h \cup {k} |-> IF j = k THEN << v >> ELSE h[j]]

\* HandlerContext.SetHeader and SetTrailer.
accumulate(h, k, v) ==
  [j \in DOMAIN h \cup {k} |-> IF j = k THEN Append(values(h, k), v) ELSE h[j]]

-----------------------------------------------------------------------------
(* Trailers of a unary response travel as headers with a prefix.           *)

\* Mutation: the prefix put in front of the key as it is.
PrefixedAsIs(k) == [k EXCEPT !.prefix = TRUE]

Prefixed(k) == [ToLower(k) EXCEPT !.prefix = TRUE]

\* The prefixed keys are lowered, so two trailers that differ in case collide, and the
\* one the loop comes to last stays.
MuxTrailers(headers, trailers) ==
  LET muxed == {Prefixed(k) : k \in DOMAIN trailers}
      last == {f \in [muxed -> DOMAIN trailers] : \A m \in muxed : Prefixed(f[m]) = m}
  IN  { [k \in DOMAIN headers \cup muxed |->
           IF k \in muxed THEN trailers[f[k]] ELSE headers[k]] : f \in last }

isTrailer(k) == k.prefix

\* Of a map whose keys are canonical, so that no two of them meet here.
DemuxTrailers(all) ==
  LET t == {k \in DOMAIN all : isTrailer(k)}
  IN  [headers  |-> [k \in DOMAIN all \ t |-> all[k]],
       trailers |-> [k \in {[ToLower(j) EXCEPT !.prefix = FALSE] : j \in t} |->
                       all[CanonicalHeaderKey([k EXCEPT !.prefix = TRUE])]]]

-----------------------------------------------------------------------------
(* net/http.                                                               *)

\* Mutation: Header().Set in place of Add, the last value stays.
joinLast(hs) == IF hs = << >> THEN << >> ELSE << Last(Last(hs)) >>

\* httpWriter.start adds the values of a key one by one.
join(hs) == FlattenSeq(hs)

\* Header().Add puts keys into canonical form.  Values of one key keep their order,
\* those of keys that differ in case follow each other in any order.
canonicalised(h) ==
  LET keys == {CanonicalHeaderKey(k) : k \in DOMAIN h}
      spelled(c) == {k \in DOMAIN h : CanonicalHeaderKey(k) = c}
      several == {c \in keys : Cardinality(spelled(c)) > 1}
      orders == {f \in [several -> UNION {SetToSeqs(spelled(c)) : c \in several}] :
                   \A c \in several : f[c] \in SetToSeqs(spelled(c))}
      order(f, c) == IF c \in several THEN f[c] ELSE SetToSeq(spelled(c))
  IN  { [c \in keys |-> join([i \in DOMAIN order(f, c) |-> h[order(f, c)[i]]])] : f \in orders }
=============================================================================
