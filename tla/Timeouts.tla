------------------------------ MODULE Timeouts ------------------------------
(***************************************************************************)
(* The text of the connect-timeout-ms header (protocol.go): WithTimeout    *)
(* writes whole milliseconds, ParseTimeout reads them back into a Duration,*)
(* a signed integer of nanoseconds.                                        *)
(*                                                                         *)
(* A numeral is the number it denotes; NoText is an absent header or a     *)
(* text that is no numeral.                                                *)
(***************************************************************************)
EXTENDS Integers

CONSTANTS Millisecond,   \* time.Millisecond, 10^6 in the code
          IntBound       \* int and Duration hold -IntBound .. IntBound - 1, 2^63 in the code

ASSUME TimeoutsAssumption ==
  /\ Millisecond \in Nat \ {0}
  /\ IntBound \in Nat \ {0}
  /\ Millisecond < IntBound

NoText == -1

\* Mutation: Duration.Round before the division.
MillisecondsRounded(d) == (d + Millisecond \div 2) \div Millisecond

\* Duration.Milliseconds of a positive duration.
Milliseconds(d) == d \div Millisecond

\* Two's complement.
Wrap(n) == ((n + IntBound) % (2 * IntBound)) - IntBound

\* strconv.Atoi fails on a number that does not fit; the product is not checked.
ParseTimeout(text) ==
  IF text <= 0 \/ text >= IntBound THEN 0 ELSE Wrap(text * Millisecond)
=============================================================================
