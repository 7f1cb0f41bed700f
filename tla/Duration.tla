------------------------------ MODULE Duration ------------------------------
(***************************************************************************)
(* Go's time.Duration: signed integers of a fixed width that wrap around.  *)
(* The width and the length of a second are parameters, so that the edges  *)
(* of the 64-bit arithmetic are within TLC's reach.                        *)
(***************************************************************************)
EXTENDS Integers

CONSTANTS MaxInt,  \* math.MaxInt64
          Second   \* time.Second

\* What the constants have to be.
DurationAssumption == MaxInt \in Nat /\ Second \in 1 .. MaxInt

\* The value that is left of x in the width of a Duration.
Wrap(x) == ((x + MaxInt + 1) % (2 * MaxInt + 2)) - MaxInt - 1

\* Division truncates towards zero.
Quot(a, b) == IF a < 0 THEN -((-a) \div b) ELSE a \div b

\* The largest number of seconds that is a Duration.
MaxSeconds == MaxInt \div Second
=============================================================================
