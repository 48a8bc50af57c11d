------------------------------ MODULE Backoff ------------------------------
(***************************************************************************)
(* grow of supervisor.go: the delay before the next attempt, in a           *)
(* time.Duration, whose sum wraps beyond MaxDuration (2^63 - 1 ns).         *)
(***************************************************************************)
EXTENDS Integers

CONSTANT MaxDuration

ASSUME MaxDurationAssumption == MaxDuration \in Nat \ {0}

Duration == (-MaxDuration - 1)..MaxDuration

\* Two's-complement: one past the largest duration is the smallest.  It is
\* exact for the double of a duration.
Wrap(x) ==
    IF x > MaxDuration THEN x - 2 * (MaxDuration + 1)
    ELSE IF x < -MaxDuration - 1 THEN x + 2 * (MaxDuration + 1)
    ELSE x

\* Mutant: double first, then compare.
GrowDoubleFirst(cur, max) == IF Wrap(2 * cur) > max THEN max ELSE Wrap(2 * cur)

grow(cur, max) == IF cur > max \div 2 THEN max ELSE Wrap(2 * cur)
=============================================================================
