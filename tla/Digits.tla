------------------------------- MODULE Digits -------------------------------
(***************************************************************************)
(* Numbers by their digits, in any base, digit 0 the lowest: what shifts,  *)
(* masks and tables of chunks compute with.                                *)
(***************************************************************************)
EXTENDS Integers, FiniteSetsExt

Digit(base, x, d) == (x \div base ^ d) % base

\* The number with the given digits.
FromDigits(base, digits) == MapThenSumSet(LAMBDA d : digits[d] * base ^ d, DOMAIN digits)

\* The definition of powers, which the proofs need and TLC checks.
PowersUpTo(base, n) == base ^ 0 = 1 /\ \A k \in 0 .. n - 1 : base ^ (k + 1) = base * base ^ k

=============================================================================
