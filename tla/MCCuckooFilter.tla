--------------------------- MODULE MCCuckooFilter ---------------------------
(***************************************************************************)
(* An instance of FilterTable for TLC, on the standard scheme of four      *)
(* candidates and four buckets.  Candidates coincide: fingerprint 1 has    *)
(* one bucket four times, 3 has two buckets twice, and 2 has them all; two *)
(* items have fingerprint 1.  Fingerprints of two bits are the narrowest   *)
(* the constructors accept; with bytes of three bits, every third crosses  *)
(* a byte.                                                                 *)
(***************************************************************************)
EXTENDS FilterTable

\* Low bits of the constants of the code, the second first: a standard scheme
\* takes one only, and this gives each fingerprint another offset.
MCMultiplier == <<3, 13, 5>>

FourAry == [family |-> "standard", arity |-> 4, range |-> 4]

FourAryItems == {[lo |-> lo, hi |-> 0] : lo \in {1, 2, 3, 1 + 4}}

=============================================================================
