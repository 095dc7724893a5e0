---------------------------- MODULE MCIndexWalk -----------------------------
(***************************************************************************)
(* An instance of IndexWalk for TLC: indices of four bits, fingerprints    *)
(* wider than that, as 33 bits are wider than 32, and the low bytes of the *)
(* constants of the code.                                                  *)
(***************************************************************************)
EXTENDS IndexWalk

MCMultiplier == <<205, 83, 21>>

\* Every fingerprint, and digests whose fingerprint bits are zero.
MCHashedItems == {d \in Digests : d.lo <= 2 ^ fingerprint_bits}

=============================================================================
