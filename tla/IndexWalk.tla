----------------------------- MODULE IndexWalk ------------------------------
(***************************************************************************)
(* The way of an item's fingerprint through its candidate buckets, in any  *)
(* scheme: wherever kicks have taken it, its candidates are found again    *)
(* from the bucket it is in.                                               *)
(***************************************************************************)
EXTENDS IndexSchemes

CONSTANTS MaxExponent, HashedItems   \* bounds: of the ranges, and of the digests

ASSUME WalkAssumption == MaxExponent \in Nat /\ HashedItems \subseteq Digests

VARIABLES
  kind,      \* the scheme
  hashed,    \* fingerprint and candidates, as hash_item returns them
  bucket,    \* cur_index: where the fingerprint is
  found      \* the candidates known: of hash_item, then of all_indices at bucket

walk_vars == <<kind, hashed, bucket, found>>

WalkInit ==
  /\ kind \in SchemesUpTo(MaxExponent)
  /\ \E d \in HashedItems : hashed = hash_item(kind, d)
  /\ bucket = hashed.indices[0]
  /\ found = hashed.indices

WalkNext ==
  /\ \E p \in PositionsOf(kind) : bucket' = found[p]
  /\ found' = all_indices(kind, bucket', hashed.fp)
  /\ UNCHANGED <<kind, hashed>>

WalkSpec == WalkInit /\ [][WalkNext]_walk_vars

-----------------------------------------------------------------------------
CandidatesOf(s, indices) == {indices[p] : p \in PositionsOf(s)}

\* The contract of trait IndexScheme: "all_indices(indices[p], fingerprint)
\* must return the same set of indices", from every candidate, after any
\* number of kicks; a segmented scheme returns them in the same order.
SameCandidates ==
  /\ CandidatesOf(kind, found) = CandidatesOf(kind, hashed.indices)
  /\ kind.family = "segmented" => found = hashed.indices

\* Candidate j of a segmented scheme lies in segment j, all others in the
\* table; a fingerprint is one and not the mark of an empty slot (the table
\* of the documentation of scheme.rs).
InOwnSegment ==
  /\ hashed.fp \in Fingerprints
  /\ \A j \in PositionsOf(kind) :
       hashed.indices[j] - SegmentStart(kind, j) \in 0 .. kind.range - 1

\* The sums the standard schemes add with are sums digit by digit, though
\* taken over bit masks (xor4) or by chunks (xor3).
SumsAreDigitwise ==
  kind.family = "standard" =>
    LET h == OffsetTo(kind, hashed.fp, 1)
    IN  Plus(kind, bucket, h) = DigitSum(kind.arity, NumDigits(kind.arity), bucket, h)

=============================================================================
