-------------------------- MODULE MCCuckooKVStore --------------------------
(***************************************************************************)
(* An instance of CuckooKVStore for TLC, on the segmented scheme of two    *)
(* candidates: bucket j * SegmentSize + local, the local indices of the    *)
(* candidates differing by the xor of an offset that depends on the        *)
(* fingerprint only.  A key is the pair <<fingerprint, local index of its  *)
(* first candidate>>: a second key that hashes to the same pair would take *)
(* the very steps of the first.                                            *)
(***************************************************************************)
EXTENDS CuckooKVStore

CONSTANTS
  SegmentSize,  \* 1, 2 or 4
  Offsets       \* Offsets[f]: xor between the candidates

Xor(a, b) == ((a + b) % 2) + 2 * (((a \div 2) + (b \div 2)) % 2)

\* The candidates, from local index l of candidate i.
Candidates(f, i, l) ==
  [j \in Positions |-> j * SegmentSize + IF i = j THEN l ELSE Xor(l, Offsets[f])]

MCNumBuckets == Arity * SegmentSize

MCHashItem == [k \in Keys |-> [fp |-> k[1], indices |-> Candidates(k[1], 0, k[2])]]

MCAllIndices ==
  [bf \in Buckets \X Fps |-> Candidates(bf[2], bf[1] \div SegmentSize, bf[1] % SegmentSize)]

\* Two segments of two buckets: fingerprints with the same and with crossed
\* local indices, three classes that share buckets.
TwoAryOffsets == <<0, 1>>
TwoAryKeys    == {<<1, 0>>, <<1, 1>>, <<2, 0>>}

=============================================================================
