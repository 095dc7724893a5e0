---------------------------- MODULE IndexSchemes ----------------------------
(***************************************************************************)
(* The six index schemes of crate segmented-cuckoo: the candidate buckets  *)
(* of an item, from its digest, and the candidates of a fingerprint, from  *)
(* any one of them.                                                        *)
(*                                                                         *)
(* A scheme has a family, an arity and a range, in which the offsets of a  *)
(* fingerprint lie: the size of a segment, or the number of buckets of a   *)
(* standard scheme.  The arithmetic is that of the code with words of      *)
(* HashBits bits for those of 32, and base-3 chunks of a given size.       *)
(***************************************************************************)
EXTENDS Digits

CONSTANTS
  HashBits,           \* width of an index; a fingerprint has at most twice that
  Multiplier,         \* Multiplier[j] is the constant of fingerprint_hash<j>
  XOR3_CHUNK_DIGITS,  \* base-3 digits of a chunk of xor3
  Chunks,             \* chunks of xor3
  fingerprint_bits

ASSUME WidthAssumption ==
  /\ HashBits \in Nat \ {0} /\ HashBits % 2 = 0
  /\ Multiplier \in [1 .. 3 -> 0 .. 2 ^ (2 * HashBits) - 1]
  /\ XOR3_CHUNK_DIGITS \in Nat \ {0} /\ Chunks \in Nat \ {0}
  /\ fingerprint_bits \in 1 .. 2 * HashBits

\* What a digest has to tell: its low half, and of the high half the word
\* that is left by a cast to the width of an index.
Digests == [lo : 0 .. 2 ^ (2 * HashBits) - 1, hi : 0 .. 2 ^ HashBits - 1]

Fingerprints == 1 .. 2 ^ fingerprint_bits - 1

-----------------------------------------------------------------------------
(* Sums digit by digit.                                                    *)

\* The reference: base-b digits 0 .. n - 1, added without carry.
DigitSum(base, n, x, y) ==
  FromDigits(base, [d \in 0 .. n - 1 |-> (Digit(base, x, d) + Digit(base, y, d)) % base])

Xor(x, y) == DigitSum(2, HashBits, x, y)

BitAnd(x, y) == FromDigits(2, [d \in 0 .. HashBits - 1 |-> Digit(2, x, d) * Digit(2, y, d)])

lo_mask == FromDigits(4, [d \in 0 .. HashBits \div 2 - 1 |-> 1])

\* xor4: the low bits of the digits, and the high bits with the carry of the low.
WrongXor4(a, b) == Xor(a, b)

Xor4(a, b) ==
  LET a_lo == BitAnd(a, lo_mask)
      b_lo == BitAnd(b, lo_mask)
      a_hi == BitAnd(a \div 2, lo_mask)
      b_hi == BitAnd(b \div 2, lo_mask)
  IN  Xor(a_lo, b_lo) + 2 * Xor(Xor(a_hi, b_hi), BitAnd(a_lo, b_lo))

\* xor3: chunk by chunk, each by the table of sums of chunks.
ChunkBase == 3 ^ XOR3_CHUNK_DIGITS

XOR3_T81 ==
  [x \in 0 .. ChunkBase - 1 |->
    [y \in 0 .. ChunkBase - 1 |-> DigitSum(3, XOR3_CHUNK_DIGITS, x, y)]]

Xor3(a, b) ==
  FromDigits(ChunkBase,
    [c \in 0 .. Chunks - 1 |-> XOR3_T81[Digit(ChunkBase, a, c)][Digit(ChunkBase, b, c)]])

\* Base-b digits that the sums above go through.
NumDigits(base) ==
  IF base = 2 THEN HashBits
  ELSE IF base = 3 THEN XOR3_CHUNK_DIGITS * Chunks ELSE HashBits \div 2

ASSUME PowerAssumption ==
  /\ PowersUpTo(2, 2 * HashBits) /\ PowersUpTo(4, NumDigits(4))
  /\ PowersUpTo(3, NumDigits(3)) /\ PowersUpTo(ChunkBase, Chunks)

-----------------------------------------------------------------------------
(* Fingerprints and their offsets.                                         *)

\* The masks with range - 1 of the code are this, the range being a power of
\* two, and so is fingerprint_hash_mod, for a power of three.
FingerprintHash(j, fp, range) ==
  (((fp * Multiplier[j]) % 2 ^ (2 * HashBits)) \div 2 ^ HashBits) % range

WrongExtractFingerprint(lo) == lo % 2 ^ fingerprint_bits

ExtractFingerprint(lo) ==
  LET masked == lo % 2 ^ fingerprint_bits IN IF masked = 0 THEN 1 ELSE masked

-----------------------------------------------------------------------------
(* The schemes.                                                            *)

\* Ranges whose offsets are words.
PowersOf(base, n) == {base ^ t : t \in {k \in 0 .. n : k <= NumDigits(base)}}

\* The schemes that the constructors let pass, of at most base ^ n buckets or
\* segments of 2 ^ n.
SchemesUpTo(n) ==
       {[family |-> "segmented", arity |-> d, range |-> r] : d \in 2 .. 4, r \in PowersOf(2, n)}
  \cup UNION {{[family |-> "standard", arity |-> d, range |-> r] : r \in PowersOf(d, n)} : d \in 2 .. 4}

PositionsOf(s) == 0 .. s.arity - 1

num_buckets(s) == IF s.family = "segmented" THEN s.arity * s.range ELSE s.range

\* Where segment j starts; the segments of a standard scheme are the table.
SegmentStart(s, j) == IF s.family = "segmented" THEN j * s.range ELSE 0

\* From one candidate, in its segment, to the next: candidate j is the sum of
\* candidate j - 1 and the offset.
Plus(s, x, h) ==
  IF s.family = "segmented" \/ s.arity = 2 THEN Xor(x, h)
  ELSE IF s.arity = 3 THEN Xor3(x, h) ELSE Xor4(x, h)

OffsetTo(s, fp, j) == FingerprintHash(IF s.family = "segmented" THEN j ELSE 1, fp, s.range)

Chain(s, fp, first) ==
  LET local[j \in PositionsOf(s)] ==
        IF j = 0 THEN first
                 ELSE LET previous == local[j - 1] IN Plus(s, previous, OffsetTo(s, fp, j))
  IN  [j \in PositionsOf(s) |-> SegmentStart(s, j) + local[j]]

\* hash_item.
hash_item(s, digest) ==
  LET fp == ExtractFingerprint(digest.lo)
  IN  [fp |-> fp, indices |-> Chain(s, fp, digest.hi % s.range)]

\* The first candidate of a segmented scheme, from the local index of
\* candidate position, over the offsets in between.
WrongWalkBack(s, fp, position, local) ==   \* the offset of the position itself
  LET back[j \in 0 .. position] ==
        IF j = position THEN local ELSE Xor(back[j + 1], OffsetTo(s, fp, position))
  IN  back[0]

WalkBack(s, fp, position, local) ==
  LET back[j \in 0 .. position] ==
        IF j = position THEN local ELSE Xor(back[j + 1], OffsetTo(s, fp, j + 1))
  IN  back[0]

\* From one half to the other.
FromHalf(s, fp, position, local) ==
  [j \in PositionsOf(s) |->
     SegmentStart(s, j) + (IF j = position THEN local ELSE Xor(local, OffsetTo(s, fp, 1)))]

\* By way of candidate 1, the hub, one offset away from each of the others.
WrongFromHub(s, fp, position, local) ==   \* the local index taken for the hub
  LET step(j, x) == IF j = 1 THEN x ELSE Xor(x, OffsetTo(s, fp, IF j = 0 THEN 1 ELSE 2))
  IN  [j \in PositionsOf(s) |-> SegmentStart(s, j) + step(j, local)]

FromHub(s, fp, position, local) ==
  LET step(j, x) == IF j = 1 THEN x ELSE Xor(x, OffsetTo(s, fp, IF j = 0 THEN 1 ELSE 2))
      hub        == step(position, local)
  IN  [j \in PositionsOf(s) |-> SegmentStart(s, j) + step(j, hub)]

SegmentedFrom(s, fp, position, local) ==
  CASE s.arity = 2 -> FromHalf(s, fp, position, local)
    [] s.arity = 3 -> FromHub(s, fp, position, local)
    [] s.arity = 4 -> Chain(s, fp, WalkBack(s, fp, position, local))

\* all_indices: a standard scheme starts again at the candidate it knows,
\* adding goes round.
all_indices(s, cur_index, fp) ==
  IF s.family = "segmented"
    THEN SegmentedFrom(s, fp, cur_index \div s.range, cur_index % s.range)
    ELSE Chain(s, fp, cur_index)

=============================================================================
