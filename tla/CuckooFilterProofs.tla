------------------------- MODULE CuckooFilterProofs -------------------------
(***************************************************************************)
(* Proofs about the index schemes, the sizes of tables, the filter and its *)
(* bytes, for every width, multiplier and size that a constructor lets     *)
(* pass, each of the six schemes, and every kick budget.                   *)
(*                                                                         *)
(* Schemes: adding digit by digit stays below the power of the base, and   *)
(* adding the same base times over gives the number back.  The sums of the *)
(* code, over masks or by chunks, have the digits of that sum; hence the   *)
(* contract of trait IndexScheme.                                          *)
(*                                                                         *)
(* Sizes: as the loop of from_num_items goes on, all lawful sizes below    *)
(* the present one are too small, or all that there are.                   *)
(*                                                                         *)
(* Filter: it is shown to implement CuckooKVStore with one value and no    *)
(* log, the contract of its scheme being the theorem SchemeContract; what  *)
(* is proved of the store then holds of the filter.                        *)
(*                                                                         *)
(* Bytes: a write changes the bits of its slot and no other bit of its     *)
(* window, so the bytes hold the filter's table.                           *)
(***************************************************************************)
EXTENDS FilterTable, IndexWalk, TableSizing, DigitsProofs, SequenceTheorems

-----------------------------------------------------------------------------
(* Sums digit by digit. *)

\* The bases that the schemes add in.
LEMMA LawfulBases ==
  /\ HashBits \in Nat \ {0} /\ NumDigits(2) = HashBits
  /\ NumDigits(4) \in Nat \ {0} /\ HashBits = 2 * NumDigits(4) /\ NumDigits(4) = HashBits \div 2
  /\ NumDigits(3) = XOR3_CHUNK_DIGITS * Chunks /\ NumDigits(3) \in Nat \ {0}
  /\ Lawful(2, 2 * HashBits) /\ Lawful(2, HashBits)
  /\ Lawful(3, NumDigits(3)) /\ Lawful(4, NumDigits(4))
  /\ Lawful(ChunkBase, Chunks) /\ ChunkBase = 3 ^ XOR3_CHUNK_DIGITS
<1>1. HashBits \in Nat \ {0} /\ HashBits % 2 = 0 /\ XOR3_CHUNK_DIGITS \in Nat \ {0} /\ Chunks \in Nat \ {0}
  BY WidthAssumption
<1>2. /\ NumDigits(2) = HashBits /\ NumDigits(4) = HashBits \div 2
      /\ NumDigits(3) = XOR3_CHUNK_DIGITS * Chunks
  BY DEF NumDigits
<1>3. HashBits \div 2 \in Nat \ {0} /\ HashBits = 2 * (HashBits \div 2)
  BY <1>1
<1>4. XOR3_CHUNK_DIGITS * Chunks \in Nat \ {0} /\ XOR3_CHUNK_DIGITS * Chunks >= XOR3_CHUNK_DIGITS
  BY <1>1
<1>5. Lawful(2, 2 * HashBits)
  BY <1>1, PowerAssumption DEF Lawful
<1>6. Lawful(2, HashBits)
  BY <1>1, PowerAssumption DEF Lawful, PowersUpTo
<1>7. Lawful(3, NumDigits(3))
  BY <1>2, <1>4, PowerAssumption DEF Lawful
<1>8. Lawful(4, NumDigits(4))
  BY <1>2, <1>3, PowerAssumption DEF Lawful
<1>9. ChunkBase \in Nat \ {0}
  <2>1. XOR3_CHUNK_DIGITS \in 0 .. NumDigits(3)
    BY <1>1, <1>2, <1>4
  <2>2. 3 ^ XOR3_CHUNK_DIGITS \in Nat \ {0}
    BY <1>7, <2>1, PowerType
  <2> QED
    BY <2>2 DEF ChunkBase
<1>10. Lawful(ChunkBase, Chunks)
  BY <1>1, <1>9, PowerAssumption DEF Lawful
<1> QED
  BY <1>1, <1>2, <1>3, <1>4, <1>5, <1>6, <1>7, <1>8, <1>10, Zenon DEF ChunkBase

\* The digits of a sum, and that it has no others.
LEMMA DigitSumLaw ==
  ASSUME NEW base, NEW n, Lawful(base, n), NEW x \in Nat, NEW y \in Nat
  PROVE  /\ DigitSum(base, n, x, y) \in 0 .. base ^ n - 1 /\ DigitSum(base, n, x, y) \in Nat
         /\ \A d \in 0 .. n - 1 :
              Digit(base, DigitSum(base, n, x, y), d) = (Digit(base, x, d) + Digit(base, y, d)) % base
<1> DEFINE ds == [d \in 0 .. n - 1 |-> (Digit(base, x, d) + Digit(base, y, d)) % base]
<1>1. base \in Nat \ {0} /\ n \in Nat /\ n \in 0 .. n
  BY DEF Lawful
<1>2. ASSUME NEW d \in 0 .. n - 1
      PROVE  (Digit(base, x, d) + Digit(base, y, d)) % base \in 0 .. base - 1
  <2>1. Digit(base, x, d) \in 0 .. base - 1
    BY DigitStep
  <2>2. Digit(base, y, d) \in 0 .. base - 1
    BY DigitStep
  <2>3. Digit(base, x, d) + Digit(base, y, d) \in Nat
    BY <1>1, <2>1, <2>2
  <2> QED
    BY <1>1, <2>3, DivMod
<1>3. ds \in [0 .. n - 1 -> 0 .. base - 1]
  BY <1>2
<1>4. /\ FromDigits(base, ds) \in 0 .. base ^ n - 1
      /\ \A d \in 0 .. n - 1 : Digit(base, FromDigits(base, ds), d) = ds[d]
  <2> HIDE DEF ds
  <2> QED
    BY <1>3, FromDigitsLaw
<1>5. base ^ n \in Nat
  BY <1>1, PowerType
<1> QED
  BY <1>4, <1>5 DEF DigitSum

\* A sum of two numbers of t digits has t digits.
LEMMA DigitSumBelow ==
  ASSUME NEW base, NEW n, Lawful(base, n), NEW t \in 0 .. n,
         NEW x \in 0 .. base ^ t - 1, NEW y \in 0 .. base ^ t - 1
  PROVE  DigitSum(base, n, x, y) \in 0 .. base ^ t - 1
<1>1. base \in Nat \ {0} /\ n \in Nat
  BY DEF Lawful
<1>2. base ^ t \in Nat /\ x \in Nat /\ y \in Nat
  BY PowerType
<1>3. ASSUME NEW d \in t .. n - 1 PROVE Digit(base, DigitSum(base, n, x, y), d) = 0
  <2>1. d \in t .. n /\ d \in 0 .. n - 1
    BY <1>1
  <2>2. Digit(base, x, d) = 0
    BY <2>1, NothingAbove
  <2>3. Digit(base, y, d) = 0
    BY <2>1, NothingAbove
  <2>4. Digit(base, DigitSum(base, n, x, y), d) = (Digit(base, x, d) + Digit(base, y, d)) % base
    BY <1>2, <2>1, DigitSumLaw
  <2>5. (0 + 0) % base = 0
    BY <1>1
  <2> QED
    BY <2>2, <2>3, <2>4, <2>5
<1>4. DigitSum(base, n, x, y) \in 0 .. base ^ n - 1
  BY <1>2, DigitSumLaw
<1> QED
  BY <1>3, <1>4, BelowPower

\* The digits of one addition.
Added(base, n, x, h, z) ==
  /\ z \in 0 .. base ^ n - 1 /\ z \in Nat
  /\ \A d \in 0 .. n - 1 : Digit(base, z, d) = (Digit(base, x, d) + Digit(base, h, d)) % base

\* DigitSumLaw, as a predicate that is added to again below.
LEMMA AddedOnce ==
  ASSUME NEW base, NEW n, Lawful(base, n), NEW x \in Nat, NEW h \in Nat
  PROVE  Added(base, n, x, h, DigitSum(base, n, x, h)) /\ DigitSum(base, n, x, h) \in Nat
BY DigitSumLaw DEF Added

\* To add an offset as often as brings every digit back leads back.
LEMMA BackTwice ==
  ASSUME NEW base, NEW n, Lawful(base, n), NEW x \in 0 .. base ^ n - 1, NEW h \in Nat,
         \A i, j \in 0 .. base - 1 : (((i + j) % base) + j) % base = i
  PROVE  DigitSum(base, n, DigitSum(base, n, x, h), h) = x
<1> DEFINE y == DigitSum(base, n, x, h)
           z == DigitSum(base, n, y, h)
<1>1. x \in Nat
  <2>1. n \in 0 .. n
    BY DEF Lawful
  <2>2. base ^ n \in Nat
    BY <2>1, PowerType
  <2> QED
    BY <2>2
<1>2. Added(base, n, x, h, y) /\ y \in Nat
  BY <1>1, AddedOnce, Zenon
<1> HIDE DEF y
<1>3. Added(base, n, y, h, z) /\ z \in Nat
  BY <1>2, AddedOnce, Zenon
<1> HIDE DEF z
<1>4. ASSUME NEW d \in 0 .. n - 1 PROVE Digit(base, z, d) = Digit(base, x, d)
  <2>1. Digit(base, x, d) \in 0 .. base - 1
    BY <1>1, DigitStep
  <2>2. Digit(base, h, d) \in 0 .. base - 1
    BY DigitStep
  <2> QED
    BY <1>2, <1>3, <2>1, <2>2 DEF Added
<1>5. z = x
  BY <1>3, <1>4, SameDigits DEF Added
<1> QED
  BY <1>5 DEF z, y

\* The same of three times.
LEMMA BackThrice ==
  ASSUME NEW base, NEW n, Lawful(base, n), NEW x \in 0 .. base ^ n - 1, NEW h \in Nat,
         \A i, j \in 0 .. base - 1 : (((((i + j) % base) + j) % base) + j) % base = i
  PROVE  DigitSum(base, n, DigitSum(base, n, DigitSum(base, n, x, h), h), h) = x
<1> DEFINE y == DigitSum(base, n, x, h)
           z == DigitSum(base, n, y, h)
           w == DigitSum(base, n, z, h)
<1>1. x \in Nat
  <2>1. n \in 0 .. n
    BY DEF Lawful
  <2>2. base ^ n \in Nat
    BY <2>1, PowerType
  <2> QED
    BY <2>2
<1>2. Added(base, n, x, h, y) /\ y \in Nat
  BY <1>1, AddedOnce, Zenon
<1> HIDE DEF y
<1>3. Added(base, n, y, h, z) /\ z \in Nat
  BY <1>2, AddedOnce, Zenon
<1> HIDE DEF z
<1>4. Added(base, n, z, h, w) /\ w \in Nat
  BY <1>3, AddedOnce, Zenon
<1> HIDE DEF w
<1>5. ASSUME NEW d \in 0 .. n - 1 PROVE Digit(base, w, d) = Digit(base, x, d)
  <2>1. Digit(base, x, d) \in 0 .. base - 1
    BY <1>1, DigitStep
  <2>2. Digit(base, h, d) \in 0 .. base - 1
    BY DigitStep
  <2> QED
    BY <1>2, <1>3, <1>4, <2>1, <2>2 DEF Added
<1>6. w = x
  BY <1>4, <1>5, SameDigits DEF Added
<1> QED
  BY <1>6 DEF w, z, y

\* The same of four times.
LEMMA BackFourTimes ==
  ASSUME NEW base, NEW n, Lawful(base, n), NEW x \in 0 .. base ^ n - 1, NEW h \in Nat,
         \A i, j \in 0 .. base - 1 : (((((((i + j) % base) + j) % base) + j) % base) + j) % base = i
  PROVE  DigitSum(base, n, DigitSum(base, n, DigitSum(base, n, DigitSum(base, n, x, h), h), h), h) = x
<1> DEFINE y == DigitSum(base, n, x, h)
           z == DigitSum(base, n, y, h)
           w == DigitSum(base, n, z, h)
           u == DigitSum(base, n, w, h)
<1>1. x \in Nat
  <2>1. n \in 0 .. n
    BY DEF Lawful
  <2>2. base ^ n \in Nat
    BY <2>1, PowerType
  <2> QED
    BY <2>2
<1>2. Added(base, n, x, h, y) /\ y \in Nat
  BY <1>1, AddedOnce, Zenon
<1> HIDE DEF y
<1>3. Added(base, n, y, h, z) /\ z \in Nat
  BY <1>2, AddedOnce, Zenon
<1> HIDE DEF z
<1>4. Added(base, n, z, h, w) /\ w \in Nat
  BY <1>3, AddedOnce, Zenon
<1> HIDE DEF w
<1>5. Added(base, n, w, h, u) /\ u \in Nat
  BY <1>4, AddedOnce, Zenon
<1> HIDE DEF u
<1>6. ASSUME NEW d \in 0 .. n - 1 PROVE Digit(base, u, d) = Digit(base, x, d)
  <2>1. Digit(base, x, d) \in 0 .. base - 1
    BY <1>1, DigitStep
  <2>2. Digit(base, h, d) \in 0 .. base - 1
    BY DigitStep
  <2> QED
    BY <1>2, <1>3, <1>4, <1>5, <2>1, <2>2 DEF Added
<1>7. u = x
  BY <1>5, <1>6, SameDigits DEF Added
<1> QED
  BY <1>7 DEF u, w, z, y

-----------------------------------------------------------------------------
(* The sums of the schemes are sums digit by digit.                        *)

\* Chunks of xor3 are groups of base-3 digits.
LEMMA ChunksAreGroups == Groups(3, NumDigits(3), ChunkBase, Chunks, XOR3_CHUNK_DIGITS)
BY LawfulBases, WidthAssumption, Zenon DEF Groups

\* Base-4 digits are pairs of bits.
LEMMA PairsAreGroups == Groups(2, HashBits, 4, NumDigits(4), 2)
<1>1. 2 ^ 2 = 4
  <2>1. HashBits \in Nat \ {0} /\ PowersUpTo(2, 2 * HashBits)
    BY LawfulBases, PowerAssumption
  <2>2. 0 \in 0 .. 2 * HashBits - 1 /\ 1 \in 0 .. 2 * HashBits - 1
    BY <2>1
  <2>3. 2 ^ 0 = 1 /\ 2 ^ (0 + 1) = 2 * 2 ^ 0 /\ 2 ^ (1 + 1) = 2 * 2 ^ 1
    BY <2>1, <2>2 DEF PowersUpTo
  <2> QED
    BY <2>3
<1>2. 2 \in Nat \ {0}
  OBVIOUS
<1> QED
  BY <1>1, <1>2, LawfulBases, Zenon DEF Groups

\* A sum with a scheme's chunks, or bit masks, is the reference.
LEMMA Xor3IsDigitwise ==
  ASSUME NEW a \in Nat, NEW b \in Nat
  PROVE  Xor3(a, b) = DigitSum(3, NumDigits(3), a, b)
<1> DEFINE three == 3
           D  == XOR3_CHUNK_DIGITS
           N  == NumDigits(3)
           T(c) == XOR3_T81[Digit(ChunkBase, a, c)][Digit(ChunkBase, b, c)]
           cs == [c \in 0 .. Chunks - 1 |-> T(c)]
           v  == FromDigits(ChunkBase, cs)
<1>1. three = 3
  OBVIOUS
<1> HIDE DEF three
<1>2. /\ Groups(three, N, ChunkBase, Chunks, D) /\ Lawful(ChunkBase, Chunks)
      /\ ChunkBase = three ^ D /\ Lawful(three, N) /\ N = D * Chunks
      /\ D \in Nat \ {0} /\ Chunks \in Nat \ {0} /\ ChunkBase \in Nat \ {0} /\ three \in Nat \ {0}
  BY <1>1, ChunksAreGroups, LawfulBases, WidthAssumption, Zenon DEF Lawful, Groups
<1> HIDE DEF N, D
<1>3. Lawful(three, D)
  <2>1. \A k \in 0 .. D - 1 : k \in 0 .. N - 1
    <3>1. D * Chunks >= D
      BY <1>2
    <3> QED
      BY <1>2, <3>1
  <2> QED
    BY <1>2, <2>1 DEF Lawful, PowersUpTo
<1>4. ASSUME NEW c \in 0 .. Chunks - 1
      PROVE  /\ Digit(ChunkBase, a, c) \in 0 .. ChunkBase - 1
             /\ Digit(ChunkBase, b, c) \in 0 .. ChunkBase - 1
  BY <1>2, DigitStep
<1>5. ASSUME NEW c \in 0 .. Chunks - 1
      PROVE  /\ T(c) = DigitSum(three, D, Digit(ChunkBase, a, c), Digit(ChunkBase, b, c))
             /\ T(c) \in 0 .. ChunkBase - 1
             /\ \A i \in 0 .. D - 1 :
                  Digit(three, T(c), i) =
                    (Digit(three, Digit(ChunkBase, a, c), i) + Digit(three, Digit(ChunkBase, b, c), i)) % three
  <2> DEFINE x == Digit(ChunkBase, a, c)
             y == Digit(ChunkBase, b, c)
  <2>1. x \in 0 .. ChunkBase - 1 /\ y \in 0 .. ChunkBase - 1
    BY <1>4
  <2>2. T(c) = DigitSum(three, D, x, y)
    <3> HIDE DEF x, y
    <3>1. XOR3_T81[x][y] = DigitSum(three, D, x, y)
      BY <1>1, <2>1 DEF XOR3_T81, D
    <3> QED
      BY <3>1 DEF x, y
  <2>3. x \in Nat /\ y \in Nat
    BY <1>2, <2>1
  <2> HIDE DEF x, y, T
  <2>4. Added(three, D, x, y, T(c))
    BY <1>3, <2>2, <2>3, AddedOnce, Zenon
  <2> QED
    BY <1>2, <2>2, <2>4, Zenon DEF Added, x, y
<1> HIDE DEF T
<1>6. cs \in [0 .. Chunks - 1 -> 0 .. ChunkBase - 1] /\ \A c \in 0 .. Chunks - 1 : cs[c] = T(c)
  BY <1>5
<1>7. Xor3(a, b) = v
  BY Zenon DEF Xor3, T
<1> HIDE DEF cs
<1>8. v \in 0 .. ChunkBase ^ Chunks - 1 /\ \A c \in 0 .. Chunks - 1 : Digit(ChunkBase, v, c) = cs[c]
  BY <1>2, <1>6, FromDigitsLaw, ZenonT(30)
<1>9. ChunkBase ^ Chunks = three ^ N /\ v \in Nat
  <2>1. Chunks \in 0 .. Chunks
    BY <1>2
  <2>2. ChunkBase ^ Chunks = three ^ N
    BY <1>2, <2>1, GroupPower
  <2>3. ChunkBase ^ Chunks \in Nat
    BY <1>2, <2>1, PowerType
  <2> QED
    BY <1>8, <2>2, <2>3
<1> HIDE DEF v
<1> DEFINE w == DigitSum(three, N, a, b)
<1>10. Added(three, N, a, b, w)
  BY <1>2, AddedOnce, Zenon
<1> HIDE DEF w
<1>11. ASSUME NEW d \in 0 .. N - 1 PROVE Digit(three, v, d) = Digit(three, w, d)
  <2> DEFINE c == d \div D
             i == d % D
  <2>1. c \in 0 .. Chunks - 1 /\ i \in 0 .. D - 1 /\ D * c + i = d
    <3>1. d \in Nat /\ d < D * Chunks
      BY <1>2
    <3>2. c \in Nat /\ i \in 0 .. D - 1 /\ d = D * c + i
      BY <1>2, <3>1, DivMod
    <3> HIDE DEF c, i
    <3>3. c < Chunks
      <4> SUFFICES ASSUME c >= Chunks PROVE FALSE
        BY <1>2, <3>2
      <4>1. D * c >= D * Chunks
        BY <1>2, <3>2
      <4> QED
        BY <1>2, <3>1, <3>2, <4>1
    <3> QED
      BY <1>2, <3>2, <3>3
  <2> HIDE DEF c, i
  <2>2. Digit(three, v, D * c + i) = Digit(three, Digit(ChunkBase, v, c), i)
    BY <1>2, <1>9, <2>1, GroupDigit
  <2>3. Digit(three, a, D * c + i) = Digit(three, Digit(ChunkBase, a, c), i)
    BY <1>2, <2>1, GroupDigit
  <2>4. Digit(three, b, D * c + i) = Digit(three, Digit(ChunkBase, b, c), i)
    BY <1>2, <2>1, GroupDigit
  <2>5. Digit(ChunkBase, v, c) = T(c)
    BY <1>6, <1>8, <2>1
  <2>6. Digit(three, v, d) = (Digit(three, a, d) + Digit(three, b, d)) % three
    BY <1>5, <2>1, <2>2, <2>3, <2>4, <2>5, Zenon
  <2> QED
    BY <1>10, <2>6, Zenon DEF Added
<1>12. v = w
  BY <1>2, <1>8, <1>9, <1>10, <1>11, SameDigits DEF Added
<1> QED
  BY <1>1, <1>7, <1>12, Zenon DEF w, N

\* The two bits of a base-4 digit.
LEMMA FirstBits ==
  /\ 2 ^ 0 = 1 /\ 2 ^ 1 = 2
  /\ \A v \in 0 .. 3 : Digit(2, v, 0) = v % 2 /\ Digit(2, v, 1) = (v \div 2) % 2
<1>1. 2 ^ 0 = 1 /\ 2 ^ 1 = 2
  <2>1. HashBits \in Nat \ {0} /\ PowersUpTo(2, 2 * HashBits)
    BY LawfulBases, PowerAssumption
  <2>2. 0 \in 0 .. 2 * HashBits - 1
    BY <2>1
  <2>3. 2 ^ 0 = 1 /\ 2 ^ (0 + 1) = 2 * 2 ^ 0
    BY <2>1, <2>2 DEF PowersUpTo
  <2> QED
    BY <2>3
<1>2. ASSUME NEW v \in 0 .. 3 PROVE v \div 1 = v
  OBVIOUS
<1> QED
  BY <1>1, <1>2 DEF Digit

\* A digit of base 4 is a pair of bits.
LEMMA PairDigit ==
  ASSUME NEW x \in Nat, NEW c \in 0 .. NumDigits(4) - 1
  PROVE  /\ 2 * c \in 0 .. HashBits - 1 /\ 2 * c + 1 \in 0 .. HashBits - 1
         /\ Digit(4, x, c) \in 0 .. 3
         /\ Digit(2, x, 2 * c) \in 0 .. 1 /\ Digit(2, x, 2 * c + 1) \in 0 .. 1
         /\ Digit(2, x, 2 * c) = Digit(4, x, c) % 2
         /\ Digit(2, x, 2 * c + 1) = (Digit(4, x, c) \div 2) % 2
         /\ Digit(4, x, c) = Digit(2, x, 2 * c) + 2 * Digit(2, x, 2 * c + 1)
<1> DEFINE two == 2
           four == 4
           v == Digit(4, x, c)
<1>1. two = 2 /\ four = 4
  OBVIOUS
<1> HIDE DEF two, four
<1>2. /\ Groups(two, HashBits, four, NumDigits(4), two) /\ Lawful(four, NumDigits(4))
      /\ 0 \in 0 .. two - 1 /\ 1 \in 0 .. two - 1
  <2>1. Groups(two, HashBits, four, NumDigits(4), two) /\ Lawful(four, NumDigits(4))
    BY <1>1, PairsAreGroups, LawfulBases, Zenon
  <2> QED
    BY <1>1, <2>1
<1>3. Digit(four, x, c) \in 0 .. four - 1
  BY <1>2, DigitStep
<1>4. v \in 0 .. 3
  BY <1>1, <1>3
<1>5. two * c + 0 \in 0 .. HashBits - 1 /\ Digit(two, x, two * c + 0) = Digit(two, Digit(four, x, c), 0)
  BY <1>2, GroupDigit
<1>6. two * c + 1 \in 0 .. HashBits - 1 /\ Digit(two, x, two * c + 1) = Digit(two, Digit(four, x, c), 1)
  BY <1>2, GroupDigit
<1>7. two * c + 0 = 2 * c /\ two * c + 1 = 2 * c + 1
  BY <1>1
<1>8. Digit(2, x, 2 * c) = Digit(2, v, 0) /\ Digit(2, x, 2 * c + 1) = Digit(2, v, 1)
  BY <1>1, <1>5, <1>6, <1>7, Zenon
<1> HIDE DEF v
<1>9. Digit(2, v, 0) = v % 2 /\ Digit(2, v, 1) = (v \div 2) % 2
  BY <1>4, FirstBits
<1>10. \A u \in 0 .. 3 : u % 2 \in 0 .. 1 /\ (u \div 2) % 2 \in 0 .. 1 /\ u = (u % 2) + 2 * ((u \div 2) % 2)
  OBVIOUS
<1> QED
  BY <1>4, <1>5, <1>6, <1>7, <1>8, <1>9, <1>10 DEF v

\* The bits of a shifted number.
LEMMA ShiftedBits ==
  ASSUME NEW x \in Nat, NEW d \in 0 .. HashBits - 1
  PROVE  x \div 2 \in Nat /\ Digit(2, x \div 2, d) = Digit(2, x, d + 1)
<1> DEFINE two == 2
<1>1. two = 2 /\ two \in Nat \ {0}
  OBVIOUS
<1> HIDE DEF two
<1>2. Lawful(two, HashBits)
  BY <1>1, LawfulBases, Zenon
<1>3. two ^ (d + 1) = two * two ^ d /\ two ^ d \in Nat \ {0}
  BY <1>2, PowerStep
<1>4. (x \div two) \div two ^ d = x \div (two * two ^ d) /\ x \div two \in Nat
  BY <1>1, <1>3, DivTwice, DivMod
<1>5. Digit(two, x \div two, d) = Digit(two, x, d + 1)
  BY <1>3, <1>4, Zenon DEF Digit
<1> QED
  BY <1>1, <1>4, <1>5, Zenon

\* The bits of a conjunction.
LEMMA BitAndLaw ==
  ASSUME NEW x \in Nat, NEW y \in Nat
  PROVE  /\ BitAnd(x, y) \in 0 .. 2 ^ HashBits - 1 /\ BitAnd(x, y) \in Nat
         /\ \A d \in 0 .. HashBits - 1 : Digit(2, BitAnd(x, y), d) = Digit(2, x, d) * Digit(2, y, d)
<1> DEFINE two == 2
           ds == [d \in 0 .. HashBits - 1 |-> Digit(two, x, d) * Digit(two, y, d)]
<1>1. two = 2
  OBVIOUS
<1> HIDE DEF two
<1>2. Lawful(two, HashBits) /\ HashBits \in 0 .. HashBits
  <2>1. HashBits \in Nat
    BY LawfulBases
  <2> QED
    BY <1>1, <2>1, LawfulBases
<1>3. ASSUME NEW d \in 0 .. HashBits - 1
      PROVE  Digit(two, x, d) * Digit(two, y, d) \in 0 .. two - 1
  <2>1. Digit(two, x, d) \in 0 .. two - 1
    BY <1>2, DigitStep
  <2>2. Digit(two, y, d) \in 0 .. two - 1
    BY <1>2, DigitStep
  <2>3. \A i, j \in 0 .. 1 : i * j \in 0 .. 1
    <3>1. \A i \in 0 .. 1 : i = 0 \/ i = 1
      OBVIOUS
    <3> QED
      BY <3>1
  <2>4. two - 1 = 1
    BY <1>1
  <2> QED
    BY <2>1, <2>2, <2>3, <2>4, Zenon
<1>4. ds \in [0 .. HashBits - 1 -> 0 .. two - 1]
  BY <1>3
<1>5. \A d \in 0 .. HashBits - 1 : ds[d] = Digit(two, x, d) * Digit(two, y, d)
  OBVIOUS
<1>6. BitAnd(x, y) = FromDigits(two, ds)
  BY <1>1, Zenon DEF BitAnd
<1> HIDE DEF ds
<1>7. /\ FromDigits(two, ds) \in 0 .. two ^ HashBits - 1
      /\ \A d \in 0 .. HashBits - 1 : Digit(two, FromDigits(two, ds), d) = ds[d]
  BY <1>2, <1>4, FromDigitsLaw
<1>8. two ^ HashBits \in Nat
  BY <1>2, PowerType
<1>9. FromDigits(two, ds) \in Nat
  BY <1>7, <1>8
<1> QED
  BY <1>1, <1>5, <1>6, <1>7, <1>9, Zenon

\* The mask has the low bit of each pair.
LEMMA MaskBits ==
  /\ lo_mask \in Nat
  /\ \A c \in 0 .. NumDigits(4) - 1 : Digit(2, lo_mask, 2 * c) = 1 /\ Digit(2, lo_mask, 2 * c + 1) = 0
<1> DEFINE four == 4
           K == NumDigits(4)
           ds == [d \in 0 .. K - 1 |-> 1]
<1>1. four = 4
  OBVIOUS
<1> HIDE DEF four
<1>2. Lawful(four, K) /\ K \in 0 .. K /\ K = HashBits \div 2
  <2>1. K \in Nat /\ K = HashBits \div 2
    BY LawfulBases
  <2>2. Lawful(four, K)
    BY <1>1, LawfulBases, Zenon
  <2> QED
    BY <2>1, <2>2
<1>3. lo_mask = FromDigits(four, ds)
  BY <1>1, <1>2, Zenon DEF lo_mask
<1>4. ds \in [0 .. K - 1 -> 0 .. four - 1] /\ \A d \in 0 .. K - 1 : ds[d] = 1
  BY <1>1
<1> HIDE DEF ds, K
<1>5. lo_mask \in 0 .. four ^ K - 1 /\ \A d \in 0 .. K - 1 : Digit(four, lo_mask, d) = ds[d]
  BY <1>2, <1>3, <1>4, FromDigitsLaw
<1>6. lo_mask \in Nat
  <2>1. four ^ K \in Nat
    BY <1>2, PowerType
  <2> QED
    BY <1>5, <2>1
<1>7. ASSUME NEW c \in 0 .. NumDigits(4) - 1
      PROVE  Digit(2, lo_mask, 2 * c) = 1 /\ Digit(2, lo_mask, 2 * c + 1) = 0
  <2>1. Digit(4, lo_mask, c) = 1
    BY <1>1, <1>4, <1>5, Zenon DEF K
  <2>2. 1 % 2 = 1 /\ (1 \div 2) % 2 = 0
    OBVIOUS
  <2>3. /\ Digit(2, lo_mask, 2 * c) = Digit(4, lo_mask, c) % 2
        /\ Digit(2, lo_mask, 2 * c + 1) = (Digit(4, lo_mask, c) \div 2) % 2
    BY <1>6, PairDigit
  <2> QED
    BY <2>1, <2>2, <2>3, Zenon
<1> QED
  BY <1>6, <1>7

\* What the mask leaves of a number.
LEMMA MaskedBits ==
  ASSUME NEW x \in Nat
  PROVE  /\ BitAnd(x, lo_mask) \in Nat
         /\ \A c \in 0 .. NumDigits(4) - 1 :
              /\ Digit(2, BitAnd(x, lo_mask), 2 * c) = Digit(2, x, 2 * c)
              /\ Digit(2, BitAnd(x, lo_mask), 2 * c + 1) = 0
<1> DEFINE m == BitAnd(x, lo_mask)
<1>1. m \in Nat /\ \A d \in 0 .. HashBits - 1 : Digit(2, m, d) = Digit(2, x, d) * Digit(2, lo_mask, d)
  BY MaskBits, BitAndLaw
<1> HIDE DEF m
<1>2. ASSUME NEW c \in 0 .. NumDigits(4) - 1
      PROVE  Digit(2, m, 2 * c) = Digit(2, x, 2 * c) /\ Digit(2, m, 2 * c + 1) = 0
  <2>1. /\ 2 * c \in 0 .. HashBits - 1 /\ 2 * c + 1 \in 0 .. HashBits - 1
        /\ Digit(2, x, 2 * c) \in 0 .. 1 /\ Digit(2, x, 2 * c + 1) \in 0 .. 1
    BY PairDigit
  <2>2. Digit(2, lo_mask, 2 * c) = 1 /\ Digit(2, lo_mask, 2 * c + 1) = 0
    BY MaskBits
  <2>3. /\ Digit(2, m, 2 * c) = Digit(2, x, 2 * c) * 1
        /\ Digit(2, m, 2 * c + 1) = Digit(2, x, 2 * c + 1) * 0
    BY <1>1, <2>1, <2>2, Zenon
  <2>4. \A i \in 0 .. 1 : i * 1 = i /\ i * 0 = 0
    OBVIOUS
  <2> QED
    BY <2>1, <2>3, <2>4, Zenon
<1> QED
  BY <1>1, <1>2 DEF m

\* The bits of an exclusive or.
LEMMA XorLaw ==
  ASSUME NEW x \in Nat, NEW y \in Nat
  PROVE  /\ Xor(x, y) \in 0 .. 2 ^ HashBits - 1 /\ Xor(x, y) \in Nat
         /\ \A d \in 0 .. HashBits - 1 : Digit(2, Xor(x, y), d) = (Digit(2, x, d) + Digit(2, y, d)) % 2
<1> DEFINE two == 2
<1>1. two = 2
  OBVIOUS
<1> HIDE DEF two
<1>2. Lawful(two, HashBits)
  BY <1>1, LawfulBases, Zenon
<1>3. Added(two, HashBits, x, y, DigitSum(two, HashBits, x, y))
  BY <1>2, AddedOnce, Zenon
<1>4. Added(2, HashBits, x, y, Xor(x, y))
  BY <1>1, <1>3, Zenon DEF Xor
<1> QED
  BY <1>4, Zenon DEF Added

\* The words of the even bits: their digits of base 4 are those bits.
LEMMA EvenWord ==
  ASSUME NEW x \in 0 .. 2 ^ HashBits - 1, x \in Nat,
         \A c \in 0 .. NumDigits(4) - 1 : Digit(2, x, 2 * c + 1) = 0
  PROVE  /\ x \div 4 ^ NumDigits(4) = 0
         /\ \A c \in 0 .. NumDigits(4) - 1 :
              Digit(4, x, c) = Digit(2, x, 2 * c) /\ Digit(4, x, c) \in 0 .. 1
<1> DEFINE two == 2
           four == 4
           K == NumDigits(4)
<1>1. two = 2 /\ four = 4
  OBVIOUS
<1> HIDE DEF two, four
<1>2. Groups(two, HashBits, four, K, two) /\ Lawful(four, K) /\ K \in 0 .. K /\ HashBits = two * K
  <2>1. K \in Nat /\ HashBits = two * K
    BY <1>1, LawfulBases
  <2>2. Groups(two, HashBits, four, K, two) /\ Lawful(four, K)
    BY <1>1, PairsAreGroups, LawfulBases, Zenon
  <2> QED
    BY <2>1, <2>2
<1> HIDE DEF K
<1>3. four ^ K = two ^ HashBits
  BY <1>2, GroupPower
<1>4. x \in 0 .. four ^ K - 1
  BY <1>1, <1>3, Zenon
<1>5. K \in K .. K
  BY <1>2
<1>6. x \div four ^ K = 0
  BY <1>2, <1>4, <1>5, NothingAbove
<1>7. ASSUME NEW c \in 0 .. NumDigits(4) - 1
      PROVE  Digit(4, x, c) = Digit(2, x, 2 * c) /\ Digit(4, x, c) \in 0 .. 1
  <2>1. /\ Digit(4, x, c) = Digit(2, x, 2 * c) + 2 * Digit(2, x, 2 * c + 1)
        /\ Digit(2, x, 2 * c) \in 0 .. 1
    BY PairDigit
  <2>2. Digit(2, x, 2 * c + 1) = 0
    OBVIOUS
  <2>3. \A i \in 0 .. 1 : i + 2 * 0 = i
    OBVIOUS
  <2> QED
    BY <2>1, <2>2, <2>3, Zenon
<1> QED
  BY <1>1, <1>6, <1>7, Zenon DEF K

\* Two even words side by side.
LEMMA Interleaved ==
  ASSUME NEW u \in Nat, NEW w \in Nat,
         u \div 4 ^ NumDigits(4) = 0, w \div 4 ^ NumDigits(4) = 0,
         \A c \in 0 .. NumDigits(4) - 1 : Digit(4, u, c) \in 0 .. 1 /\ Digit(4, w, c) \in 0 .. 1
  PROVE  /\ u + 2 * w \in 0 .. 4 ^ NumDigits(4) - 1
         /\ \A c \in 0 .. NumDigits(4) - 1 :
              Digit(4, u + 2 * w, c) = Digit(4, u, c) + 2 * Digit(4, w, c)
<1> DEFINE four == 4
           K == NumDigits(4)
           v == w + w
<1>1. four = 4 /\ v = 2 * w /\ v \in Nat
  OBVIOUS
<1> HIDE DEF four
<1>2. Lawful(four, K) /\ K \in 0 .. K
  <2>1. K \in Nat
    BY LawfulBases
  <2>2. Lawful(four, K)
    BY <1>1, LawfulBases, Zenon
  <2> QED
    BY <2>1, <2>2
<1>3. \A c \in 0 .. K - 1 : Digit(four, u, c) \in 0 .. 1 /\ Digit(four, w, c) \in 0 .. 1
  BY <1>1, Zenon
<1>4. u \div four ^ K = 0 /\ w \div four ^ K = 0
  BY <1>1, Zenon
<1> HIDE DEF K
<1>5. \A c \in 0 .. K - 1 : Digit(four, w, c) + Digit(four, w, c) < four
  BY <1>1, <1>3
<1>6. /\ \A d \in 0 .. K : v \div four ^ d = (w \div four ^ d) + (w \div four ^ d)
      /\ \A c \in 0 .. K - 1 : Digit(four, v, c) = Digit(four, w, c) + Digit(four, w, c)
  BY <1>2, <1>5, DigitsAdd
<1> HIDE DEF v
<1>7. \A c \in 0 .. K - 1 : Digit(four, u, c) + Digit(four, v, c) < four
  <2> TAKE c \in 0 .. K - 1
  <2>1. Digit(four, u, c) \in 0 .. 1 /\ Digit(four, w, c) \in 0 .. 1
    BY <1>3
  <2>2. Digit(four, v, c) = Digit(four, w, c) + Digit(four, w, c)
    BY <1>6
  <2> QED
    BY <1>1, <2>1, <2>2
<1>8. /\ \A d \in 0 .. K : (u + v) \div four ^ d = (u \div four ^ d) + (v \div four ^ d)
      /\ \A c \in 0 .. K - 1 : Digit(four, u + v, c) = Digit(four, u, c) + Digit(four, v, c)
  <2>1. v \in Nat /\ Lawful(four, K)
    BY <1>1, <1>2
  <2> QED
    BY <1>7, <2>1, DigitsAdd
<1>9. (u + v) \div four ^ K = 0
  <2>1. v \div four ^ K = 0
    BY <1>2, <1>4, <1>6
  <2> QED
    BY <1>2, <1>4, <1>8, <2>1
<1>10. u + v \in 0 .. four ^ K - 1
  <2>1. four ^ K \in Nat \ {0} /\ u + v \in Nat
    BY <1>1, <1>2, PowerType
  <2>2. /\ u + v = four ^ K * ((u + v) \div four ^ K) + ((u + v) % four ^ K)
        /\ (u + v) % four ^ K \in 0 .. four ^ K - 1
    BY <2>1, DivMod
  <2>3. four ^ K * 0 = 0
    BY <2>1
  <2> DEFINE r == (u + v) % four ^ K
  <2>4. u + v = 0 + r /\ r \in 0 .. four ^ K - 1
    BY <1>9, <2>2, <2>3, Zenon
  <2> HIDE DEF r
  <2> QED
    BY <2>1, <2>4
<1>11. ASSUME NEW c \in 0 .. K - 1
       PROVE  Digit(four, u + v, c) = Digit(four, u, c) + 2 * Digit(four, w, c)
  <2>1. Digit(four, u, c) \in 0 .. 1 /\ Digit(four, w, c) \in 0 .. 1
    BY <1>3
  <2>2. Digit(four, u + v, c) = Digit(four, u, c) + (Digit(four, w, c) + Digit(four, w, c))
    BY <1>6, <1>8
  <2> QED
    BY <2>1, <2>2
<1> QED
  BY <1>1, <1>10, <1>11, Zenon DEF K

\* xor4, whose words hold the low bits of the digits and the high bits with the
\* carry of the low ones, is the sum of base-4 digits.
LEMMA Xor4IsDigitwise ==
  ASSUME NEW a \in Nat, NEW b \in Nat
  PROVE  Xor4(a, b) = DigitSum(4, NumDigits(4), a, b)
<1> DEFINE al == BitAnd(a, lo_mask)
           bl == BitAnd(b, lo_mask)
           ah == BitAnd(a \div 2, lo_mask)
           bh == BitAnd(b \div 2, lo_mask)
           u == Xor(al, bl)
           h == Xor(ah, bh)
           carry == BitAnd(al, bl)
           w == Xor(h, carry)
           K == NumDigits(4)
<1>1. Xor4(a, b) = u + 2 * w
  BY Zenon DEF Xor4
<1>2. a \div 2 \in Nat /\ b \div 2 \in Nat
  OBVIOUS
<1>3. al \in Nat /\ bl \in Nat /\ ah \in Nat /\ bh \in Nat
  BY <1>2, MaskedBits
<1>4. ASSUME NEW c \in 0 .. K - 1
      PROVE  /\ 2 * c \in 0 .. HashBits - 1 /\ 2 * c + 1 \in 0 .. HashBits - 1
             /\ Digit(2, al, 2 * c) = Digit(2, a, 2 * c) /\ Digit(2, al, 2 * c + 1) = 0
             /\ Digit(2, bl, 2 * c) = Digit(2, b, 2 * c) /\ Digit(2, bl, 2 * c + 1) = 0
             /\ Digit(2, ah, 2 * c) = Digit(2, a, 2 * c + 1) /\ Digit(2, ah, 2 * c + 1) = 0
             /\ Digit(2, bh, 2 * c) = Digit(2, b, 2 * c + 1) /\ Digit(2, bh, 2 * c + 1) = 0
  <2>1. 2 * c \in 0 .. HashBits - 1 /\ 2 * c + 1 \in 0 .. HashBits - 1
    BY PairDigit
  <2>2. Digit(2, al, 2 * c) = Digit(2, a, 2 * c) /\ Digit(2, al, 2 * c + 1) = 0
    BY MaskedBits, Zenon
  <2>3. Digit(2, bl, 2 * c) = Digit(2, b, 2 * c) /\ Digit(2, bl, 2 * c + 1) = 0
    BY MaskedBits, Zenon
  <2>4. Digit(2, ah, 2 * c) = Digit(2, a \div 2, 2 * c) /\ Digit(2, ah, 2 * c + 1) = 0
    BY <1>2, MaskedBits, Zenon
  <2>5. Digit(2, bh, 2 * c) = Digit(2, b \div 2, 2 * c) /\ Digit(2, bh, 2 * c + 1) = 0
    BY <1>2, MaskedBits, Zenon
  <2>6. Digit(2, a \div 2, 2 * c) = Digit(2, a, 2 * c + 1)
    BY <2>1, ShiftedBits, Zenon
  <2>7. Digit(2, b \div 2, 2 * c) = Digit(2, b, 2 * c + 1)
    BY <2>1, ShiftedBits, Zenon
  <2> QED
    BY <2>1, <2>2, <2>3, <2>4, <2>5, <2>6, <2>7, Zenon
<1> HIDE DEF al, bl, ah, bh
<1>5. /\ u \in 0 .. 2 ^ HashBits - 1 /\ u \in Nat
      /\ \A d \in 0 .. HashBits - 1 : Digit(2, u, d) = (Digit(2, al, d) + Digit(2, bl, d)) % 2
  BY <1>3, XorLaw
<1>6. h \in Nat /\ \A d \in 0 .. HashBits - 1 : Digit(2, h, d) = (Digit(2, ah, d) + Digit(2, bh, d)) % 2
  BY <1>3, XorLaw
<1>7. carry \in Nat /\ \A d \in 0 .. HashBits - 1 : Digit(2, carry, d) = Digit(2, al, d) * Digit(2, bl, d)
  BY <1>3, BitAndLaw
<1> HIDE DEF u, h, carry
<1>8. /\ w \in 0 .. 2 ^ HashBits - 1 /\ w \in Nat
      /\ \A d \in 0 .. HashBits - 1 : Digit(2, w, d) = (Digit(2, h, d) + Digit(2, carry, d)) % 2
  BY <1>6, <1>7, XorLaw
<1> HIDE DEF w
<1>9. ASSUME NEW c \in 0 .. K - 1
      PROVE  /\ Digit(2, u, 2 * c + 1) = 0 /\ Digit(2, w, 2 * c + 1) = 0
             /\ Digit(2, u, 2 * c) = (Digit(2, a, 2 * c) + Digit(2, b, 2 * c)) % 2
             /\ Digit(2, w, 2 * c) =
                  (((Digit(2, a, 2 * c + 1) + Digit(2, b, 2 * c + 1)) % 2)
                     + Digit(2, a, 2 * c) * Digit(2, b, 2 * c)) % 2
  <2>1. (0 + 0) % 2 = 0 /\ 0 * 0 = 0
    OBVIOUS
  <2>2. Digit(2, u, 2 * c + 1) = 0 /\ Digit(2, u, 2 * c) = (Digit(2, a, 2 * c) + Digit(2, b, 2 * c)) % 2
    BY <1>4, <1>5, <2>1, Zenon
  <2>3. /\ Digit(2, h, 2 * c + 1) = 0
        /\ Digit(2, h, 2 * c) = (Digit(2, a, 2 * c + 1) + Digit(2, b, 2 * c + 1)) % 2
    BY <1>4, <1>6, <2>1, Zenon
  <2>4. Digit(2, carry, 2 * c + 1) = 0 /\ Digit(2, carry, 2 * c) = Digit(2, a, 2 * c) * Digit(2, b, 2 * c)
    BY <1>4, <1>7, <2>1, Zenon
  <2>5. Digit(2, w, 2 * c + 1) = (0 + 0) % 2
    BY <1>4, <1>8, <2>3, <2>4, Zenon
  <2>6. Digit(2, w, 2 * c) =
          (((Digit(2, a, 2 * c + 1) + Digit(2, b, 2 * c + 1)) % 2)
             + Digit(2, a, 2 * c) * Digit(2, b, 2 * c)) % 2
    BY <1>4, <1>8, <2>3, <2>4, Zenon
  <2> QED
    BY <2>1, <2>2, <2>5, <2>6, Zenon
<1>10. /\ u \div 4 ^ K = 0
       /\ \A c \in 0 .. K - 1 : Digit(4, u, c) = Digit(2, u, 2 * c) /\ Digit(4, u, c) \in 0 .. 1
  <2>1. \A c \in 0 .. NumDigits(4) - 1 : Digit(2, u, 2 * c + 1) = 0
    BY <1>9
  <2> QED
    BY <1>5, <2>1, EvenWord, Zenon
<1>11. /\ w \div 4 ^ K = 0
       /\ \A c \in 0 .. K - 1 : Digit(4, w, c) = Digit(2, w, 2 * c) /\ Digit(4, w, c) \in 0 .. 1
  <2>1. \A c \in 0 .. NumDigits(4) - 1 : Digit(2, w, 2 * c + 1) = 0
    BY <1>9
  <2> QED
    BY <1>8, <2>1, EvenWord, Zenon
<1>12. /\ u + 2 * w \in 0 .. 4 ^ K - 1
       /\ \A c \in 0 .. K - 1 : Digit(4, u + 2 * w, c) = Digit(4, u, c) + 2 * Digit(4, w, c)
  <2>1. \A c \in 0 .. NumDigits(4) - 1 : Digit(4, u, c) \in 0 .. 1 /\ Digit(4, w, c) \in 0 .. 1
    BY <1>10, <1>11
  <2> QED
    BY <1>5, <1>8, <1>10, <1>11, <2>1, Interleaved, Zenon
<1> DEFINE four == 4
           s == DigitSum(four, K, a, b)
           v == u + 2 * w
<1>13. four = 4
  OBVIOUS
<1> HIDE DEF four
<1>14. Lawful(four, K)
  BY <1>13, LawfulBases, Zenon
<1>15. Added(four, K, a, b, s)
  BY <1>14, AddedOnce, Zenon
<1>16. v \in 0 .. four ^ K - 1
  BY <1>12, <1>13, Zenon
<1>17. ASSUME NEW c \in 0 .. K - 1
       PROVE  Digit(four, v, c) = Digit(four, s, c)
  <2> DEFINE i == Digit(2, a, 2 * c)
             j == Digit(2, b, 2 * c)
             k == Digit(2, a, 2 * c + 1)
             l == Digit(2, b, 2 * c + 1)
  <2>1. i \in 0 .. 1 /\ k \in 0 .. 1 /\ Digit(4, a, c) = i + 2 * k
    BY PairDigit
  <2>2. j \in 0 .. 1 /\ l \in 0 .. 1 /\ Digit(4, b, c) = j + 2 * l
    BY PairDigit
  <2>3. Digit(4, v, c) = ((i + j) % 2) + 2 * ((((k + l) % 2) + i * j) % 2)
    BY <1>9, <1>10, <1>11, <1>12, Zenon
  <2>4. Digit(four, s, c) = (Digit(four, a, c) + Digit(four, b, c)) % four
    BY <1>15, Zenon DEF Added
  <2>5. Digit(four, s, c) = ((i + 2 * k) + (j + 2 * l)) % 4
    BY <1>13, <2>1, <2>2, <2>4, Zenon
  <2> HIDE DEF i, j, k, l
  <2>6. \A m \in 0 .. 1 : m = 0 \/ m = 1
    OBVIOUS
  <2>7. ((i + j) % 2) + 2 * ((((k + l) % 2) + i * j) % 2) = ((i + 2 * k) + (j + 2 * l)) % 4
    <3>1. (i = 0 \/ i = 1) /\ (j = 0 \/ j = 1) /\ (k = 0 \/ k = 1) /\ (l = 0 \/ l = 1)
      BY <2>1, <2>2, <2>6
    <3>2. CASE i = 0
      BY <3>1, <3>2
    <3>3. CASE i = 1
      BY <3>1, <3>3
    <3> QED
      BY <3>1, <3>2, <3>3
  <2> QED
    BY <1>13, <2>3, <2>5, <2>7, Zenon
<1>18. v = s
  <2>1. s \in 0 .. four ^ K - 1
    BY <1>15, Zenon DEF Added
  <2> HIDE DEF v, s
  <2> QED
    BY <1>14, <1>16, <1>17, <2>1, SameDigits
<1> QED
  BY <1>1, <1>13, <1>18, Zenon

-----------------------------------------------------------------------------
(* Offsets, and the way from candidate to candidate.                       *)

\* The base that a scheme adds in.
BaseOf(s) == IF s.family = "segmented" THEN 2 ELSE s.arity

\* What being a scheme says of its parts: the range is a power of the base.
LEMMA SchemeFacts ==
  ASSUME NEW n \in Nat, NEW s \in SchemesUpTo(n)
  PROVE  /\ s.family \in {"segmented", "standard"} /\ s.arity \in 2 .. 4
         /\ BaseOf(s) \in 2 .. 4 /\ Lawful(BaseOf(s), NumDigits(BaseOf(s)))
         /\ NumDigits(BaseOf(s)) \in Nat
         /\ \E t \in 0 .. NumDigits(BaseOf(s)) : s.range = BaseOf(s) ^ t
         /\ s.range \in Nat \ {0}
<1>1. \A base \in 2 .. 4 : base = 2 \/ base = 3 \/ base = 4
  OBVIOUS
<1>2. \A base \in 2 .. 4 : Lawful(base, NumDigits(base)) /\ NumDigits(base) \in Nat
  <2> SUFFICES ASSUME NEW base \in 2 .. 4
               PROVE  Lawful(base, NumDigits(base)) /\ NumDigits(base) \in Nat
    OBVIOUS
  <2>1. CASE base = 2
    BY <2>1, LawfulBases, Zenon DEF Lawful
  <2>2. CASE base = 3
    BY <2>2, LawfulBases, Zenon DEF Lawful
  <2>3. CASE base = 4
    BY <2>3, LawfulBases, Zenon DEF Lawful
  <2> QED
    BY <1>1, <2>1, <2>2, <2>3
<1>3. /\ s.family \in {"segmented", "standard"} /\ s.arity \in 2 .. 4
      /\ s.range \in PowersOf(BaseOf(s), n)
  <2>1. CASE s \in {[family |-> "segmented", arity |-> d, range |-> r] : d \in 2 .. 4, r \in PowersOf(2, n)}
    BY <2>1 DEF BaseOf
  <2>2. CASE s \in UNION {{[family |-> "standard", arity |-> d, range |-> r] : r \in PowersOf(d, n)} : d \in 2 .. 4}
    <3>1. PICK d \in 2 .. 4 : s \in {[family |-> "standard", arity |-> d, range |-> r] : r \in PowersOf(d, n)}
      BY <2>2
    <3>2. PICK r \in PowersOf(d, n) : s = [family |-> "standard", arity |-> d, range |-> r]
      BY <3>1
    <3>3. s.family = "standard" /\ s.arity = d /\ s.range = r
      BY <3>2
    <3> QED
      BY <3>3 DEF BaseOf
  <2> QED
    BY <2>1, <2>2 DEF SchemesUpTo
<1>4. BaseOf(s) \in 2 .. 4
  BY <1>3 DEF BaseOf
<1> DEFINE base == BaseOf(s)
<1> HIDE DEF base
<1>5. base \in 2 .. 4 /\ Lawful(base, NumDigits(base)) /\ NumDigits(base) \in Nat
  BY <1>2, <1>4 DEF base
<1>6. \E t \in 0 .. NumDigits(base) : s.range = base ^ t
  <2>1. PICK t \in {k \in 0 .. n : k <= NumDigits(base)} : s.range = base ^ t
    BY <1>3 DEF PowersOf, base
  <2>2. t \in 0 .. NumDigits(base)
    BY <1>5, <2>1
  <2> QED
    BY <2>1, <2>2
<1>7. s.range \in Nat \ {0}
  <2>1. PICK t \in 0 .. NumDigits(base) : s.range = base ^ t
    BY <1>6
  <2> QED
    BY <1>5, <2>1, PowerType
<1> QED
  BY <1>3, <1>5, <1>6, <1>7 DEF base

\* How a scheme adds: digit by digit, in its range.
LEMMA PlusIsDigitSum ==
  ASSUME NEW n \in Nat, NEW s \in SchemesUpTo(n), NEW x \in Nat, NEW h \in Nat
  PROVE  Plus(s, x, h) = DigitSum(BaseOf(s), NumDigits(BaseOf(s)), x, h)
<1>1. s.family \in {"segmented", "standard"} /\ s.arity \in 2 .. 4
  BY SchemeFacts
<1>2. CASE s.family = "segmented"
  <2>1. BaseOf(s) = 2 /\ NumDigits(2) = HashBits /\ Plus(s, x, h) = Xor(x, h)
    BY <1>2, LawfulBases DEF BaseOf, Plus
  <2> QED
    BY <2>1, Zenon DEF Xor
<1>3. CASE s.family # "segmented" /\ s.arity = 2
  <2>1. BaseOf(s) = 2 /\ NumDigits(2) = HashBits /\ Plus(s, x, h) = Xor(x, h)
    BY <1>3, LawfulBases DEF BaseOf, Plus
  <2> QED
    BY <2>1, Zenon DEF Xor
<1>4. CASE s.family # "segmented" /\ s.arity = 3
  <2>1. BaseOf(s) = 3 /\ Plus(s, x, h) = Xor3(x, h)
    BY <1>4 DEF BaseOf, Plus
  <2>2. Xor3(x, h) = DigitSum(3, NumDigits(3), x, h)
    BY Xor3IsDigitwise
  <2> QED
    BY <2>1, <2>2, Zenon
<1>5. CASE s.family # "segmented" /\ s.arity = 4
  <2>1. BaseOf(s) = 4 /\ Plus(s, x, h) = Xor4(x, h)
    BY <1>5 DEF BaseOf, Plus
  <2>2. Xor4(x, h) = DigitSum(4, NumDigits(4), x, h)
    BY Xor4IsDigitwise
  <2> QED
    BY <2>1, <2>2, Zenon
<1> QED
  BY <1>1, <1>2, <1>3, <1>4, <1>5

RangeOf(s) == 0 .. s.range - 1

\* Adding does not leave the range.
LEMMA PlusInRange ==
  ASSUME NEW n \in Nat, NEW s \in SchemesUpTo(n), NEW x \in RangeOf(s), NEW h \in RangeOf(s)
  PROVE  Plus(s, x, h) \in RangeOf(s)
<1> DEFINE base == BaseOf(s)
           N == NumDigits(base)
<1>1. PICK t \in 0 .. N : s.range = base ^ t
  BY SchemeFacts
<1>2. Lawful(base, N) /\ s.range \in Nat
  BY SchemeFacts
<1>3. x \in Nat /\ h \in Nat
  BY <1>2 DEF RangeOf
<1>4. Plus(s, x, h) = DigitSum(base, N, x, h)
  BY <1>3, PlusIsDigitSum
<1> HIDE DEF base, N
<1>5. x \in 0 .. base ^ t - 1 /\ h \in 0 .. base ^ t - 1
  BY <1>1, Zenon DEF RangeOf
<1>6. DigitSum(base, N, x, h) \in 0 .. base ^ t - 1
  BY <1>2, <1>5, DigitSumBelow
<1> QED
  BY <1>1, <1>4, <1>6, Zenon DEF RangeOf

\* The indices of a scheme are numbers of its base.
LEMMA RangeBelow ==
  ASSUME NEW n \in Nat, NEW s \in SchemesUpTo(n), NEW x \in RangeOf(s)
  PROVE  x \in 0 .. BaseOf(s) ^ NumDigits(BaseOf(s)) - 1 /\ x \in Nat
<1> DEFINE base == BaseOf(s)
           N == NumDigits(base)
<1>1. PICK t \in 0 .. N : s.range = base ^ t
  BY SchemeFacts
<1>2. Lawful(base, N) /\ s.range \in Nat /\ N \in Nat /\ base \in 2 .. 4
  BY SchemeFacts
<1> HIDE DEF base, N
<1>3. N - t \in 0 .. N - t /\ t + (N - t) = N /\ N - t \in 0 .. N /\ N \in 0 .. N
  BY <1>2
<1>4. base ^ N = base ^ t * base ^ (N - t)
  BY <1>2, <1>3, PowerAdds
<1>5. base ^ t \in Nat \ {0} /\ base ^ (N - t) \in Nat \ {0} /\ base ^ N \in Nat \ {0}
  BY <1>2, <1>3, PowerType
<1>6. \A a, b \in Nat \ {0} : a <= a * b
  OBVIOUS
<1>7. s.range <= base ^ N
  BY <1>1, <1>4, <1>5, <1>6
<1>8. x \in 0 .. base ^ N - 1 /\ x \in Nat
  BY <1>2, <1>5, <1>7 DEF RangeOf
<1> QED
  BY <1>8 DEF base, N

\* In base 2, adding the same twice leads back.
LEMMA PlusTwice ==
  ASSUME NEW n \in Nat, NEW s \in SchemesUpTo(n), BaseOf(s) = 2,
         NEW x \in RangeOf(s), NEW h \in RangeOf(s)
  PROVE  Plus(s, Plus(s, x, h), h) = x
<1> DEFINE base == BaseOf(s)
           N == NumDigits(base)
           y == Plus(s, x, h)
<1>1. y \in RangeOf(s)
  BY PlusInRange
<1>2. x \in Nat /\ h \in Nat /\ y \in Nat /\ x \in 0 .. base ^ N - 1
  BY <1>1, RangeBelow
<1>3. y = DigitSum(base, N, x, h)
  BY <1>2, PlusIsDigitSum
<1>4. Plus(s, y, h) = DigitSum(base, N, y, h)
  BY <1>2, PlusIsDigitSum
<1>5. Lawful(base, N)
  BY SchemeFacts
<1>6. base = 2
  OBVIOUS
<1> HIDE DEF base, N, y
<1>7. \A i, j \in 0 .. base - 1 : (((i + j) % base) + j) % base = i
  BY <1>6
<1>8. DigitSum(base, N, DigitSum(base, N, x, h), h) = x
  BY <1>2, <1>5, <1>7, BackTwice
<1> QED
  BY <1>3, <1>4, <1>8, Zenon DEF y

\* In base 3, three times.
LEMMA PlusThrice ==
  ASSUME NEW n \in Nat, NEW s \in SchemesUpTo(n), BaseOf(s) = 3,
         NEW x \in RangeOf(s), NEW h \in RangeOf(s)
  PROVE  Plus(s, Plus(s, Plus(s, x, h), h), h) = x
<1> DEFINE base == BaseOf(s)
           N == NumDigits(base)
           y == Plus(s, x, h)
           z == Plus(s, y, h)
<1>1. y \in RangeOf(s)
  BY PlusInRange
<1> HIDE DEF y
<1>2. z \in RangeOf(s)
  BY <1>1, PlusInRange
<1> HIDE DEF z
<1>3. x \in Nat /\ h \in Nat /\ y \in Nat /\ z \in Nat /\ x \in 0 .. base ^ N - 1
  BY <1>1, <1>2, RangeBelow
<1>4. y = DigitSum(base, N, x, h)
  BY <1>3, PlusIsDigitSum DEF y
<1>5. z = DigitSum(base, N, y, h)
  BY <1>3, PlusIsDigitSum DEF z
<1>6. Plus(s, z, h) = DigitSum(base, N, z, h)
  BY <1>3, PlusIsDigitSum
<1>7. Lawful(base, N)
  BY SchemeFacts
<1>8. base = 3
  OBVIOUS
<1> HIDE DEF base, N
<1>9. \A i, j \in 0 .. base - 1 : (((((i + j) % base) + j) % base) + j) % base = i
  BY <1>8
<1>10. DigitSum(base, N, DigitSum(base, N, DigitSum(base, N, x, h), h), h) = x
  BY <1>3, <1>7, <1>9, BackThrice
<1> QED
  BY <1>4, <1>5, <1>6, <1>10, Zenon DEF y, z

\* In base 4, four times.
LEMMA PlusFourTimes ==
  ASSUME NEW n \in Nat, NEW s \in SchemesUpTo(n), BaseOf(s) = 4,
         NEW x \in RangeOf(s), NEW h \in RangeOf(s)
  PROVE  Plus(s, Plus(s, Plus(s, Plus(s, x, h), h), h), h) = x
<1> DEFINE base == BaseOf(s)
           N == NumDigits(base)
           y == Plus(s, x, h)
           z == Plus(s, y, h)
           w == Plus(s, z, h)
<1>1. y \in RangeOf(s)
  BY PlusInRange
<1> HIDE DEF y
<1>2. z \in RangeOf(s)
  BY <1>1, PlusInRange
<1> HIDE DEF z
<1>3. w \in RangeOf(s)
  BY <1>2, PlusInRange
<1> HIDE DEF w
<1>4. x \in Nat /\ h \in Nat /\ y \in Nat /\ z \in Nat /\ w \in Nat /\ x \in 0 .. base ^ N - 1
  BY <1>1, <1>2, <1>3, RangeBelow
<1>5. y = DigitSum(base, N, x, h)
  BY <1>4, PlusIsDigitSum DEF y
<1>6. z = DigitSum(base, N, y, h)
  BY <1>4, PlusIsDigitSum DEF z
<1>7. w = DigitSum(base, N, z, h)
  BY <1>4, PlusIsDigitSum DEF w
<1>8. Plus(s, w, h) = DigitSum(base, N, w, h)
  BY <1>4, PlusIsDigitSum
<1>9. Lawful(base, N)
  BY SchemeFacts
<1>10. base = 4
  OBVIOUS
<1> HIDE DEF base, N
<1>11. \A i, j \in 0 .. base - 1 : (((((((i + j) % base) + j) % base) + j) % base) + j) % base = i
  BY <1>10
<1>12. DigitSum(base, N, DigitSum(base, N, DigitSum(base, N, DigitSum(base, N, x, h), h), h), h) = x
  BY <1>4, <1>9, <1>11, BackFourTimes
<1> QED
  BY <1>5, <1>6, <1>7, <1>8, <1>12, Zenon DEF y, z, w

\* Fingerprints, offsets and first candidates are in range.
LEMMA OffsetInRange ==
  ASSUME NEW n \in Nat, NEW s \in SchemesUpTo(n), NEW fp \in Fingerprints, NEW j \in 1 .. 3
  PROVE  OffsetTo(s, fp, j) \in RangeOf(s)
<1> DEFINE i == IF s.family = "segmented" THEN j ELSE 1
           W == 2 ^ (2 * HashBits)
           H == 2 ^ HashBits
<1>1. i \in 1 .. 3
  OBVIOUS
<1>2. W \in Nat \ {0} /\ H \in Nat \ {0}
  <2>1. HashBits \in Nat /\ 2 * HashBits \in 0 .. 2 * HashBits /\ HashBits \in 0 .. 2 * HashBits
    BY LawfulBases
  <2>2. \A k \in 0 .. 2 * HashBits : 2 ^ k \in Nat \ {0}
    BY LawfulBases, PowerType
  <2> QED
    BY <2>1, <2>2
<1>3. Multiplier[i] \in Nat
  BY <1>1, <1>2, WidthAssumption
<1>4. fp \in Nat
  <2>1. fingerprint_bits \in 0 .. 2 * HashBits
    BY WidthAssumption
  <2>2. 2 ^ fingerprint_bits \in Nat
    BY <2>1, LawfulBases, PowerType
  <2> QED
    BY <2>2 DEF Fingerprints
<1>5. s.range \in Nat \ {0}
  BY SchemeFacts
<1> DEFINE a == fp * Multiplier[i]
           b == a % W
           c == b \div H
<1>6. a \in Nat
  BY <1>3, <1>4
<1>7. OffsetTo(s, fp, j) = c % s.range
  BY Zenon DEF OffsetTo, FingerprintHash
<1> HIDE DEF a, W, H
<1>8. b \in Nat
  BY <1>2, <1>6, DivMod
<1> HIDE DEF b
<1>9. c \in Nat
  BY <1>2, <1>8, DivMod
<1> HIDE DEF c
<1>10. c % s.range \in 0 .. s.range - 1
  BY <1>5, <1>9, DivMod
<1> QED
  BY <1>7, <1>10 DEF RangeOf

\* What hash_item takes from a digest: a fingerprint, not the mark of an empty
\* slot, and a first candidate in range.
LEMMA DigestInRange ==
  ASSUME NEW n \in Nat, NEW s \in SchemesUpTo(n), NEW digest \in Digests
  PROVE  ExtractFingerprint(digest.lo) \in Fingerprints /\ digest.hi % s.range \in RangeOf(s)
<1>1. HashBits \in Nat /\ \A k \in 0 .. 2 * HashBits : 2 ^ k \in Nat \ {0}
  BY LawfulBases, PowerType
<1>2. digest.lo \in Nat /\ digest.hi \in Nat
  <2>1. 2 * HashBits \in 0 .. 2 * HashBits /\ HashBits \in 0 .. 2 * HashBits
    BY <1>1
  <2>2. 2 ^ (2 * HashBits) \in Nat /\ 2 ^ HashBits \in Nat
    BY <1>1, <2>1
  <2> QED
    BY <2>2 DEF Digests
<1>3. 2 ^ fingerprint_bits \in Nat \ {0} /\ 2 ^ fingerprint_bits >= 2
  <2>1. /\ fingerprint_bits - 1 \in 0 .. 2 * HashBits - 1 /\ fingerprint_bits \in 0 .. 2 * HashBits
        /\ fingerprint_bits - 1 \in 0 .. 2 * HashBits /\ (fingerprint_bits - 1) + 1 = fingerprint_bits
    BY <1>1, WidthAssumption
  <2>2. 2 ^ fingerprint_bits = 2 * 2 ^ (fingerprint_bits - 1)
    BY <2>1, PowerAssumption DEF PowersUpTo
  <2>3. 2 ^ fingerprint_bits \in Nat \ {0} /\ 2 ^ (fingerprint_bits - 1) \in Nat \ {0}
    BY <1>1, <2>1
  <2> QED
    BY <2>2, <2>3
<1>4. ExtractFingerprint(digest.lo) \in Fingerprints
  <2> DEFINE m == digest.lo % 2 ^ fingerprint_bits
  <2>1. m \in 0 .. 2 ^ fingerprint_bits - 1
    BY <1>2, <1>3, DivMod
  <2>2. ExtractFingerprint(digest.lo) = IF m = 0 THEN 1 ELSE m
    BY Zenon DEF ExtractFingerprint
  <2> HIDE DEF m
  <2> QED
    BY <1>3, <2>1, <2>2 DEF Fingerprints
<1>5. s.range \in Nat \ {0}
  BY SchemeFacts
<1>6. digest.hi % s.range \in 0 .. s.range - 1
  BY <1>2, <1>5, DivMod
<1> QED
  BY <1>4, <1>6 DEF RangeOf

-----------------------------------------------------------------------------
(* Candidates.                                                             *)

\* What the recursion of Chain computes: each candidate from the one before.
LEMMA ChainUnfolds ==
  ASSUME NEW n \in Nat, NEW s \in SchemesUpTo(n), NEW fp \in Fingerprints,
         NEW first \in RangeOf(s)
  PROVE  \E local \in [0 .. 3 -> RangeOf(s)] :
           /\ local[0] = first
           /\ \A j \in 1 .. 3 : local[j] = Plus(s, local[j - 1], OffsetTo(s, fp, j))
           /\ Chain(s, fp, first) = [j \in PositionsOf(s) |-> SegmentStart(s, j) + local[j]]
<1> DEFINE P == PositionsOf(s)
           O(j) == OffsetTo(s, fp, j)
           L0 == first
           L1 == Plus(s, L0, O(1))
           L2 == Plus(s, L1, O(2))
           L3 == Plus(s, L2, O(3))
           local == [j \in 0 .. 3 |-> IF j = 0 THEN L0 ELSE IF j = 1 THEN L1
                                      ELSE IF j = 2 THEN L2 ELSE L3]
           F(l) == [j \in P |-> IF j = 0 THEN first ELSE Plus(s, l[j - 1], O(j))]
           g == [j \in P |-> local[j]]
           c == CHOOSE l : l = F(l)
<1>1. P \subseteq 0 .. 3 /\ \A j \in P : j # 0 => j - 1 \in P /\ j \in 1 .. 3
  BY SchemeFacts DEF PositionsOf
<1>2. O(1) \in RangeOf(s) /\ O(2) \in RangeOf(s) /\ O(3) \in RangeOf(s)
  BY OffsetInRange
<1> HIDE DEF O
<1>3. L1 \in RangeOf(s)
  BY <1>2, PlusInRange
<1> HIDE DEF L1
<1>4. L2 \in RangeOf(s)
  BY <1>2, <1>3, PlusInRange
<1> HIDE DEF L2
<1>5. L3 \in RangeOf(s)
  BY <1>2, <1>4, PlusInRange
<1> HIDE DEF L3
<1>6. local \in [0 .. 3 -> RangeOf(s)] /\ local[0] = first
  BY <1>3, <1>4, <1>5
<1>7. /\ local[1] = Plus(s, local[0], O(1)) /\ local[2] = Plus(s, local[1], O(2))
      /\ local[3] = Plus(s, local[2], O(3))
  BY DEF L1, L2, L3
<1>8. \A j \in 1 .. 3 : local[j] = Plus(s, local[j - 1], O(j))
  <2> HIDE DEF local
  <2> TAKE j \in 1 .. 3
  <2>1. CASE j = 1
    BY <1>7, <2>1
  <2>2. CASE j = 2
    BY <1>7, <2>2
  <2>3. CASE j = 3
    BY <1>7, <2>3
  <2> QED
    BY <2>1, <2>2, <2>3
<1> HIDE DEF local
<1>9. g = F(g)
  <2> HIDE DEF P
  <2> SUFFICES ASSUME NEW j \in P PROVE g[j] = IF j = 0 THEN first ELSE Plus(s, g[j - 1], O(j))
    BY Zenon
  <2>1. CASE j = 0
    BY <1>6, <2>1
  <2>2. CASE j # 0
    <3>1. j - 1 \in P /\ j \in 1 .. 3
      BY <1>1, <2>2
    <3>2. g[j - 1] = local[j - 1] /\ g[j] = local[j]
      BY <3>1
    <3> HIDE DEF g
    <3> QED
      BY <1>8, <2>2, <3>1, <3>2
  <2> QED
    BY <2>1, <2>2
<1>10. c = F(c)
  <2> HIDE DEF g, F
  <2> QED
    BY <1>9, Zenon
<1>11. Chain(s, fp, first) = [j \in P |-> SegmentStart(s, j) + c[j]]
  BY Zenon DEF Chain, O
<1> HIDE DEF c
<1>12. \A j \in 0 .. 3 : j \in P => c[j] = local[j]
  <2>1. \A j \in P : c[j] = IF j = 0 THEN first ELSE Plus(s, c[j - 1], O(j))
    <3> HIDE DEF P
    <3> QED
      BY <1>10, Zenon
  <2>2. \A j \in 1 .. 3 : j \in P => j - 1 \in P
    BY <1>1
  <2> DEFINE S == {k \in 0 .. 3 : k \in P => c[k] = local[k]}
  <2>3. 0 \in S
    BY <1>6, <2>1
  <2>4. ASSUME NEW k \in 0 .. 3 - 1, k \in S PROVE k + 1 \in S
    <3>1. k + 1 \in 1 .. 3 /\ (k + 1) - 1 = k /\ k + 1 # 0 /\ k + 1 \in 0 .. 3
      OBVIOUS
    <3>2. ASSUME k + 1 \in P PROVE c[k + 1] = local[k + 1]
      <4>1. k \in P
        BY <2>2, <3>1, <3>2
      <4>2. c[k] = local[k]
        BY <2>4, <4>1
      <4>3. c[k + 1] = Plus(s, c[k], O(k + 1))
        <5>1. c[k + 1] = Plus(s, c[(k + 1) - 1], O(k + 1))
          BY <2>1, <3>1, <3>2, Zenon
        <5> QED
          BY <3>1, <5>1
      <4>4. local[k + 1] = Plus(s, local[k], O(k + 1))
        <5>1. local[k + 1] = Plus(s, local[(k + 1) - 1], O(k + 1))
          BY <1>8, <3>1, Zenon
        <5> QED
          BY <3>1, <5>1
      <4> QED
        BY <4>2, <4>3, <4>4, Zenon
    <3> QED
      BY <3>1, <3>2
  <2>5. S \in SUBSET (0 .. 3)
    OBVIOUS
  <2>6. \A k \in 0 .. 3 : k \in S
    <3> HIDE DEF S
    <3> DEFINE three == 3
    <3>1. three = 3
      OBVIOUS
    <3> HIDE DEF three
    <3>2. three \in Nat /\ S \in SUBSET (0 .. three) /\ \A k \in 0 .. three - 1 : k \in S => k + 1 \in S
      BY <2>4, <2>5, <3>1
    <3>3. \A k \in 0 .. three : k \in S
      BY <2>3, <3>2, Climbs
    <3> QED
      BY <3>1, <3>3
  <2> QED
    BY <2>6
<1>13. Chain(s, fp, first) = [j \in P |-> SegmentStart(s, j) + local[j]]
  <2>1. \A j \in P : c[j] = local[j]
    <3> HIDE DEF P
    <3> QED
      BY <1>1, <1>12
  <2> QED
    BY <1>11, <2>1, Zenon
<1> QED
  BY <1>6, <1>8, <1>13 DEF O

\* What the recursion of WalkBack computes: each candidate from the one after.
LEMMA WalkBackUnfolds ==
  ASSUME NEW n \in Nat, NEW s \in SchemesUpTo(n), s.family = "segmented",
         NEW fp \in Fingerprints, NEW p \in 0 .. 3, NEW x \in RangeOf(s)
  PROVE  \E back \in [0 .. p -> RangeOf(s)] :
           /\ back[p] = x
           /\ \A j \in 0 .. p - 1 : back[j] = Plus(s, back[j + 1], OffsetTo(s, fp, j + 1))
           /\ WalkBack(s, fp, p, x) = back[0]
<1> DEFINE O(j) == OffsetTo(s, fp, j)
           h(i) == IF i < p THEN O(p - i) ELSE 0
           B0 == x
           B1 == Plus(s, B0, h(0))
           B2 == Plus(s, B1, h(1))
           B3 == Plus(s, B2, h(2))
           b == [i \in 0 .. 3 |-> IF i = 0 THEN B0 ELSE IF i = 1 THEN B1
                                  ELSE IF i = 2 THEN B2 ELSE B3]
           back == [j \in 0 .. p |-> b[p - j]]
           F(l) == [j \in 0 .. p |-> IF j = p THEN x ELSE Xor(l[j + 1], OffsetTo(s, fp, j + 1))]
           c == CHOOSE l : l = F(l)
<1>1. \A i \in 0 .. 2 : h(i) \in RangeOf(s)
  <2>1. 0 \in RangeOf(s)
    BY SchemeFacts DEF RangeOf
  <2>2. \A j \in 1 .. 3 : O(j) \in RangeOf(s)
    BY OffsetInRange
  <2> HIDE DEF O
  <2> TAKE i \in 0 .. 2
  <2>3. i < p => p - i \in 1 .. 3
    OBVIOUS
  <2> QED
    BY <2>1, <2>2, <2>3
<1>2. \A j \in 0 .. p - 1 : p - j - 1 \in 0 .. 2 /\ h(p - j - 1) = O(j + 1)
  <2> HIDE DEF O
  <2> TAKE j \in 0 .. p - 1
  <2>1. p - j - 1 \in 0 .. 2 /\ p - j - 1 < p /\ p - (p - j - 1) = j + 1
    OBVIOUS
  <2> QED
    BY <2>1
<1>3. h(0) \in RangeOf(s) /\ h(1) \in RangeOf(s) /\ h(2) \in RangeOf(s)
  <2> HIDE DEF h
  <2> QED
    BY <1>1
<1> HIDE DEF h
<1>4. B1 \in RangeOf(s)
  BY <1>3, PlusInRange
<1> HIDE DEF B1
<1>5. B2 \in RangeOf(s)
  BY <1>3, <1>4, PlusInRange
<1> HIDE DEF B2
<1>6. B3 \in RangeOf(s)
  BY <1>3, <1>5, PlusInRange
<1> HIDE DEF B3
<1>7. b \in [0 .. 3 -> RangeOf(s)] /\ b[0] = x
  BY <1>4, <1>5, <1>6
<1>8. b[1] = Plus(s, b[0], h(0)) /\ b[2] = Plus(s, b[1], h(1)) /\ b[3] = Plus(s, b[2], h(2))
  BY DEF B1, B2, B3
<1> HIDE DEF b
<1>9. \A i \in 0 .. 2 : b[i + 1] = Plus(s, b[i], h(i))
  <2> TAKE i \in 0 .. 2
  <2>1. CASE i = 0
    BY <1>8, <2>1
  <2>2. CASE i = 1
    BY <1>8, <2>2
  <2>3. CASE i = 2
    BY <1>8, <2>3
  <2> QED
    BY <2>1, <2>2, <2>3
<1>10. back \in [0 .. p -> RangeOf(s)] /\ back[p] = x
  <2>1. p - p = 0 /\ p \in 0 .. p /\ \A j \in 0 .. p : p - j \in 0 .. 3
    OBVIOUS
  <2>2. back[p] = b[0]
    BY <2>1
  <2> QED
    BY <1>7, <2>1, <2>2
<1>11. \A j \in 0 .. p - 1 : back[j] = Plus(s, back[j + 1], O(j + 1))
  <2> TAKE j \in 0 .. p - 1
  <2>1. /\ j \in 0 .. p /\ j + 1 \in 0 .. p /\ p - (j + 1) = p - j - 1
        /\ (p - j - 1) + 1 = p - j /\ p - j - 1 \in 0 .. 2
    OBVIOUS
  <2>2. back[j] = b[p - j] /\ back[j + 1] = b[p - j - 1]
    BY <2>1
  <2>3. b[(p - j - 1) + 1] = Plus(s, b[p - j - 1], h(p - j - 1))
    BY <1>9, <2>1, Zenon
  <2>4. h(p - j - 1) = O(j + 1)
    BY <1>2, Zenon
  <2>5. b[p - j] = Plus(s, b[p - j - 1], h(p - j - 1))
    BY <2>1, <2>3
  <2> QED
    BY <2>2, <2>4, <2>5, Zenon
<1> HIDE DEF back
<1>12. \A u, v : Plus(s, u, v) = Xor(u, v)
  BY DEF Plus
<1>13. back = F(back)
  <2>1. ASSUME NEW j \in 0 .. p
        PROVE  back[j] = IF j = p THEN x ELSE Xor(back[j + 1], OffsetTo(s, fp, j + 1))
    <3>1. CASE j = p
      BY <1>10, <3>1
    <3>2. CASE j # p
      <4>1. j \in 0 .. p - 1
        BY <3>2
      <4>2. back[j] = Plus(s, back[j + 1], OffsetTo(s, fp, j + 1))
        BY <1>11, <4>1, Zenon DEF O
      <4>3. back[j] = Xor(back[j + 1], OffsetTo(s, fp, j + 1))
        BY <1>12, <4>2, Zenon
      <4> QED
        BY <3>2, <4>3, Zenon
    <3> QED
      BY <3>1, <3>2
  <2>2. back = [j \in 0 .. p |-> back[j]]
    BY <1>10
  <2>3. [j \in 0 .. p |-> back[j]] = F(back)
    BY <2>1, Zenon
  <2> QED
    BY <2>2, <2>3, Zenon
<1>14. c = F(c)
  <2> HIDE DEF F
  <2> QED
    BY <1>13, Zenon
<1>15. WalkBack(s, fp, p, x) = c[0]
  BY Zenon DEF WalkBack
<1> HIDE DEF c
<1>16. c[p] = x /\ \A j \in 0 .. p - 1 : c[j] = Plus(s, c[j + 1], O(j + 1))
  <2>1. \A j \in 0 .. p : c[j] = IF j = p THEN x ELSE Xor(c[j + 1], OffsetTo(s, fp, j + 1))
    BY <1>14, Zenon
  <2>2. c[p] = x
    <3>1. p \in 0 .. p
      OBVIOUS
    <3> QED
      BY <2>1, <3>1, Zenon
  <2>3. ASSUME NEW j \in 0 .. p - 1 PROVE c[j] = Plus(s, c[j + 1], O(j + 1))
    <3>1. j \in 0 .. p /\ j # p
      OBVIOUS
    <3>2. c[j] = Xor(c[j + 1], OffsetTo(s, fp, j + 1))
      BY <2>1, <3>1, Zenon
    <3> QED
      BY <1>12, <3>2, Zenon DEF O
  <2> QED
    BY <2>2, <2>3
<1>17. c[0] = back[0]
  <2> DEFINE S == {k \in 0 .. p : c[p - k] = back[p - k]}
  <2>1. 0 \in S
    <3>1. p - 0 = p /\ 0 \in 0 .. p
      OBVIOUS
    <3> QED
      BY <1>10, <1>16, <3>1
  <2>2. ASSUME NEW k \in 0 .. p - 1, k \in S PROVE k + 1 \in S
    <3>1. k + 1 \in 0 .. p /\ p - (k + 1) \in 0 .. p - 1 /\ (p - (k + 1)) + 1 = p - k
      OBVIOUS
    <3> DEFINE j == p - (k + 1)
    <3>2. c[p - k] = back[p - k]
      BY <2>2
    <3>3. c[j + 1] = back[j + 1]
      BY <3>1, <3>2
    <3>4. c[j] = back[j]
      <4> j \in 0 .. p - 1
        BY <3>1
      <4> HIDE DEF j
      <4> QED
        BY <1>11, <1>16, <3>3, Zenon
    <3> QED
      BY <3>1, <3>4
  <2>3. S \in SUBSET (0 .. p)
    OBVIOUS
  <2>4. p \in S
    <3> HIDE DEF S
    <3>1. \A k \in 0 .. p : k \in S
      BY <2>1, <2>2, <2>3, Climbs
    <3> QED
      BY <3>1
  <2> QED
    BY <2>4
<1> QED
  BY <1>10, <1>11, <1>15, <1>17 DEF O

\* The ways of the three arities lead to the same candidates: those of the
\* first candidate, from wherever it was walked back to.
LEMMA SegmentedWays ==
  ASSUME NEW n \in Nat, NEW s \in SchemesUpTo(n), s.family = "segmented",
         NEW fp \in Fingerprints, NEW p \in PositionsOf(s), NEW x \in RangeOf(s)
  PROVE  SegmentedFrom(s, fp, p, x) = Chain(s, fp, WalkBack(s, fp, p, x))
<1> DEFINE O(j) == OffsetTo(s, fp, j)
           first == WalkBack(s, fp, p, x)
           h1 == O(1)
           h2 == O(2)
<1>1. s.arity \in 2 .. 4 /\ p \in 0 .. 3 /\ p < s.arity
  BY SchemeFacts DEF PositionsOf
<1>2. PICK back \in [0 .. p -> RangeOf(s)] :
        /\ back[p] = x
        /\ \A j \in 0 .. p - 1 : back[j] = Plus(s, back[j + 1], O(j + 1))
        /\ first = back[0]
  BY <1>1, WalkBackUnfolds, ZenonT(30)
<1>3. first \in RangeOf(s)
  BY <1>1, <1>2
<1> HIDE DEF first
<1>4. PICK local \in [0 .. 3 -> RangeOf(s)] :
        /\ local[0] = first
        /\ \A j \in 1 .. 3 : local[j] = Plus(s, local[j - 1], O(j))
        /\ Chain(s, fp, first) = [j \in PositionsOf(s) |-> SegmentStart(s, j) + local[j]]
  BY <1>3, ChainUnfolds
<1>5. h1 \in RangeOf(s) /\ h2 \in RangeOf(s)
  BY OffsetInRange
<1>6. \A y, h : Xor(y, h) = Plus(s, y, h)
  BY Zenon DEF Plus
<1>7. ASSUME NEW y \in RangeOf(s), NEW h \in RangeOf(s) PROVE Plus(s, Plus(s, y, h), h) = y
  <2>1. BaseOf(s) = 2
    BY DEF BaseOf
  <2> QED
    BY <2>1, PlusTwice
<1>8. local[1] = Plus(s, first, h1) /\ local[2] = Plus(s, local[1], h2)
  <2>1. 1 - 1 = 0 /\ 2 - 1 = 1 /\ 1 \in 1 .. 3 /\ 2 \in 1 .. 3
    OBVIOUS
  <2>2. local[1] = Plus(s, local[1 - 1], O(1)) /\ local[2] = Plus(s, local[2 - 1], O(2))
    BY <1>4, <2>1, Zenon
  <2> QED
    BY <1>4, <2>1, <2>2
<1>9. local[1] \in RangeOf(s) /\ local[2] \in RangeOf(s)
  BY <1>4
<1>10. p = 0 => first = x
  BY <1>2
<1>11. p = 1 => first = Plus(s, x, h1)
  <2> SUFFICES ASSUME p = 1 PROVE first = Plus(s, x, h1)
    OBVIOUS
  <2>1. 0 \in 0 .. p - 1 /\ 0 + 1 = 1
    OBVIOUS
  <2>2. back[0] = Plus(s, back[0 + 1], O(0 + 1))
    BY <1>2, <2>1, Zenon
  <2> QED
    BY <1>2, <2>1, <2>2
<1>12. p = 2 => first = Plus(s, Plus(s, x, h2), h1) /\ Plus(s, x, h2) \in RangeOf(s)
  <2> SUFFICES ASSUME p = 2
               PROVE  first = Plus(s, Plus(s, x, h2), h1) /\ Plus(s, x, h2) \in RangeOf(s)
    OBVIOUS
  <2>1. 0 \in 0 .. p - 1 /\ 1 \in 0 .. p - 1 /\ 0 + 1 = 1 /\ 1 + 1 = 2 /\ 1 \in 0 .. p
    OBVIOUS
  <2>2. back[0] = Plus(s, back[0 + 1], O(0 + 1)) /\ back[1] = Plus(s, back[1 + 1], O(1 + 1))
    BY <1>2, <2>1, Zenon
  <2>3. back[1] = Plus(s, x, h2) /\ back[0] = Plus(s, back[1], h1) /\ back[1] \in RangeOf(s)
    BY <1>2, <2>1, <2>2
  <2> QED
    BY <1>2, <2>3
<1>13. first = Plus(s, local[1], h1) /\ local[1] = Plus(s, local[2], h2)
  BY <1>3, <1>5, <1>7, <1>8, <1>9
<1>14. /\ p = 1 => x = local[1]
       /\ p = 2 => x = local[2]
  <2> HIDE DEF h1, h2
  <2>1. ASSUME p = 1 PROVE x = local[1]
    BY <1>5, <1>7, <1>8, <1>11, <2>1
  <2>2. ASSUME p = 2 PROVE x = local[2]
    BY <1>5, <1>7, <1>8, <1>12, <2>2
  <2> QED
    BY <2>1, <2>2
<1>15. CASE s.arity = 2
  <2>1. \A j \in PositionsOf(s) : (IF j = p THEN x ELSE Xor(x, h1)) = local[j]
    <3> SUFFICES ASSUME NEW j \in PositionsOf(s) PROVE (IF j = p THEN x ELSE Xor(x, h1)) = local[j]
      OBVIOUS
    <3>1. j \in {0, 1} /\ p \in {0, 1}
      BY <1>1, <1>15 DEF PositionsOf
    <3> HIDE DEF h1, h2
    <3>2. CASE p = 0
      BY <1>4, <1>6, <1>8, <1>10, <3>1, <3>2
    <3>3. CASE p = 1
      BY <1>4, <1>6, <1>13, <1>14, <3>1, <3>3
    <3> QED
      BY <3>1, <3>2, <3>3
  <2>2. SegmentedFrom(s, fp, p, x) = FromHalf(s, fp, p, x)
    BY <1>15 DEF SegmentedFrom
  <2>3. FromHalf(s, fp, p, x)
          = [j \in PositionsOf(s) |-> SegmentStart(s, j) + (IF j = p THEN x ELSE Xor(x, h1))]
    BY Zenon DEF FromHalf
  <2> HIDE DEF h1
  <2> QED
    BY <1>4, <2>1, <2>2, <2>3, Zenon DEF first
<1>16. CASE s.arity = 3
  <2> DEFINE step(j, y) == IF j = 1 THEN y ELSE Xor(y, O(IF j = 0 THEN 1 ELSE 2))
             hub == step(p, x)
  <2>1. \A y : step(0, y) = Plus(s, y, h1) /\ step(1, y) = y /\ step(2, y) = Plus(s, y, h2)
    BY <1>6
  <2>2. p \in {0, 1, 2}
    BY <1>1, <1>16
  <2>3. FromHub(s, fp, p, x) = [j \in PositionsOf(s) |-> SegmentStart(s, j) + step(j, hub)]
    BY Zenon DEF FromHub
  <2> HIDE DEF h1, h2, step
  <2>4. hub = local[1]
    <3>1. CASE p = 0
      BY <1>8, <1>10, <2>1, <3>1
    <3>2. CASE p = 1
      BY <1>14, <2>1, <3>2
    <3>3. CASE p = 2
      BY <1>13, <1>14, <2>1, <3>3
    <3> QED
      BY <2>2, <3>1, <3>2, <3>3
  <2> HIDE DEF hub
  <2>5. \A j \in PositionsOf(s) : step(j, hub) = local[j]
    <3> SUFFICES ASSUME NEW j \in PositionsOf(s) PROVE step(j, hub) = local[j]
      OBVIOUS
    <3>1. j \in {0, 1, 2}
      BY <1>16 DEF PositionsOf
    <3> QED
      BY <1>4, <1>8, <1>13, <2>1, <2>4, <3>1
  <2>6. SegmentedFrom(s, fp, p, x) = FromHub(s, fp, p, x)
    BY <1>16 DEF SegmentedFrom
  <2> QED
    BY <1>4, <2>3, <2>5, <2>6, Zenon DEF first
<1>17. CASE s.arity = 4
  BY <1>17 DEF SegmentedFrom, first
<1> QED
  BY <1>1, <1>15, <1>16, <1>17 DEF first

\* In a segmented scheme, every candidate leads back to the candidates.
LEMMA SegmentedWalk ==
  ASSUME NEW n \in Nat, NEW s \in SchemesUpTo(n), s.family = "segmented",
         NEW fp \in Fingerprints, NEW first \in RangeOf(s), NEW p \in PositionsOf(s)
  PROVE  all_indices(s, Chain(s, fp, first)[p], fp) = Chain(s, fp, first)
<1> DEFINE O(j) == OffsetTo(s, fp, j)
           trail == Chain(s, fp, first)
<1>1. PICK local \in [0 .. 3 -> RangeOf(s)] :
        /\ local[0] = first
        /\ \A j \in 1 .. 3 : local[j] = Plus(s, local[j - 1], O(j))
        /\ trail = [j \in PositionsOf(s) |-> SegmentStart(s, j) + local[j]]
  BY ChainUnfolds
<1>2. p \in 0 .. 3
  BY SchemeFacts DEF PositionsOf
<1>3. local[p] \in RangeOf(s) /\ \A j \in 0 .. 3 : local[j] \in RangeOf(s)
  BY <1>1, <1>2
<1>4. trail[p] \div s.range = p /\ trail[p] % s.range = local[p]
  <2>1. trail[p] = p * s.range + local[p]
    BY <1>1 DEF SegmentStart
  <2>2. s.range \in Nat \ {0} /\ p \in Nat /\ local[p] \in 0 .. s.range - 1
    BY <1>2, <1>3, SchemeFacts DEF RangeOf
  <2>3. p * s.range = s.range * p /\ s.range * p + local[p] \in Nat
    BY <2>2
  <2>4. trail[p] = s.range * p + local[p] /\ trail[p] \in Nat
    BY <2>1, <2>3
  <2> HIDE DEF trail
  <2> QED
    BY <2>2, <2>4, DivIs, ZenonT(30)
<1>5. PICK back \in [0 .. p -> RangeOf(s)] :
        /\ back[p] = local[p]
        /\ \A j \in 0 .. p - 1 : back[j] = Plus(s, back[j + 1], O(j + 1))
        /\ WalkBack(s, fp, p, local[p]) = back[0]
  BY <1>2, <1>3, WalkBackUnfolds, ZenonT(30)
<1>6. ASSUME NEW j \in 0 .. 2 PROVE Plus(s, local[j + 1], O(j + 1)) = local[j]
  <2>1. j + 1 \in 1 .. 3 /\ (j + 1) - 1 = j /\ j \in 0 .. 3
    OBVIOUS
  <2>2. local[j + 1] = Plus(s, local[j], O(j + 1))
    <3>1. local[j + 1] = Plus(s, local[(j + 1) - 1], O(j + 1))
      BY <1>1, <2>1, Zenon
    <3> QED
      BY <2>1, <3>1
  <2>3. O(j + 1) \in RangeOf(s) /\ local[j] \in RangeOf(s)
    BY <1>3, <2>1, OffsetInRange
  <2>4. BaseOf(s) = 2
    BY DEF BaseOf
  <2>5. Plus(s, Plus(s, local[j], O(j + 1)), O(j + 1)) = local[j]
    <3> HIDE DEF O
    <3> QED
      BY <2>3, <2>4, PlusTwice
  <2> QED
    BY <2>2, <2>5, Zenon
<1>7. back[0] = first
  <2> DEFINE S == {k \in 0 .. p : back[p - k] = local[p - k]}
  <2>1. 0 \in S
    <3>1. p - 0 = p /\ 0 \in 0 .. p
      BY <1>2
    <3> QED
      BY <1>5, <3>1
  <2>2. ASSUME NEW k \in 0 .. p - 1, k \in S PROVE k + 1 \in S
    <3>1. /\ k + 1 \in 0 .. p /\ p - (k + 1) \in 0 .. p - 1 /\ p - (k + 1) \in 0 .. 2
          /\ (p - (k + 1)) + 1 = p - k
      BY <1>2
    <3> DEFINE j == p - (k + 1)
    <3>2. back[p - k] = local[p - k]
      BY <2>2
    <3>3. back[j + 1] = local[j + 1]
      BY <3>1, <3>2
    <3>4. back[j] = local[j]
      <4> j \in 0 .. p - 1 /\ j \in 0 .. 2
        BY <3>1
      <4> HIDE DEF j, O
      <4> QED
        BY <1>5, <1>6, <3>3, Zenon
    <3> QED
      BY <3>1, <3>4
  <2>3. S \in SUBSET (0 .. p) /\ p \in Nat
    BY <1>2
  <2>4. p \in S
    <3> HIDE DEF S
    <3>1. \A k \in 0 .. p : k \in S
      BY <2>1, <2>2, <2>3, Climbs
    <3> QED
      BY <2>3, <3>1
  <2>5. p - p = 0
    BY <1>2
  <2> QED
    BY <1>1, <2>4, <2>5
<1> HIDE DEF trail
<1>8. all_indices(s, trail[p], fp) = Chain(s, fp, WalkBack(s, fp, p, local[p]))
  <2>1. SegmentedFrom(s, fp, p, local[p]) = Chain(s, fp, WalkBack(s, fp, p, local[p]))
    BY <1>3, SegmentedWays
  <2> QED
    BY <1>4, <2>1, Zenon DEF all_indices
<1> QED
  BY <1>5, <1>7, <1>8, Zenon DEF trail

\* And every bucket is the candidate of its segment from some first one.
LEMMA SegmentedBucket ==
  ASSUME NEW n \in Nat, NEW s \in SchemesUpTo(n), s.family = "segmented",
         NEW fp \in Fingerprints, NEW b \in 0 .. num_buckets(s) - 1
  PROVE  \E first \in RangeOf(s) :
           /\ all_indices(s, b, fp) = Chain(s, fp, first)
           /\ \E p \in PositionsOf(s) : Chain(s, fp, first)[p] = b
<1> DEFINE O(j) == OffsetTo(s, fp, j)
           p == b \div s.range
           x == b % s.range
<1>1. s.range \in Nat \ {0} /\ s.arity \in 2 .. 4 /\ num_buckets(s) = s.arity * s.range
  BY SchemeFacts DEF num_buckets
<1>2. b \in Nat /\ b < s.arity * s.range
  BY <1>1
<1>3. p \in Nat /\ x \in 0 .. s.range - 1 /\ b = s.range * p + x
  BY <1>1, <1>2, DivMod
<1> HIDE DEF p, x
<1>4. p < s.arity
  <2> DEFINE r == s.range
             a == s.arity
  <2>1. r \in Nat \ {0} /\ a \in 2 .. 4 /\ b < a * r /\ b = r * p + x /\ x \in 0 .. r - 1
    BY <1>1, <1>2, <1>3
  <2> HIDE DEF r, a
  <2> SUFFICES ASSUME p >= a PROVE FALSE
    BY <1>1, <1>3 DEF a
  <2>2. r * p >= r * a
    BY <1>3, <2>1
  <2>3. r * a = a * r
    BY <2>1
  <2> QED
    BY <1>3, <2>1, <2>2, <2>3
<1>5. p \in PositionsOf(s) /\ p \in 0 .. 3 /\ x \in RangeOf(s)
  BY <1>1, <1>3, <1>4 DEF PositionsOf, RangeOf
<1>6. PICK back \in [0 .. p -> RangeOf(s)] :
        /\ back[p] = x
        /\ \A j \in 0 .. p - 1 : back[j] = Plus(s, back[j + 1], O(j + 1))
        /\ WalkBack(s, fp, p, x) = back[0]
  BY <1>5, WalkBackUnfolds, ZenonT(30)
<1> DEFINE first == back[0]
<1>7. first \in RangeOf(s)
  BY <1>3, <1>6
<1>8. all_indices(s, b, fp) = Chain(s, fp, first)
  <2>1. SegmentedFrom(s, fp, p, x) = Chain(s, fp, WalkBack(s, fp, p, x))
    BY <1>5, SegmentedWays
  <2> QED
    BY <1>6, <2>1, Zenon DEF all_indices, p, x
<1> HIDE DEF first
<1>9. PICK local \in [0 .. 3 -> RangeOf(s)] :
        /\ local[0] = first
        /\ \A j \in 1 .. 3 : local[j] = Plus(s, local[j - 1], O(j))
        /\ Chain(s, fp, first) = [j \in PositionsOf(s) |-> SegmentStart(s, j) + local[j]]
  BY <1>7, ChainUnfolds
<1>10. local[p] = x
  <2> DEFINE S == {k \in 0 .. p : local[k] = back[k]}
  <2>1. 0 \in S
    BY <1>3, <1>9 DEF first
  <2>2. ASSUME NEW k \in 0 .. p - 1, k \in S PROVE k + 1 \in S
    <3>1. k + 1 \in 0 .. p /\ k + 1 \in 1 .. 3 /\ (k + 1) - 1 = k
      BY <1>3, <1>5
    <3>2. local[k + 1] = Plus(s, local[k], O(k + 1))
      <4>1. local[k + 1] = Plus(s, local[(k + 1) - 1], O(k + 1))
        BY <1>9, <3>1, Zenon
      <4> QED
        BY <3>1, <4>1
    <3>3. local[k] = back[k] /\ back[k] = Plus(s, back[k + 1], O(k + 1))
      BY <1>6, <2>2, Zenon
    <3>4. back[k + 1] \in RangeOf(s) /\ O(k + 1) \in RangeOf(s) /\ BaseOf(s) = 2
      <4>1. O(k + 1) \in RangeOf(s)
        BY <3>1, OffsetInRange
      <4>2. back[k + 1] \in RangeOf(s)
        BY <1>6, <3>1
      <4> QED
        BY <4>1, <4>2 DEF BaseOf
    <3>5. Plus(s, Plus(s, back[k + 1], O(k + 1)), O(k + 1)) = back[k + 1]
      <4> HIDE DEF O
      <4> QED
        BY <3>4, PlusTwice
    <3>6. local[k + 1] = back[k + 1]
      BY <3>2, <3>3, <3>5, Zenon
    <3> QED
      BY <3>1, <3>6
  <2>3. S \in SUBSET (0 .. p) /\ p \in Nat
    BY <1>3
  <2>4. p \in S
    <3> HIDE DEF S
    <3>1. \A k \in 0 .. p : k \in S
      BY <2>1, <2>2, <2>3, Climbs
    <3> QED
      BY <2>3, <3>1
  <2> QED
    BY <1>6, <2>4
<1>11. Chain(s, fp, first)[p] = b
  <2>1. Chain(s, fp, first)[p] = p * s.range + local[p]
    BY <1>5, <1>9 DEF SegmentStart
  <2>2. p * s.range = s.range * p
    BY <1>1, <1>3
  <2> QED
    BY <1>3, <1>10, <2>1, <2>2
<1> QED
  BY <1>5, <1>7, <1>8, <1>11

\* Candidates of a standard scheme are the multiples of one offset, added to
\* the first, and adding it arity times goes round.
LEMMA StandardChain ==
  ASSUME NEW n \in Nat, NEW s \in SchemesUpTo(n), s.family = "standard",
         NEW fp \in Fingerprints, NEW first \in RangeOf(s)
  PROVE  \E local \in [0 .. 3 -> RangeOf(s)] :
           /\ local[0] = first
           /\ \A j \in 0 .. 2 : local[j + 1] = Plus(s, local[j], OffsetTo(s, fp, 1))
           /\ Plus(s, local[s.arity - 1], OffsetTo(s, fp, 1)) = first
           /\ \A j \in PositionsOf(s) : Chain(s, fp, first)[j] = local[j]
<1> DEFINE h == OffsetTo(s, fp, 1)
<1>1. PICK local \in [0 .. 3 -> RangeOf(s)] :
        /\ local[0] = first
        /\ \A j \in 1 .. 3 : local[j] = Plus(s, local[j - 1], OffsetTo(s, fp, j))
        /\ Chain(s, fp, first) = [j \in PositionsOf(s) |-> SegmentStart(s, j) + local[j]]
  BY ChainUnfolds
<1>2. \A j : OffsetTo(s, fp, j) = h
  BY DEF OffsetTo
<1>3. h \in RangeOf(s)
  <2>1. 1 \in 1 .. 3
    OBVIOUS
  <2> QED
    BY <2>1, OffsetInRange, Zenon
<1> HIDE DEF h
<1>4. ASSUME NEW j \in 0 .. 2 PROVE local[j + 1] = Plus(s, local[j], h)
  <2>1. j + 1 \in 1 .. 3 /\ (j + 1) - 1 = j
    OBVIOUS
  <2>2. local[j + 1] = Plus(s, local[(j + 1) - 1], OffsetTo(s, fp, j + 1))
    BY <1>1, <2>1, Zenon
  <2>3. local[j + 1] = Plus(s, local[(j + 1) - 1], h)
    BY <1>2, <2>2, Zenon
  <2> QED
    BY <2>1, <2>3
<1>5. /\ local[1] = Plus(s, first, h) /\ local[2] = Plus(s, local[1], h)
      /\ local[3] = Plus(s, local[2], h)
  <2>1. /\ 0 \in 0 .. 2 /\ 1 \in 0 .. 2 /\ 2 \in 0 .. 2
        /\ 0 + 1 = 1 /\ 1 + 1 = 2 /\ 2 + 1 = 3
    OBVIOUS
  <2>2. /\ local[0 + 1] = Plus(s, local[0], h) /\ local[1 + 1] = Plus(s, local[1], h)
        /\ local[2 + 1] = Plus(s, local[2], h)
    BY <1>4, <2>1, Zenon
  <2> QED
    BY <1>1, <2>1, <2>2
<1>6. Plus(s, local[s.arity - 1], h) = first
  <2>1. s.arity \in 2 .. 4 /\ BaseOf(s) = s.arity
    BY SchemeFacts DEF BaseOf
  <2>2. CASE s.arity = 2
    <3>1. s.arity - 1 = 1
      BY <2>2
    <3>2. Plus(s, Plus(s, first, h), h) = first
      BY <1>3, <2>1, <2>2, PlusTwice
    <3> QED
      BY <1>5, <3>1, <3>2, Zenon
  <2>3. CASE s.arity = 3
    <3>1. s.arity - 1 = 2
      BY <2>3
    <3>2. Plus(s, Plus(s, Plus(s, first, h), h), h) = first
      BY <1>3, <2>1, <2>3, PlusThrice
    <3> QED
      BY <1>5, <3>1, <3>2, Zenon
  <2>4. CASE s.arity = 4
    <3>1. s.arity - 1 = 3
      BY <2>4
    <3>2. Plus(s, Plus(s, Plus(s, Plus(s, first, h), h), h), h) = first
      BY <1>3, <2>1, <2>4, PlusFourTimes
    <3> QED
      BY <1>5, <3>1, <3>2, Zenon
  <2> QED
    BY <2>1, <2>2, <2>3, <2>4
<1>7. ASSUME NEW j \in PositionsOf(s) PROVE Chain(s, fp, first)[j] = local[j]
  <2>1. j \in 0 .. 3 /\ s.range \in Nat
    BY SchemeFacts DEF PositionsOf
  <2>2. local[j] \in Int
    BY <1>1, <2>1 DEF RangeOf
  <2>3. SegmentStart(s, j) = 0
    BY DEF SegmentStart
  <2> QED
    BY <1>1, <2>2, <2>3
<1> QED
  BY <1>1, <1>4, <1>6, <1>7 DEF h

\* So they are the same when begun one candidate further.
LEMMA StandardStep ==
  ASSUME NEW n \in Nat, NEW s \in SchemesUpTo(n), s.family = "standard",
         NEW fp \in Fingerprints, NEW x \in RangeOf(s)
  PROVE  /\ Plus(s, x, OffsetTo(s, fp, 1)) \in RangeOf(s)
         /\ CandidatesOf(s, Chain(s, fp, Plus(s, x, OffsetTo(s, fp, 1)))) = CandidatesOf(s, Chain(s, fp, x))
<1> DEFINE h == OffsetTo(s, fp, 1)
           y == Plus(s, x, h)
           P == PositionsOf(s)
           a == s.arity
<1>1. h \in RangeOf(s)
  <2>1. 1 \in 1 .. 3
    OBVIOUS
  <2> QED
    BY <2>1, OffsetInRange, Zenon
<1>2. y \in RangeOf(s)
  <2> HIDE DEF h
  <2> QED
    BY <1>1, PlusInRange
<1>3. PICK from \in [0 .. 3 -> RangeOf(s)] :
        /\ from[0] = x
        /\ \A j \in 0 .. 2 : from[j + 1] = Plus(s, from[j], h)
        /\ Plus(s, from[a - 1], h) = x
        /\ \A j \in P : Chain(s, fp, x)[j] = from[j]
  BY StandardChain
<1> HIDE DEF y
<1>4. PICK to \in [0 .. 3 -> RangeOf(s)] :
        /\ to[0] = y
        /\ \A j \in 0 .. 2 : to[j + 1] = Plus(s, to[j], h)
        /\ Plus(s, to[a - 1], h) = y
        /\ \A j \in P : Chain(s, fp, y)[j] = to[j]
  BY <1>2, StandardChain
<1>5. a \in 2 .. 4 /\ P = 0 .. a - 1
  BY SchemeFacts DEF PositionsOf
<1> HIDE DEF h, a, P
<1>6. \A j \in 0 .. 2 : to[j] = from[j + 1]
  <2>1. to[0] = from[1]
    <3>1. 0 \in 0 .. 2 /\ 0 + 1 = 1
      OBVIOUS
    <3>2. from[0 + 1] = Plus(s, from[0], h)
      BY <1>3, <3>1, Zenon
    <3> QED
      BY <1>3, <1>4, <3>1, <3>2 DEF y
  <2>2. to[1] = from[2]
    <3>1. 0 \in 0 .. 2 /\ 1 \in 0 .. 2 /\ 0 + 1 = 1 /\ 1 + 1 = 2
      OBVIOUS
    <3>2. to[0 + 1] = Plus(s, to[0], h) /\ from[1 + 1] = Plus(s, from[1], h)
      BY <1>3, <1>4, <3>1, Zenon
    <3> QED
      BY <2>1, <3>1, <3>2
  <2>3. to[2] = from[3]
    <3>1. 1 \in 0 .. 2 /\ 2 \in 0 .. 2 /\ 1 + 1 = 2 /\ 2 + 1 = 3
      OBVIOUS
    <3>2. to[1 + 1] = Plus(s, to[1], h) /\ from[2 + 1] = Plus(s, from[2], h)
      BY <1>3, <1>4, <3>1, Zenon
    <3> QED
      BY <2>2, <3>1, <3>2
  <2> TAKE j \in 0 .. 2
  <2>4. CASE j = 0
    BY <2>1, <2>4
  <2>5. CASE j = 1
    BY <2>2, <2>5
  <2>6. CASE j = 2
    BY <2>3, <2>6
  <2> QED
    BY <2>4, <2>5, <2>6
<1>7. to[a - 1] = x
  <2>1. a - 2 \in 0 .. 2 /\ (a - 2) + 1 = a - 1
    BY <1>5
  <2>2. to[(a - 2) + 1] = Plus(s, to[a - 2], h) /\ to[a - 2] = from[(a - 2) + 1]
    BY <1>4, <1>6, <2>1, Zenon
  <2> QED
    BY <1>3, <2>1, <2>2
<1>8. {to[j] : j \in P} = {from[j] : j \in P}
  <2>1. ASSUME NEW j \in P PROVE \E k \in P : to[j] = from[k]
    <3>1. CASE j = a - 1
      <4>1. 0 \in P
        BY <1>5
      <4>2. to[j] = from[0]
        BY <1>3, <1>7, <3>1
      <4> QED
        BY <4>1, <4>2
    <3>2. CASE j # a - 1
      <4>1. j \in 0 .. 2 /\ j + 1 \in P
        BY <1>5, <3>2
      <4> QED
        BY <1>6, <4>1
    <3> QED
      BY <3>1, <3>2
  <2>2. ASSUME NEW j \in P PROVE \E k \in P : from[j] = to[k]
    <3>1. CASE j = 0
      <4>1. a - 1 \in P
        BY <1>5
      <4>2. from[j] = to[a - 1]
        BY <1>3, <1>7, <3>1
      <4> QED
        BY <4>1, <4>2
    <3>2. CASE j # 0
      <4>1. j - 1 \in 0 .. 2 /\ j - 1 \in P /\ (j - 1) + 1 = j
        BY <1>5, <3>2
      <4>2. to[j - 1] = from[j]
        BY <1>6, <4>1
      <4> QED
        BY <4>1, <4>2
    <3> QED
      BY <3>1, <3>2
  <2> QED
    BY <2>1, <2>2
<1>9. CandidatesOf(s, Chain(s, fp, y)) = {to[j] : j \in P}
  BY <1>4 DEF CandidatesOf, P
<1>10. CandidatesOf(s, Chain(s, fp, x)) = {from[j] : j \in P}
  BY <1>3 DEF CandidatesOf, P
<1> QED
  BY <1>2, <1>8, <1>9, <1>10, Zenon DEF y, h

\* In a standard scheme, every candidate leads back to the set of candidates.
LEMMA StandardWalk ==
  ASSUME NEW n \in Nat, NEW s \in SchemesUpTo(n), s.family = "standard",
         NEW fp \in Fingerprints, NEW first \in RangeOf(s), NEW p \in PositionsOf(s)
  PROVE  CandidatesOf(s, all_indices(s, Chain(s, fp, first)[p], fp)) = CandidatesOf(s, Chain(s, fp, first))
<1> DEFINE h == OffsetTo(s, fp, 1)
<1>1. PICK local \in [0 .. 3 -> RangeOf(s)] :
        /\ local[0] = first
        /\ \A j \in 0 .. 2 : local[j + 1] = Plus(s, local[j], h)
        /\ \A j \in PositionsOf(s) : Chain(s, fp, first)[j] = local[j]
  BY StandardChain
<1>2. p \in 0 .. 3
  BY SchemeFacts DEF PositionsOf
<1> DEFINE Same(k) == CandidatesOf(s, Chain(s, fp, local[k])) = CandidatesOf(s, Chain(s, fp, first))
           S == {k \in 0 .. 3 : Same(k)}
<1>3. 0 \in S
  BY <1>1
<1>4. ASSUME NEW k \in 0 .. 2, k \in S PROVE k + 1 \in S
  <2>1. local[k] \in RangeOf(s) /\ k + 1 \in 0 .. 3
    BY <1>1
  <2>2. local[k + 1] = Plus(s, local[k], OffsetTo(s, fp, 1))
    BY <1>1
  <2>3. Same(k)
    BY <1>4
  <2>4. CandidatesOf(s, Chain(s, fp, Plus(s, local[k], OffsetTo(s, fp, 1)))) = CandidatesOf(s, Chain(s, fp, local[k]))
    BY <2>1, StandardStep
  <2>5. Same(k + 1)
    BY <2>2, <2>3, <2>4, Zenon
  <2> QED
    BY <2>1, <2>5
<1>5. Same(p)
  <2> HIDE DEF Same
  <2> DEFINE three == 3
  <2>1. three \in Nat /\ three - 1 = 2 /\ S \in SUBSET (0 .. three)
    OBVIOUS
  <2>2. \A k \in 0 .. three - 1 : k \in S => k + 1 \in S
    BY <1>4, <2>1
  <2> HIDE DEF three, S
  <2>3. \A k \in 0 .. three : k \in S
    BY <1>3, <2>1, <2>2, Climbs
  <2>4. p \in S
    BY <1>2, <2>3 DEF three
  <2> QED
    BY <2>4 DEF S
<1>6. all_indices(s, local[p], fp) = Chain(s, fp, local[p])
  BY DEF all_indices
<1>7. Chain(s, fp, first)[p] = local[p]
  BY <1>1
<1> QED
  BY <1>5, <1>6, <1>7, Zenon

\* Candidates are buckets of the table, one in each segment.
LEMMA ChainInTable ==
  ASSUME NEW n \in Nat, NEW s \in SchemesUpTo(n), NEW fp \in Fingerprints,
         NEW first \in RangeOf(s)
  PROVE  /\ Chain(s, fp, first) \in [PositionsOf(s) -> 0 .. num_buckets(s) - 1]
         /\ Chain(s, fp, first)[0] = first
         /\ \A j \in PositionsOf(s) :
              Chain(s, fp, first)[j] - SegmentStart(s, j) \in 0 .. s.range - 1
<1>1. PICK local \in [0 .. 3 -> RangeOf(s)] :
        /\ local[0] = first
        /\ Chain(s, fp, first) = [j \in PositionsOf(s) |-> SegmentStart(s, j) + local[j]]
  BY ChainUnfolds
<1> DEFINE trail == Chain(s, fp, first)
           r == s.range
           a == s.arity
<1>2. /\ r \in Nat \ {0} /\ a \in 2 .. 4 /\ PositionsOf(s) = 0 .. a - 1
      /\ s.family \in {"segmented", "standard"}
  BY SchemeFacts DEF PositionsOf
<1>3. ASSUME NEW j \in PositionsOf(s)
      PROVE  /\ trail[j] \in 0 .. num_buckets(s) - 1
             /\ trail[j] - SegmentStart(s, j) \in 0 .. s.range - 1
             /\ j = 0 => trail[j] = first
  <2>1. j \in 0 .. 3 /\ j \in 0 .. a - 1
    BY <1>2
  <2>2. local[j] \in 0 .. r - 1
    BY <1>1, <2>1 DEF RangeOf
  <2>3. trail[j] = SegmentStart(s, j) + local[j]
    BY <1>1
  <2>4. CASE s.family = "segmented"
    <3>1. SegmentStart(s, j) = j * r /\ num_buckets(s) = a * r
      BY <2>4 DEF SegmentStart, num_buckets
    <3> HIDE DEF trail, r, a
    <3>2. j * r \in Nat /\ a * r \in Nat /\ j * r + r <= a * r /\ (j = 0 => j * r = 0)
      <4>1. (j + 1) * r = j * r + r /\ j + 1 <= a
        BY <1>2, <2>1
      <4>2. (j + 1) * r <= a * r
        BY <1>2, <2>1, <4>1
      <4> QED
        BY <1>2, <2>1, <4>1, <4>2
    <3>3. trail[j] - SegmentStart(s, j) = local[j]
      BY <2>2, <2>3, <3>1, <3>2
    <3>4. trail[j] \in 0 .. a * r - 1
      <4> DEFINE x == j * r
                 y == a * r
      <4>1. x \in Nat /\ y \in Nat /\ x + r <= y /\ trail[j] = x + local[j]
        BY <2>3, <3>1, <3>2
      <4>2. r \in Nat /\ local[j] \in 0 .. r - 1
        BY <1>2, <2>2
      <4> HIDE DEF x, y
      <4>3. trail[j] \in 0 .. y - 1
        BY <4>1, <4>2
      <4> QED
        BY <4>3 DEF y
    <3>5. j = 0 => trail[j] = first
      BY <1>1, <2>2, <2>3, <3>1, <3>2
    <3> QED
      BY <2>2, <3>1, <3>3, <3>4, <3>5 DEF r
  <2>5. CASE s.family # "segmented"
    <3>1. SegmentStart(s, j) = 0 /\ num_buckets(s) = r
      BY <2>5 DEF SegmentStart, num_buckets
    <3>2. trail[j] = local[j] /\ trail[j] - 0 = trail[j]
      BY <1>2, <2>2, <2>3, <3>1
    <3> QED
      BY <1>1, <2>2, <3>1, <3>2
  <2> QED
    BY <2>4, <2>5
<1>4. 0 \in PositionsOf(s)
  BY <1>2
<1>5. trail = [j \in PositionsOf(s) |-> trail[j]]
  BY <1>1
<1> HIDE DEF trail, r
<1>6. trail \in [PositionsOf(s) -> 0 .. num_buckets(s) - 1] /\ trail[0] = first
  BY <1>3, <1>4, <1>5
<1> QED
  BY <1>3, <1>6 DEF trail

\* From every candidate the same candidates, of a segmented scheme in the
\* same order.
LEMMA ChainLaw ==
  ASSUME NEW n \in Nat, NEW s \in SchemesUpTo(n), NEW fp \in Fingerprints,
         NEW first \in RangeOf(s), NEW c \in CandidatesOf(s, Chain(s, fp, first))
  PROVE  /\ CandidatesOf(s, all_indices(s, c, fp)) = CandidatesOf(s, Chain(s, fp, first))
         /\ s.family = "segmented" => all_indices(s, c, fp) = Chain(s, fp, first)
<1>1. PICK p \in PositionsOf(s) : c = Chain(s, fp, first)[p]
  BY DEF CandidatesOf
<1>2. CASE s.family = "segmented"
  BY <1>1, <1>2, SegmentedWalk
<1>3. CASE s.family = "standard"
  BY <1>1, <1>3, StandardWalk
<1> QED
  BY <1>2, <1>3, SchemeFacts

\* Every bucket is a candidate of every fingerprint, from some first one.
LEMMA BucketLaw ==
  ASSUME NEW n \in Nat, NEW s \in SchemesUpTo(n), NEW fp \in Fingerprints,
         NEW b \in 0 .. num_buckets(s) - 1
  PROVE  \E first \in RangeOf(s) : /\ all_indices(s, b, fp) = Chain(s, fp, first)
                                   /\ b \in CandidatesOf(s, Chain(s, fp, first))
<1>1. CASE s.family = "segmented"
  <2>1. PICK first \in RangeOf(s) : /\ all_indices(s, b, fp) = Chain(s, fp, first)
                                    /\ \E p \in PositionsOf(s) : Chain(s, fp, first)[p] = b
    BY <1>1, SegmentedBucket
  <2> QED
    BY <2>1 DEF CandidatesOf
<1>2. CASE s.family = "standard"
  <2>1. num_buckets(s) = s.range /\ all_indices(s, b, fp) = Chain(s, fp, b)
    BY <1>2 DEF num_buckets, all_indices
  <2>2. b \in RangeOf(s)
    BY <2>1 DEF RangeOf
  <2>3. Chain(s, fp, b)[0] = b
    BY <2>2, ChainInTable
  <2>4. 0 \in PositionsOf(s)
    BY SchemeFacts DEF PositionsOf
  <2> QED
    BY <2>1, <2>2, <2>3, <2>4 DEF CandidatesOf
<1> QED
  BY <1>1, <1>2, SchemeFacts

\* hash_item returns the candidates that follow some first one.
LEMMA HashLaw ==
  ASSUME NEW n \in Nat, NEW s \in SchemesUpTo(n), NEW digest \in Digests
  PROVE  \E fp \in Fingerprints, first \in RangeOf(s) :
           hash_item(s, digest) = [fp |-> fp, indices |-> Chain(s, fp, first)]
<1>1. ExtractFingerprint(digest.lo) \in Fingerprints /\ digest.hi % s.range \in RangeOf(s)
  BY DigestInRange
<1>2. hash_item(s, digest) = [fp |-> ExtractFingerprint(digest.lo),
                              indices |-> Chain(s, ExtractFingerprint(digest.lo), digest.hi % s.range)]
  BY Zenon DEF hash_item
<1> QED
  BY <1>1, <1>2, Zenon

-----------------------------------------------------------------------------
(* The contract.                                                           *)

\* The contract of trait IndexScheme, of each of the six schemes at each size
\* that its constructor lets pass: fingerprints that are not the mark of an
\* empty slot, buckets of the table, and from each candidate of an item, or of
\* a fingerprint found in any bucket, the same set of candidates again.
THEOREM SchemeContract ==
  ASSUME NEW n \in Nat, NEW s \in SchemesUpTo(n)
  PROVE  LET Buckets == 0 .. num_buckets(s) - 1
         IN  /\ \A digest \in Digests :
                  /\ hash_item(s, digest) \in
                       [fp : Fingerprints, indices : [PositionsOf(s) -> Buckets]]
                  /\ \A c \in CandidatesOf(s, hash_item(s, digest).indices) :
                       CandidatesOf(s, all_indices(s, c, hash_item(s, digest).fp))
                         = CandidatesOf(s, hash_item(s, digest).indices)
             /\ \A b \in Buckets, fp \in Fingerprints :
                  /\ all_indices(s, b, fp) \in [PositionsOf(s) -> Buckets]
                  /\ b \in CandidatesOf(s, all_indices(s, b, fp))
                  /\ \A c \in CandidatesOf(s, all_indices(s, b, fp)) :
                       CandidatesOf(s, all_indices(s, c, fp))
                         = CandidatesOf(s, all_indices(s, b, fp))
<1> DEFINE Buckets == 0 .. num_buckets(s) - 1
<1>1. ASSUME NEW digest \in Digests
      PROVE  /\ hash_item(s, digest) \in
                  [fp : Fingerprints, indices : [PositionsOf(s) -> Buckets]]
             /\ \A c \in CandidatesOf(s, hash_item(s, digest).indices) :
                  CandidatesOf(s, all_indices(s, c, hash_item(s, digest).fp))
                    = CandidatesOf(s, hash_item(s, digest).indices)
  <2>1. PICK fp \in Fingerprints, first \in RangeOf(s) :
          hash_item(s, digest) = [fp |-> fp, indices |-> Chain(s, fp, first)]
    BY HashLaw
  <2>2. Chain(s, fp, first) \in [PositionsOf(s) -> Buckets]
    BY ChainInTable
  <2>3. \A c \in CandidatesOf(s, Chain(s, fp, first)) :
          CandidatesOf(s, all_indices(s, c, fp)) = CandidatesOf(s, Chain(s, fp, first))
    BY ChainLaw
  <2>4. hash_item(s, digest).fp = fp /\ hash_item(s, digest).indices = Chain(s, fp, first)
    BY <2>1
  <2> HIDE DEF Buckets
  <2>5. hash_item(s, digest) \in [fp : Fingerprints, indices : [PositionsOf(s) -> Buckets]]
    BY <2>1, <2>2
  <2> QED
    BY <2>3, <2>4, <2>5, Zenon
<1>2. ASSUME NEW b \in Buckets, NEW fp \in Fingerprints
      PROVE  /\ all_indices(s, b, fp) \in [PositionsOf(s) -> Buckets]
             /\ b \in CandidatesOf(s, all_indices(s, b, fp))
             /\ \A c \in CandidatesOf(s, all_indices(s, b, fp)) :
                  CandidatesOf(s, all_indices(s, c, fp)) = CandidatesOf(s, all_indices(s, b, fp))
  <2>1. PICK first \in RangeOf(s) : /\ all_indices(s, b, fp) = Chain(s, fp, first)
                                    /\ b \in CandidatesOf(s, Chain(s, fp, first))
    BY BucketLaw
  <2>2. Chain(s, fp, first) \in [PositionsOf(s) -> Buckets]
    BY ChainInTable
  <2>3. \A c \in CandidatesOf(s, Chain(s, fp, first)) :
          CandidatesOf(s, all_indices(s, c, fp)) = CandidatesOf(s, Chain(s, fp, first))
    BY ChainLaw
  <2> DEFINE trail == Chain(s, fp, first)
             all == all_indices(s, b, fp)
  <2>4. /\ trail \in [PositionsOf(s) -> Buckets] /\ b \in CandidatesOf(s, trail)
        /\ \A c \in CandidatesOf(s, trail) :
             CandidatesOf(s, all_indices(s, c, fp)) = CandidatesOf(s, trail)
    BY <2>1, <2>2, <2>3
  <2>5. all = trail
    BY <2>1
  <2> HIDE DEF Buckets, trail, all
  <2>6. /\ all \in [PositionsOf(s) -> Buckets] /\ b \in CandidatesOf(s, all)
        /\ \A c \in CandidatesOf(s, all) :
             CandidatesOf(s, all_indices(s, c, fp)) = CandidatesOf(s, all)
    BY <2>4, <2>5
  <2> QED
    BY <2>6 DEF all
<1> QED
  BY <1>1, <1>2, Zenon

-----------------------------------------------------------------------------
(* The walk.                                                               *)

\* What holds of every walk: the candidates of its item begin somewhere in the
\* range, those found from the bucket it is in do too, and are the same.
WalkInv ==
  /\ kind \in SchemesUpTo(MaxExponent)
  /\ hashed.fp \in Fingerprints
  /\ \E first \in RangeOf(kind) : hashed.indices = Chain(kind, hashed.fp, first)
  /\ \E first \in RangeOf(kind) : found = Chain(kind, hashed.fp, first)
  /\ bucket \in 0 .. num_buckets(kind) - 1
  /\ SameCandidates

\* A walk begins so.
LEMMA WalkBegins == WalkInit => WalkInv
<1> SUFFICES ASSUME WalkInit PROVE WalkInv
  OBVIOUS
<1> USE DEF WalkInit
<1>1. kind \in SchemesUpTo(MaxExponent) /\ MaxExponent \in Nat
  BY WalkAssumption
<1>2. PICK d \in Digests : hashed = hash_item(kind, d)
  BY WalkAssumption
<1>3. PICK fp \in Fingerprints, first \in RangeOf(kind) :
        hashed = [fp |-> fp, indices |-> Chain(kind, fp, first)]
  BY <1>1, <1>2, HashLaw
<1>4. hashed.fp = fp /\ hashed.indices = Chain(kind, fp, first)
  BY <1>3
<1>5. bucket \in 0 .. num_buckets(kind) - 1
  <2>1. Chain(kind, fp, first) \in [PositionsOf(kind) -> 0 .. num_buckets(kind) - 1]
    BY <1>1, ChainInTable
  <2>2. 0 \in PositionsOf(kind)
    BY <1>1, SchemeFacts DEF PositionsOf
  <2>3. bucket = Chain(kind, fp, first)[0]
    BY <1>4
  <2> QED
    BY <2>1, <2>2, <2>3
<1>6. found = hashed.indices
  OBVIOUS
<1> QED
  BY <1>1, <1>4, <1>5, <1>6 DEF WalkInv, SameCandidates

\* And every step of kicks keeps it so.
LEMMA WalkGoesOn == WalkInv /\ [WalkNext]_walk_vars => WalkInv'
<1> SUFFICES ASSUME WalkInv, [WalkNext]_walk_vars PROVE WalkInv'
  OBVIOUS
<1>1. CASE UNCHANGED walk_vars
  BY <1>1 DEF WalkInv, walk_vars, SameCandidates
<1>2. CASE WalkNext
  <2>1. kind \in SchemesUpTo(MaxExponent) /\ MaxExponent \in Nat /\ hashed.fp \in Fingerprints
    BY WalkAssumption DEF WalkInv
  <2>2. PICK p \in PositionsOf(kind) : bucket' = found[p]
    BY <1>2 DEF WalkNext
  <2>3. kind' = kind /\ hashed' = hashed /\ found' = all_indices(kind, bucket', hashed.fp)
    BY <1>2 DEF WalkNext
  <2>4. PICK first \in RangeOf(kind) : found = Chain(kind, hashed.fp, first)
    BY DEF WalkInv
  <2>5. bucket' \in 0 .. num_buckets(kind) - 1 /\ bucket' \in CandidatesOf(kind, found)
    <3>1. found \in [PositionsOf(kind) -> 0 .. num_buckets(kind) - 1]
      BY <2>1, <2>4, ChainInTable
    <3> QED
      BY <2>2, <3>1 DEF CandidatesOf
  <2>6. /\ CandidatesOf(kind, found') = CandidatesOf(kind, found)
        /\ kind.family = "segmented" => found' = found
    BY <2>1, <2>3, <2>4, <2>5, ChainLaw
  <2>7. \E f \in RangeOf(kind) : found' = Chain(kind, hashed.fp, f)
    BY <2>1, <2>3, <2>5, BucketLaw
  <2>8. SameCandidates'
    BY <2>3, <2>6 DEF WalkInv, SameCandidates
  <2> QED
    BY <2>1, <2>3, <2>5, <2>7, <2>8 DEF WalkInv
<1> QED
  BY <1>1, <1>2 DEF walk_vars

\* On every walk of a fingerprint from candidate to candidate, the candidates
\* found begin in the range and are those of its item.
THEOREM WalkInvariance == WalkSpec => []WalkInv
<1>1. WalkInit => WalkInv
  BY WalkBegins
<1>2. WalkInv /\ [WalkNext]_walk_vars => WalkInv'
  BY WalkGoesOn
<1> QED
  BY <1>1, <1>2, PTL DEF WalkSpec

\* Wherever kicks have taken a fingerprint, its candidates are found again:
\* trait IndexScheme's contract, after any number of kicks.
THEOREM WalkFindsCandidates == WalkSpec => []SameCandidates
<1>1. WalkInv => SameCandidates
  BY DEF WalkInv
<1> QED
  BY <1>1, WalkInvariance, PTL

\* Candidate j of a segmented scheme lies in segment j, all others in the
\* table, and no fingerprint is the mark of an empty slot.
THEOREM WalkKeepsSegments == WalkSpec => []InOwnSegment
<1>1. WalkInv => InOwnSegment
  <2> SUFFICES ASSUME WalkInv PROVE InOwnSegment
    OBVIOUS
  <2>1. /\ kind \in SchemesUpTo(MaxExponent) /\ MaxExponent \in Nat /\ hashed.fp \in Fingerprints
        /\ \E first \in RangeOf(kind) : hashed.indices = Chain(kind, hashed.fp, first)
    BY WalkAssumption DEF WalkInv
  <2>2. PICK first \in RangeOf(kind) : hashed.indices = Chain(kind, hashed.fp, first)
    BY <2>1
  <2>3. \A j \in PositionsOf(kind) :
          Chain(kind, hashed.fp, first)[j] - SegmentStart(kind, j) \in 0 .. kind.range - 1
    BY <2>1, ChainInTable
  <2> QED
    BY <2>1, <2>2, <2>3, Zenon DEF InOwnSegment
<1> QED
  BY <1>1, WalkInvariance, PTL

\* xor3, by chunks, and xor4, by masks, add digit by digit.
THEOREM WalkAddsDigits == WalkSpec => []SumsAreDigitwise
<1>1. WalkInv => SumsAreDigitwise
  <2> SUFFICES ASSUME WalkInv, kind.family = "standard"
               PROVE  LET h == OffsetTo(kind, hashed.fp, 1)
                      IN  Plus(kind, bucket, h) = DigitSum(kind.arity, NumDigits(kind.arity), bucket, h)
    BY Zenon DEF SumsAreDigitwise
  <2> DEFINE h == OffsetTo(kind, hashed.fp, 1)
  <2>1. /\ kind \in SchemesUpTo(MaxExponent) /\ MaxExponent \in Nat /\ hashed.fp \in Fingerprints
        /\ bucket \in 0 .. num_buckets(kind) - 1
    BY WalkAssumption DEF WalkInv
  <2>2. bucket \in Nat /\ h \in Nat
    <3>1. 1 \in 1 .. 3
      OBVIOUS
    <3>2. h \in RangeOf(kind)
      BY <2>1, <3>1, OffsetInRange
    <3>3. kind.range \in Nat
      BY <2>1, SchemeFacts
    <3> HIDE DEF h
    <3> QED
      BY <2>1, <3>2, <3>3 DEF RangeOf
  <2>3. BaseOf(kind) = kind.arity
    BY DEF BaseOf
  <2> HIDE DEF h
  <2>4. Plus(kind, bucket, h) = DigitSum(BaseOf(kind), NumDigits(BaseOf(kind)), bucket, h)
    BY <2>1, <2>2, PlusIsDigitSum
  <2> QED
    BY <2>3, <2>4, Zenon DEF h
<1> QED
  BY <1>1, WalkInvariance, PTL

-----------------------------------------------------------------------------
(* Sizes of tables. *)

\* The sizes a loop of from_num_items may come to, while nothing overflows.
Powers == {Growth ^ t : t \in 0 .. WordBits}

\* Each lawful size below n is too small for the items.
Overloaded(n) ==
  \A x \in Powers : x < n /\ x >= Least /\ ~Overflow(Unit * x) => LoadTooHigh(Unit * x)

SizingType ==
  /\ shape \in Shapes /\ bucket_size \in BucketSizes
  /\ max_items \in 0 .. MaxItems /\ size \in Nat

\* In the loop the size is a power, with none that would do below it, or there
\* is none at all, and it has wrapped around to any word.
SizingInv ==
  /\ SizingType
  /\ phase = "loop" => Overloaded(2 ^ WordBits) \/ (size \in Powers /\ Overloaded(size))
  /\ SmallestTable

\* The least of some naturals.
LEMMA LeastNatural ==
  ASSUME NEW S \in SUBSET Nat, S # {}
  PROVE  Min(S) \in S /\ \A y \in S : Min(S) <= y
<1> DEFINE R == OpToRel(<, Nat)
<1>1. PICK x \in S : \A y \in S : <<y, x>> \notin R
  <2>1. IsWellFoundedOn(R, Nat)
    BY NatLessThanWellFounded
  <2> HIDE DEF R
  <2> QED
    BY <2>1, WFMin, Zenon
<1>2. R = {ss \in Nat \X Nat : ss[1] < ss[2]}
  BY Zenon DEF OpToRel
<1>3. \A y \in S : x <= y
  <2> HIDE DEF R
  <2>1. SUFFICES ASSUME NEW y \in S, y < x PROVE FALSE
    OBVIOUS
  <2>2. <<y, x>> \in {ss \in Nat \X Nat : ss[1] < ss[2]}
    BY <2>1
  <2> QED
    BY <1>1, <1>2, <2>1, <2>2
<1> QED
  BY <1>3 DEF Min

\* Powers of a base above 1 grow with the exponent.
LEMMA PowersGrow ==
  ASSUME NEW base, NEW n, Lawful(base, n), base >= 2, NEW i \in 0 .. n, NEW j \in 0 .. n, i < j
  PROVE  base ^ i < base ^ j
<1>1. n \in Nat /\ base \in Nat /\ j - i \in 0 .. n - i /\ j - i >= 1 /\ i + (j - i) = j
  BY DEF Lawful
<1>2. base ^ j = base ^ i * base ^ (j - i)
  BY <1>1, PowerAdds
<1>3. base ^ i \in Nat \ {0}
  BY PowerType
<1>4. base ^ (j - i) >= 2 /\ base ^ (j - i) \in Nat
  <2>1. (j - i) - 1 \in 0 .. n - 1 /\ ((j - i) - 1) + 1 = j - i
    BY <1>1
  <2>2. base ^ (j - i) = base * base ^ ((j - i) - 1) /\ base ^ ((j - i) - 1) \in Nat \ {0}
    BY <2>1, PowerStep
  <2>3. \A b, a \in Nat : b >= 2 /\ a >= 1 => b * a >= 2 /\ b * a \in Nat
    OBVIOUS
  <2> QED
    BY <1>1, <2>2, <2>3
<1>5. \A a, b \in Nat : a >= 1 /\ b >= 2 => a < a * b
  OBVIOUS
<1> QED
  BY <1>2, <1>3, <1>4, <1>5

\* Powers of a larger base are not smaller.
LEMMA PowersOfTwoAreLeast ==
  ASSUME NEW base, NEW n, Lawful(base, n), Lawful(2, n), base >= 2
  PROVE  2 ^ n <= base ^ n
<1> DEFINE S == {k \in 0 .. n : 2 ^ k <= base ^ k}
<1>1. n \in Nat /\ base \in Nat /\ base ^ 0 = 1 /\ 2 ^ 0 = 1
  BY DEF Lawful, PowersUpTo
<1>2. 0 \in S
  BY <1>1
<1>3. ASSUME NEW k \in 0 .. n - 1, k \in S PROVE k + 1 \in S
  <2>1. /\ base ^ (k + 1) = base * base ^ k /\ base ^ k \in Nat
        /\ 2 ^ (k + 1) = 2 * 2 ^ k /\ 2 ^ k \in Nat /\ k + 1 \in 0 .. n
    BY PowerStep
  <2>2. \A a, b \in Nat : a <= b => 2 * a <= base * b
    BY <1>1
  <2>3. 2 ^ k <= base ^ k
    BY <1>3
  <2>4. 2 ^ (k + 1) <= base ^ (k + 1)
    BY <2>1, <2>2, <2>3
  <2> QED
    BY <2>1, <2>4
<1>4. \A k \in 0 .. n : k \in S
  <2> S \in SUBSET (0 .. n)
    OBVIOUS
  <2> HIDE DEF S
  <2> QED
    BY <1>1, <1>2, <1>3, Climbs
<1> QED
  BY <1>1, <1>4

\* What a call may be for.
LEMMA SizingFacts ==
  ASSUME SizingType
  PROVE  /\ Growth \in 2 .. 4 /\ Unit \in {1, 3, 4} /\ Least \in {1, 2}
         /\ Least = 2 => Growth = 2
         /\ bucket_size \in 1 .. 4 /\ max_items \in Nat /\ target \in 48 .. 95
         /\ WordBits \in Nat \ {0} /\ 2 ^ WordBits \in Nat \ {0}
         /\ Lawful(Growth, WordBits) /\ Lawful(2, WordBits)
<1>1. /\ shape.family \in {"segmented", "standard"} /\ shape.arity \in 2 .. 4
      /\ bucket_size \in 1 .. 4 /\ max_items \in Nat
      /\ WordBits \in Nat \ {0}
  BY SizingAssumption DEF SizingType, Shapes
<1>2. Growth \in 2 .. 4 /\ Unit \in {1, 3, 4} /\ Least \in {1, 2} /\ (Least = 2 => Growth = 2)
  BY <1>1 DEF Growth, Unit, Least
<1>3. \A base \in 2 .. 4 : Lawful(base, WordBits)
  BY <1>1, SizingAssumption DEF Lawful
<1>4. 2 ^ WordBits \in Nat \ {0}
  <2>1. 2 \in 2 .. 4 /\ WordBits \in 0 .. WordBits
    BY <1>1
  <2> QED
    BY <1>3, <2>1, PowerType
<1>5. target \in 48 .. 95
  <2>1. shape.arity = 2 \/ shape.arity = 3 \/ shape.arity = 4
    BY <1>1
  <2>2. bucket_size = 1 \/ bucket_size = 2 \/ bucket_size = 3 \/ bucket_size = 4
    BY <1>1
  <2>3. CASE shape.arity = 2
    BY <2>2, <2>3 DEF target, MAX_LOAD_FACTOR
  <2>4. CASE shape.arity = 3
    BY <2>2, <2>4 DEF target, MAX_LOAD_FACTOR
  <2>5. CASE shape.arity = 4
    BY <2>2, <2>5 DEF target, MAX_LOAD_FACTOR
  <2> QED
    BY <2>1, <2>3, <2>4, <2>5
<1>6. Lawful(Growth, WordBits) /\ Lawful(2, WordBits)
  <2>1. 2 \in 2 .. 4
    OBVIOUS
  <2> QED
    BY <1>2, <1>3, <2>1
<1> QED
  BY <1>1, <1>2, <1>4, <1>5, <1>6

\* Powers are positive, and the size after the next is above those before.
LEMMA NextSize ==
  ASSUME SizingType, NEW x \in Powers
  PROVE  /\ x \in Nat \ {0} /\ Growth * x \in Nat
         /\ Growth * x \in Powers \/ Growth * x >= 2 ^ WordBits
         /\ \A y \in Powers : y < Growth * x => y <= x
<1> DEFINE n == WordBits
<1>1. /\ Growth \in 2 .. 4 /\ n \in Nat \ {0} /\ 2 ^ n \in Nat
      /\ Lawful(Growth, n) /\ Lawful(2, n)
  BY SizingFacts
<1>0. Growth >= 2
  BY <1>1
<1>2. PICK s \in 0 .. n : x = Growth ^ s
  BY DEF Powers
<1>3. x \in Nat \ {0}
  BY <1>1, <1>2, PowerType
<1>4. Growth * x \in Nat /\ Growth * x >= x
  BY <1>1, <1>3
<1>5. CASE s = n
  <2>1. 2 ^ n <= Growth ^ n
    BY <1>1, PowersOfTwoAreLeast
  <2>2. Growth * x >= 2 ^ n
    BY <1>1, <1>2, <1>3, <1>4, <1>5, <2>1
  <2>3. ASSUME NEW y \in Powers PROVE y <= x
    <3>1. PICK t \in 0 .. n : y = Growth ^ t
      BY DEF Powers
    <3>2. y \in Nat
      BY <1>1, <3>1, PowerType
    <3>3. CASE t = n
      BY <1>2, <1>3, <1>5, <3>1, <3>3
    <3>4. CASE t # n
      <4>1. t < s /\ s \in 0 .. n
        BY <1>1, <1>5, <3>4
      <4>2. y < x
        BY <1>0, <1>1, <1>2, <3>1, <4>1, PowersGrow, ZenonT(30)
      <4> QED
        BY <1>3, <3>2, <4>2
    <3> QED
      BY <3>3, <3>4
  <2> QED
    BY <1>3, <1>4, <2>2, <2>3
<1>6. CASE s # n
  <2>1. s \in 0 .. n - 1 /\ s + 1 \in 0 .. n
    BY <1>1, <1>6
  <2>2. Growth ^ (s + 1) = Growth * x
    BY <1>1, <1>2, <2>1, PowerStep
  <2>3. Growth * x \in Powers
    BY <2>1, <2>2 DEF Powers
  <2>4. ASSUME NEW y \in Powers, y < Growth * x PROVE y <= x
    <3>1. PICK t \in 0 .. n : y = Growth ^ t
      BY DEF Powers
    <3>2. y \in Nat
      BY <1>1, <3>1, PowerType
    <3>3. ~ (s + 1 < t)
      <4>1. SUFFICES ASSUME s + 1 < t PROVE FALSE
        OBVIOUS
      <4>2. Growth ^ (s + 1) < Growth ^ t
        BY <1>0, <1>1, <2>1, <4>1, PowersGrow, ZenonT(30)
      <4>3. Growth * x < y
        BY <2>2, <3>1, <4>2, Zenon
      <4> QED
        BY <1>4, <2>4, <3>2, <4>3
    <3>4. t # s + 1
      BY <1>4, <2>2, <2>4, <3>1, <3>2
    <3>5. t < s \/ t = s
      BY <2>1, <3>3, <3>4
    <3>6. CASE t < s
      <4>1. y < x
        BY <1>0, <1>1, <1>2, <3>1, <3>6, PowersGrow, ZenonT(30)
      <4> QED
        BY <1>3, <3>2, <4>1
    <3>7. CASE t = s
      BY <1>2, <1>3, <3>1, <3>7
    <3> QED
      BY <3>5, <3>6, <3>7
  <2> QED
    BY <1>3, <1>4, <2>3, <2>4
<1> QED
  BY <1>5, <1>6

\* A table with no more slots than items, a target load being below 1.
LEMMA LoadAboveItems ==
  ASSUME SizingType, NEW y \in Nat, Unit * bucket_size * y < max_items
  PROVE  LoadTooHigh(Unit * y)
<1>1. /\ Unit \in {1, 3, 4} /\ bucket_size \in 1 .. 4 /\ max_items \in Nat
      /\ target \in 48 .. 95
  BY SizingFacts
<1> DEFINE u == Unit
           b == bucket_size
           z == u * b * y
<1>2. z \in Nat /\ z < max_items
  BY <1>1
<1>3. \A s, v, c \in Nat : s * (v * y) * c = s * (v * c * y)
  OBVIOUS
<1>4. target * (u * y) * b = target * z
  BY <1>1, <1>3
<1>5. \A s, t \in Nat : s <= 95 => s * t <= 95 * t
  OBVIOUS
<1>6. target * z <= 95 * z /\ target * z \in Nat
  BY <1>1, <1>2, <1>5
<1>7. 100 * max_items > target * z
  <2> HIDE DEF z
  <2> QED
    BY <1>1, <1>2, <1>6
<1> QED
  BY <1>4, <1>7 DEF LoadTooHigh

\* A size below the quotient the loop starts from has too few slots.
LEMMA BelowQuotient ==
  ASSUME SizingType, NEW y \in Nat, y < DivCeil(max_items, Unit * bucket_size)
  PROVE  Unit * bucket_size * y < max_items
<1>1. Unit \in {1, 3, 4} /\ bucket_size \in 1 .. 4 /\ max_items \in Nat
  BY SizingFacts
<1> DEFINE d == Unit * bucket_size
           n == DivCeil(max_items, d)
<1>2. d \in Nat \ {0}
  BY <1>1
<1>3. max_items + d - 1 \in Nat
  BY <1>1, <1>2
<1>4. n \in Nat /\ d * n <= max_items + d - 1
  <2>1. \A m \in Nat, c \in Nat \ {0} :
          m \div c \in Nat /\ m % c \in 0 .. c - 1 /\ m = c * (m \div c) + (m % c)
    BY DivMod
  <2> HIDE DEF d
  <2>2. n = (max_items + d - 1) \div d
    BY DEF DivCeil
  <2> HIDE DEF n
  <2>3. n \in Nat /\ max_items + d - 1 = d * n + ((max_items + d - 1) % d)
        /\ (max_items + d - 1) % d \in 0 .. d - 1
    BY <1>2, <1>3, <2>1, <2>2
  <2>4. d * n \in Nat
    BY <1>2, <2>3
  <2> QED
    BY <1>1, <1>2, <2>3, <2>4
<1> HIDE DEF d, n
<1>5. y + 1 <= n
  BY <1>4 DEF n, d
<1>6. \A c, e, m \in Nat : e <= m => c * e <= c * m
  OBVIOUS
<1>7. d * (y + 1) <= d * n
  BY <1>2, <1>4, <1>5, <1>6
<1>8. d * (y + 1) = d * y + d /\ d * y \in Nat /\ d * n \in Nat
  BY <1>2, <1>4
<1>9. d * y < max_items
  BY <1>1, <1>2, <1>4, <1>7, <1>8
<1> QED
  BY <1>9 DEF d

\* The loop starts at the least power that has as many slots as there are
\* items.
LEMMA FirstSize ==
  ASSUME SizingType, max_items <= (2 ^ WordBits - 1) * bucket_size
  PROVE  LET first == NextPower(Growth, DivCeil(max_items, Unit * bucket_size))
         IN  first \in Powers /\ Overloaded(first)
<1>1. /\ Growth \in 2 .. 4 /\ Unit \in {1, 3, 4} /\ bucket_size \in 1 .. 4 /\ max_items \in Nat
      /\ WordBits \in Nat \ {0} /\ 2 ^ WordBits \in Nat \ {0}
      /\ Lawful(Growth, WordBits) /\ Lawful(2, WordBits)
  BY SizingFacts
<1> DEFINE n == DivCeil(max_items, Unit * bucket_size)
           S == Powers \ 0 .. n - 1
           first == NextPower(Growth, n)
<1>2. n \in Nat
  <2>1. Unit * bucket_size \in Nat \ {0}
    BY <1>1
  <2>2. max_items + Unit * bucket_size - 1 \in Nat
    BY <1>1, <2>1
  <2>3. \A m \in Nat, c \in Nat \ {0} : m \div c \in Nat
    BY DivMod
  <2> QED
    BY <2>1, <2>2, <2>3 DEF DivCeil
<1>3. n <= 2 ^ WordBits - 1
  <2>1. SUFFICES ASSUME n > 2 ^ WordBits - 1 PROVE FALSE
    BY <1>1, <1>2
  <2>2. 2 ^ WordBits - 1 \in Nat
    BY <1>1
  <2>3. Unit * bucket_size * (2 ^ WordBits - 1) < max_items
    BY <2>1, <2>2, BelowQuotient
  <2>4. \A u, b, w \in Nat : u >= 1 => w * b <= u * b * w
    <3>1. \A u, z \in Nat : u >= 1 => z <= u * z
      OBVIOUS
    <3>2. \A u, b, w \in Nat : u * b * w = u * (w * b) /\ w * b \in Nat
      OBVIOUS
    <3> QED
      BY <3>1, <3>2
  <2> QED
    BY <1>1, <2>2, <2>3, <2>4
<1>4. S # {}
  <2>1. 2 ^ WordBits <= Growth ^ WordBits
    BY <1>1, PowersOfTwoAreLeast
  <2>2. Growth ^ WordBits \in Powers
    BY <1>1 DEF Powers
  <2>3. Growth ^ WordBits \in Nat
    BY <2>2, NextSize
  <2> HIDE DEF n
  <2>4. Growth ^ WordBits \notin 0 .. n - 1
    BY <1>1, <1>2, <1>3, <2>1, <2>3
  <2> QED
    BY <2>2, <2>4
<1>5. Powers \subseteq Nat
  BY NextSize
<1>6. first = Min(S)
  BY DEF NextPower, Powers
<1>7. Min(S) \in S /\ \A y \in S : Min(S) <= y
  BY <1>4, <1>5, LeastNatural
<1> HIDE DEF n
<1>8. first \in Powers
  BY <1>6, <1>7
<1>9. ASSUME NEW y \in Powers, y < first PROVE LoadTooHigh(Unit * y)
  <2>1. y \in Nat /\ first \in Nat
    BY <1>5, <1>8
  <2>2. y \notin S
    <3>1. SUFFICES ASSUME y \in S PROVE FALSE
      OBVIOUS
    <3>2. first <= y
      BY <1>6, <1>7, <3>1, Zenon
    <3> HIDE DEF first, S
    <3> QED
      BY <1>9, <2>1, <3>2
  <2>3. y < n
    BY <1>2, <2>1, <2>2
  <2> QED
    BY <2>1, <2>3, BelowQuotient, LoadAboveItems DEF n
<1>10. Overloaded(first)
  BY <1>9 DEF Overloaded
<1> QED
  BY <1>8, <1>10 DEF n

\* A size that wraps around has passed all lawful ones.
LEMMA WrappedSize ==
  ASSUME SizingType, NEW z \in Nat, Overloaded(z), z \in Powers \/ z >= 2 ^ WordBits
  PROVE  Overloaded(2 ^ WordBits) \/ (Word(z) \in Powers /\ Overloaded(Word(z)))
<1>1. 2 ^ WordBits \in Nat \ {0}
  BY SizingFacts
<1> DEFINE w == 2 ^ WordBits
<1>2. CASE z < w
  <2>1. Word(z) = z
    <3>1. \A c \in Nat \ {0} : z < c => z % c = z
      OBVIOUS
    <3> QED
      BY <1>1, <1>2, <3>1 DEF Word
  <2>2. z \in Powers
    BY <1>1, <1>2
  <2> QED
    BY <2>1, <2>2
<1>3. CASE z >= w
  <2>1. ASSUME NEW x \in Powers, x < w PROVE x < z
    <3>1. x \in Nat
      BY NextSize
    <3> QED
      BY <1>1, <1>3, <2>1, <3>1
  <2> QED
    BY <2>1 DEF Overloaded
<1> QED
  BY <1>1, <1>2, <1>3

\* The sizes to choose from stay when the call does.
LEMMA SizingInputsStay ==
  ASSUME UNCHANGED sizing_inputs
  PROVE  /\ Growth' = Growth /\ Unit' = Unit /\ Least' = Least /\ Powers' = Powers
         /\ target' = target
         /\ \A n : Overloaded(n)' = Overloaded(n)
         /\ \A b : LoadTooHigh(b)' = LoadTooHigh(b)
<1>1. /\ shape' = shape /\ bucket_size' = bucket_size /\ max_items' = max_items
  BY DEF sizing_inputs
<1>2. Growth' = Growth /\ Unit' = Unit /\ Least' = Least /\ target' = target
  BY <1>1 DEF Growth, Unit, Least, target
<1>3. Powers' = Powers
  BY <1>2 DEF Powers
<1>4. \A b : LoadTooHigh(b)' = LoadTooHigh(b)
  BY <1>1, <1>2 DEF LoadTooHigh
<1>5. \A n : Overloaded(n)' = Overloaded(n)
  BY <1>1, <1>2, <1>3 DEF Overloaded, LoadTooHigh
<1> QED
  BY <1>2, <1>3, <1>4, <1>5

\* In the loop, a size like that of the invariant keeps it.
LEMMA LoopStep ==
  ASSUME SizingType, UNCHANGED sizing_inputs, NEW z \in Nat, Resize(z),
         Overloaded(2 ^ WordBits) \/ (Word(z) \in Powers /\ Overloaded(Word(z)))
  PROVE  SizingInv'
<1>1. size' = Word(z) /\ phase' \in {"panic", "loop"}
  BY DEF Resize
<1>2. Word(z) \in Nat
  <2>1. \A m \in Nat, c \in Nat \ {0} : m % c \in Nat
    BY DivMod
  <2>2. 2 ^ WordBits \in Nat \ {0}
    BY SizingFacts
  <2> QED
    BY <2>1, <2>2 DEF Word
<1>3. SizingType'
  BY <1>1, <1>2 DEF SizingType, sizing_inputs
<1>4. Overloaded(2 ^ WordBits)' \/ (size \in Powers /\ Overloaded(size))'
  <2>1. Powers' = Powers /\ Growth' = Growth /\ Unit' = Unit /\ Least' = Least
        /\ \A b : LoadTooHigh(b)' = LoadTooHigh(b)
    BY SizingInputsStay
  <2> QED
    BY <1>1, <2>1 DEF Overloaded
<1>5. SmallestTable'
  BY <1>1 DEF SmallestTable
<1> QED
  BY <1>3, <1>4, <1>5 DEF SizingInv

\* The step into the loop.
LEMMA StartSizing == ASSUME SizingInv, Start PROVE SizingInv'
<1> DEFINE first == NextPower(Growth, DivCeil(max_items, Unit * bucket_size))
           z == Max({Word(first), Least})
           w == 2 ^ WordBits
<1>1. /\ SizingType /\ UNCHANGED sizing_inputs /\ Resize(z)
      /\ max_items <= (2 ^ WordBits - 1) * bucket_size
  BY DEF SizingInv, Start
<1>2. /\ Growth \in 2 .. 4 /\ Least \in {1, 2} /\ (Least = 2 => Growth = 2)
      /\ w \in Nat \ {0} /\ WordBits \in Nat \ {0} /\ Lawful(Growth, WordBits)
  BY <1>1, SizingFacts
<1>3. first \in Powers /\ Overloaded(first)
  BY <1>1, FirstSize
<1>4. first \in Nat \ {0}
  BY <1>1, <1>3, NextSize
<1> HIDE DEF first
<1>5. Word(first) \in Nat
  <2>1. \A m \in Nat, c \in Nat \ {0} : m % c \in Nat
    BY DivMod
  <2> QED
    BY <1>2, <1>4, <2>1 DEF Word
<1>6. z \in Nat /\ z = IF Word(first) >= Least THEN Word(first) ELSE Least
  <2>1. \A a, b \in Nat : Max({a, b}) = IF a >= b THEN a ELSE b
    BY DEF Max
  <2>2. Least \in Nat
    BY <1>2
  <2>3. z = IF Word(first) >= Least THEN Word(first) ELSE Least
    BY <1>5, <2>1, <2>2
  <2> QED
    BY <1>5, <2>2, <2>3
<1> HIDE DEF z
<1>7. CASE first >= w
  <2>1. Overloaded(w)
    <3>1. ASSUME NEW x \in Powers, x < w PROVE x < first
      <4>1. x \in Nat
        BY <1>1, NextSize
      <4> QED
        BY <1>2, <1>4, <1>7, <3>1, <4>1
    <3> QED
      BY <1>3, <3>1 DEF Overloaded
  <2> QED
    BY <1>1, <1>6, <2>1, LoopStep
<1>8. CASE first < w
  <2>1. Word(first) = first
    <3>1. \A a, c \in Nat : a < c => a % c = a
      OBVIOUS
    <3> QED
      BY <1>2, <1>4, <1>8, <3>1 DEF Word
  <2>2. z \in Powers /\ Overloaded(z)
    <3>1. CASE first >= Least
      BY <1>3, <1>6, <2>1, <3>1
    <3>2. CASE first < Least
      <4>1. z = 2 /\ Least = 2 /\ Growth = 2
        BY <1>2, <1>4, <1>6, <2>1, <3>2
      <4>2. 1 \in 0 .. WordBits /\ 0 \in 0 .. WordBits - 1 /\ 0 + 1 = 1
        BY <1>2
      <4>3. Growth ^ 1 = Growth * Growth ^ 0 /\ Growth ^ 0 = 1
        BY <1>2, <4>2, PowerStep DEF Lawful, PowersUpTo
      <4>4. z \in Powers
        <5>1. z = Growth ^ 1
          BY <4>1, <4>3
        <5> QED
          BY <4>2, <5>1, Zenon DEF Powers
      <4>5. Overloaded(z)
        <5>1. ASSUME NEW x \in Powers, x < z, x >= Least PROVE FALSE
          <6>1. x \in Nat
            BY <1>1, NextSize
          <6> QED
            BY <4>1, <5>1, <6>1
        <5> QED
          BY <5>1 DEF Overloaded
      <4> QED
        BY <4>4, <4>5
    <3> QED
      BY <1>2, <1>4, <3>1, <3>2
  <2>3. Overloaded(w) \/ (Word(z) \in Powers /\ Overloaded(Word(z)))
    BY <1>1, <1>6, <2>2, WrappedSize
  <2> QED
    BY <1>1, <1>6, <2>3, LoopStep
<1> QED
  BY <1>2, <1>4, <1>7, <1>8

\* An iteration of the loop.
LEMMA GrowSizing == ASSUME SizingInv, Grow PROVE SizingInv'
<1> DEFINE z == Growth * size
           w == 2 ^ WordBits
<1>1. /\ SizingType /\ UNCHANGED sizing_inputs /\ size \in Nat
      /\ LoadTooHigh(buckets_now)
      /\ Overloaded(w) \/ (size \in Powers /\ Overloaded(size))
  BY DEF SizingInv, SizingType, Grow
<1>2. /\ Growth \in 2 .. 4 /\ Unit \in {1, 3, 4} /\ w \in Nat \ {0}
  BY <1>1, SizingFacts
<1>3. CASE checks /\ Overflow(z)
  <2>1. phase' = "panic" /\ size' = size
    BY <1>3 DEF Grow
  <2> QED
    BY <1>1, <2>1 DEF SizingInv, SizingType, SmallestTable, sizing_inputs
<1>4. CASE ~(checks /\ Overflow(z))
  <2>1. Resize(z) /\ z \in Nat
    BY <1>1, <1>2, <1>4 DEF Grow
  <2>2. CASE Overloaded(w)
    BY <1>1, <2>1, <2>2, LoopStep
  <2>3. CASE size \in Powers /\ Overloaded(size)
    <3>1. ASSUME NEW x \in Powers, x < z, x >= Least, ~Overflow(Unit * x)
          PROVE  LoadTooHigh(Unit * x)
      <4>1. x \in Nat /\ x <= size
        BY <1>1, <2>3, <3>1, NextSize
      <4>2. CASE x < size
        BY <2>3, <3>1, <4>2 DEF Overloaded
      <4>3. CASE x = size
        <5>1. Unit * x \in Nat /\ Unit * x < w
          BY <1>2, <3>1, <4>1 DEF Overflow
        <5>2. \A a, c \in Nat : a < c => a % c = a
          OBVIOUS
        <5>3. buckets_now = Unit * x
          BY <1>2, <4>3, <5>1, <5>2 DEF buckets_now, Word
        <5> QED
          BY <1>1, <5>3
      <4> QED
        BY <1>1, <4>1, <4>2, <4>3
    <3>2. Overloaded(z)
      BY <3>1 DEF Overloaded
    <3>3. z \in Powers \/ z >= w
      BY <1>1, <2>3, NextSize
    <3>4. Overloaded(w) \/ (Word(z) \in Powers /\ Overloaded(Word(z)))
      BY <1>1, <2>1, <3>2, <3>3, WrappedSize
    <3> QED
      BY <1>1, <2>1, <3>4, LoopStep
  <2> QED
    BY <1>1, <2>2, <2>3
<1> QED
  BY <1>3, <1>4

\* What is returned fits, and all that is smaller and lawful does not.
LEMMA ReturnSizing == ASSUME SizingInv, Return PROVE SizingInv'
<1> DEFINE w == 2 ^ WordBits
<1>1. /\ SizingType /\ UNCHANGED sizing_inputs /\ size' = size /\ size \in Nat
      /\ phase' = IF ValidShape(buckets_now) THEN "Ok" ELSE "InvalidParams"
      /\ ~LoadTooHigh(buckets_now)
      /\ Overloaded(w) \/ (size \in Powers /\ Overloaded(size))
  BY DEF SizingInv, SizingType, Return
<1>2. /\ Unit \in {1, 3, 4} /\ w \in Nat \ {0} /\ WordBits \in Nat
  BY <1>1, SizingFacts
<1>3. buckets_now \in Nat /\ buckets_now <= Unit * size /\ Unit * size \in Nat
  <2>1. Unit * size \in Nat
    BY <1>1, <1>2
  <2>2. \A m \in Nat, c \in Nat \ {0} : m % c \in Nat /\ m % c <= m
    <3>1. ASSUME NEW m \in Nat, NEW c \in Nat \ {0} PROVE m % c \in Nat /\ m % c <= m
      <4>1. m \div c \in Nat /\ m % c \in 0 .. c - 1 /\ m = c * (m \div c) + (m % c)
        BY DivMod
      <4>2. c * (m \div c) \in Nat
        BY <4>1
      <4> QED
        BY <4>1, <4>2
    <3> QED
      BY <3>1
  <2> QED
    BY <1>2, <2>1, <2>2 DEF buckets_now, Word
<1>4. ASSUME NEW m \in 1 .. buckets_now - 1 PROVE ~Fits(m)
  <2>1. SUFFICES ASSUME Fits(m) PROVE FALSE
    OBVIOUS
  <2>2. PICK x \in Powers : x >= Least /\ m = Unit * x /\ ~Overflow(m)
    BY <2>1 DEF Fits, ValidShape, Powers
  <2>3. x \in Nat
    BY <1>1, NextSize
  <2>4. x <= m /\ m < w
    BY <1>2, <2>2, <2>3 DEF Overflow
  <2>5. x < size
    BY <1>1, <1>2, <1>3, <2>2, <2>3
  <2>6. LoadTooHigh(Unit * x)
    <3>1. CASE Overloaded(w)
      BY <1>2, <2>2, <2>3, <2>4, <3>1 DEF Overloaded
    <3>2. CASE size \in Powers /\ Overloaded(size)
      BY <2>2, <2>5, <3>2 DEF Overloaded
    <3> QED
      BY <1>1, <3>1, <3>2
  <2> QED
    BY <2>1, <2>2, <2>6 DEF Fits
<1>5. buckets_now' = buckets_now /\ \A b : Fits(b)' = Fits(b)
  <2>1. Growth' = Growth /\ Unit' = Unit /\ Least' = Least
        /\ \A b : LoadTooHigh(b)' = LoadTooHigh(b)
    BY <1>1, SizingInputsStay
  <2> QED
    BY <1>1, <2>1 DEF buckets_now, Fits, ValidShape
<1>6. phase' = "Ok" => Fits(buckets_now) /\ \A m \in 1 .. buckets_now - 1 : ~Fits(m)
  BY <1>1, <1>4 DEF Fits
<1>7. SmallestTable'
  BY <1>5, <1>6 DEF SmallestTable
<1> QED
  BY <1>1, <1>7 DEF SizingInv, SizingType, sizing_inputs

\* Nothing happens.
LEMMA SizingStays == ASSUME SizingInv, UNCHANGED sizing_vars PROVE SizingInv'
<1>1. UNCHANGED sizing_inputs /\ size' = size /\ phase' = phase
  BY DEF sizing_vars
<1>2. Powers' = Powers /\ Growth' = Growth /\ Unit' = Unit /\ Least' = Least
      /\ \A b : LoadTooHigh(b)' = LoadTooHigh(b)
  BY <1>1, SizingInputsStay
<1>3. SizingType'
  BY <1>1 DEF SizingInv, SizingType, sizing_inputs
<1>4. phase' = "loop" => Overloaded(2 ^ WordBits)' \/ (size \in Powers /\ Overloaded(size))'
  BY <1>1, <1>2 DEF SizingInv, Overloaded
<1>5. buckets_now' = buckets_now /\ \A b : Fits(b)' = Fits(b)
  BY <1>1, <1>2 DEF buckets_now, Fits, ValidShape
<1>6. SmallestTable'
  BY <1>1, <1>5 DEF SizingInv, SmallestTable
<1> QED
  BY <1>3, <1>4, <1>6 DEF SizingInv

\* The invariant of from_num_items, of every scheme, bucket size and number of
\* items, in words of any width.
THEOREM SizingInvariance == SizingSpec => []SizingInv
<1>1. SizingInit => SizingInv
  BY DEF SizingInit, SizingInv, SizingType, SmallestTable
<1>2. SizingInv /\ [SizingNext]_sizing_vars => SizingInv'
  <2> SUFFICES ASSUME SizingInv, [SizingNext]_sizing_vars PROVE SizingInv'
    OBVIOUS
  <2>1. CASE RejectItems
    BY <2>1 DEF RejectItems, SizingInv, SizingType, SmallestTable, sizing_inputs
  <2>2. CASE Start
    BY <2>2, StartSizing
  <2>3. CASE Grow
    BY <2>3, GrowSizing
  <2>4. CASE Return
    BY <2>4, ReturnSizing
  <2>5. CASE UNCHANGED sizing_vars
    BY <2>5, SizingStays
  <2> QED
    BY <2>1, <2>2, <2>3, <2>4, <2>5 DEF SizingNext
<1> QED
  BY <1>1, <1>2, PTL DEF SizingSpec

\* What from_num_items returns is the smallest lawful table at the target
\* load, also where its size has wrapped around (from_num_items).
THEOREM SmallestTableFound == SizingSpec => []SmallestTable
<1>1. SizingInv => SmallestTable
  BY DEF SizingInv
<1> QED
  BY <1>1, SizingInvariance, PTL

-----------------------------------------------------------------------------
(* The filter is a store with one value.                                   *)

Buckets == 0 .. num_buckets(scheme) - 1

\* The entry of the store that stands for a fingerprint.
Entry(fp) == [fp |-> fp, val |-> "present"]

EntriesOf(tbl) == [l \in Locs |-> Entry(tbl[l])]

StashesOf(c) == [n \in DOMAIN c |-> [loc |-> c[n].loc, entry |-> Entry(c[n].fp)]]

\* The candidates of a fingerprint, from a bucket.
AllOf == [bf \in Buckets \X Fingerprints |-> Candidates[bf[1]][bf[2]]]

KVStore == INSTANCE CuckooKVStoreProofs WITH
  Keys              <- Items,
  Values            <- {"present"},
  ZeroValue         <- "present",
  Fps               <- Fingerprints,
  NumBuckets        <- num_buckets(scheme),
  Arity             <- scheme.arity,
  HashItem          <- Hash,
  AllIndices        <- AllOf,
  DefaultMaxKicks   <- MAX_KICKS_DEFAULT,
  MaxLog            <- 0,
  table             <- EntriesOf(table),
  log_enabled       <- FALSE,
  mutation_log      <- <<>>,
  known             <- EntriesOf([l \in Locs |-> 0]),
  pending_mutations <- <<>>,
  chain_room        <- max_kicks,
  chain             <- StashesOf(chain),
  cur               <- Entry(cur_fingerprint)

-----------------------------------------------------------------------------
(* The scheme.                                                             *)

\* The filter's scheme is one of the six, of a lawful size.
LEMMA SchemeOfFilter ==
  /\ HashBits \in Nat /\ scheme \in SchemesUpTo(HashBits)
  /\ scheme.arity \in 2 .. 4 /\ scheme.range \in Nat \ {0}
BY FilterAssumption, WidthAssumption, SchemeFacts

\* The contract of trait IndexScheme, of the filter's tables of candidates.
LEMMA Contract ==
  /\ Hash \in [Items -> [fp : Fingerprints, indices : [Positions -> Buckets]]]
  /\ Candidates \in [Buckets -> [Fingerprints -> [Positions -> Buckets]]]
  /\ \A b \in Buckets, fp \in Fingerprints :
       /\ b \in SetOf(Candidates[b][fp])
       /\ \A c \in SetOf(Candidates[b][fp]) : SetOf(Candidates[c][fp]) = SetOf(Candidates[b][fp])
  /\ \A i \in Items : \A c \in SetOf(Hash[i].indices) :
       SetOf(Candidates[c][Hash[i].fp]) = SetOf(Hash[i].indices)
<1>1. \A t : SetOf(t) = CandidatesOf(scheme, t)
  BY DEF SetOf, CandidatesOf, Positions
<1>2. Positions = PositionsOf(scheme) /\ Buckets = 0 .. num_buckets(scheme) - 1 /\ Items \subseteq Digests
  BY FilterAssumption DEF Positions, Buckets
<1>3. /\ \A i \in Items : Hash[i] = hash_item(scheme, i)
      /\ Hash = [i \in Items |-> Hash[i]]
  BY DEF Hash
<1>4. /\ \A b \in Buckets, fp \in Fingerprints : Candidates[b][fp] = all_indices(scheme, b, fp)
      /\ Candidates = [b \in Buckets |-> [fp \in Fingerprints |-> all_indices(scheme, b, fp)]]
  BY DEF Candidates, Buckets
<1>5. /\ \A digest \in Digests :
           /\ hash_item(scheme, digest) \in [fp : Fingerprints, indices : [Positions -> Buckets]]
           /\ \A c \in SetOf(hash_item(scheme, digest).indices) :
                SetOf(all_indices(scheme, c, hash_item(scheme, digest).fp))
                  = SetOf(hash_item(scheme, digest).indices)
      /\ \A b \in Buckets, fp \in Fingerprints :
           /\ all_indices(scheme, b, fp) \in [Positions -> Buckets]
           /\ b \in SetOf(all_indices(scheme, b, fp))
           /\ \A c \in SetOf(all_indices(scheme, b, fp)) :
                SetOf(all_indices(scheme, c, fp)) = SetOf(all_indices(scheme, b, fp))
  <2>1. HashBits \in Nat /\ scheme \in SchemesUpTo(HashBits)
    BY SchemeOfFilter
  <2> DEFINE C(t) == CandidatesOf(scheme, t)
  <2>2. /\ \A digest \in Digests :
              /\ hash_item(scheme, digest) \in
                   [fp : Fingerprints, indices : [PositionsOf(scheme) -> 0 .. num_buckets(scheme) - 1]]
              /\ \A c \in C(hash_item(scheme, digest).indices) :
                   C(all_indices(scheme, c, hash_item(scheme, digest).fp))
                     = C(hash_item(scheme, digest).indices)
        /\ \A b \in 0 .. num_buckets(scheme) - 1, fp \in Fingerprints :
              /\ all_indices(scheme, b, fp) \in [PositionsOf(scheme) -> 0 .. num_buckets(scheme) - 1]
              /\ b \in C(all_indices(scheme, b, fp))
              /\ \A c \in C(all_indices(scheme, b, fp)) :
                   C(all_indices(scheme, c, fp)) = C(all_indices(scheme, b, fp))
    BY <2>1, SchemeContract, Zenon
  <2>3. \A t : C(t) = SetOf(t)
    BY <1>1
  <2> HIDE DEF C
  <2>4. ASSUME NEW digest \in Digests
        PROVE  /\ hash_item(scheme, digest) \in [fp : Fingerprints, indices : [Positions -> Buckets]]
               /\ \A c \in SetOf(hash_item(scheme, digest).indices) :
                    SetOf(all_indices(scheme, c, hash_item(scheme, digest).fp))
                      = SetOf(hash_item(scheme, digest).indices)
    BY <1>2, <2>2, <2>3
  <2>5. ASSUME NEW b \in Buckets, NEW fp \in Fingerprints
        PROVE  /\ all_indices(scheme, b, fp) \in [Positions -> Buckets]
               /\ b \in SetOf(all_indices(scheme, b, fp))
               /\ \A c \in SetOf(all_indices(scheme, b, fp)) :
                    SetOf(all_indices(scheme, c, fp)) = SetOf(all_indices(scheme, b, fp))
    BY <1>2, <2>2, <2>3
  <2> QED
    BY <2>4, <2>5
<1>6. Hash \in [Items -> [fp : Fingerprints, indices : [Positions -> Buckets]]]
  BY <1>2, <1>3, <1>5
<1>7. Candidates \in [Buckets -> [Fingerprints -> [Positions -> Buckets]]]
  BY <1>4, <1>5
<1>8. ASSUME NEW b \in Buckets, NEW fp \in Fingerprints
      PROVE  /\ b \in SetOf(Candidates[b][fp])
             /\ \A c \in SetOf(Candidates[b][fp]) :
                  SetOf(Candidates[c][fp]) = SetOf(Candidates[b][fp])
  <2>1. \A c \in SetOf(Candidates[b][fp]) : c \in Buckets
    BY <1>7 DEF SetOf
  <2> QED
    BY <1>4, <1>5, <2>1
<1>9. ASSUME NEW i \in Items, NEW c \in SetOf(Hash[i].indices)
      PROVE  SetOf(Candidates[c][Hash[i].fp]) = SetOf(Hash[i].indices)
  <2>1. c \in Buckets /\ Hash[i].fp \in Fingerprints
    BY <1>6 DEF SetOf
  <2>2. SetOf(all_indices(scheme, c, Hash[i].fp)) = SetOf(Hash[i].indices)
    <3>1. Hash[i] = hash_item(scheme, i) /\ i \in Digests
      BY <1>2, <1>3
    <3>2. c \in SetOf(hash_item(scheme, i).indices)
      BY <1>9, <3>1, Zenon
    <3> QED
      BY <1>5, <3>1, <3>2, Zenon
  <2> QED
    BY <1>4, <2>1, <2>2
<1> QED
  BY <1>6, <1>7, <1>8, <1>9

-----------------------------------------------------------------------------
(* The assumptions of the store.                                           *)

\* The sizes of the filter are sizes of a store.
LEMMA StoreSizeAssumption ==
  /\ num_buckets(scheme) \in Nat \ {0}
  /\ BucketSize \in Nat \ {0}
  /\ scheme.arity \in Nat \ {0, 1}
  /\ KickBudgets \subseteq Nat
  /\ MAX_KICKS_DEFAULT \in KickBudgets
  /\ 0 \in Nat
<1>1. scheme.arity \in 2 .. 4 /\ scheme.range \in Nat \ {0}
  BY SchemeOfFilter
<1>2. scheme.arity * scheme.range \in Nat \ {0}
  BY <1>1
<1> QED
  BY <1>1, <1>2, FilterAssumption DEF num_buckets

\* No fingerprint is the mark of an empty slot.
LEMMA StoreDataAssumption ==
  /\ Fingerprints \subseteq Nat \ {0}
  /\ "present" \in {"present"}
BY DEF Fingerprints

\* The buckets, slots, positions and places of the two tables are the same.
LEMMA SameSets ==
  /\ KVStore!Buckets = Buckets /\ KVStore!Slots = Slots /\ KVStore!Positions = Positions
  /\ KVStore!Locs = Locs /\ KVStore!Tuples = [Positions -> Buckets]
BY DEF KVStore!Buckets, KVStore!Slots, KVStore!Positions, KVStore!Locs, KVStore!Tuples,
       Buckets, Slots, Positions, PositionsOf, Locs

\* The set of candidates the store speaks of is the filter's.
LEMMA RangeIsSet ==
  ASSUME NEW t \in [Positions -> Buckets]
  PROVE  KVStore!Range(t) = SetOf(t)
BY DEF KVStore!Range, SetOf

\* The filter's hashing meets the store's contract of trait IndexScheme.
LEMMA StoreSchemeAssumption ==
  /\ Hash \in [Items -> [fp : Fingerprints, indices : KVStore!Tuples]]
  /\ AllOf \in [KVStore!Buckets \X Fingerprints -> KVStore!Tuples]
  /\ \A b \in KVStore!Buckets, f \in Fingerprints :
       /\ \E p \in KVStore!Positions : AllOf[<<b, f>>][p] = b
       /\ \A p \in KVStore!Positions :
            KVStore!Range(AllOf[<<AllOf[<<b, f>>][p], f>>]) = KVStore!Range(AllOf[<<b, f>>])
  /\ \A k \in Items, p \in KVStore!Positions :
       KVStore!Range(AllOf[<<Hash[k].indices[p], Hash[k].fp>>]) = KVStore!Range(Hash[k].indices)
<1>1. /\ Hash \in [Items -> [fp : Fingerprints, indices : [Positions -> Buckets]]]
      /\ Candidates \in [Buckets -> [Fingerprints -> [Positions -> Buckets]]]
  BY Contract DEF Buckets
<1>2. /\ AllOf \in [Buckets \X Fingerprints -> [Positions -> Buckets]]
      /\ \A b \in Buckets, f \in Fingerprints :
           AllOf[<<b, f>>] = Candidates[b][f] /\ Candidates[b][f] \in [Positions -> Buckets]
  BY <1>1 DEF AllOf
<1>3. ASSUME NEW b \in Buckets, NEW f \in Fingerprints
      PROVE  /\ \E p \in Positions : AllOf[<<b, f>>][p] = b
             /\ \A p \in Positions :
                  KVStore!Range(AllOf[<<AllOf[<<b, f>>][p], f>>]) = KVStore!Range(AllOf[<<b, f>>])
  <2>1. \E p \in Positions : Candidates[b][f][p] = b
    BY Contract DEF Buckets, SetOf
  <2>2. ASSUME NEW p \in Positions
        PROVE  /\ Candidates[b][f][p] \in Buckets
               /\ SetOf(Candidates[Candidates[b][f][p]][f]) = SetOf(Candidates[b][f])
    <3>1. Candidates[b][f][p] \in SetOf(Candidates[b][f]) /\ Candidates[b][f][p] \in Buckets
      BY <1>2 DEF SetOf
    <3> QED
      BY <3>1, Contract DEF Buckets
  <2> QED
    BY <1>2, <2>1, <2>2, RangeIsSet
<1>4. ASSUME NEW k \in Items, NEW p \in Positions
      PROVE  KVStore!Range(AllOf[<<Hash[k].indices[p], Hash[k].fp>>]) = KVStore!Range(Hash[k].indices)
  <2>1. /\ Hash[k].indices \in [Positions -> Buckets] /\ Hash[k].fp \in Fingerprints
        /\ Hash[k].indices[p] \in Buckets /\ Hash[k].indices[p] \in SetOf(Hash[k].indices)
    BY <1>1 DEF SetOf
  <2>2. SetOf(Candidates[Hash[k].indices[p]][Hash[k].fp]) = SetOf(Hash[k].indices)
    BY Contract, <2>1
  <2> QED
    BY <1>2, <2>1, <2>2, RangeIsSet
<1> QED
  BY <1>1, <1>2, <1>3, <1>4, SameSets

-----------------------------------------------------------------------------
(* The operators of the filter are those of the store.                     *)

Marks  == Fingerprints \cup {0}
Kicked == [loc : Locs, fp : Marks]

\* The least element.
LEMMA SameMin == \A S : KVStore!Min(S) = Min(S)
BY DEF KVStore!Min, Min

\* The slots of a bucket that hold a fingerprint, or nothing.
LEMMA SameSlots ==
  ASSUME NEW tbl, NEW b \in Buckets, NEW fp
  PROVE  /\ KVStore!MatchSlots(EntriesOf(tbl), b, fp) = SlotsWith(tbl, b, fp)
         /\ KVStore!FreeSlots(EntriesOf(tbl), b) = SlotsWith(tbl, b, 0)
<1>1. ASSUME NEW s \in Slots PROVE EntriesOf(tbl)[<<b, s>>].fp = tbl[<<b, s>>]
  BY DEF EntriesOf, Entry, Locs, Buckets
<1> QED
  BY <1>1, SameSets DEF KVStore!MatchSlots, KVStore!FreeSlots, SlotsWith

\* The candidates that have a free slot.
LEMMA SameOpen ==
  ASSUME NEW tbl, NEW indices \in [Positions -> Buckets], NEW ps \in SUBSET Positions
  PROVE  KVStore!Open(EntriesOf(tbl), indices, ps) = Holding(tbl, indices, ps, 0)
<1>1. ASSUME NEW p \in ps
      PROVE  KVStore!FreeSlots(EntriesOf(tbl), indices[p]) = SlotsWith(tbl, indices[p], 0)
  BY SameSlots
<1> QED
  BY <1>1 DEF KVStore!Open, Holding

\* The first position that holds a fingerprint, and its bucket.
LEMMA FirstHolding ==
  ASSUME NEW tbl, NEW indices \in [Positions -> Buckets], NEW ps \in SUBSET Positions, NEW fp,
         Holding(tbl, indices, ps, fp) # {}
  PROVE  /\ Min(Holding(tbl, indices, ps, fp)) \in Holding(tbl, indices, ps, fp)
         /\ Min(Holding(tbl, indices, ps, fp)) \in ps
         /\ indices[Min(Holding(tbl, indices, ps, fp))] \in Buckets
<1> DEFINE H == Holding(tbl, indices, ps, fp)
<1>1. H \subseteq ps /\ H \subseteq Nat
  <2>1. H \subseteq ps
    BY DEF Holding
  <2>2. Positions \subseteq Nat
    BY SchemeOfFilter DEF Positions, PositionsOf
  <2> QED
    BY <2>1, <2>2
<1>2. Min(H) \in H
  <2>1. KVStore!Min(H) \in H
    BY <1>1, KVStore!MinOfNaturals, StoreSizeAssumption, StoreDataAssumption, StoreSchemeAssumption
  <2> QED
    BY <2>1, SameMin
<1> QED
  BY <1>1, <1>2

\* The slot an insertion takes.
LEMMA SamePlace ==
  ASSUME NEW tbl, NEW indices \in [Positions -> Buckets], NEW ps \in SUBSET Positions,
         Holding(tbl, indices, ps, 0) # {}
  PROVE  KVStore!PlaceLoc(EntriesOf(tbl), indices, Holding(tbl, indices, ps, 0))
           = FirstLoc(tbl, indices, ps, 0)
<1> DEFINE b == indices[Min(Holding(tbl, indices, ps, 0))]
<1>1. b \in Buckets
  BY FirstHolding
<1>2. KVStore!FreeSlots(EntriesOf(tbl), b) = SlotsWith(tbl, b, 0)
  BY <1>1, SameSlots
<1> QED
  BY <1>2, SameMin DEF KVStore!PlaceLoc, FirstLoc

\* The fingerprint and the candidates of an item.
LEMMA HashOfItem ==
  ASSUME NEW i \in Items
  PROVE  /\ Hash[i].fp \in Fingerprints /\ Hash[i].fp \in Marks /\ Hash[i].fp # 0
         /\ Hash[i].indices \in [Positions -> Buckets]
BY Contract, StoreDataAssumption DEF Buckets, Marks

\* The candidates that hold an item, and the slot a deletion clears.
LEMMA SameMatches ==
  ASSUME NEW tbl, NEW i \in Items
  PROVE  /\ KVStore!Matches(EntriesOf(tbl), i) = Matches(tbl, i)
         /\ Matches(tbl, i) # {} =>
              KVStore!FirstMatch(EntriesOf(tbl), i) = FirstLoc(tbl, Hash[i].indices, Positions, Hash[i].fp)
<1> DEFINE indices == Hash[i].indices
           fp      == Hash[i].fp
<1>1. indices \in [Positions -> Buckets] /\ Positions \in SUBSET Positions
  BY HashOfItem
<1>2. KVStore!Matches(EntriesOf(tbl), i) = Matches(tbl, i)
  <2>1. ASSUME NEW p \in Positions
        PROVE  KVStore!MatchSlots(EntriesOf(tbl), indices[p], fp) = SlotsWith(tbl, indices[p], fp)
    BY <1>1, SameSlots
  <2> QED
    BY <2>1, SameSets DEF KVStore!Matches, Matches, Holding
<1>3. ASSUME Matches(tbl, i) # {}
      PROVE  KVStore!FirstMatch(EntriesOf(tbl), i) = FirstLoc(tbl, indices, Positions, fp)
  <2> DEFINE b == indices[Min(Matches(tbl, i))]
  <2>1. b \in Buckets
    BY <1>1, <1>3, FirstHolding DEF Matches
  <2>2. KVStore!MatchSlots(EntriesOf(tbl), b, fp) = SlotsWith(tbl, b, fp)
    BY <2>1, SameSlots
  <2> QED
    BY <1>2, <2>2, SameMin DEF KVStore!FirstMatch, FirstLoc, Matches
<1> QED
  BY <1>2, <1>3

\* A write to the filter's table is that write to the store's.
LEMMA EntriesExcept ==
  ASSUME NEW tbl \in [Locs -> Marks], NEW l \in Locs, NEW fp \in Marks
  PROVE  /\ [tbl EXCEPT ![l] = fp] \in [Locs -> Marks]
         /\ EntriesOf([tbl EXCEPT ![l] = fp]) = [EntriesOf(tbl) EXCEPT ![l] = Entry(fp)]
BY DEF EntriesOf

\* A kick recorded by the filter is recorded by the store.
LEMMA StashesAppend ==
  ASSUME NEW c \in Seq(Kicked), NEW l \in Locs, NEW fp \in Marks
  PROVE  /\ Append(c, [loc |-> l, fp |-> fp]) \in Seq(Kicked)
         /\ StashesOf(Append(c, [loc |-> l, fp |-> fp]))
              = Append(StashesOf(c), [loc |-> l, entry |-> Entry(fp)])
<1> DEFINE e == [loc |-> l, fp |-> fp]
           E == [loc |-> l, entry |-> Entry(fp)]
           s == StashesOf(c)
           d == Append(c, e)
           D == Append(s, E)
<1>1. e \in Kicked /\ e.loc = l /\ e.fp = fp
  BY DEF Kicked
<1> HIDE DEF e
<1>2. d \in Seq(Kicked) /\ Len(d) = Len(c) + 1 /\ Len(c) \in Nat
      /\ (\A n \in 1 .. Len(c) : d[n] = c[n]) /\ d[Len(c) + 1] = e
      /\ DOMAIN d = 1 .. Len(c) + 1 /\ DOMAIN c = 1 .. Len(c)
  BY <1>1
<1>3. s = [n \in 1 .. Len(c) |-> [loc |-> c[n].loc, entry |-> Entry(c[n].fp)]]
  BY <1>2 DEF StashesOf
<1>4. s \in Seq(Range(s) \cup {E}) /\ Len(s) = Len(c)
  <2> HIDE DEF E
  <2>1. \A n \in 1 .. Len(c) : s[n] \in Range(s) \cup {E}
    BY <1>3 DEF Range
  <2> HIDE DEF s
  <2> QED
    BY <1>2, <1>3, <2>1
<1> HIDE DEF E, s
<1>5. DOMAIN D = 1 .. Len(c) + 1 /\ (\A n \in 1 .. Len(c) : D[n] = s[n]) /\ D[Len(c) + 1] = E
      /\ D = [n \in 1 .. Len(c) + 1 |-> D[n]]
  <2>1. E \in Range(s) \cup {E}
    OBVIOUS
  <2>2. /\ D \in Seq(Range(s) \cup {E}) /\ Len(D) = Len(s) + 1
        /\ (\A n \in 1 .. Len(s) : D[n] = s[n]) /\ D[Len(s) + 1] = E
    BY <1>4, <2>1, AppendProperties
  <2> HIDE DEF D
  <2> QED
    BY <1>4, <2>2, LenProperties
<1> HIDE DEF d, D
<1>6. StashesOf(d) = [n \in 1 .. Len(c) + 1 |-> [loc |-> d[n].loc, entry |-> Entry(d[n].fp)]]
  BY <1>2 DEF StashesOf
<1>7. ASSUME NEW n \in 1 .. Len(c) + 1
      PROVE  [loc |-> d[n].loc, entry |-> Entry(d[n].fp)] = D[n]
  <2>1. CASE n \in 1 .. Len(c)
    BY <1>2, <1>3, <1>5, <2>1
  <2>2. CASE n = Len(c) + 1
    BY <1>1, <1>2, <1>5, <2>2 DEF E
  <2> QED
    BY <1>2, <2>1, <2>2
<1>8. StashesOf(d) = D
  BY <1>5, <1>6, <1>7, Zenon
<1> QED
  BY <1>2, <1>8 DEF d, D, s, E, e

\* The chain without its last kick.
LEMMA StashesFront ==
  ASSUME NEW c \in Seq(Kicked), c # <<>>
  PROVE  /\ Front(c) \in Seq(Kicked) /\ Last(c) \in Kicked
         /\ StashesOf(c) # <<>>
         /\ KVStore!Last(StashesOf(c)) = [loc |-> Last(c).loc, entry |-> Entry(Last(c).fp)]
         /\ KVStore!Front(StashesOf(c)) = StashesOf(Front(c))
<1> DEFINE n == Len(c)
           s == StashesOf(c)
<1>1. n \in Nat \ {0} /\ DOMAIN c = 1 .. n /\ Last(c) = c[n] /\ c[n] \in Kicked
  BY DEF Last
<1>2. s = [m \in 1 .. n |-> [loc |-> c[m].loc, entry |-> Entry(c[m].fp)]]
  BY <1>1 DEF StashesOf
<1>3. s \in Seq(Range(s)) /\ Len(s) = n
  <2>1. \A m \in 1 .. n : s[m] \in Range(s)
    BY <1>2 DEF Range
  <2> HIDE DEF s
  <2> QED
    BY <1>1, <1>2, <2>1
<1> HIDE DEF s
<1>4. KVStore!Last(s) = [loc |-> c[n].loc, entry |-> Entry(c[n].fp)] /\ s # <<>>
  BY <1>1, <1>2, <1>3 DEF KVStore!Last
<1>5. /\ Front(c) \in Seq(Kicked) /\ Len(Front(c)) = n - 1
      /\ \A m \in 1 .. n - 1 : Front(c)[m] = c[m]
  <2> DEFINE k == n - 1
             front == SubSeq(c, 1, k)
  <2>1. k \in Nat /\ \A m \in 1 .. k : c[m] \in Kicked
    BY <1>1
  <2> HIDE DEF k
  <2>2. /\ front \in Seq(Kicked)
        /\ Len(front) = IF 1 <= k THEN k - 1 + 1 ELSE 0
        /\ \A m \in 1 .. k - 1 + 1 : front[m] = c[1 + m - 1]
    BY <2>1, SubSeqProperties
  <2> HIDE DEF front
  <2>3. Len(front) = k /\ \A m \in 1 .. k : front[m] = c[m]
    BY <2>1, <2>2
  <2>4. Front(c) = front
    BY DEF Front, front, k
  <2> QED
    BY <2>2, <2>3, <2>4 DEF k
<1>6. /\ Len(KVStore!Front(s)) = n - 1
      /\ \A m \in 1 .. n - 1 : KVStore!Front(s)[m] = s[m]
      /\ KVStore!Front(s) \in Seq(Range(s))
  <2> DEFINE k == n - 1
             front == SubSeq(s, 1, k)
  <2>1. k \in Nat /\ \A m \in 1 .. k : s[m] \in Range(s)
    BY <1>1, <1>2 DEF Range
  <2> HIDE DEF k
  <2>2. /\ front \in Seq(Range(s))
        /\ Len(front) = IF 1 <= k THEN k - 1 + 1 ELSE 0
        /\ \A m \in 1 .. k - 1 + 1 : front[m] = s[1 + m - 1]
    BY <2>1, SubSeqProperties
  <2> HIDE DEF front
  <2>3. Len(front) = k /\ \A m \in 1 .. k : front[m] = s[m]
    BY <2>1, <2>2
  <2>4. KVStore!Front(s) = front
    BY <1>3 DEF KVStore!Front, front, k
  <2> QED
    BY <2>2, <2>3, <2>4 DEF k
<1>7. KVStore!Front(s) = [m \in 1 .. n - 1 |-> KVStore!Front(s)[m]]
  BY <1>6
<1>8. StashesOf(Front(c)) = [m \in 1 .. n - 1 |-> [loc |-> Front(c)[m].loc, entry |-> Entry(Front(c)[m].fp)]]
  <2>1. DOMAIN Front(c) = 1 .. n - 1
    BY <1>5
  <2> QED
    BY <2>1 DEF StashesOf
<1>9. ASSUME NEW m \in 1 .. n - 1
      PROVE  KVStore!Front(s)[m] = [loc |-> Front(c)[m].loc, entry |-> Entry(Front(c)[m].fp)]
  <2>1. m \in 1 .. n
    BY <1>1
  <2>2. s[m] = [loc |-> c[m].loc, entry |-> Entry(c[m].fp)]
    BY <1>2, <2>1
  <2> QED
    BY <1>5, <1>6, <2>2
<1>10. KVStore!Front(s) = StashesOf(Front(c))
  BY <1>7, <1>8, <1>9, Zenon
<1> QED
  BY <1>1, <1>4, <1>5, <1>10 DEF s

-----------------------------------------------------------------------------
(* Every step of the filter is one of the store.                           *)

\* The types of the filter's own variables.
FilterType ==
  /\ table \in [Locs -> Marks]
  /\ chain \in Seq(Kicked)
  /\ inserting \in Seq(Items)
  /\ pc = "kicking" => Len(inserting) = 1
  /\ pc = "ready" => cur_fingerprint = 0
  /\ stored \in [Items -> Nat]
  /\ misused \in BOOLEAN

FilterInv == FilterType /\ KVStore!IInv

\* What the store's invariant says of the filter's variables.
LEMMA FromStore ==
  ASSUME FilterInv
  PROVE  /\ cur_fingerprint \in Marks /\ cur_index \in Buckets /\ max_kicks \in Nat
         /\ pc = "ready" => chain = <<>>
         /\ pc = "kicking" => cur_fingerprint # 0 /\ SlotsWith(table, cur_index, 0) = {}
         /\ Len(chain) \in Nat /\ Len(StashesOf(chain)) = Len(chain)
<1>1. KVStore!TypeOK /\ KVStore!ChainOnlyInInsert /\ KVStore!KicksOnlyFullBuckets
  BY DEF FilterInv, KVStore!IInv
<1>2. cur_fingerprint \in Marks
  <2>1. Entry(cur_fingerprint) \in KVStore!Entries
    BY <1>1 DEF KVStore!TypeOK
  <2> QED
    BY <2>1 DEF KVStore!Entries, Entry, Marks
<1>3. cur_index \in Buckets
  BY <1>1, SameSets DEF KVStore!TypeOK
<1>4. max_kicks \in Nat
  BY <1>1, StoreSizeAssumption DEF KVStore!TypeOK
<1>5. DOMAIN chain = 1 .. Len(chain) /\ Len(chain) \in Nat
  BY DEF FilterInv, FilterType
<1>6. pc = "ready" => chain = <<>>
  <2> SUFFICES ASSUME pc = "ready" PROVE chain = <<>>
    OBVIOUS
  <2>1. StashesOf(chain) = <<>>
    BY <1>1 DEF KVStore!ChainOnlyInInsert
  <2>2. DOMAIN StashesOf(chain) = DOMAIN chain
    BY DEF StashesOf
  <2>3. Len(chain) = 0
    BY <1>5, <2>1, <2>2
  <2> QED
    BY <2>3 DEF FilterInv, FilterType
<1>7. pc = "kicking" => cur_fingerprint # 0 /\ SlotsWith(table, cur_index, 0) = {}
  BY <1>1, <1>3, SameSlots DEF KVStore!KicksOnlyFullBuckets, Entry
<1>8. Len(StashesOf(chain)) = Len(chain)
  <2>1. StashesOf(chain) \in Seq(KVStore!Stashed) /\ DOMAIN StashesOf(chain) = DOMAIN chain
    BY <1>1 DEF KVStore!TypeOK, StashesOf
  <2>2. DOMAIN StashesOf(chain) = 1 .. Len(StashesOf(chain)) /\ Len(StashesOf(chain)) \in Nat
    BY <2>1
  <2> HIDE DEF StashesOf
  <2> QED
    BY <1>5, <2>1, <2>2
<1> QED
  BY <1>2, <1>3, <1>4, <1>5, <1>6, <1>7, <1>8

\* The log of the store is off.
LEMMA NoLog == \A ms : KVStore!Logged(ms) = <<>>
BY DEF KVStore!Logged

\* With no log a call may start whenever none runs.
LEMMA CanCallReady == pc = "ready" => KVStore!CanCall
BY DEF KVStore!CanCall

\* The new filter is the new store.
LEMMA FilterInit == Init => FilterType /\ KVStore!Init
<1> SUFFICES ASSUME Init PROVE FilterType /\ KVStore!Init
  OBVIOUS
<1>1. FilterType
  <2>1. table \in [Locs -> Marks]
    BY DEF Init, Marks
  <2>2. chain \in Seq(Kicked) /\ inserting \in Seq(Items) /\ stored \in [Items -> Nat]
    BY DEF Init
  <2> QED
    BY <2>1, <2>2 DEF Init, FilterType
<1>2. EntriesOf(table) = KVStore!EmptyTable
  BY SameSets DEF Init, EntriesOf, KVStore!EmptyTable, KVStore!Empty, Entry
<1>3. StashesOf(chain) = <<>>
  BY DEF Init, StashesOf
<1> QED
  BY <1>1, <1>2, <1>3 DEF Init, KVStore!Init, KVStore!Empty, Entry

\* The slot found is one of a candidate, and holds what was sought.
LEMMA FirstLocType ==
  ASSUME NEW tbl, NEW indices \in [Positions -> Buckets], NEW ps \in SUBSET Positions, NEW fp,
         Holding(tbl, indices, ps, fp) # {}
  PROVE  /\ FirstLoc(tbl, indices, ps, fp) \in Locs
         /\ tbl[FirstLoc(tbl, indices, ps, fp)] = fp
         /\ \E p \in ps : FirstLoc(tbl, indices, ps, fp)[1] = indices[p]
<1> DEFINE H == Holding(tbl, indices, ps, fp)
           b == indices[Min(H)]
<1>1. Min(H) \in H /\ Min(H) \in ps /\ b \in Buckets
  BY FirstHolding
<1>3. SlotsWith(tbl, b, fp) # {} /\ SlotsWith(tbl, b, fp) \subseteq Slots
  BY <1>1 DEF Holding, SlotsWith
<1>4. Min(SlotsWith(tbl, b, fp)) \in SlotsWith(tbl, b, fp)
  <2>1. SlotsWith(tbl, b, fp) \subseteq Nat
    <3>1. Slots \subseteq Nat
      BY DEF Slots
    <3> QED
      BY <1>3, <3>1
  <2>2. KVStore!Min(SlotsWith(tbl, b, fp)) \in SlotsWith(tbl, b, fp)
    BY <1>3, <2>1, KVStore!MinOfNaturals, StoreSizeAssumption, StoreDataAssumption, StoreSchemeAssumption
  <2> QED
    BY <2>2, SameMin
<1> QED
  BY <1>1, <1>3, <1>4 DEF FirstLoc, SlotsWith, Locs, Buckets

\* An insertion into a free slot is the store's.
LEMMA InsertDirectIsStore ==
  ASSUME FilterInv, NEW i \in Items, InsertDirect(i)
  PROVE  FilterType' /\ KVStore!InsertDirect(i, "present")
<1> DEFINE indices == Hash[i].indices
           fp      == Hash[i].fp
           open    == Holding(table, indices, Positions, 0)
           loc     == FirstLoc(table, indices, Positions, 0)
<1>1. /\ pc = "ready" /\ open # {}
      /\ table' = [table EXCEPT ![loc] = fp]
      /\ num_items' = num_items + 1
      /\ result' = "Ok"
      /\ stored' = IF misused THEN stored ELSE [stored EXCEPT ![i] = @ + 1]
      /\ UNCHANGED <<max_kicks, loop, pc, misused>>
  BY DEF InsertDirect
<1>2. indices \in [Positions -> Buckets] /\ fp \in Marks /\ Positions \in SUBSET Positions
  BY HashOfItem
<1>3. loc \in Locs
  BY <1>1, <1>2, FirstLocType
<1>4. /\ KVStore!Open(EntriesOf(table), indices, KVStore!Positions) = open
      /\ KVStore!PlaceLoc(EntriesOf(table), indices, open) = loc
  BY <1>1, <1>2, SameOpen, SamePlace, SameSets
<1> HIDE DEF loc, open
<1>5. EntriesOf(table)' = [EntriesOf(table) EXCEPT ![loc] = Entry(fp)] /\ table' \in [Locs -> Marks]
  <2>1. table' \in [Locs -> Marks]
        /\ EntriesOf(table') = [EntriesOf(table) EXCEPT ![loc] = Entry(fp)]
    BY <1>1, <1>2, <1>3, EntriesExcept DEF FilterInv, FilterType
  <2> QED
    BY <2>1 DEF EntriesOf
<1>6. FilterType'
  <2>1. stored' \in [Items -> Nat]
    BY <1>1 DEF FilterInv, FilterType
  <2> QED
    BY <1>1, <1>5, <2>1 DEF FilterInv, FilterType, loop
<1>7. KVStore!InsertDirect(i, "present")
  <2>1. Entry(cur_fingerprint)' = KVStore!Left("present") /\ StashesOf(chain)' = StashesOf(chain)
    BY <1>1 DEF FilterInv, FilterType, Entry, KVStore!Left, loop, StashesOf
  <2> QED
    BY <1>1, <1>4, <1>5, <2>1, NoLog, CanCallReady DEF KVStore!InsertDirect, Entry, loop
<1> QED
  BY <1>6, <1>7

\* An insertion that finds no free slot starts the store's kick loop.
LEMMA InsertStartsIsStore ==
  ASSUME FilterInv, NEW i \in Items, InsertStartsKicking(i)
  PROVE  FilterType' /\ KVStore!InsertStartsKicking(i, "present")
<1> DEFINE indices == Hash[i].indices
<1>1. /\ pc = "ready" /\ Holding(table, indices, Positions, 0) = {}
      /\ cur_fingerprint' = Hash[i].fp
      /\ \E p \in Positions : cur_index' = indices[p]
      /\ chain' = <<>> /\ pc' = "kicking" /\ inserting' = <<i>>
      /\ UNCHANGED <<table, num_items, max_kicks, result, stored, misused>>
  BY DEF InsertStartsKicking
<1>2. indices \in [Positions -> Buckets] /\ Positions \in SUBSET Positions
  BY HashOfItem
<1>3. KVStore!Open(EntriesOf(table), indices, KVStore!Positions) = {}
  BY <1>1, <1>2, SameOpen, SameSets
<1>4. FilterType'
  BY <1>1 DEF FilterInv, FilterType
<1>5. StashesOf(chain)' = <<>> /\ EntriesOf(table)' = EntriesOf(table)
      /\ Entry(cur_fingerprint)' = [fp |-> Hash[i].fp, val |-> "present"]
  BY <1>1 DEF StashesOf, EntriesOf, Entry
<1> QED
  BY <1>1, <1>3, <1>4, <1>5, CanCallReady, SameSets
  DEF KVStore!InsertStartsKicking, KVStore!logVars

\* A kick of the filter is a kick of the store.
LEMMA KickIsStore ==
  ASSUME FilterInv, Kick
  PROVE  FilterType' /\ KVStore!Kick
<1>0. PICK s \in Slots :
       LET loc     == <<cur_index, s>>
           evicted == table[loc]
           kicked  == [table EXCEPT ![loc] = cur_fingerprint]
           all     == Candidates[cur_index][evicted]
           others  == Positions \ {EvictedPos(all)}
       IN  \/ /\ Holding(kicked, all, others, 0) # {}
              /\ table' = [kicked EXCEPT ![FirstLoc(kicked, all, others, 0)] = evicted]
              /\ num_items' = num_items + 1
              /\ result' = "Ok"
              /\ stored' = IF misused THEN stored ELSE [stored EXCEPT ![inserting[1]] = @ + 1]
              /\ EndOfInsert
           \/ /\ Holding(kicked, all, others, 0) = {}
              /\ table' = kicked
              /\ chain' = Append(chain, [loc |-> loc, fp |-> evicted])
              /\ cur_fingerprint' = evicted
              /\ \E p \in others : cur_index' = all[p]
              /\ UNCHANGED <<num_items, pc, result, inserting, stored>>
  BY DEF Kick
<1> DEFINE loc     == <<cur_index, s>>
           evicted == table[loc]
           kicked  == [table EXCEPT ![loc] = cur_fingerprint]
           all     == Candidates[cur_index][evicted]
           others  == Positions \ {EvictedPos(all)}
           open    == Holding(kicked, all, others, 0)
           final   == FirstLoc(kicked, all, others, 0)
<1>1. /\ pc = "kicking" /\ Len(chain) < max_kicks /\ UNCHANGED <<max_kicks, misused>>
      /\ table \in [Locs -> Marks] /\ chain \in Seq(Kicked)
      /\ cur_index \in Buckets /\ cur_fingerprint \in Marks
      /\ Len(StashesOf(chain)) < max_kicks
      /\ SlotsWith(table, cur_index, 0) = {}
  BY FromStore DEF Kick, FilterInv, FilterType
<1>2. loc \in Locs /\ evicted \in Fingerprints /\ evicted \in Marks
  <2>1. loc \in Locs
    BY <1>1 DEF Locs, Buckets
  <2>2. evicted # 0
    BY <1>1 DEF SlotsWith
  <2> QED
    BY <1>1, <2>1, <2>2 DEF Marks
<1>3. /\ EntriesOf(table)[loc] = Entry(evicted) /\ Entry(evicted).fp = evicted
      /\ kicked \in [Locs -> Marks]
      /\ [EntriesOf(table) EXCEPT ![loc] = Entry(cur_fingerprint)] = EntriesOf(kicked)
  <2>1. EntriesOf(table)[loc] = Entry(evicted) /\ Entry(evicted).fp = evicted
    BY <1>2 DEF EntriesOf, Entry
  <2> HIDE DEF loc, all, others, open, final
  <2>2. table \in [Locs -> Marks] /\ loc \in Locs /\ cur_fingerprint \in Marks
    BY <1>1, <1>2
  <2>3. [EntriesOf(table) EXCEPT ![loc] = Entry(cur_fingerprint)] = EntriesOf(kicked)
    BY <2>2, EntriesExcept
  <2>4. kicked \in [Locs -> Marks]
    BY <2>2
  <2> QED
    BY <2>1, <2>3, <2>4
<1>4. AllOf[<<cur_index, evicted>>] = all /\ all \in [Positions -> Buckets]
  BY <1>1, <1>2, Contract DEF AllOf, Buckets
<1>5. KVStore!EvictedPos(all, cur_index) = EvictedPos(all) /\ others \in SUBSET Positions
  BY SameMin, SameSets DEF KVStore!EvictedPos, EvictedPos
<1>6. /\ KVStore!Open(EntriesOf(kicked), all, others) = open
      /\ open # {} => KVStore!PlaceLoc(EntriesOf(kicked), all, open) = final /\ final \in Locs
  <2> HIDE DEF kicked, all, others
  <2> QED
    BY <1>4, <1>5, SameOpen, SamePlace, FirstLocType
<1> DEFINE storeAll    == AllOf[<<cur_index, EntriesOf(table)[loc].fp>>]
           storeKicked == [EntriesOf(table) EXCEPT ![loc] = Entry(cur_fingerprint)]
           storeOthers == KVStore!Positions \ {KVStore!EvictedPos(storeAll, cur_index)}
           storeOpen   == KVStore!Open(storeKicked, storeAll, storeOthers)
           storeFinal  == KVStore!PlaceLoc(storeKicked, storeAll, storeOpen)
<1>7. /\ storeAll = all /\ storeKicked = EntriesOf(kicked) /\ storeOthers = others /\ storeOpen = open
  <2>1. storeAll = all
    BY <1>3, <1>4
  <2>2. storeKicked = EntriesOf(kicked)
    BY <1>3
  <2>3. storeOthers = others
    BY <1>5, <2>1, SameSets
  <2> HIDE DEF storeAll, storeKicked, storeOthers, all, kicked, others
  <2> QED
    BY <1>6, <2>1, <2>2, <2>3 DEF others
<1>8. CASE open # {}
  <2>1. /\ table' = [kicked EXCEPT ![final] = evicted]
        /\ num_items' = num_items + 1
        /\ result' = "Ok"
        /\ stored' = IF misused THEN stored ELSE [stored EXCEPT ![inserting[1]] = @ + 1]
        /\ EndOfInsert
    BY <1>0, <1>8
  <2>2. storeFinal = final /\ final \in Locs
    <3> HIDE DEF storeKicked, storeAll, storeOpen, open, kicked, all, final
    <3> QED
      BY <1>6, <1>7, <1>8
  <2>3. EntriesOf(table)' = [EntriesOf(kicked) EXCEPT ![final] = Entry(evicted)]
        /\ table' \in [Locs -> Marks]
    <3> HIDE DEF kicked, final, evicted
    <3>1. /\ EntriesOf([kicked EXCEPT ![final] = evicted]) = [EntriesOf(kicked) EXCEPT ![final] = Entry(evicted)]
          /\ [kicked EXCEPT ![final] = evicted] \in [Locs -> Marks]
      <4>1. kicked \in [Locs -> Marks] /\ final \in Locs /\ evicted \in Marks
        BY <1>2, <1>3, <2>2
      <4> QED
        BY <4>1, EntriesExcept, Zenon
    <3>2. EntriesOf(table)' = EntriesOf(table')
      BY DEF EntriesOf
    <3> QED
      BY <2>1, <3>1, <3>2
  <2>4. FilterType'
    <3>1. /\ chain' = <<>> /\ inserting' = <<>> /\ pc' = "ready" /\ misused' = misused
          /\ cur_fingerprint' = 0
      BY <1>1, <2>1 DEF EndOfInsert
    <3>2. stored' \in [Items -> Nat]
      <4>1. inserting[1] \in Items /\ stored \in [Items -> Nat]
        <5>1. inserting \in Seq(Items) /\ Len(inserting) = 1 /\ stored \in [Items -> Nat]
          BY <1>1 DEF FilterInv, FilterType
        <5>2. 1 \in 1 .. Len(inserting)
          BY <5>1
        <5> QED
          BY <5>1, <5>2, ElementOfSeq
      <4>2. stored' = IF misused THEN stored ELSE [stored EXCEPT ![inserting[1]] = @ + 1]
        BY <2>1
      <4>3. CASE misused
        BY <4>1, <4>2, <4>3
      <4>4. CASE ~misused
        <5>1. stored[inserting[1]] + 1 \in Nat /\ stored' = [stored EXCEPT ![inserting[1]] = @ + 1]
          BY <4>1, <4>2, <4>4
        <5> QED
          BY <4>1, <5>1
      <4> QED
        BY <4>3, <4>4
    <3>3. chain' \in Seq(Kicked) /\ inserting' \in Seq(Items)
      BY <3>1
    <3> QED
      BY <2>3, <3>1, <3>2, <3>3 DEF FilterInv, FilterType
  <2>5. StashesOf(chain)' = <<>> /\ Entry(cur_fingerprint)' = KVStore!Left(EntriesOf(table)[loc].val)
        /\ pc' = "ready" /\ cur_index' = 0
    <3>1. EntriesOf(table)[loc].val = "present"
      BY <1>2 DEF EntriesOf, Entry
    <3> QED
      BY <2>1, <3>1 DEF EndOfInsert, StashesOf, Entry, KVStore!Left
  <2>6. /\ storeOpen # {}
        /\ EntriesOf(table)' = [storeKicked EXCEPT ![storeFinal] = EntriesOf(table)[loc]]
    <3> HIDE DEF storeKicked, storeAll, storeOpen, storeFinal, open, kicked, all, final, loc
    <3> QED
      BY <1>3, <1>7, <1>8, <2>2, <2>3
  <2> HIDE DEF evicted, kicked, all, others, open, final
  <2>7. KVStore!Kick
    BY <1>1, <2>1, <2>5, <2>6, NoLog, SameSets DEF KVStore!Kick, KVStore!AllFrom, KVStore!BudgetLeft
  <2> QED
    BY <2>4, <2>7
<1>9. CASE open = {}
  <2>1. /\ table' = kicked
        /\ chain' = Append(chain, [loc |-> loc, fp |-> evicted])
        /\ cur_fingerprint' = evicted
        /\ \E p \in others : cur_index' = all[p]
        /\ UNCHANGED <<num_items, pc, result, inserting, stored>>
    BY <1>0, <1>9
  <2>2. EntriesOf(table)' = EntriesOf(kicked)
    BY <2>1 DEF EntriesOf
  <2>3. chain' \in Seq(Kicked)
        /\ StashesOf(chain)' = Append(StashesOf(chain), [loc |-> loc, entry |-> Entry(evicted)])
    <3> HIDE DEF loc, evicted
    <3>1. StashesOf(chain)' = StashesOf(chain')
      BY DEF StashesOf
    <3> QED
      BY <1>1, <1>2, <2>1, <3>1, StashesAppend
  <2>4. FilterType'
    <3> HIDE DEF kicked, evicted, loc, all, others
    <3> QED
      BY <1>1, <1>3, <2>1, <2>3 DEF FilterInv, FilterType
  <2>5. /\ storeOpen = {}
        /\ EntriesOf(table)' = storeKicked
        /\ StashesOf(chain)' = Append(StashesOf(chain), [loc |-> loc, entry |-> EntriesOf(table)[loc]])
        /\ Entry(cur_fingerprint)' = EntriesOf(table)[loc]
        /\ \E p \in storeOthers : cur_index' = storeAll[p]
    <3>1. Entry(cur_fingerprint)' = Entry(evicted)
      BY <2>1 DEF Entry
    <3> HIDE DEF storeKicked, storeAll, storeOpen, storeOthers, open, kicked, all, others, loc, evicted
    <3> QED
      BY <1>3, <1>7, <1>9, <2>1, <2>2, <2>3, <3>1
  <2> HIDE DEF evicted, kicked, all, others, open, final
  <2>6. KVStore!Kick
    BY <1>1, <2>1, <2>5, SameSets DEF KVStore!Kick, KVStore!AllFrom, KVStore!BudgetLeft, KVStore!logVars
  <2> QED
    BY <2>4, <2>6
<1> QED
  BY <1>8, <1>9

\* A slot the filter restores is the slot the store restores.
LEMMA RollbackSlotIsStore ==
  ASSUME FilterInv, RollbackSlot
  PROVE  FilterType' /\ KVStore!RollbackSlot
<1>1. /\ pc = "rollback" /\ chain # <<>>
      /\ table' = [table EXCEPT ![Last(chain).loc] = Last(chain).fp]
      /\ chain' = Front(chain)
      /\ UNCHANGED <<num_items, max_kicks, cur_fingerprint, cur_index, pc, result,
                     inserting, stored, misused>>
      /\ table \in [Locs -> Marks] /\ chain \in Seq(Kicked)
  BY DEF RollbackSlot, FilterInv, FilterType
<1>2. /\ Front(chain) \in Seq(Kicked) /\ Last(chain) \in Kicked
      /\ StashesOf(chain) # <<>>
      /\ KVStore!Last(StashesOf(chain)) = [loc |-> Last(chain).loc, entry |-> Entry(Last(chain).fp)]
      /\ KVStore!Front(StashesOf(chain)) = StashesOf(Front(chain))
  BY <1>1, StashesFront
<1>3. Last(chain).loc \in Locs /\ Last(chain).fp \in Marks
  BY <1>2 DEF Kicked
<1>4. /\ table' \in [Locs -> Marks]
      /\ EntriesOf(table)' = [EntriesOf(table) EXCEPT ![Last(chain).loc] = Entry(Last(chain).fp)]
  <2>1. EntriesOf(table)' = EntriesOf(table')
    BY DEF EntriesOf
  <2> QED
    BY <1>1, <1>3, <2>1, EntriesExcept
<1>5. StashesOf(chain)' = StashesOf(Front(chain))
  BY <1>1 DEF StashesOf
<1>6. FilterType'
  BY <1>1, <1>2, <1>4 DEF FilterInv, FilterType
<1>7. KVStore!RollbackSlot
  BY <1>1, <1>2, <1>4, <1>5 DEF KVStore!RollbackSlot, KVStore!logVars, Entry
<1> QED
  BY <1>6, <1>7

\* A deletion of the filter is a deletion of the store.
LEMMA DeleteIsStore ==
  ASSUME FilterInv, NEW i \in Items, Delete(i)
  PROVE  FilterType' /\ KVStore!Delete(i)
<1> DEFINE loc == FirstLoc(table, Hash[i].indices, Positions, Hash[i].fp)
<1>1. /\ pc = "ready" /\ UNCHANGED <<max_kicks, loop, pc>>
      /\ table \in [Locs -> Marks] /\ stored \in [Items -> Nat] /\ misused \in BOOLEAN
  BY DEF Delete, FilterInv, FilterType
<1>2. /\ StashesOf(chain)' = StashesOf(chain) /\ Entry(cur_fingerprint)' = Entry(cur_fingerprint)
      /\ UNCHANGED <<chain, cur_fingerprint, cur_index, inserting>>
  BY <1>1 DEF loop, StashesOf, Entry
<1>3. CASE Contain(i)
  <2>1. /\ Matches(table, i) # {}
        /\ table' = [table EXCEPT ![loc] = 0]
        /\ num_items' = num_items - 1
        /\ result' = "Ok"
        /\ misused' = (misused \/ stored[i] = 0)
        /\ stored' = IF misused' THEN [j \in Items |-> 0] ELSE [stored EXCEPT ![i] = @ - 1]
    BY <1>3 DEF Delete, Contain, Freed
  <2>2. /\ KVStore!Matches(EntriesOf(table), i) # {}
        /\ KVStore!FirstMatch(EntriesOf(table), i) = loc
    BY <2>1, SameMatches
  <2>3. loc \in Locs /\ 0 \in Marks
    BY <2>1, HashOfItem, FirstLocType DEF Matches, Marks
  <2> HIDE DEF loc
  <2>4. /\ table' \in [Locs -> Marks]
        /\ EntriesOf(table)' = [EntriesOf(table) EXCEPT ![loc] = Entry(0)]
    <3>1. EntriesOf(table)' = EntriesOf(table')
      BY DEF EntriesOf
    <3> QED
      BY <1>1, <2>1, <2>3, <3>1, EntriesExcept
  <2>5. stored' \in [Items -> Nat] /\ misused' \in BOOLEAN
    <3>1. misused' \in BOOLEAN
      BY <2>1
    <3>2. CASE misused'
      BY <2>1, <3>2
    <3>3. CASE ~misused'
      <4>1. stored[i] \in Nat \ {0}
        BY <1>1, <2>1, <3>3
      <4> QED
        BY <1>1, <2>1, <3>3, <4>1
    <3> QED
      BY <3>1, <3>2, <3>3
  <2>6. FilterType'
    BY <1>1, <1>2, <2>4, <2>5 DEF FilterInv, FilterType
  <2>7. KVStore!Delete(i)
    <3>1. /\ Entry(0) = KVStore!Left("present") /\ Entry(0) = KVStore!Empty
          /\ Entry(cur_fingerprint)' = Entry(0)
      BY <1>1, <1>2 DEF FilterInv, FilterType, KVStore!Left, KVStore!Empty, Entry
    <3> QED
      BY <1>1, <1>2, <2>1, <2>2, <2>4, <3>1, NoLog, CanCallReady
      DEF KVStore!Delete, KVStore!Contain, KVStore!Cleared
  <2> QED
    BY <2>6, <2>7
<1>4. CASE ~Contain(i)
  <2>1. Matches(table, i) = {} /\ result' = "NotFound" /\ UNCHANGED <<table, num_items, stored, misused>>
    BY <1>4 DEF Delete, Contain
  <2>2. KVStore!Matches(EntriesOf(table), i) = {} /\ EntriesOf(table)' = EntriesOf(table)
    BY <2>1, SameMatches DEF EntriesOf
  <2>3. FilterType'
    BY <1>1, <1>2, <2>1 DEF FilterInv, FilterType
  <2>4. KVStore!Delete(i)
    BY <1>1, <1>2, <2>1, <2>2, CanCallReady DEF KVStore!Delete, KVStore!Contain
  <2> QED
    BY <2>3, <2>4
<1> QED
  BY <1>3, <1>4

\* The steps that write no slot are the store's too.
LEMMA QuietIsStore ==
  ASSUME FilterInv,
         \/ KicksExhausted \/ RollbackDone
         \/ \E n \in KickBudgets : SetMaxKicks(n)
         \/ UNCHANGED vars
  PROVE  FilterType' /\ [KVStore!Next]_(KVStore!vars)
<1>1. UNCHANGED <<table, chain>> => EntriesOf(table)' = EntriesOf(table) /\ StashesOf(chain)' = StashesOf(chain)
  BY DEF EntriesOf, StashesOf
<1>2. UNCHANGED cur_fingerprint => Entry(cur_fingerprint)' = Entry(cur_fingerprint)
  BY DEF Entry
<1>3. CASE KicksExhausted
  <2>1. KVStore!KicksExhausted
    BY <1>1, <1>2, <1>3, FromStore
    DEF KicksExhausted, KVStore!KicksExhausted, KVStore!BudgetLeft, loop, KVStore!logVars, KVStore!scratch
  <2> QED
    BY <1>3, <2>1 DEF KicksExhausted, loop, FilterInv, FilterType, KVStore!Next, KVStore!InsertLoop
<1>4. CASE RollbackDone
  <2>1. StashesOf(chain) = <<>> /\ UNCHANGED <<table, chain>>
    BY <1>4 DEF RollbackDone, EndOfInsert, StashesOf
  <2>2. KVStore!RollbackDone
    BY <1>1, <1>4, <2>1
    DEF RollbackDone, EndOfInsert, KVStore!RollbackDone, KVStore!logVars, KVStore!Left, Entry
  <2>3. FilterType'
    <3>1. inserting' \in Seq(Items)
      BY <1>4 DEF RollbackDone, EndOfInsert
    <3> QED
      BY <1>4, <2>1, <3>1 DEF RollbackDone, EndOfInsert, FilterInv, FilterType
  <2> QED
    BY <2>2, <2>3 DEF KVStore!Next, KVStore!InsertLoop
<1>5. CASE \E n \in KickBudgets : SetMaxKicks(n)
  <2>1. \E n \in KickBudgets : KVStore!SetMaxKicks(n)
    BY <1>1, <1>2, <1>5 DEF SetMaxKicks, KVStore!SetMaxKicks, KVStore!RoomFor, loop, KVStore!logVars, KVStore!scratch
  <2> QED
    BY <1>5, <2>1 DEF SetMaxKicks, loop, FilterInv, FilterType, KVStore!Next
<1>6. CASE UNCHANGED vars
  BY <1>1, <1>2, <1>6 DEF vars, loop, FilterInv, FilterType, KVStore!vars, KVStore!logVars, KVStore!scratch
<1> QED
  BY <1>3, <1>4, <1>5, <1>6

\* Every step of the filter is a step of the store, or leaves it alone.
LEMMA StepIsStore == FilterInv /\ [Next]_vars => FilterType' /\ [KVStore!Next]_(KVStore!vars)
<1> SUFFICES ASSUME FilterInv, [Next]_vars PROVE FilterType' /\ [KVStore!Next]_(KVStore!vars)
  OBVIOUS
<1>1. ASSUME NEW i \in Items, InsertDirect(i) PROVE FilterType' /\ KVStore!Next
  BY <1>1, InsertDirectIsStore DEF KVStore!Next, KVStore!Insert
<1>2. ASSUME NEW i \in Items, InsertStartsKicking(i) PROVE FilterType' /\ KVStore!Next
  BY <1>2, InsertStartsIsStore DEF KVStore!Next, KVStore!Insert
<1>3. ASSUME NEW i \in Items, Delete(i) PROVE FilterType' /\ KVStore!Next
  BY <1>3, DeleteIsStore DEF KVStore!Next
<1>4. ASSUME Kick PROVE FilterType' /\ KVStore!Next
  BY <1>4, KickIsStore DEF KVStore!Next, KVStore!InsertLoop
<1>5. ASSUME RollbackSlot PROVE FilterType' /\ KVStore!Next
  BY <1>5, RollbackSlotIsStore DEF KVStore!Next, KVStore!InsertLoop
<1> QED
  BY <1>1, <1>2, <1>3, <1>4, <1>5, QuietIsStore DEF Next

\* The types of the filter hold, and what is invariant of the store: its count,
\* full buckets where it kicks, and an occupied chain (CuckooFilter, all of it).
THEOREM FilterInvariance == Spec => []FilterInv
<1> USE StoreSizeAssumption, StoreDataAssumption, StoreSchemeAssumption
<1>1. Init => FilterInv
  BY FilterInit, KVStore!InitIInv DEF FilterInv
<1>2. FilterInv /\ [Next]_vars => FilterInv'
  BY StepIsStore, KVStore!NextIInv DEF FilterInv
<1> QED
  BY <1>1, <1>2, PTL DEF Spec

\* The filter is the key-value store with one value and no log: insert, its kick
\* loop and rollback, delete and set_max_kicks take the store's steps (filter.rs
\* and store.rs of segmented-cuckoo write the same loop twice).
THEOREM FilterIsStore == Spec => KVStore!Spec
<1>1. Init => KVStore!Init
  BY FilterInit
<1>2. FilterInv /\ [Next]_vars => [KVStore!Next]_(KVStore!vars)
  BY StepIsStore
<1> QED
  BY <1>1, <1>2, FilterInvariance, PTL DEF Spec, KVStore!Spec

-----------------------------------------------------------------------------
(* The count and the bag.                                                  *)

\* The cardinality the store counts with is the filter's.
LEMMA SameCardinality == \A S : KVStore!Cardinality(S) = Cardinality(S)
BY Zenon DEF KVStore!Cardinality, Cardinality

\* The store's committed table is the filter's.
LEMMA SameCommitted ==
  ASSUME FilterInv
  PROVE  /\ Committed \in [Locs -> Marks]
         /\ KVStore!Committed = EntriesOf(Committed)
<1>1. /\ table \in [Locs -> Marks] /\ chain \in Seq(Kicked)
      /\ Len(chain) \in Nat /\ Len(StashesOf(chain)) = Len(chain)
      /\ DOMAIN chain = 1 .. Len(chain)
  BY FromStore DEF FilterInv, FilterType
<1>2. ASSUME NEW n \in 1 .. Len(chain)
      PROVE  /\ StashesOf(chain)[n].loc = chain[n].loc
             /\ StashesOf(chain)[n].entry = Entry(chain[n].fp)
             /\ chain[n].fp \in Marks
  <2>1. chain[n] \in Kicked
    BY <1>1, <1>2, ElementOfSeq
  <2> QED
    BY <1>1, <2>1 DEF StashesOf, Kicked
<1>3. ASSUME NEW l \in Locs
      PROVE  KVStore!Stashes(StashesOf(chain), l) = Kicks(l)
  <2>1. KVStore!Stashes(StashesOf(chain), l) = {n \in 1 .. Len(chain) : StashesOf(chain)[n].loc = l}
    BY <1>1 DEF KVStore!Stashes
  <2>2. \A n \in 1 .. Len(chain) : StashesOf(chain)[n].loc = chain[n].loc
    BY <1>2
  <2>3. Kicks(l) = {n \in 1 .. Len(chain) : chain[n].loc = l}
    BY <1>1 DEF Kicks
  <2> HIDE DEF StashesOf
  <2> QED
    BY <2>1, <2>2, <2>3
<1>4. ASSUME NEW l \in Locs, Kicks(l) # {}
      PROVE  Min(Kicks(l)) \in 1 .. Len(chain)
  <2>1. Kicks(l) \subseteq 1 .. Len(chain) /\ Kicks(l) \subseteq Nat
    BY <1>1 DEF Kicks
  <2>2. KVStore!Min(Kicks(l)) \in Kicks(l)
    BY <1>4, <2>1, KVStore!MinOfNaturals, StoreSizeAssumption, StoreDataAssumption, StoreSchemeAssumption
  <2> QED
    BY <2>1, <2>2, SameMin
<1>5. ASSUME NEW l \in Locs
      PROVE  Committed[l] \in Marks /\ KVStore!Committed[l] = Entry(Committed[l])
  <2>1. KVStore!Committed[l] = IF Kicks(l) = {} THEN EntriesOf(table)[l]
                                              ELSE StashesOf(chain)[Min(Kicks(l))].entry
    BY <1>3, SameMin, SameSets DEF KVStore!Committed, KVStore!TakenBack
  <2>2. CASE Kicks(l) = {}
    BY <1>1, <2>1, <2>2 DEF Committed, EntriesOf
  <2>3. CASE Kicks(l) # {}
    <3>1. Min(Kicks(l)) \in 1 .. Len(chain)
      BY <1>4, <2>3
    <3>2. Committed[l] = chain[Min(Kicks(l))].fp
      BY <2>3 DEF Committed
    <3>3. StashesOf(chain)[Min(Kicks(l))].entry = Entry(chain[Min(Kicks(l))].fp)
          /\ chain[Min(Kicks(l))].fp \in Marks
      BY <1>2, <3>1
    <3>4. KVStore!Committed[l] = StashesOf(chain)[Min(Kicks(l))].entry
      BY <2>1, <2>3
    <3> QED
      BY <3>2, <3>3, <3>4
  <2> QED
    BY <2>2, <2>3
<1>6. Committed = [l \in Locs |-> Committed[l]]
  BY DEF Committed
<1>7. KVStore!Committed = [l \in Locs |-> KVStore!Committed[l]]
  BY SameSets DEF KVStore!Committed, KVStore!TakenBack
<1>8. Committed \in [Locs -> Marks]
  BY <1>5, <1>6
<1>9. KVStore!Committed = EntriesOf(Committed)
  BY <1>5, <1>7 DEF EntriesOf
<1> QED
  BY <1>8, <1>9

\* What was kicked is occupied, so the count is that of the committed table.
LEMMA CountOfCommitted == FilterInv => CountMatchesTable
<1> SUFFICES ASSUME FilterInv PROVE CountMatchesTable
  OBVIOUS
<1>1. KVStore!CountMatchesTable /\ KVStore!ChainOccupied
  BY DEF FilterInv, KVStore!IInv
<1>2. /\ chain \in Seq(Kicked) /\ Len(chain) \in Nat
      /\ Len(StashesOf(chain)) = Len(chain) /\ DOMAIN chain = 1 .. Len(chain)
  BY FromStore DEF FilterInv, FilterType
<1>3. ASSUME NEW n \in 1 .. Len(chain)
      PROVE  chain[n].loc \in Locs /\ chain[n].fp # 0 /\ table[chain[n].loc] # 0
  <2>1. chain[n] \in Kicked
    BY <1>2, <1>3, ElementOfSeq
  <2>2. StashesOf(chain)[n] = [loc |-> chain[n].loc, entry |-> Entry(chain[n].fp)]
    BY <1>2 DEF StashesOf
  <2>3. StashesOf(chain)[n].entry.fp # 0 /\ EntriesOf(table)[StashesOf(chain)[n].loc].fp # 0
    BY <1>1, <1>2 DEF KVStore!ChainOccupied
  <2> QED
    BY <2>1, <2>2, <2>3 DEF Kicked, Entry, EntriesOf
<1>4. ASSUME NEW l \in Locs PROVE Committed[l] # 0 <=> EntriesOf(table)[l].fp # 0
  <2>1. EntriesOf(table)[l].fp = table[l]
    BY DEF EntriesOf, Entry
  <2>2. CASE Kicks(l) = {}
    BY <2>1, <2>2 DEF Committed
  <2>3. CASE Kicks(l) # {}
    <3>1. Kicks(l) \subseteq 1 .. Len(chain) /\ Kicks(l) \subseteq Nat
      BY <1>2 DEF Kicks
    <3>2. KVStore!Min(Kicks(l)) \in Kicks(l)
      BY <2>3, <3>1, KVStore!MinOfNaturals, StoreSizeAssumption, StoreDataAssumption, StoreSchemeAssumption
    <3>3. Min(Kicks(l)) \in 1 .. Len(chain) /\ chain[Min(Kicks(l))].loc = l
      BY <3>1, <3>2, SameMin DEF Kicks
    <3>4. Committed[l] = chain[Min(Kicks(l))].fp
      BY <2>3 DEF Committed
    <3> QED
      BY <1>3, <2>1, <3>3, <3>4
  <2> QED
    BY <2>2, <2>3
<1>5. {l \in Locs : Committed[l] # 0} = KVStore!Occupied(EntriesOf(table))
  BY <1>4, SameSets DEF KVStore!Occupied
<1> QED
  BY <1>1, <1>5, SameCardinality DEF KVStore!CountMatchesTable, CountMatchesTable

\* num_items counts the occupied slots of the table, through kick chains that
\* fail or succeed (num_items of CuckooFilter, "maintained exactly").
THEOREM FilterCount == Spec => []CountMatchesTable
BY FilterInvariance, CountOfCommitted, PTL

-----------------------------------------------------------------------------
\* How often the store holds the class of an item.
Held == KVStore!BagOf(KVStore!Committed)

PairOfItem(i) == <<ClassOf(i), "present">>

\* The class of an item is the class of a key.
LEMMA ClassOfItem ==
  ASSUME NEW i \in Items
  PROVE  /\ KVStore!KeyClass[i] = ClassOf(i)
         /\ ClassOf(i) \in KVStore!Classes
         /\ PairOfItem(i) \in KVStore!Pairs
<1>1. KVStore!KeyClass[i] = ClassOf(i)
  <2>1. Hash[i].indices \in [Positions -> Buckets]
    BY HashOfItem
  <2> QED
    BY <2>1, RangeIsSet DEF KVStore!KeyClass, ClassOf
<1>2. KVStore!KeyClass[i] \in KVStore!Classes /\ <<KVStore!KeyClass[i], "present">> \in KVStore!Pairs
  BY KVStore!KeyPairType, StoreSizeAssumption, StoreDataAssumption, StoreSchemeAssumption
<1> QED
  BY <1>1, <1>2 DEF PairOfItem

\* The members of an item's class, counted from its candidates, are the copies the
\* store counts from where they lie.
LEMMA MembersAreCopies ==
  ASSUME FilterInv, NEW i \in Items
  PROVE  Members(ClassOf(i)) = KVStore!Copies(KVStore!Committed, ClassOf(i), "present")
<1> DEFINE f == Hash[i].fp
           S == SetOf(Hash[i].indices)
<1>1. /\ f \in Fingerprints /\ f # 0 /\ Hash[i].indices \in [Positions -> Buckets]
      /\ S \subseteq Buckets
  BY HashOfItem DEF SetOf
<1>2. ASSUME NEW l \in Locs
      PROVE  /\ KVStore!Committed[l].val = "present" /\ KVStore!Committed[l].fp = Committed[l]
             /\ l[1] \in Buckets
  BY SameCommitted DEF EntriesOf, Entry, Locs, Buckets
<1>3. ASSUME NEW b \in Buckets
      PROVE  /\ KVStore!ClassOf[<<b, f>>] = <<f, SetOf(Candidates[b][f])>>
             /\ b \in SetOf(Candidates[b][f])
             /\ b \in S => SetOf(Candidates[b][f]) = S
  <2>1. Candidates[b][f] \in [Positions -> Buckets] /\ AllOf[<<b, f>>] = Candidates[b][f]
    BY <1>1, Contract DEF AllOf, Buckets
  <2>2. KVStore!ClassOf[<<b, f>>] = <<f, KVStore!Range(AllOf[<<b, f>>])>>
    BY <1>1, SameSets DEF KVStore!ClassOf
  <2>3. KVStore!Range(AllOf[<<b, f>>]) = SetOf(Candidates[b][f])
    BY <2>1, RangeIsSet
  <2>4. b \in SetOf(Candidates[b][f])
    BY <1>1, Contract DEF Buckets
  <2>5. b \in S => SetOf(Candidates[b][f]) = S
    BY Contract
  <2> QED
    BY <2>2, <2>3, <2>4, <2>5
<1>4. ASSUME NEW b \in Buckets, NEW g \in Fingerprints, g # f
      PROVE  KVStore!ClassOf[<<b, g>>] # <<f, S>>
  BY <1>4, SameSets DEF KVStore!ClassOf
<1>5. ASSUME NEW l \in Locs
      PROVE  l \in Members(ClassOf(i)) <=> l \in KVStore!Copies(KVStore!Committed, ClassOf(i), "present")
  <2>1. l \in Members(ClassOf(i)) <=> l[1] \in S /\ Committed[l] = f
    BY DEF Members, ClassOf, Locs
  <2>2. l \in KVStore!Copies(KVStore!Committed, ClassOf(i), "present")
          <=> Committed[l] # 0 /\ KVStore!ClassOf[<<l[1], Committed[l]>>] = <<f, S>>
    BY <1>2, SameSets DEF KVStore!Copies, ClassOf
  <2>3. Committed[l] # 0 => Committed[l] \in Fingerprints
    BY SameCommitted DEF Marks
  <2> HIDE DEF f, S
  <2>4. CASE Committed[l] = f
    <3>1. KVStore!ClassOf[<<l[1], f>>] = <<f, S>> <=> SetOf(Candidates[l[1]][f]) = S
      BY <1>2, <1>3
    <3>2. SetOf(Candidates[l[1]][f]) = S <=> l[1] \in S
      BY <1>2, <1>3
    <3> QED
      BY <1>1, <2>1, <2>2, <2>4, <3>1, <3>2
  <2>5. CASE Committed[l] # f
    BY <1>2, <1>4, <2>1, <2>2, <2>3, <2>5
  <2> QED
    BY <2>4, <2>5
<1>6. Members(ClassOf(i)) \subseteq Locs
  BY <1>1 DEF Members, ClassOf, Locs, Buckets
<1>7. KVStore!Copies(KVStore!Committed, ClassOf(i), "present") \subseteq Locs
  BY SameSets DEF KVStore!Copies
<1> QED
  BY <1>5, <1>6, <1>7

\* The pairs and the bag of ImplementsBag.
ItemPairs == {ClassOf(i) : i \in Items} \X {"present"}

BagNow == [cv \in ItemPairs |-> Cardinality(Members(cv[1]))]

\* The filter's bag is the store's, on the classes of the items.
LEMMA BagIsHeld ==
  FilterInv => /\ Held \in [KVStore!Pairs -> Nat]
               /\ ItemPairs \subseteq KVStore!Pairs
               /\ BagNow = [p \in ItemPairs |-> Held[p]]
<1> SUFFICES ASSUME FilterInv
             PROVE  /\ Held \in [KVStore!Pairs -> Nat]
                    /\ ItemPairs \subseteq KVStore!Pairs
                    /\ BagNow = [p \in ItemPairs |-> Held[p]]
  OBVIOUS
<1>1. /\ Held \in [KVStore!Pairs -> Nat]
      /\ \A c \in KVStore!Classes, v \in {"present"} :
           Held[<<c, v>>] = Cardinality(KVStore!Copies(KVStore!Committed, c, v))
  <2>1. /\ Held \in [KVStore!Pairs -> Nat]
        /\ \A c \in KVStore!Classes, v \in {"present"} :
             Held[<<c, v>>] = KVStore!Cardinality(KVStore!Copies(KVStore!Committed, c, v))
    BY KVStore!BagType, StoreSizeAssumption, StoreDataAssumption, StoreSchemeAssumption DEF Held
  <2> QED
    BY <2>1, SameCardinality
<1>2. ItemPairs \subseteq KVStore!Pairs
  BY ClassOfItem DEF ItemPairs, PairOfItem
<1>3. ASSUME NEW p \in ItemPairs PROVE Cardinality(Members(p[1])) = Held[p]
  <2>1. PICK i \in Items : p = <<ClassOf(i), "present">>
    BY DEF ItemPairs
  <2>2. Members(ClassOf(i)) = KVStore!Copies(KVStore!Committed, ClassOf(i), "present")
    BY MembersAreCopies
  <2>3. ClassOf(i) \in KVStore!Classes
    BY ClassOfItem
  <2> QED
    BY <1>1, <2>1, <2>2, <2>3
<1> QED
  BY <1>1, <1>2, <1>3 DEF BagNow

\* And in the next state.
LEMMA BagIsHeldNext ==
  FilterInv' => /\ Held' \in [KVStore!Pairs -> Nat]
                /\ BagNow' = [p \in ItemPairs |-> Held'[p]]
<1>1. FilterInv' => (Held \in [KVStore!Pairs -> Nat])' /\ (BagNow = [p \in ItemPairs |-> Held[p]])'
  BY BagIsHeld, PTL
<1> QED
  BY <1>1

\* So a step of the store's bag is a step of the filter's.
LEMMA RestrictedStep ==
  ASSUME FilterInv, FilterInv', [KVStore!Abstract!Next]_(KVStore!Abstract!vars)
  PROVE  [Bag!Next]_(Bag!vars)
<1> DEFINE KC == [i \in Items |-> ClassOf(i)]
<1>1. /\ Held \in [KVStore!Pairs -> Nat] /\ Held' \in [KVStore!Pairs -> Nat]
      /\ ItemPairs \subseteq KVStore!Pairs
      /\ BagNow = [p \in ItemPairs |-> Held[p]]
      /\ BagNow' = [p \in ItemPairs |-> Held'[p]]
  BY BagIsHeld, BagIsHeldNext
<1>2. ASSUME NEW i \in Items
      PROVE  /\ KVStore!KeyClass[i] = ClassOf(i) /\ KC[i] = ClassOf(i)
             /\ PairOfItem(i) \in ItemPairs
             /\ Held[PairOfItem(i)] \in Nat /\ BagNow[PairOfItem(i)] = Held[PairOfItem(i)]
  <2>1. KVStore!KeyClass[i] = ClassOf(i) /\ PairOfItem(i) \in KVStore!Pairs
    BY ClassOfItem
  <2>2. PairOfItem(i) \in ItemPairs
    BY DEF PairOfItem, ItemPairs
  <2> HIDE DEF BagNow, ItemPairs, PairOfItem, Held
  <2> QED
    BY <1>1, <2>1, <2>2
<1>3. ASSUME Held' = Held, result' = result PROVE UNCHANGED Bag!vars
  <2>1. BagNow' = BagNow
    BY <1>1, <1>3
  <2> QED
    BY <1>3, <2>1 DEF Bag!vars, BagNow, ItemPairs
<1>4. ASSUME NEW i \in Items, Held' = [Held EXCEPT ![PairOfItem(i)] = @ + 1]
      PROVE  BagNow' = [BagNow EXCEPT ![PairOfItem(i)] = @ + 1]
  <2> HIDE DEF BagNow, ItemPairs, PairOfItem, Held
  <2> QED
    BY <1>1, <1>2, <1>4
<1>5. ASSUME NEW i \in Items, Held' = [Held EXCEPT ![PairOfItem(i)] = @ - 1]
      PROVE  BagNow' = [BagNow EXCEPT ![PairOfItem(i)] = @ - 1]
  <2> HIDE DEF BagNow, ItemPairs, PairOfItem, Held
  <2> QED
    BY <1>1, <1>2, <1>5
<1>6. ASSUME NEW i \in Items
      PROVE  Bag!Stored(i) = KVStore!Abstract!Stored(i)
  <2>1. Bag!Stored(i) = {v \in {"present"} : BagNow[<<ClassOf(i), v>>] > 0}
    BY DEF Bag!Stored, BagNow, ItemPairs
  <2>2. KVStore!Abstract!Stored(i) = {v \in {"present"} : Held[<<ClassOf(i), v>>] > 0}
    BY <1>2 DEF KVStore!Abstract!Stored, Held
  <2> QED
    BY <1>2, <2>1, <2>2 DEF PairOfItem
<1>7. ASSUME NEW i \in Items, NEW v \in {"present"}, KVStore!Abstract!Insert(i, v)
      PROVE  Bag!Insert(i, v)
  <2>1. result' = "Ok" /\ Held' = [Held EXCEPT ![PairOfItem(i)] = @ + 1]
    BY <1>2, <1>7 DEF KVStore!Abstract!Insert, Held, PairOfItem
  <2>2. BagNow' = [BagNow EXCEPT ![PairOfItem(i)] = @ + 1]
    BY <1>4, <2>1
  <2> QED
    BY <1>2, <2>1, <2>2 DEF Bag!Insert, BagNow, ItemPairs, PairOfItem
<1>8. ASSUME NEW i \in Items, KVStore!Abstract!Delete(i)
      PROVE  Bag!Delete(i)
  <2>1. CASE /\ result' = "Ok" /\ "present" \in KVStore!Abstract!Stored(i)
             /\ Held' = [Held EXCEPT ![PairOfItem(i)] = @ - 1]
    <3>1. BagNow' = [BagNow EXCEPT ![PairOfItem(i)] = @ - 1]
      BY <1>5, <2>1
    <3>2. "present" \in Bag!Stored(i)
      BY <1>6, <2>1
    <3> QED
      BY <1>2, <2>1, <3>1, <3>2 DEF Bag!Delete, BagNow, ItemPairs, PairOfItem
  <2>2. CASE result' = "NotFound" /\ KVStore!Abstract!Stored(i) = {} /\ Held' = Held
    <3>1. BagNow' = BagNow
      BY <1>1, <2>2
    <3>2. Bag!Stored(i) = {}
      BY <1>6, <2>2
    <3> QED
      BY <2>2, <3>1, <3>2 DEF Bag!Delete, BagNow, ItemPairs
  <2>3. KVStore!Abstract!Stored(i) \subseteq {"present"}
    BY DEF KVStore!Abstract!Stored
  <2> QED
    BY <1>2, <1>8, <2>1, <2>2, <2>3 DEF KVStore!Abstract!Delete, Held, PairOfItem
<1>9. ASSUME NEW i \in Items, NEW new \in {"present"}, KVStore!Abstract!Update(i, new)
      PROVE  Bag!Update(i, new)
  <2>1. CASE /\ result' = "Ok" /\ "present" \in KVStore!Abstract!Stored(i)
             /\ Held' = [[Held EXCEPT ![PairOfItem(i)] = @ - 1] EXCEPT ![PairOfItem(i)] = @ + 1]
    <3>1. BagNow' = [[BagNow EXCEPT ![PairOfItem(i)] = @ - 1] EXCEPT ![PairOfItem(i)] = @ + 1]
      <4> HIDE DEF BagNow, ItemPairs, PairOfItem, Held
      <4> QED
        BY <1>1, <1>2, <2>1
    <3>2. "present" \in Bag!Stored(i) /\ new = "present"
      BY <1>6, <2>1
    <3> QED
      BY <1>2, <2>1, <3>1, <3>2 DEF Bag!Update, BagNow, ItemPairs, PairOfItem
  <2>2. CASE result' = "NotFound" /\ KVStore!Abstract!Stored(i) = {} /\ Held' = Held
    <3>1. BagNow' = BagNow
      BY <1>1, <2>2
    <3>2. Bag!Stored(i) = {}
      BY <1>6, <2>2
    <3> QED
      BY <2>2, <3>1, <3>2 DEF Bag!Update, BagNow, ItemPairs
  <2>3. KVStore!Abstract!Stored(i) \subseteq {"present"}
    BY DEF KVStore!Abstract!Stored
  <2> QED
    BY <1>2, <1>9, <2>1, <2>2, <2>3 DEF KVStore!Abstract!Update, Held, PairOfItem
<1>10. ASSUME KVStore!Abstract!InsertFails PROVE Bag!InsertFails
  BY <1>1, <1>10 DEF KVStore!Abstract!InsertFails, Bag!InsertFails, Held, BagNow, ItemPairs
<1>11. ASSUME KVStore!Abstract!RejectLength PROVE Bag!RejectLength
  BY <1>1, <1>11 DEF KVStore!Abstract!RejectLength, Bag!RejectLength, Held, BagNow, ItemPairs
<1>12. UNCHANGED KVStore!Abstract!vars => Held' = Held /\ result' = result
  BY DEF KVStore!Abstract!vars, Held
<1> QED
  BY <1>3, <1>7, <1>8, <1>9, <1>10, <1>11, <1>12 DEF KVStore!Abstract!Next, Bag!Next

\* Every step of the filter is a step of its bag, or leaves it alone.
LEMMA FilterStepBag ==
  FilterInv /\ FilterInv' /\ KVStore!InFlight /\ [Next]_vars
    => KVStore!InFlight' /\ [Bag!Next]_(Bag!vars)
<1> SUFFICES ASSUME FilterInv, FilterInv', KVStore!InFlight, [Next]_vars
             PROVE  KVStore!InFlight' /\ [Bag!Next]_(Bag!vars)
  OBVIOUS
<1>1. [KVStore!Next]_(KVStore!vars)
  BY StepIsStore
<1>2. KVStore!InFlight' /\ [KVStore!Abstract!Next]_(KVStore!Abstract!vars)
  BY <1>1, KVStore!StepBag, StoreSizeAssumption, StoreDataAssumption, StoreSchemeAssumption DEF FilterInv
<1> QED
  BY <1>2, RestrictedStep

\* The new filter is the empty bag.
LEMMA FilterInitBag == Init => KVStore!InFlight /\ Bag!Init
<1> SUFFICES ASSUME Init PROVE KVStore!InFlight /\ Bag!Init
  OBVIOUS
<1>1. FilterInv
  BY FilterInit, KVStore!InitIInv, StoreSizeAssumption, StoreDataAssumption, StoreSchemeAssumption DEF FilterInv
<1>2. KVStore!InFlight /\ KVStore!Abstract!Init
  BY FilterInit, KVStore!InitBag, StoreSizeAssumption, StoreDataAssumption, StoreSchemeAssumption
<1>3. \A p \in KVStore!Pairs : Held[p] = 0
  BY <1>2 DEF KVStore!Abstract!Init, KVStore!Abstract!Pairs, KVStore!Pairs, Held
<1>4. BagNow = [p \in ItemPairs |-> 0]
  BY <1>1, <1>3, BagIsHeld
<1> QED
  BY <1>2, <1>4 DEF Bag!Init, Bag!Pairs, BagNow, ItemPairs, KVStore!Abstract!Init

\* The filter implements the bag of its classes: whatever it kicks, insert adds
\* one member or, failing, none; delete takes one of the item's class, and
\* reports NotFound only when there is none (insert and delete of CuckooFilter).
THEOREM FilterRefinesBag == Spec => ImplementsBag
<1>1. Init => KVStore!InFlight /\ Bag!Init
  BY FilterInitBag
<1>2. FilterInv /\ FilterInv' /\ KVStore!InFlight /\ [Next]_vars
        => KVStore!InFlight' /\ [Bag!Next]_(Bag!vars)
  BY FilterStepBag
<1> QED
  BY <1>1, <1>2, FilterInvariance, PTL DEF Spec, ImplementsBag, Bag!Spec

-----------------------------------------------------------------------------
(* No false negatives.                                                     *)

\* One token for each time an item of class c is stored.
TokensOf(st, c) ==
  {t \in Items \X (Nat \ {0}) : ClassOf(t[1]) = c /\ t[2] <= st[t[1]]}

Tokens(c) == TokensOf(stored, c)

\* What the table holds of a class is what the application stored of it.
Counted ==
  ~misused => \A i \in Items : /\ IsFiniteSet(Tokens(ClassOf(i)))
                               /\ Held[PairOfItem(i)] = Cardinality(Tokens(ClassOf(i)))

\* The table and the fingerprint in flight are the bag with the item of the call.
Flight ==
  pc = "kicking" =>
    KVStore!Plus(KVStore!BagOf(EntriesOf(table)), KVStore!PairOf(cur_index, Entry(cur_fingerprint)))
      = KVStore!Plus(Held, PairOfItem(inserting[1]))

\* One more of an item is one more of its class, and of no other.
LEMMA AddToken ==
  ASSUME NEW st \in [Items -> Nat], NEW i \in Items, NEW j \in Items,
         IsFiniteSet(TokensOf(st, ClassOf(j)))
  PROVE  /\ IsFiniteSet(TokensOf([st EXCEPT ![i] = @ + 1], ClassOf(j)))
         /\ Cardinality(TokensOf([st EXCEPT ![i] = @ + 1], ClassOf(j)))
              = Cardinality(TokensOf(st, ClassOf(j))) + (IF ClassOf(j) = ClassOf(i) THEN 1 ELSE 0)
<1> DEFINE c   == ClassOf(j)
           st2 == [st EXCEPT ![i] = @ + 1]
           t   == <<i, st[i] + 1>>
<1>1. /\ st[i] \in Nat /\ st2 \in [Items -> Nat] /\ st2[i] = st[i] + 1
      /\ \A k \in Items : k # i => st2[k] = st[k]
  OBVIOUS
<1>2. Cardinality(TokensOf(st, c)) \in Nat
  BY FS_CardinalityType
<1> HIDE DEF st2
<1>3. CASE c = ClassOf(i)
  <2>1. TokensOf(st2, c) = TokensOf(st, c) \cup {t}
    <3>1. ASSUME NEW u \in Items \X (Nat \ {0})
          PROVE  u[2] <= st2[u[1]] <=> u[2] <= st[u[1]] \/ u = t
      <4>1. CASE u[1] = i
        BY <1>1, <4>1
      <4>2. CASE u[1] # i
        BY <1>1, <4>2
      <4> QED
        BY <4>1, <4>2
    <3>2. t \in Items \X (Nat \ {0}) /\ ClassOf(t[1]) = c
      BY <1>1, <1>3
    <3> HIDE DEF t, c
    <3> QED
      BY <3>1, <3>2 DEF TokensOf
  <2>2. t \notin TokensOf(st, c)
    BY <1>1 DEF TokensOf
  <2> HIDE DEF t, c
  <2>3. IsFiniteSet(TokensOf(st2, c))
        /\ Cardinality(TokensOf(st2, c)) = Cardinality(TokensOf(st, c)) + 1
    <3>1. IsFiniteSet(TokensOf(st, c))
      BY DEF c
    <3> QED
      BY <2>1, <2>2, <3>1, FS_AddElement
  <2> QED
    BY <1>3, <2>3 DEF st2, c
<1>4. CASE c # ClassOf(i)
  <2>1. TokensOf(st2, c) = TokensOf(st, c)
    <3>1. ASSUME NEW u \in Items \X (Nat \ {0}), ClassOf(u[1]) = c
          PROVE  st2[u[1]] = st[u[1]]
      <4>1. u[1] # i
        BY <1>4, <3>1
      <4> QED
        BY <1>1, <4>1
    <3> HIDE DEF c
    <3> QED
      BY <3>1 DEF TokensOf
  <2> QED
    BY <1>2, <1>4, <2>1 DEF st2
<1> QED
  BY <1>3, <1>4

\* What is decremented is one more again.
LEMMA BackAgain ==
  ASSUME NEW S, NEW f \in [S -> Nat], NEW x \in S
  PROVE  f = [[f EXCEPT ![x] = @ - 1] EXCEPT ![x] = @ + 1]
<1>1. f[x] \in Nat /\ (f[x] - 1) + 1 = f[x]
  OBVIOUS
<1> DEFINE g == [f EXCEPT ![x] = f[x] - 1]
           h == [g EXCEPT ![x] = g[x] + 1]
<1>2. g = [y \in S |-> IF y = x THEN f[x] - 1 ELSE f[y]]
  OBVIOUS
<1>3. g[x] + 1 = f[x] /\ \A y \in S : y # x => g[y] = f[y]
  BY <1>1, <1>2
<1>4. h = [y \in S |-> IF y = x THEN g[x] + 1 ELSE g[y]]
  BY <1>2
<1> HIDE DEF g
<1>5. \A y \in S : h[y] = f[y]
  BY <1>3, <1>4
<1>6. h = f
  BY <1>4, <1>5
<1> QED
  BY <1>6 DEF g

\* One less of an item is one less of its class, and of no other.
LEMMA DropToken ==
  ASSUME NEW st \in [Items -> Nat], NEW i \in Items, NEW j \in Items, st[i] # 0,
         NEW less, less = [st EXCEPT ![i] = @ - 1],
         IsFiniteSet(TokensOf(st, ClassOf(j)))
  PROVE  /\ IsFiniteSet(TokensOf(less, ClassOf(j)))
         /\ Cardinality(TokensOf(less, ClassOf(j))) \in Nat
         /\ Cardinality(TokensOf(st, ClassOf(j)))
              = Cardinality(TokensOf(less, ClassOf(j)))
                  + (IF ClassOf(j) = ClassOf(i) THEN 1 ELSE 0)
<1> DEFINE c == ClassOf(j)
<1>1. less \in [Items -> Nat] /\ st = [less EXCEPT ![i] = @ + 1]
      /\ \A k \in Items : less[k] <= st[k]
  <2>1. st[i] \in Nat /\ st[i] - 1 \in Nat
    OBVIOUS
  <2>2. less \in [Items -> Nat] /\ less[i] = st[i] - 1
        /\ \A k \in Items : k # i => less[k] = st[k]
    BY <2>1
  <2>3. st = [less EXCEPT ![i] = @ + 1]
    BY BackAgain, Zenon
  <2>4. \A k \in Items : st[k] \in Nat
    OBVIOUS
  <2> QED
    BY <2>1, <2>2, <2>3, <2>4
<1>2. IsFiniteSet(TokensOf(less, c))
  <2>1. TokensOf(less, c) \subseteq TokensOf(st, c)
    <3>1. ASSUME NEW u \in Items \X (Nat \ {0}), u[2] <= less[u[1]]
          PROVE  u[2] <= st[u[1]]
      BY <1>1, <3>1
    <3> QED
      BY <3>1 DEF TokensOf
  <2> QED
    BY <2>1, FS_Subset
<1>3. /\ Cardinality(TokensOf(less, c)) \in Nat
      /\ Cardinality(TokensOf(st, c)) = Cardinality(TokensOf(less, c))
                                          + (IF c = ClassOf(i) THEN 1 ELSE 0)
  <2>1. Cardinality(TokensOf([less EXCEPT ![i] = @ + 1], c))
          = Cardinality(TokensOf(less, c)) + (IF c = ClassOf(i) THEN 1 ELSE 0)
    BY <1>1, <1>2, AddToken
  <2>2. Cardinality(TokensOf(less, c)) \in Nat
    BY <1>2, FS_CardinalityType
  <2>3. TokensOf([less EXCEPT ![i] = @ + 1], c) = TokensOf(st, c)
    BY <1>1
  <2> QED
    BY <2>1, <2>2, <2>3
<1> QED
  BY <1>2, <1>3

\* Two items have one pair just when they have one class.
LEMMA SamePair ==
  ASSUME NEW bag \in [KVStore!Pairs -> Nat], NEW i \in Items, NEW j \in Items
  PROVE  /\ bag[PairOfItem(j)] \in Nat
         /\ [bag EXCEPT ![PairOfItem(i)] = @ + 1][PairOfItem(j)]
              = bag[PairOfItem(j)] + (IF ClassOf(j) = ClassOf(i) THEN 1 ELSE 0)
<1>1. PairOfItem(i) \in KVStore!Pairs /\ PairOfItem(j) \in KVStore!Pairs
  BY ClassOfItem
<1>2. PairOfItem(i) = PairOfItem(j) <=> ClassOf(j) = ClassOf(i)
  BY DEF PairOfItem
<1>3. bag[PairOfItem(i)] \in Nat /\ bag[PairOfItem(j)] \in Nat
  BY <1>1
<1> HIDE DEF PairOfItem
<1> QED
  BY <1>1, <1>2, <1>3

\* An insertion that ends adds one to both.
LEMMA InsertCounted ==
  ASSUME Counted, Held \in [KVStore!Pairs -> Nat], stored \in [Items -> Nat], NEW i \in Items,
         Held' = [Held EXCEPT ![PairOfItem(i)] = @ + 1],
         stored' = IF misused THEN stored ELSE [stored EXCEPT ![i] = @ + 1],
         misused' = misused
  PROVE  Counted'
<1> SUFFICES ASSUME ~misused, NEW j \in Items
             PROVE  /\ IsFiniteSet(TokensOf(stored', ClassOf(j)))
                    /\ Held'[PairOfItem(j)] = Cardinality(TokensOf(stored', ClassOf(j)))
  BY DEF Counted, Tokens
<1>1. IsFiniteSet(TokensOf(stored, ClassOf(j)))
      /\ Held[PairOfItem(j)] = Cardinality(TokensOf(stored, ClassOf(j)))
  BY DEF Counted, Tokens
<1>2. stored' = [stored EXCEPT ![i] = @ + 1]
  OBVIOUS
<1>3. /\ IsFiniteSet(TokensOf([stored EXCEPT ![i] = @ + 1], ClassOf(j)))
      /\ Cardinality(TokensOf([stored EXCEPT ![i] = @ + 1], ClassOf(j)))
           = Cardinality(TokensOf(stored, ClassOf(j))) + (IF ClassOf(j) = ClassOf(i) THEN 1 ELSE 0)
  BY <1>1, AddToken
<1>4. [Held EXCEPT ![PairOfItem(i)] = @ + 1][PairOfItem(j)]
        = Held[PairOfItem(j)] + (IF ClassOf(j) = ClassOf(i) THEN 1 ELSE 0)
  BY SamePair
<1> HIDE DEF Held
<1> QED
  BY <1>1, <1>2, <1>3, <1>4

\* A deletion takes one from both, if the item was stored.
LEMMA DeleteCounted ==
  ASSUME Counted, Held \in [KVStore!Pairs -> Nat], Held' \in [KVStore!Pairs -> Nat],
         stored \in [Items -> Nat], NEW i \in Items,
         Held' = [Held EXCEPT ![PairOfItem(i)] = @ - 1],
         misused' = (misused \/ stored[i] = 0),
         stored' = IF misused' THEN [j \in Items |-> 0] ELSE [stored EXCEPT ![i] = @ - 1]
  PROVE  Counted'
<1> SUFFICES ASSUME ~misused', NEW j \in Items
             PROVE  /\ IsFiniteSet(TokensOf(stored', ClassOf(j)))
                    /\ Held'[PairOfItem(j)] = Cardinality(TokensOf(stored', ClassOf(j)))
  BY DEF Counted, Tokens
<1>1. ~misused /\ stored[i] # 0 /\ stored' = [stored EXCEPT ![i] = @ - 1]
  OBVIOUS
<1>2. IsFiniteSet(TokensOf(stored, ClassOf(j)))
      /\ Held[PairOfItem(j)] = Cardinality(TokensOf(stored, ClassOf(j)))
  BY <1>1 DEF Counted, Tokens
<1>3. /\ IsFiniteSet(TokensOf(stored', ClassOf(j)))
      /\ Cardinality(TokensOf(stored', ClassOf(j))) \in Nat
      /\ Cardinality(TokensOf(stored, ClassOf(j)))
           = Cardinality(TokensOf(stored', ClassOf(j))) + (IF ClassOf(j) = ClassOf(i) THEN 1 ELSE 0)
  BY <1>1, <1>2, DropToken
<1>4. /\ Held'[PairOfItem(j)] \in Nat
      /\ Held[PairOfItem(j)] = Held'[PairOfItem(j)] + (IF ClassOf(j) = ClassOf(i) THEN 1 ELSE 0)
  <2> DEFINE H == Held
             G == Held'
  <2>1. PairOfItem(i) \in KVStore!Pairs
    BY ClassOfItem
  <2>2. H \in [KVStore!Pairs -> Nat] /\ G \in [KVStore!Pairs -> Nat]
        /\ G = [H EXCEPT ![PairOfItem(i)] = @ - 1]
    OBVIOUS
  <2> HIDE DEF H, G, PairOfItem
  <2>3. H = [G EXCEPT ![PairOfItem(i)] = @ + 1]
    BY <2>1, <2>2, BackAgain, Zenon
  <2>4. G[PairOfItem(j)] \in Nat
        /\ [G EXCEPT ![PairOfItem(i)] = @ + 1][PairOfItem(j)]
              = G[PairOfItem(j)] + (IF ClassOf(j) = ClassOf(i) THEN 1 ELSE 0)
    BY <2>2, SamePair
  <2>5. H[PairOfItem(j)] = G[PairOfItem(j)] + (IF ClassOf(j) = ClassOf(i) THEN 1 ELSE 0)
    BY <2>3, <2>4
  <2> QED
    BY <2>4, <2>5 DEF H, G
<1> HIDE DEF Held
<1> QED
  BY <1>1, <1>2, <1>3, <1>4

\* Nothing is stored at first.
LEMMA InitCounted == Init => Counted /\ Flight
<1> SUFFICES ASSUME Init PROVE Counted /\ Flight
  OBVIOUS
<1>1. ASSUME NEW i \in Items
      PROVE  /\ IsFiniteSet(Tokens(ClassOf(i))) /\ Cardinality(Tokens(ClassOf(i))) = 0
             /\ Held[PairOfItem(i)] = 0
  <2>1. Tokens(ClassOf(i)) = {}
    BY DEF Tokens, TokensOf, Init
  <2>2. KVStore!Abstract!Init
    BY FilterInit, KVStore!InitBag, StoreSizeAssumption, StoreDataAssumption, StoreSchemeAssumption
  <2>3. Held[PairOfItem(i)] = 0
    BY <2>2, ClassOfItem DEF KVStore!Abstract!Init, KVStore!Abstract!Pairs, KVStore!Pairs, Held
  <2> QED
    BY <2>1, <2>3, FS_EmptySet
<1>2. Counted
  BY <1>1 DEF Counted
<1> QED
  BY <1>2 DEF Init, Flight

\* A step that leaves the table and the chain leaves the bag.
LEMMA SameHeld == UNCHANGED <<table, chain>> => Held' = Held
<1>1. UNCHANGED <<table, chain>> => EntriesOf(table)' = EntriesOf(table) /\ StashesOf(chain)' = StashesOf(chain)
  BY DEF EntriesOf, StashesOf
<1>2. UNCHANGED <<table, chain>> => KVStore!Committed' = KVStore!Committed
  BY <1>1 DEF KVStore!Committed, KVStore!TakenBack, KVStore!Stashes
<1> QED
  BY <1>2 DEF Held

\* Nothing is counted, and nothing to count, in a step that leaves the bag.
LEMMA QuietCounted == Counted /\ Held' = Held /\ UNCHANGED <<stored, misused>> => Counted'
BY DEF Counted, Tokens, TokensOf

\* The two counts agree after every step, and the fingerprint in flight is the one
\* by which the table differs from them.
LEMMA NextCounted ==
  FilterInv /\ FilterInv' /\ Counted /\ Flight /\ [Next]_vars => Counted' /\ Flight'
<1> SUFFICES ASSUME FilterInv, FilterInv', Counted, Flight, [Next]_vars
             PROVE  Counted' /\ Flight'
  OBVIOUS
<1>1. /\ Held \in [KVStore!Pairs -> Nat] /\ Held' \in [KVStore!Pairs -> Nat]
      /\ stored \in [Items -> Nat]
      /\ KVStore!IInv /\ KVStore!IInv'
  BY BagIsHeld, BagIsHeldNext DEF FilterInv, FilterType
<1>2. ASSUME NEW i \in Items, InsertDirect(i) PROVE Counted' /\ Flight'
  <2>1. KVStore!InsertDirect(i, "present")
    BY <1>2, InsertDirectIsStore
  <2>2. Held' = KVStore!Plus(Held, <<KVStore!KeyClass[i], "present">>)
    BY <1>1, <2>1, KVStore!InsertDirectBag, StoreSizeAssumption, StoreDataAssumption, StoreSchemeAssumption
    DEF Held
  <2>3. Held' = [Held EXCEPT ![PairOfItem(i)] = @ + 1]
    BY <2>2, ClassOfItem DEF KVStore!Plus, PairOfItem
  <2>4. /\ stored' = IF misused THEN stored ELSE [stored EXCEPT ![i] = @ + 1]
        /\ misused' = misused /\ pc' = "ready"
    BY <1>2 DEF InsertDirect
  <2>5. Counted'
    BY <1>1, <2>3, <2>4, InsertCounted
  <2> QED
    BY <2>4, <2>5 DEF Flight
<1>3. ASSUME NEW i \in Items, InsertStartsKicking(i) PROVE Counted' /\ Flight'
  <2>1. KVStore!InsertStartsKicking(i, "present")
    BY <1>3, InsertStartsIsStore
  <2>2. /\ KVStore!Plus(KVStore!BagOf(EntriesOf(table)'), KVStore!PairOf(cur_index', Entry(cur_fingerprint)'))
             = KVStore!Plus(KVStore!BagOf(KVStore!Committed'), <<KVStore!KeyClass[i], "present">>)
        /\ KVStore!Committed' = KVStore!Committed
    BY <1>1, <2>1, KVStore!StartKickingBag, StoreSizeAssumption, StoreDataAssumption, StoreSchemeAssumption
  <2>3. inserting' = <<i>> /\ UNCHANGED <<stored, misused>>
    BY <1>3 DEF InsertStartsKicking
  <2>4. Counted'
    BY <2>2, <2>3, QuietCounted DEF Held
  <2>5. PairOfItem(inserting'[1]) = <<KVStore!KeyClass[i], "present">>
    BY <2>3, ClassOfItem DEF PairOfItem
  <2>6. PairOfItem(inserting[1])' = <<KVStore!KeyClass[i], "present">>
    BY <2>5 DEF PairOfItem, ClassOf
  <2> QED
    BY <2>2, <2>4, <2>6 DEF Flight, Held
<1>4. ASSUME NEW i \in Items, Delete(i) PROVE Counted' /\ Flight'
  <2>1. KVStore!Delete(i)
    BY <1>4, DeleteIsStore
  <2>2. KVStore!Abstract!Delete(i)
    BY <1>1, <2>1, KVStore!DeleteBag, StoreSizeAssumption, StoreDataAssumption, StoreSchemeAssumption
  <2>3. Flight'
    BY <1>4 DEF Delete, Flight
  <2>4. CASE Contain(i)
    <3>1. /\ result' = "Ok"
          /\ misused' = (misused \/ stored[i] = 0)
          /\ stored' = IF misused' THEN [j \in Items |-> 0] ELSE [stored EXCEPT ![i] = @ - 1]
      BY <1>4, <2>4 DEF Delete
    <3>2. PICK v \in KVStore!Abstract!Stored(i) :
            KVStore!BagOf(KVStore!Committed)'
              = [KVStore!BagOf(KVStore!Committed) EXCEPT ![<<KVStore!KeyClass[i], v>>] = @ - 1]
      BY <2>2, <3>1 DEF KVStore!Abstract!Delete
    <3>3. v = "present"
      BY <3>2 DEF KVStore!Abstract!Stored
    <3>4. Held' = [Held EXCEPT ![PairOfItem(i)] = @ - 1]
      BY <3>2, <3>3, ClassOfItem DEF Held, PairOfItem
    <3>5. Counted'
      BY <1>1, <3>1, <3>4, DeleteCounted
    <3> QED
      BY <2>3, <3>5
  <2>5. CASE ~Contain(i)
    <3>1. UNCHANGED <<table, chain, stored, misused>>
      BY <1>4, <2>5 DEF Delete, loop
    <3> QED
      BY <2>3, <3>1, SameHeld, QuietCounted
  <2> QED
    BY <2>4, <2>5
<1>5. CASE Kick
  <2> DEFINE i == inserting[1]
  <2>1. /\ pc = "kicking" /\ misused' = misused /\ KVStore!Kick /\ i \in Items
    <3>1. pc = "kicking" /\ misused' = misused
      BY <1>5 DEF Kick
    <3>2. inserting \in Seq(Items) /\ 1 \in 1 .. Len(inserting)
      <4>1. inserting \in Seq(Items) /\ Len(inserting) = 1
        BY <3>1 DEF FilterInv, FilterType
      <4> QED
        BY <4>1
    <3>3. i \in Items
      BY <3>2, ElementOfSeq
    <3> QED
      BY <1>5, <3>1, <3>3, KickIsStore
  <2>2. KVStore!Plus(KVStore!BagOf(EntriesOf(table)), KVStore!PairOf(cur_index, Entry(cur_fingerprint)))
          = KVStore!Plus(KVStore!BagOf(KVStore!Committed), PairOfItem(i))
    BY <2>1 DEF Flight, Held
  <2>3. \/ /\ pc' = pc /\ KVStore!Committed' = KVStore!Committed
           /\ KVStore!Plus(KVStore!BagOf(EntriesOf(table)'), KVStore!PairOf(cur_index', Entry(cur_fingerprint)'))
                = KVStore!Plus(KVStore!BagOf(KVStore!Committed'), PairOfItem(i))
        \/ /\ pc' = "ready"
           /\ KVStore!BagOf(KVStore!Committed') = KVStore!Plus(KVStore!BagOf(KVStore!Committed), PairOfItem(i))
    <3> HIDE DEF i
    <3> QED
      BY <1>1, <2>1, <2>2, KVStore!KickBag, StoreSizeAssumption, StoreDataAssumption, StoreSchemeAssumption
  <2>4. CASE pc' = "kicking"
    <3>1. /\ KVStore!Committed' = KVStore!Committed
          /\ KVStore!Plus(KVStore!BagOf(EntriesOf(table)'), KVStore!PairOf(cur_index', Entry(cur_fingerprint)'))
               = KVStore!Plus(KVStore!BagOf(KVStore!Committed'), PairOfItem(i))
      BY <2>3, <2>4
    <3>2. UNCHANGED <<inserting, stored>>
      BY <1>5, <2>4 DEF Kick, EndOfInsert
    <3>3. Counted'
      BY <2>1, <3>1, <3>2, QuietCounted DEF Held
    <3>4. PairOfItem(inserting[1])' = PairOfItem(i)
      BY <3>2 DEF PairOfItem, ClassOf
    <3> QED
      BY <3>1, <3>3, <3>4 DEF Flight, Held
  <2>5. CASE pc' # "kicking"
    <3>1. Held' = KVStore!Plus(Held, PairOfItem(i))
      BY <2>1, <2>3, <2>5 DEF Held
    <3>2. stored' = IF misused THEN stored ELSE [stored EXCEPT ![i] = @ + 1]
      BY <1>5, <2>1, <2>5 DEF Kick
    <3>3. Held' = [Held EXCEPT ![PairOfItem(i)] = @ + 1]
      BY <3>1 DEF KVStore!Plus
    <3>4. Counted'
      <4> HIDE DEF i
      <4> QED
        BY <1>1, <2>1, <3>2, <3>3, InsertCounted
    <3> QED
      BY <2>5, <3>4 DEF Flight
  <2> QED
    BY <2>4, <2>5
<1>6. CASE RollbackSlot
  <2>1. KVStore!RollbackSlot
    BY <1>6, RollbackSlotIsStore
  <2>2. KVStore!Committed' = KVStore!Committed
    BY <1>1, <2>1, KVStore!RollbackLeavesNoTrace, StoreSizeAssumption, StoreDataAssumption, StoreSchemeAssumption
  <2>3. UNCHANGED <<stored, misused>> /\ pc' # "kicking"
    BY <1>6 DEF RollbackSlot
  <2>4. Counted'
    BY <2>2, <2>3, QuietCounted DEF Held
  <2> QED
    BY <2>3, <2>4 DEF Flight
<1>7. CASE \/ KicksExhausted \/ RollbackDone
           \/ \E n \in KickBudgets : SetMaxKicks(n)
  <2>1. UNCHANGED <<table, chain, stored, misused>> /\ pc' # "kicking"
    BY <1>7 DEF KicksExhausted, RollbackDone, SetMaxKicks, EndOfInsert, loop
  <2> QED
    BY <2>1, SameHeld, QuietCounted DEF Flight
<1>8. CASE UNCHANGED vars
  <2>1. UNCHANGED <<table, chain, stored, misused, pc, cur_index, cur_fingerprint, inserting>>
    BY <1>8 DEF vars, loop
  <2>2. Held' = Held /\ Counted'
    BY <2>1, SameHeld, QuietCounted
  <2>3. EntriesOf(table)' = EntriesOf(table) /\ Entry(cur_fingerprint)' = Entry(cur_fingerprint)
        /\ PairOfItem(inserting[1])' = PairOfItem(inserting[1])
    BY <2>1 DEF EntriesOf, Entry, PairOfItem, ClassOf
  <2> QED
    BY <2>1, <2>2, <2>3 DEF Flight
<1> QED
  BY <1>2, <1>3, <1>4, <1>5, <1>6, <1>7, <1>8 DEF Next

\* So what is stored is found: its class is not empty, and the lookup visits all
\* its buckets.
LEMMA CountedFinds == FilterInv /\ Counted => NoFalseNegatives
<1> SUFFICES ASSUME FilterInv, Counted, pc = "ready", ~misused, NEW i \in Items, stored[i] > 0
             PROVE  Matches(table, i) # {}
  BY DEF NoFalseNegatives, Contain
<1>1. stored \in [Items -> Nat] /\ table \in [Locs -> Marks] /\ chain = <<>> /\ KVStore!IInv
  BY FromStore DEF FilterInv, FilterType
<1>2. Held[PairOfItem(i)] # 0
  <2>1. IsFiniteSet(Tokens(ClassOf(i))) /\ Held[PairOfItem(i)] = Cardinality(Tokens(ClassOf(i)))
    BY DEF Counted
  <2>2. <<i, 1>> \in Tokens(ClassOf(i))
    BY <1>1 DEF Tokens, TokensOf
  <2>3. Cardinality(Tokens(ClassOf(i))) # 0
    BY <2>1, <2>2, FS_EmptySet
  <2> QED
    BY <2>1, <2>3
<1>3. KVStore!Committed = EntriesOf(table)
  <2>1. StashesOf(chain) = <<>>
    BY <1>1 DEF StashesOf
  <2> QED
    BY <1>1, <2>1, KVStore!CommittedReady, StoreSizeAssumption, StoreDataAssumption, StoreSchemeAssumption
<1>4. EntriesOf(table) \in [KVStore!Locs -> KVStore!Entries]
  BY <1>1 DEF KVStore!IInv, KVStore!TypeOK
<1>5. KVStore!Matches(EntriesOf(table), i) = {}
        => KVStore!BagOf(EntriesOf(table))[<<KVStore!KeyClass[i], "present">>] = 0
  BY <1>4, KVStore!FoundIsStored, StoreSizeAssumption, StoreDataAssumption, StoreSchemeAssumption
<1>6. KVStore!Matches(EntriesOf(table), i) = Matches(table, i)
  BY SameMatches
<1>7. <<KVStore!KeyClass[i], "present">> = PairOfItem(i)
  BY ClassOfItem DEF PairOfItem
<1> QED
  BY <1>2, <1>3, <1>5, <1>6, <1>7 DEF Held

\* contain never misses an item that is stored, as long as only stored items are
\* deleted: though items of one class share their fingerprints and deletions take
\* another's, the table holds as many as were stored of the class (contain, delete).
THEOREM FilterNoFalseNegatives == Spec => []NoFalseNegatives
<1>1. Init => Counted /\ Flight
  BY InitCounted
<1>2. FilterInv /\ FilterInv' /\ Counted /\ Flight /\ [Next]_vars => Counted' /\ Flight'
  BY NextCounted
<1>3. FilterInv /\ Counted => NoFalseNegatives
  BY CountedFinds
<1> QED
  BY <1>1, <1>2, <1>3, FilterInvariance, PTL DEF Spec

-----------------------------------------------------------------------------
(* Bits of bytes.                                                          *)

TotalBits == num_buckets(scheme) * BucketSize * fingerprint_bits
DataSize  == size_in_bytes + 2 * Window
Byte      == 0 .. 2^ByteBits - 1
ByteArray == [0 .. DataSize - 1 -> Byte]
Field     == 0 .. 2^fingerprint_bits - 1

\* Bit k of the data, the lowest bit of the first byte being bit 0.
Bit(d, k) == Digit(2, d[k \div ByteBits], k % ByteBits)

\* The powers that a window needs are known, and it holds a fingerprint from
\* any bit of its first byte on.
LEMMA Widths ==
  /\ ByteBits \in Nat \ {0} /\ window \in Nat \ {0} /\ window <= 2 * Window
  /\ fingerprint_bits \in Nat \ {0}
  /\ ByteBits - 1 + fingerprint_bits <= ByteBits * window
  /\ ByteBits * window \in Nat \ {0}
  /\ Lawful(2, ByteBits * window) /\ Lawful(2 ^ ByteBits, window)
  /\ Groups(2, ByteBits * window, 2 ^ ByteBits, window, ByteBits)
<1> DEFINE two == 2
           P == ByteBits
           F == fingerprint_bits
           V == Window
           L == P * (2 * V)
<1>1. P \in Nat \ {0} /\ V \in Nat \ {0} /\ F <= P * V /\ PowersUpTo(two, L) /\ PowersUpTo(two ^ P, 2 * V)
  BY TableAssumption
<1>2. F \in Nat \ {0}
  BY WidthAssumption
<1>3. two = 2
  OBVIOUS
<1> HIDE DEF two
<1>4. window \in {V, 2 * V} /\ (window = V => F <= P * (V - 1))
  BY <1>1 DEF window
<1>5. window \in Nat \ {0} /\ window <= 2 * V
  BY <1>1, <1>4
<1>6. P * (V - 1) = P * V - P /\ P * V \in Nat \ {0} /\ P * (2 * V) = P * V + P * V /\ P <= P * V
  BY <1>1
<1>7. P - 1 + F <= P * window /\ P * window <= L /\ P * window \in Nat \ {0} /\ P <= L /\ L \in Nat
  <2>1. CASE window = V
    BY <1>1, <1>2, <1>4, <1>6, <2>1
  <2>2. CASE window = 2 * V
    BY <1>1, <1>2, <1>6, <2>2
  <2> QED
    BY <1>4, <2>1, <2>2
<1>8. Lawful(two, L)
  BY <1>1, <1>3, <1>7 DEF Lawful
<1>9. Lawful(two, P * window)
  BY <1>1, <1>3, <1>7 DEF Lawful, PowersUpTo
<1>10. two ^ P \in Nat \ {0}
  BY <1>1, <1>7, <1>8, PowerType
<1>11. Lawful(two ^ P, window)
  BY <1>1, <1>5, <1>10 DEF Lawful, PowersUpTo
<1>12. Groups(two, P * window, two ^ P, window, P)
  BY <1>1, <1>9, <1>11, Zenon DEF Groups
<1> QED
  BY <1>1, <1>2, <1>3, <1>5, <1>7, <1>9, <1>11, <1>12

\* The bytes hold the bits of all slots.
LEMMA Sizes ==
  /\ num_buckets(scheme) \in Nat \ {0} /\ BucketSize \in Nat \ {0}
  /\ TotalBits \in Nat /\ size_in_bytes \in Nat /\ DataSize \in Nat
  /\ DataSize = size_in_bytes + 2 * Window
  /\ TotalBits <= ByteBits * size_in_bytes
<1> DEFINE P == ByteBits
           T == TotalBits
           q == (T + P - 1) \div P
           r == (T + P - 1) % P
<1>1. P \in Nat \ {0} /\ fingerprint_bits \in Nat \ {0} /\ Window \in Nat \ {0} /\ BucketSize \in Nat \ {0}
  BY Widths, TableAssumption, FilterAssumption
<1>2. num_buckets(scheme) \in Nat \ {0}
  <2>1. scheme.arity \in Nat \ {0} /\ scheme.range \in Nat \ {0}
    BY SchemeOfFilter
  <2>2. scheme.arity * scheme.range \in Nat \ {0}
    BY <2>1
  <2> QED
    BY <2>1, <2>2 DEF num_buckets
<1>3. T \in Nat
  <2>1. num_buckets(scheme) * BucketSize \in Nat
    BY <1>1, <1>2
  <2> QED
    BY <1>1, <2>1 DEF TotalBits
<1>4. size_in_bytes = q
  BY DEF size_in_bytes, TotalBits
<1> HIDE DEF T
<1>5. T + P - 1 \in Nat
  BY <1>1, <1>3
<1>6. q \in Nat /\ r \in 0 .. P - 1 /\ T + P - 1 = P * q + r
  BY <1>1, <1>5, DivMod
<1> HIDE DEF q, r
<1>7. T <= P * q
  <2> DEFINE a == P * q
  <2>1. a \in Nat /\ T + P - 1 = a + r
    BY <1>1, <1>6
  <2> HIDE DEF a
  <2>2. T <= a
    BY <1>1, <1>3, <1>6, <2>1
  <2> QED
    BY <2>2 DEF a
<1>8. DataSize = q + 2 * Window /\ DataSize \in Nat
  BY <1>1, <1>4, <1>6 DEF DataSize
<1> QED
  BY <1>1, <1>2, <1>3, <1>4, <1>6, <1>7, <1>8 DEF T

\* Where a bit of a window is.
LEMMA BitAddress ==
  ASSUME NEW byte \in Nat, NEW u \in 0 .. ByteBits * window - 1
  PROVE  /\ u \div ByteBits \in 0 .. window - 1 /\ u % ByteBits \in 0 .. ByteBits - 1
         /\ u = ByteBits * (u \div ByteBits) + (u % ByteBits)
         /\ ByteBits * byte + u \in Nat
         /\ (ByteBits * byte + u) \div ByteBits = byte + (u \div ByteBits)
         /\ (ByteBits * byte + u) % ByteBits = u % ByteBits
<1> DEFINE P == ByteBits
           c == u \div P
           i == u % P
<1>1. P \in Nat \ {0} /\ window \in Nat \ {0} /\ P * window \in Nat
  BY Widths
<1>2. u \in Nat
  BY <1>1
<1>3. c \in Nat /\ i \in 0 .. P - 1 /\ u = P * c + i
  BY <1>1, <1>2, DivMod
<1> HIDE DEF c, i
<1>4. c \in 0 .. window - 1
  <2> SUFFICES ASSUME c >= window PROVE FALSE
    BY <1>1, <1>3
  <2>1. P * c >= P * window
    BY <1>1, <1>3
  <2> DEFINE a == P * c
             b == P * window
  <2>2. a \in Nat /\ b \in Nat /\ a >= b /\ u = a + i /\ u < b
    BY <1>1, <1>3, <2>1
  <2> HIDE DEF a, b
  <2> QED
    BY <1>1, <1>3, <2>2
<1> DEFINE x == P * byte + u
<1>5. x = P * (byte + c) + i /\ x \in Nat /\ byte + c \in Nat
  <2>1. P * (byte + c) = P * byte + P * c /\ P * byte \in Nat /\ P * c \in Nat
    BY <1>1, <1>3
  <2> DEFINE a == P * c
             b == P * byte
             d == P * (byte + c)
  <2>2. a \in Nat /\ b \in Nat /\ d = b + a /\ u = a + i /\ x = b + u
    BY <1>3, <2>1, Zenon
  <2> HIDE DEF a, b, d, x
  <2>3. x = d + i /\ x \in Nat
    BY <1>1, <1>2, <1>3, <2>2
  <2> QED
    BY <1>3, <2>3 DEF d
<1> HIDE DEF x
<1>6. x \div P = byte + c /\ x % P = i
  BY <1>1, <1>3, <1>5, DivIs
<1> QED
  BY <1>3, <1>4, <1>5, <1>6 DEF c, i, x

\* The bits of a window are bits of the data.
LEMMA LoadBits ==
  ASSUME NEW d \in ByteArray, NEW byte \in Nat, byte + window <= DataSize
  PROVE  /\ Load(d, byte) \in Nat
         /\ \A u \in 0 .. ByteBits * window - 1 :
              Digit(2, Load(d, byte), u) = Bit(d, ByteBits * byte + u)
<1> DEFINE two == 2
           P == ByteBits
           big == two ^ P
           ds == [i \in 0 .. window - 1 |-> d[byte + i]]
           x == FromDigits(big, ds)
<1>1. two = 2
  OBVIOUS
<1> HIDE DEF two
<1>2. Lawful(big, window) /\ Groups(two, P * window, big, window, P) /\ window \in Nat \ {0}
  BY <1>1, Widths
<1>3. ds \in [0 .. window - 1 -> 0 .. big - 1]
  <2>1. DataSize \in Int
    BY Sizes
  <2>2. ASSUME NEW i \in 0 .. window - 1 PROVE d[byte + i] \in 0 .. big - 1
    <3>1. byte + i \in 0 .. DataSize - 1
      BY <1>2, <2>1
    <3> QED
      BY <1>1, <3>1 DEF ByteArray, Byte
  <2> QED
    BY <2>2
<1>4. x \in 0 .. big ^ window - 1 /\ \A c \in 0 .. window - 1 : Digit(big, x, c) = ds[c]
  <2> HIDE DEF big, ds
  <2> QED
    BY <1>2, <1>3, FromDigitsLaw
<1>5. x \in Nat
  <2> HIDE DEF x
  <2>1. big ^ window \in Nat \ {0}
    <3> HIDE DEF big
    <3>1. window \in 0 .. window
      BY <1>2
    <3> QED
      BY <1>2, <3>1, PowerType
  <2> QED
    BY <1>4, <2>1
<1>6. Load(d, byte) = x
  BY <1>1 DEF Load
<1>7. ASSUME NEW u \in 0 .. P * window - 1 PROVE Digit(two, x, u) = Bit(d, P * byte + u)
  <2> DEFINE c == u \div P
             i == u % P
  <2>1. /\ c \in 0 .. window - 1 /\ i \in 0 .. P - 1 /\ u = P * c + i
        /\ (P * byte + u) \div P = byte + c /\ (P * byte + u) % P = i
    BY BitAddress
  <2> HIDE DEF x, ds, big, c, i
  <2>2. Digit(two, x, P * c + i) = Digit(two, Digit(big, x, c), i)
    BY <1>2, <1>5, <2>1, GroupDigit
  <2>3. Digit(big, x, c) = d[byte + c]
    BY <1>4, <2>1 DEF ds
  <2>4. Digit(two, x, u) = Digit(two, d[byte + c], i)
    BY <2>1, <2>2, <2>3, Zenon
  <2>5. Bit(d, P * byte + u) = Digit(two, d[byte + c], i)
    BY <1>1, <2>1, Zenon DEF Bit
  <2> QED
    BY <2>4, <2>5
<1> QED
  BY <1>1, <1>5, <1>6, <1>7, Zenon

\* A slot has its own bits, and a window at its first byte fits the data.
LEMMA SlotsApart ==
  /\ \A l \in Locs :
       /\ bit_offset(l) \in Nat /\ bit_offset(l) + fingerprint_bits <= TotalBits
       /\ bit_offset(l) \div ByteBits \in 0 .. size_in_bytes - 1
       /\ (bit_offset(l) \div ByteBits) + window <= DataSize
       /\ bit_offset(l) % ByteBits \in 0 .. ByteBits - 1
       /\ bit_offset(l) = ByteBits * (bit_offset(l) \div ByteBits) + (bit_offset(l) % ByteBits)
  /\ \A l, m \in Locs : l # m => \/ bit_offset(l) + fingerprint_bits <= bit_offset(m)
                                \/ bit_offset(m) + fingerprint_bits <= bit_offset(l)
<1> DEFINE P == ByteBits
           F == fingerprint_bits
           B == BucketSize
           N == num_buckets(scheme)
           I(l) == l[1] * B + l[2]
<1>1. P \in Nat \ {0} /\ F \in Nat \ {0} /\ B \in Nat \ {0} /\ N \in Nat \ {0}
  BY Widths, Sizes
<1>2. \A l \in Locs : l[1] \in 0 .. N - 1 /\ l[2] \in 0 .. B - 1 /\ l = <<l[1], l[2]>>
  BY DEF Locs, Slots
<1>3. \A l : bit_offset(l) = I(l) * F
  BY DEF bit_offset
<1>4. TotalBits = (N * B) * F
  BY DEF TotalBits
<1> HIDE DEF N
<1>5. ASSUME NEW l \in Locs PROVE I(l) \in Nat /\ I(l) + 1 <= N * B
  <2> DEFINE b == l[1]
             s == l[2]
  <2>1. b \in 0 .. N - 1 /\ s \in 0 .. B - 1
    BY <1>2
  <2> HIDE DEF b, s
  <2>2. b * B + s \in Nat /\ (b + 1) * B = b * B + B /\ (b + 1) * B <= N * B
    BY <1>1, <2>1
  <2>3. b * B + s + 1 <= N * B
    <3> DEFINE x == b * B
               y == (b + 1) * B
               z == N * B
    <3>1. x \in Nat /\ y \in Nat /\ z \in Nat /\ y = x + B /\ y <= z
      BY <1>1, <2>1, <2>2
    <3> HIDE DEF x, y, z
    <3>2. x + s + 1 <= z
      BY <1>1, <2>1, <3>1
    <3> QED
      BY <3>2 DEF x, z
  <2> QED
    BY <2>2, <2>3 DEF b, s
<1>6. \A i, j \in Nat : i + 1 <= j => i * F \in Nat /\ j * F \in Nat /\ i * F + F <= j * F
  <2> SUFFICES ASSUME NEW i \in Nat, NEW j \in Nat, i + 1 <= j
               PROVE  i * F \in Nat /\ j * F \in Nat /\ i * F + F <= j * F
    OBVIOUS
  <2>1. (i + 1) * F = i * F + F /\ (i + 1) * F <= j * F
    BY <1>1
  <2> QED
    BY <1>1, <2>1
<1>7. N * B \in Nat
  BY <1>1
<1>8. ASSUME NEW l \in Locs
      PROVE  bit_offset(l) \in Nat /\ bit_offset(l) + F <= TotalBits
  <2> HIDE DEF I
  <2>1. I(l) * F \in Nat /\ I(l) * F + F <= (N * B) * F
    BY <1>5, <1>6, <1>7
  <2> QED
    BY <1>3, <1>4, <2>1
<1>9. ASSUME NEW l \in Locs, NEW m \in Locs, l # m
      PROVE  bit_offset(l) + F <= bit_offset(m) \/ bit_offset(m) + F <= bit_offset(l)
  <2>1. I(l) # I(m)
    <3> SUFFICES ASSUME I(l) = I(m) PROVE FALSE
      OBVIOUS
    <3>1. \A k \in Locs : I(k) \div B = k[1] /\ I(k) % B = k[2]
      <4> SUFFICES ASSUME NEW k \in Locs PROVE I(k) \div B = k[1] /\ I(k) % B = k[2]
        OBVIOUS
      <4> DEFINE b == k[1]
                 s == k[2]
                 x == I(k)
      <4>1. b \in Nat /\ s \in 0 .. B - 1
        BY <1>1, <1>2
      <4>2. x \in Nat /\ x = B * b + s
        <5>1. b * B = B * b
          BY <1>1, <4>1
        <5> QED
          BY <1>5, <5>1
      <4> HIDE DEF b, s, x
      <4>3. x \div B = b /\ x % B = s
        BY <1>1, <4>1, <4>2, DivIs
      <4> QED
        BY <4>3 DEF b, s, x
    <3>2. l[1] = m[1] /\ l[2] = m[2]
      <4> HIDE DEF I
      <4> QED
        BY <3>1
    <3> QED
      BY <1>2, <1>9, <3>2, Zenon
  <2>2. I(l) \in Nat /\ I(m) \in Nat
    BY <1>5
  <2> HIDE DEF I
  <2>3. I(l) + 1 <= I(m) \/ I(m) + 1 <= I(l)
    BY <2>1, <2>2
  <2>4. bit_offset(l) = I(l) * F /\ bit_offset(m) = I(m) * F
    BY <1>3
  <2> QED
    BY <1>6, <2>2, <2>3, <2>4
<1>10. ASSUME NEW l \in Locs
       PROVE  /\ bit_offset(l) \div P \in 0 .. size_in_bytes - 1
              /\ (bit_offset(l) \div P) + window <= DataSize
              /\ bit_offset(l) % P \in 0 .. P - 1
              /\ bit_offset(l) = P * (bit_offset(l) \div P) + (bit_offset(l) % P)
  <2> DEFINE o == bit_offset(l)
             q == o \div P
             r == o % P
             S == size_in_bytes
  <2>1. o \in Nat /\ o < P * S /\ S \in Nat
    <3> DEFINE z == P * S
    <3>1. z \in Nat /\ TotalBits <= z /\ TotalBits \in Nat /\ S \in Nat
      BY <1>1, Sizes
    <3> HIDE DEF z, S
    <3>2. o < z
      BY <1>1, <1>8, <3>1
    <3> QED
      BY <1>8, <3>1, <3>2 DEF z
  <2> HIDE DEF o
  <2>2. q \in Nat /\ r \in 0 .. P - 1 /\ o = P * q + r
    BY <1>1, <2>1, DivMod
  <2> HIDE DEF q, r, S
  <2>3. q < S
    <3> SUFFICES ASSUME q >= S PROVE FALSE
      BY <2>1, <2>2
    <3>1. P * q >= P * S /\ P * q \in Nat /\ P * S \in Nat
      BY <1>1, <2>1, <2>2
    <3> DEFINE x == P * q
               z == P * S
    <3>2. x >= z /\ x \in Nat /\ z \in Nat /\ o = x + r /\ o < z
      BY <2>1, <2>2, <3>1
    <3> HIDE DEF x, z
    <3> QED
      BY <1>1, <2>2, <3>2
  <2>4. q + window <= DataSize
    <3>1. DataSize = S + 2 * Window /\ Window \in Nat /\ window \in Nat /\ window <= 2 * Window
      BY Sizes, Widths, TableAssumption DEF S
    <3> QED
      BY <2>1, <2>2, <2>3, <3>1
  <2>5. q \in 0 .. S - 1
    BY <2>1, <2>2, <2>3
  <2> QED
    BY <2>2, <2>4, <2>5 DEF o, q, r, S
<1> QED
  BY <1>8, <1>9, <1>10

-----------------------------------------------------------------------------
(* Reading and writing a slot.                                             *)

\* A slot is read bit by bit.
LEMMA ReadBits ==
  ASSUME NEW d \in ByteArray, NEW l \in Locs
  PROVE  /\ Read(d, l) \in Field
         /\ \A t \in 0 .. fingerprint_bits - 1 : Digit(2, Read(d, l), t) = Bit(d, bit_offset(l) + t)
<1> DEFINE two == 2
           P == ByteBits
           F == fingerprint_bits
           n == P * window
           o == bit_offset(l)
           byte == o \div P
           s == o % P
           x == Load(d, byte)
           y == x \div two ^ s
<1>1. two = 2
  OBVIOUS
<1> HIDE DEF two
<1>2. /\ P \in Nat \ {0} /\ F \in Nat \ {0} /\ P - 1 + F <= n /\ n \in Nat \ {0}
      /\ Lawful(two, n)
  BY <1>1, Widths
<1>3. /\ o \in Nat /\ byte \in 0 .. size_in_bytes - 1 /\ byte + window <= DataSize /\ s \in 0 .. P - 1
      /\ o = P * byte + s
  BY SlotsApart
<1> HIDE DEF n, o, byte, s
<1>4. byte \in Nat
  BY <1>3, Sizes
<1>5. x \in Nat /\ \A u \in 0 .. n - 1 : Digit(two, x, u) = Bit(d, P * byte + u)
  BY <1>1, <1>3, <1>4, LoadBits DEF n
<1> HIDE DEF x
<1>6. s \in 0 .. n /\ F \in 0 .. n /\ F \in 0 .. n - s
  BY <1>2, <1>3
<1>7. two ^ s \in Nat \ {0} /\ two ^ F \in Nat \ {0}
  BY <1>2, <1>6, PowerType
<1>8. y \in Nat
  BY <1>5, <1>7, DivMod
<1>9. Read(d, l) = y % two ^ F
  BY <1>1, Zenon DEF Read, y, x, s, byte, o
<1>10. Read(d, l) \in Field
  <2>1. y % two ^ F \in 0 .. two ^ F - 1
    BY <1>7, <1>8, DivMod
  <2> QED
    BY <1>1, <1>9, <2>1 DEF Field
<1>11. ASSUME NEW t \in 0 .. F - 1 PROVE Digit(two, Read(d, l), t) = Bit(d, o + t)
  <2>1. t \in 0 .. n - s /\ s + t \in 0 .. n - 1 /\ P * byte + (s + t) = o + t
    <3> DEFINE a == P * byte
    <3>1. a \in Nat /\ o = a + s
      BY <1>2, <1>3, <1>4
    <3> HIDE DEF a
    <3>2. a + (s + t) = o + t
      BY <1>2, <1>3, <3>1
    <3> QED
      BY <1>2, <1>3, <3>2 DEF a
  <2> HIDE DEF y
  <2>2. Digit(two, y % two ^ F, t) = Digit(two, y, t)
    BY <1>2, <1>6, <1>8, DigitOfMod
  <2>3. Digit(two, y, t) = Digit(two, x, s + t)
    BY <1>2, <1>5, <1>6, <2>1, DigitShift DEF y
  <2>4. Digit(two, x, s + t) = Bit(d, P * byte + (s + t))
    BY <1>5, <2>1
  <2> QED
    BY <1>9, <2>1, <2>2, <2>3, <2>4
<1> QED
  BY <1>1, <1>10, <1>11, Zenon DEF o

\* What is stored in a slot changes its bits and no other.
LEMMA StoreBits ==
  ASSUME NEW d \in ByteArray, NEW l \in Locs, NEW fp \in Field
  PROVE  /\ Store(d, l, fp) \in ByteArray
         /\ \A k \in 0 .. ByteBits * DataSize - 1 :
              Bit(Store(d, l, fp), k) =
                IF k \in bit_offset(l) .. bit_offset(l) + fingerprint_bits - 1
                THEN Digit(2, fp, k - bit_offset(l)) ELSE Bit(d, k)
<1> DEFINE two == 2
           P == ByteBits
           F == fingerprint_bits
           n == P * window
           big == two ^ P
           o == bit_offset(l)
           byte == o \div P
           s == o % P
           x == Load(d, byte)
           v == fp % two ^ F
           val == Masked(x, s) + v * two ^ s
           e == Store(d, l, fp)
<1>1. two = 2
  OBVIOUS
<1> HIDE DEF two
<1>2. /\ P \in Nat \ {0} /\ F \in Nat \ {0} /\ P - 1 + F <= n /\ n \in Nat \ {0}
      /\ Lawful(two, n) /\ Lawful(big, window) /\ Groups(two, n, big, window, P)
      /\ window \in Nat \ {0}
  BY <1>1, Widths
<1>3. /\ o \in Nat /\ byte \in 0 .. size_in_bytes - 1 /\ byte + window <= DataSize /\ s \in 0 .. P - 1
      /\ o = P * byte + s
  BY SlotsApart
<1>4. e = [i \in DOMAIN d |-> IF i \in byte .. byte + window - 1
                              THEN Digit(big, val, i - byte) ELSE d[i]]
  BY <1>1, Zenon DEF Store
<1> HIDE DEF n, o, byte, s, e
<1>5. byte \in Nat /\ DataSize \in Nat
  BY <1>3, Sizes
<1>6. x \in Nat /\ \A u \in 0 .. n - 1 : Digit(two, x, u) = Bit(d, P * byte + u)
  BY <1>1, <1>3, <1>5, LoadBits DEF n
<1> HIDE DEF x
<1>7. s \in 0 .. n /\ F \in 0 .. n - s /\ F \in 0 .. n
  BY <1>2, <1>3
<1>8. two ^ s \in Nat \ {0} /\ two ^ F \in Nat \ {0}
  BY <1>2, <1>7, PowerType
<1>9. v = fp /\ v \in 0 .. two ^ F - 1
  <2>1. fp \in 0 .. two ^ F - 1
    BY <1>1 DEF Field
  <2> DEFINE m == two ^ F
  <2>2. m \in Nat \ {0} /\ fp \in 0 .. m - 1
    BY <1>8, <2>1
  <2> HIDE DEF m
  <2>3. fp \in Nat /\ fp = m * 0 + fp
    BY <2>2
  <2>4. fp % m = fp
    BY <2>2, <2>3, DivIs
  <2> QED
    BY <2>1, <2>4 DEF m
<1> HIDE DEF v
<1>10. val = (x % two ^ s) + (x \div two ^ (s + F)) * two ^ (s + F) + v * two ^ s
  BY <1>1, Zenon DEF Masked, Before, After
<1> HIDE DEF val
<1>11. /\ val \in Nat
       /\ \A u \in 0 .. n : Digit(two, val, u) = IF u \in s .. s + F - 1 THEN Digit(two, v, u - s)
                                                 ELSE Digit(two, x, u)
  <2> HIDE DEF F, P, big
  <2>1. Lawful(two, n) /\ x \in Nat /\ s \in 0 .. n /\ F \in 0 .. n - s /\ v \in 0 .. two ^ F - 1
    BY <1>2, <1>6, <1>7, <1>9
  <2>2. val = Spliced(two, x, s, F, v)
    BY <1>10, Zenon DEF Spliced
  <2> QED
    BY <2>1, <2>2, Splice
<1>12. ASSUME NEW c \in 0 .. window - 1 PROVE Digit(big, val, c) \in 0 .. big - 1
  <2> HIDE DEF big
  <2> QED
    BY <1>2, <1>11, DigitStep
<1>13. DOMAIN d = 0 .. DataSize - 1
  BY DEF ByteArray
<1>14. e \in ByteArray
  <2>1. ASSUME NEW i \in 0 .. DataSize - 1 PROVE e[i] \in Byte
    <3>1. CASE i \in byte .. byte + window - 1
      <4>1. i - byte \in 0 .. window - 1
        BY <1>2, <1>5, <3>1
      <4>2. e[i] = Digit(big, val, i - byte)
        <5> HIDE DEF big
        <5> QED
          BY <1>4, <1>13, <3>1
      <4> QED
        BY <1>1, <1>12, <4>1, <4>2 DEF Byte
    <3>2. CASE i \notin byte .. byte + window - 1
      <4>1. e[i] = d[i]
        <5> HIDE DEF big
        <5> QED
          BY <1>4, <1>13, <3>2
      <4> QED
        BY <4>1 DEF ByteArray
    <3> QED
      BY <3>1, <3>2
  <2> QED
    BY <1>4, <1>13, <2>1 DEF ByteArray
<1>15. ASSUME NEW k \in 0 .. P * DataSize - 1
       PROVE  Bit(e, k) = IF k \in o .. o + F - 1 THEN Digit(two, fp, k - o) ELSE Bit(d, k)
  <2> DEFINE i == k \div P
             j == k % P
             c == i - byte
             u == k - P * byte
  <2>1. k \in Nat
    <3>1. P * DataSize \in Nat
      BY <1>2, <1>5
    <3> QED
      BY <3>1
  <2>2. i \in Nat /\ j \in 0 .. P - 1 /\ k = P * i + j
    BY <1>2, <2>1, DivMod
  <2>3. Bit(e, k) = Digit(two, e[i], j) /\ Bit(d, k) = Digit(two, d[i], j)
    BY <1>1, Zenon DEF Bit
  <2> HIDE DEF i, j
  <2>4. i \in 0 .. DataSize - 1
    <3> SUFFICES ASSUME i >= DataSize PROVE FALSE
      BY <1>5, <2>2
    <3>1. P * i >= P * DataSize /\ P * i \in Nat /\ P * DataSize \in Nat
      BY <1>2, <1>5, <2>2
    <3> DEFINE a == P * i
               b == P * DataSize
    <3>2. a >= b /\ a \in Nat /\ b \in Nat /\ k = a + j /\ k < b
      BY <2>2, <3>1
    <3> HIDE DEF a, b
    <3> QED
      BY <1>2, <2>2, <3>2
  <2>5. P * byte \in Nat /\ u \in Int /\ (k \in o .. o + F - 1 <=> u \in s .. s + F - 1) /\ u - s = k - o
        /\ k = P * byte + u
    <3>1. P * byte \in Nat
      BY <1>2, <1>5
    <3> DEFINE a == P * byte
    <3>2. a \in Nat /\ o = a + s
      BY <1>3, <3>1
    <3> HIDE DEF a
    <3>3. k - a \in Int /\ (k \in o .. o + F - 1 <=> k - a \in s .. s + F - 1) /\ (k - a) - s = k - o
          /\ k = a + (k - a)
      BY <1>2, <1>3, <2>1, <3>2
    <3> QED
      BY <3>1, <3>3 DEF a
  <2>6. u = P * c + j
    <3>1. P * c = P * i - P * byte /\ P * i \in Nat /\ P * byte \in Nat
      BY <1>2, <1>5, <2>2
    <3> DEFINE a == P * i
               b == P * byte
               f == P * c
    <3>2. a \in Nat /\ b \in Nat /\ f = a - b /\ k = a + j /\ u = k - b
      BY <2>2, <3>1
    <3> HIDE DEF a, b, c, u
    <3>3. u = f + j
      BY <1>2, <2>2, <3>2
    <3> QED
      BY <3>3
  <2>7. c \in Int
    BY <1>5, <2>2
  <2>8. CASE i \in byte .. byte + window - 1
    <3>1. c \in 0 .. window - 1
      BY <1>2, <1>5, <2>8
    <3>2. u \in 0 .. n - 1
      <4> HIDE DEF c, u
      <4>1. P * c >= 0 /\ P * c <= P * (window - 1) /\ P * (window - 1) = P * window - P /\ P * c \in Int
        BY <1>2, <3>1
      <4> DEFINE f == P * c
                 g == P * (window - 1)
      <4>2. f \in Int /\ f >= 0 /\ f <= g /\ g = n - P /\ u = f + j
        BY <2>6, <4>1 DEF n
      <4> HIDE DEF f, g
      <4> QED
        BY <1>2, <2>2, <4>2
    <3>3. e[i] = Digit(big, val, c)
      <4> HIDE DEF big
      <4> QED
        BY <1>4, <1>13, <2>4, <2>8
    <3> HIDE DEF c, u, big
    <3>4. Digit(two, val, P * c + j) = Digit(two, Digit(big, val, c), j)
      BY <1>2, <1>11, <2>2, <3>1, GroupDigit
    <3>5. Bit(e, k) = Digit(two, val, u)
      BY <2>3, <2>6, <3>3, <3>4, Zenon
    <3>6. u \in 0 .. n
      BY <1>2, <3>2
    <3>7. Digit(two, val, u) = IF u \in s .. s + F - 1 THEN Digit(two, v, u - s) ELSE Digit(two, x, u)
      BY <1>11, <3>6
    <3>8. Digit(two, x, u) = Bit(d, k)
      BY <1>6, <2>5, <3>2
    <3> QED
      BY <1>9, <2>5, <3>5, <3>7, <3>8
  <2>9. CASE i \notin byte .. byte + window - 1
    <3>1. e[i] = d[i]
      <4> HIDE DEF big
      <4> QED
        BY <1>4, <1>13, <2>4, <2>9
    <3>2. k \notin o .. o + F - 1
      <4> SUFFICES ASSUME u \in s .. s + F - 1 PROVE FALSE
        BY <2>5
      <4> HIDE DEF c, u
      <4>1. u >= 0 /\ u < n
        BY <1>2, <1>3, <2>5
      <4>2. c < 0 \/ c >= window
        BY <1>2, <1>5, <2>2, <2>9 DEF c
      <4>3. CASE c < 0
        <5>1. P * c <= P * (0 - 1) /\ P * (0 - 1) = 0 - P /\ P * c \in Int
          BY <1>2, <2>7, <4>3
        <5> DEFINE f == P * c
                   g == P * (0 - 1)
        <5>2. f \in Int /\ f <= g /\ g = 0 - P /\ u = f + j
          BY <2>6, <5>1
        <5> HIDE DEF f, g
        <5> QED
          BY <1>2, <2>2, <4>1, <5>2
      <4>4. CASE c >= window
        <5>1. P * c >= P * window /\ P * c \in Int
          BY <1>2, <2>7, <4>4
        <5> DEFINE f == P * c
        <5>2. f \in Int /\ f >= n /\ u = f + j
          BY <2>6, <5>1 DEF n
        <5> HIDE DEF f
        <5> QED
          BY <1>2, <2>2, <4>1, <5>2
      <4> QED
        BY <4>2, <4>3, <4>4
    <3> QED
      BY <2>3, <3>1, <3>2
  <2> QED
    BY <2>8, <2>9
<1> QED
  BY <1>1, <1>14, <1>15, Zenon DEF o, e

\* A field is known by its bits.
LEMMA SameField ==
  ASSUME NEW x \in Field, NEW y \in Field,
         \A t \in 0 .. fingerprint_bits - 1 : Digit(2, x, t) = Digit(2, y, t)
  PROVE  x = y
<1> DEFINE two == 2
           F == fingerprint_bits
<1>1. two = 2
  OBVIOUS
<1> HIDE DEF two
<1>2. F \in Nat \ {0} /\ F <= ByteBits * window /\ ByteBits * window \in Nat /\ Lawful(two, ByteBits * window)
  <2> DEFINE n == ByteBits * window
  <2>1. /\ F \in Nat \ {0} /\ ByteBits \in Nat \ {0} /\ ByteBits - 1 + F <= n /\ n \in Nat
        /\ Lawful(two, n)
    BY <1>1, Widths
  <2> HIDE DEF n
  <2>2. F <= n
    BY <2>1
  <2> QED
    BY <2>1, <2>2 DEF n
<1>3. Lawful(two, F)
  BY <1>2 DEF Lawful, PowersUpTo
<1>4. x \in 0 .. two ^ F - 1 /\ y \in 0 .. two ^ F - 1
  BY <1>1 DEF Field
<1>5. \A t \in 0 .. F - 1 : Digit(two, x, t) = Digit(two, y, t)
  BY <1>1, Zenon
<1> QED
  BY <1>3, <1>4, <1>5, SameDigits

\* A slot reads as what is stored in it; the other slots and the padding stay.
LEMMA StoreLaw ==
  ASSUME NEW d \in ByteArray, NEW l \in Locs, NEW fp \in Field
  PROVE  /\ Store(d, l, fp) \in ByteArray
         /\ Read(Store(d, l, fp), l) = fp
         /\ \A m \in Locs : m # l => Read(Store(d, l, fp), m) = Read(d, m)
         /\ \A i \in size_in_bytes .. DataSize - 1 : Store(d, l, fp)[i] = d[i]
<1> DEFINE P == ByteBits
           F == fingerprint_bits
           o == bit_offset(l)
           e == Store(d, l, fp)
           L == P * DataSize
<1>1. e \in ByteArray
  BY StoreBits
<1>2. \A k \in 0 .. L - 1 : k \in o .. o + F - 1 => Bit(e, k) = Digit(2, fp, k - o)
  BY StoreBits
<1>3. \A k \in 0 .. L - 1 : k \notin o .. o + F - 1 => Bit(e, k) = Bit(d, k)
  BY StoreBits
<1>4. P \in Nat \ {0} /\ F \in Nat \ {0} /\ Window \in Nat \ {0}
  BY Widths, TableAssumption
<1>5. /\ size_in_bytes \in Nat /\ DataSize \in Nat /\ DataSize = size_in_bytes + 2 * Window
      /\ TotalBits \in Nat /\ TotalBits <= P * size_in_bytes
  BY Sizes
<1>6. L \in Nat /\ TotalBits <= L /\ P * size_in_bytes \in Nat
  <2>1. P * size_in_bytes <= P * DataSize /\ P * size_in_bytes \in Nat /\ P * DataSize \in Nat
    BY <1>4, <1>5
  <2> DEFINE a == P * size_in_bytes
  <2>2. a \in Nat /\ a <= L /\ L \in Nat /\ TotalBits <= a
    BY <1>5, <2>1
  <2> HIDE DEF a, L
  <2>3. TotalBits <= L
    BY <1>5, <2>2
  <2> QED
    BY <2>1, <2>2, <2>3
<1>7. \A m \in Locs : bit_offset(m) \in Nat /\ bit_offset(m) + F <= TotalBits
  BY SlotsApart
<1>8. o \in Nat /\ o + F <= TotalBits
  BY <1>7
<1> HIDE DEF e, L, o
<1>9. Read(e, l) = fp
  <2>1. ASSUME NEW t \in 0 .. F - 1 PROVE Digit(2, Read(e, l), t) = Digit(2, fp, t)
    <3>1. Digit(2, Read(e, l), t) = Bit(e, o + t)
      BY <1>1, ReadBits DEF o
    <3>2. o + t \in 0 .. L - 1 /\ o + t \in o .. o + F - 1 /\ (o + t) - o = t
      BY <1>4, <1>5, <1>6, <1>8
    <3> QED
      BY <1>2, <3>1, <3>2
  <2>2. Read(e, l) \in Field
    BY <1>1, ReadBits
  <2> QED
    BY <2>1, <2>2, SameField
<1>10. ASSUME NEW m \in Locs, m # l PROVE Read(e, m) = Read(d, m)
  <2> DEFINE p == bit_offset(m)
  <2>1. p \in Nat /\ p + F <= TotalBits /\ (o + F <= p \/ p + F <= o)
    BY <1>7, <1>10, SlotsApart DEF o
  <2>2. ASSUME NEW t \in 0 .. F - 1 PROVE Digit(2, Read(e, m), t) = Digit(2, Read(d, m), t)
    <3>1. Digit(2, Read(e, m), t) = Bit(e, p + t) /\ Digit(2, Read(d, m), t) = Bit(d, p + t)
      BY <1>1, ReadBits
    <3> HIDE DEF p
    <3>2. p + t \in 0 .. L - 1 /\ p + t \notin o .. o + F - 1
      BY <1>4, <1>5, <1>6, <1>8, <2>1
    <3> QED
      BY <1>3, <3>1, <3>2
  <2>3. Read(e, m) \in Field /\ Read(d, m) \in Field
    BY <1>1, ReadBits
  <2> QED
    BY <2>2, <2>3, SameField
<1>11. ASSUME NEW i \in size_in_bytes .. DataSize - 1 PROVE e[i] = d[i]
  <2>1. i \in Nat /\ i \in 0 .. DataSize - 1
    BY <1>5
  <2>2. e[i] \in Byte /\ d[i] \in Byte
    BY <1>1, <2>1 DEF ByteArray
  <2>3. ASSUME NEW j \in 0 .. P - 1 PROVE Digit(2, e[i], j) = Digit(2, d[i], j)
    <3> DEFINE k == P * i + j
    <3>1. P * size_in_bytes <= P * i /\ P * i <= P * (DataSize - 1) /\ P * (DataSize - 1) = P * DataSize - P
          /\ P * i \in Nat /\ P * DataSize \in Nat /\ P * (DataSize - 1) \in Int
      BY <1>4, <1>5, <2>1
    <3>2. k \in Nat /\ k \in 0 .. L - 1 /\ TotalBits <= k
      <4> DEFINE a == P * i
                 b == P * size_in_bytes
                 c == P * (DataSize - 1)
      <4>1. /\ a \in Nat /\ b \in Nat /\ c \in Int /\ b <= a /\ a <= c /\ c = L - P /\ k = a + j
            /\ TotalBits <= b
        BY <1>5, <1>6, <3>1 DEF L
      <4> HIDE DEF a, b, c, k
      <4> QED
        BY <1>4, <1>5, <1>6, <4>1
    <3>3. k \notin o .. o + F - 1
      <4> HIDE DEF k
      <4> QED
        BY <1>4, <1>5, <1>8, <3>2
    <3>4. k \div P = i /\ k % P = j
      <4>1. k = P * i + j
        OBVIOUS
      <4> HIDE DEF k
      <4> QED
        BY <1>4, <2>1, <3>2, <4>1, DivIs
    <3> HIDE DEF k
    <3>5. Bit(e, k) = Digit(2, e[i], j) /\ Bit(d, k) = Digit(2, d[i], j)
      BY <3>4, Zenon DEF Bit
    <3> QED
      BY <1>3, <3>2, <3>3, <3>5
  <2> DEFINE two == 2
  <2>4. two = 2
    OBVIOUS
  <2> HIDE DEF two
  <2>5. Lawful(two, P)
    <3>1. Lawful(two, P * window) /\ P * window >= P /\ P * window \in Nat
      <4>1. P * window >= P /\ P * window \in Nat
        BY <1>4, Widths
      <4> QED
        BY <2>4, <4>1, Widths
    <3> QED
      BY <1>4, <3>1 DEF Lawful, PowersUpTo
  <2>6. e[i] \in 0 .. two ^ P - 1 /\ d[i] \in 0 .. two ^ P - 1
    BY <2>2, <2>4 DEF Byte
  <2>7. \A j \in 0 .. P - 1 : Digit(two, e[i], j) = Digit(two, d[i], j)
    BY <2>3, <2>4, Zenon
  <2> QED
    BY <2>5, <2>6, <2>7, SameDigits
<1> QED
  BY <1>1, <1>9, <1>10, <1>11 DEF e

\* The slots of a set are written one by one, in any order.
LEMMA StoresLaw ==
  ASSUME NEW d \in ByteArray, NEW T \in SUBSET Locs, IsFiniteSet(T), NEW tbl \in [Locs -> Field]
  PROVE  /\ StoreAll(d, tbl, T) \in ByteArray
         /\ \A l \in Locs : Read(StoreAll(d, tbl, T), l) = IF l \in T THEN tbl[l] ELSE Read(d, l)
         /\ \A i \in size_in_bytes .. DataSize - 1 : StoreAll(d, tbl, T)[i] = d[i]
<1> DEFINE r == StoreAll(d, tbl, T)
           c(s) == CHOOSE x \in s : TRUE
           F(g) == [s \in SUBSET T |-> IF s = {} THEN d ELSE Store(g[s \ {c(s)}], c(s), tbl[c(s)])]
           iter == CHOOSE g : g = F(g)
           op   == [l \in T |-> [e \in ByteArray |-> Store(e, l, tbl[l])]]
           Law(s, e) == /\ e \in ByteArray
                        /\ \A l \in Locs : Read(e, l) = IF l \in s THEN tbl[l] ELSE Read(d, l)
                        /\ \A i \in size_in_bytes .. DataSize - 1 : e[i] = d[i]
           K == {s \in SUBSET T : Law(s, iter[s])}
<1>1. r = iter[T]
  BY Zenon DEF StoreAll, FoldSet, MapThenFoldSet
<1>2. ASSUME NEW s \in SUBSET T, s # {} PROVE c(s) \in s /\ c(s) \in T /\ s \ {c(s)} \in SUBSET T
  BY <1>2
<1>3. \E g : g = F(g)
  <2>1. op \in [T -> [ByteArray -> ByteArray]]
    BY StoreLaw
  <2>2. PICK g \in [SUBSET T -> ByteArray] : FoldsOver(T, d, op, g)
    <3> HIDE DEF op
    <3> QED
      BY <2>1, FoldExists
  <2>3. g = [s \in SUBSET T |-> IF s = {} THEN d ELSE op[c(s)][g[s \ {c(s)}]]]
    BY <2>2, Zenon DEF FoldsOver
  <2>4. ASSUME NEW s \in SUBSET T
        PROVE  g[s] = IF s = {} THEN d ELSE Store(g[s \ {c(s)}], c(s), tbl[c(s)])
    <3>1. g[s] = IF s = {} THEN d ELSE op[c(s)][g[s \ {c(s)}]]
      <4> HIDE DEF op, c
      <4> QED
        BY <2>3
    <3>2. CASE s # {}
      <4>1. c(s) \in T /\ s \ {c(s)} \in SUBSET T
        BY <1>2, <3>2
      <4> HIDE DEF c
      <4>2. g[s \ {c(s)}] \in ByteArray
        BY <2>2, <4>1
      <4>3. op[c(s)][g[s \ {c(s)}]] = Store(g[s \ {c(s)}], c(s), tbl[c(s)])
        BY <4>1, <4>2
      <4> QED
        BY <3>1, <3>2, <4>3
    <3> QED
      BY <3>1, <3>2
  <2>5. g = F(g)
    <3> HIDE DEF c
    <3> QED
      BY <2>2, <2>4
  <2> QED
    BY <2>5
<1>4. iter = F(iter)
  <2> HIDE DEF F
  <2> QED
    BY <1>3, Zenon
<1> HIDE DEF iter, c
<1>5. /\ iter[{}] = d
      /\ \A s \in SUBSET T : s # {} => iter[s] = Store(iter[s \ {c(s)}], c(s), tbl[c(s)])
  <2>1. \A s \in SUBSET T : iter[s] = IF s = {} THEN d ELSE Store(iter[s \ {c(s)}], c(s), tbl[c(s)])
    BY <1>4
  <2> QED
    BY <2>1
<1>6. {} \in K
  <2>1. Law({}, d)
    OBVIOUS
  <2> HIDE DEF Law
  <2> QED
    BY <1>5, <2>1
<1>7. ASSUME NEW s \in SUBSET T, NEW x \in s, NEW e, Law(s \ {x}, e) PROVE Law(s, Store(e, x, tbl[x]))
  <2>1. x \in Locs /\ tbl[x] \in Field /\ e \in ByteArray
    BY <1>7
  <2> DEFINE f == Store(e, x, tbl[x])
  <2>2. /\ f \in ByteArray /\ Read(f, x) = tbl[x]
        /\ \A m \in Locs : m # x => Read(f, m) = Read(e, m)
        /\ \A i \in size_in_bytes .. DataSize - 1 : f[i] = e[i]
    BY <2>1, StoreLaw
  <2> HIDE DEF f
  <2>3. Law(s, f)
    BY <1>7, <2>2
  <2> QED
    BY <2>3 DEF f
<1>8. ASSUME NEW s \in SUBSET T, s # {} PROVE \E x \in s : s \ {x} \in K => s \in K
  <2>1. c(s) \in s
    BY <1>2, <1>8
  <2>2. ASSUME s \ {c(s)} \in K PROVE s \in K
    <3> HIDE DEF Law
    <3>1. Law(s \ {c(s)}, iter[s \ {c(s)}])
      BY <2>2
    <3>2. Law(s, Store(iter[s \ {c(s)}], c(s), tbl[c(s)]))
      BY <1>7, <2>1, <3>1
    <3>3. iter[s] = Store(iter[s \ {c(s)}], c(s), tbl[c(s)])
      BY <1>5, <1>8
    <3> QED
      BY <3>2, <3>3
  <2> HIDE DEF K
  <2> QED
    BY <2>1, <2>2
<1>9. T \in K
  <2>1. K \in SUBSET (SUBSET T)
    OBVIOUS
  <2> HIDE DEF K
  <2> QED
    BY <1>6, <1>8, <2>1, FiniteClimb
<1>10. Law(T, r)
  <2> HIDE DEF Law
  <2> QED
    BY <1>1, <1>9
<1> QED
  BY <1>10

-----------------------------------------------------------------------------
(* The bytes hold the table.                                               *)

\* The inductive invariant: the bytes are bytes and read as the table.
BytesInv ==
  /\ FilterInv
  /\ data \in ByteArray
  /\ \A l \in Locs : Read(data, l) = table[l]
  /\ \A i \in size_in_bytes .. DataSize - 1 : data[i] = 0

\* A slot holds a field.
LEMMA MarksAreFields == Marks \subseteq Field
<1> DEFINE two == 2
           F == fingerprint_bits
<1>1. two = 2
  OBVIOUS
<1> HIDE DEF two
<1>2. F \in Nat \ {0} /\ F \in 0 .. ByteBits * window /\ Lawful(two, ByteBits * window)
  <2> DEFINE n == ByteBits * window
  <2>1. /\ F \in Nat \ {0} /\ ByteBits \in Nat \ {0} /\ ByteBits - 1 + F <= n /\ n \in Nat
        /\ Lawful(two, n)
    BY <1>1, Widths
  <2> HIDE DEF n
  <2>2. F \in 0 .. n
    BY <2>1
  <2> QED
    BY <2>1, <2>2 DEF n
<1>3. two ^ F \in Nat \ {0}
  BY <1>2, PowerType
<1>4. 1 .. two ^ F - 1 \subseteq 0 .. two ^ F - 1 /\ 0 \in 0 .. two ^ F - 1
  BY <1>3
<1> QED
  BY <1>1, <1>4 DEF Marks, Fingerprints, Field

\* There are finitely many slots.
LEMMA FiniteLocs == IsFiniteSet(Locs)
<1>1. num_buckets(scheme) \in Nat /\ BucketSize \in Nat
  BY Sizes
<1>2. IsFiniteSet(0 .. num_buckets(scheme) - 1) /\ IsFiniteSet(0 .. BucketSize - 1)
  BY <1>1, FS_Interval
<1> QED
  BY <1>2, FS_Product DEF Locs, Slots

LEMMA BytesBegin == TableInit /\ FilterInv => BytesInv
<1> SUFFICES ASSUME TableInit, FilterInv PROVE BytesInv
  OBVIOUS
<1> DEFINE two == 2
           n == ByteBits * window
<1>1. two = 2
  OBVIOUS
<1> HIDE DEF two
<1>2. ByteBits \in Nat \ {0} /\ Lawful(two, n) /\ n \in Nat
  BY <1>1, Widths
<1>3. window \in Nat \ {0} /\ DataSize \in Nat /\ size_in_bytes \in Nat
  BY Widths, Sizes
<1>4. ByteBits \in 0 .. n
  BY <1>2, <1>3
<1>5. two ^ ByteBits \in Nat \ {0} /\ two ^ 0 = 1
  BY <1>2, <1>4, PowerType DEF Lawful, PowersUpTo
<1>6. 0 \in Byte
  <2>1. 0 \in 0 .. two ^ ByteBits - 1
    BY <1>5
  <2> QED
    BY <1>1, <2>1 DEF Byte
<1>7. data = [i \in 0 .. DataSize - 1 |-> 0]
  <2>1. data = [i \in 0 .. size_in_bytes + (2 * Window - 1) |-> 0]
    BY Zenon DEF TableInit
  <2>2. DataSize = size_in_bytes + 2 * Window /\ Window \in Nat
    BY Sizes, TableAssumption
  <2>3. size_in_bytes + (2 * Window - 1) = DataSize - 1
    BY <1>3, <2>2
  <2> QED
    BY <2>1, <2>3
<1>8. data \in ByteArray /\ \A i \in 0 .. DataSize - 1 : data[i] = 0
  BY <1>6, <1>7 DEF ByteArray
<1>9. \A i \in size_in_bytes .. DataSize - 1 : data[i] = 0
  BY <1>3, <1>8
<1>10. \A j \in 0 .. n : Digit(two, 0, j) = 0
  <2>1. 0 \in 0 .. n /\ 0 \in 0 .. two ^ 0 - 1
    BY <1>2, <1>5
  <2> HIDE DEF n
  <2> QED
    BY <1>2, <2>1, NothingAbove
<1>11. ASSUME NEW k \in Nat, k < ByteBits * size_in_bytes PROVE Bit(data, k) = 0
  <2> DEFINE i == k \div ByteBits
             j == k % ByteBits
  <2>1. i \in Nat /\ j \in 0 .. ByteBits - 1 /\ k = ByteBits * i + j
    <3>1. \A b \in Nat \ {0} : k \div b \in Nat /\ k % b \in 0 .. b - 1 /\ k = b * (k \div b) + (k % b)
      BY DivMod
    <3> QED
      BY <1>2, <3>1
  <2> HIDE DEF i, j
  <2>2. i < size_in_bytes
    <3> SUFFICES ASSUME i >= size_in_bytes PROVE FALSE
      BY <1>3, <2>1
    <3>1. ByteBits * i >= ByteBits * size_in_bytes /\ ByteBits * i \in Nat /\ ByteBits * size_in_bytes \in Nat
      BY <1>2, <1>3, <2>1
    <3> DEFINE a == ByteBits * i
               b == ByteBits * size_in_bytes
    <3>2. a >= b /\ a \in Nat /\ b \in Nat /\ k = a + j /\ k < b
      BY <1>11, <2>1, <3>1
    <3> HIDE DEF a, b
    <3> QED
      BY <1>2, <2>1, <3>2
  <2>3. DataSize = size_in_bytes + 2 * Window /\ Window \in Nat
    BY Sizes, TableAssumption
  <2>4. i \in 0 .. DataSize - 1
    BY <1>3, <2>1, <2>2, <2>3
  <2>5. Bit(data, k) = Digit(two, data[i], j)
    BY <1>1, Zenon DEF Bit, i, j
  <2>6. j \in 0 .. n
    <3> HIDE DEF n
    <3> QED
      BY <1>2, <1>4, <2>1
  <2> QED
    BY <1>8, <1>10, <2>4, <2>5, <2>6
<1>12. ASSUME NEW l \in Locs PROVE Read(data, l) = table[l]
  <2>1. table[l] = 0
    BY DEF TableInit, Init
  <2>2. Read(data, l) \in Field /\ 0 \in Field
    <3>1. FilterInv
      OBVIOUS
    <3>2. table[l] \in Field
      BY <3>1, MarksAreFields DEF FilterInv, FilterType
    <3> QED
      BY <1>8, <2>1, <3>2, ReadBits
  <2>3. ASSUME NEW t \in 0 .. fingerprint_bits - 1 PROVE Digit(2, Read(data, l), t) = Digit(2, 0, t)
    <3>1. Digit(2, Read(data, l), t) = Bit(data, bit_offset(l) + t)
      BY <1>8, ReadBits
    <3>2. /\ bit_offset(l) \in Nat /\ bit_offset(l) + fingerprint_bits <= TotalBits
          /\ TotalBits \in Nat /\ TotalBits <= ByteBits * size_in_bytes
          /\ fingerprint_bits \in Nat \ {0} /\ ByteBits - 1 + fingerprint_bits <= n
      BY SlotsApart, Sizes, Widths
    <3>3. bit_offset(l) + t \in Nat /\ bit_offset(l) + t < ByteBits * size_in_bytes
      <4> DEFINE a == ByteBits * size_in_bytes
      <4>1. a \in Nat /\ TotalBits <= a
        BY <1>2, <1>3, <3>2
      <4> HIDE DEF a
      <4>2. bit_offset(l) + t \in Nat /\ bit_offset(l) + t < a
        BY <3>2, <4>1
      <4> QED
        BY <4>2 DEF a
    <3>4. t \in 0 .. n
      <4> HIDE DEF n
      <4> QED
        BY <1>2, <3>2
    <3> QED
      BY <1>1, <1>10, <1>11, <3>1, <3>3, <3>4
  <2> QED
    BY <2>1, <2>2, <2>3, SameField
<1> QED
  BY <1>8, <1>9, <1>12, Zenon DEF BytesInv

\* A step writes the slots it changes.
LEMMA BytesGoOn == BytesInv /\ FilterInv' /\ [TableNext]_tableVars => BytesInv'
<1> SUFFICES ASSUME BytesInv, FilterInv', [TableNext]_tableVars PROVE BytesInv'
  OBVIOUS
<1>1. table \in [Locs -> Field] /\ table' \in [Locs -> Field]
  <2>1. table \in [Locs -> Field]
    BY MarksAreFields DEF BytesInv, FilterInv, FilterType
  <2>2. table' \in [Locs -> Field]
    BY MarksAreFields DEF FilterInv, FilterType
  <2> QED
    BY <2>1, <2>2
<1>2. /\ data \in ByteArray
      /\ \A l \in Locs : Read(data, l) = table[l]
      /\ \A i \in size_in_bytes .. DataSize - 1 : data[i] = 0
  BY DEF BytesInv
<1>3. CASE TableNext
  <2>1. data' = StoreAll(data, table', Writes)
    BY <1>3 DEF TableNext
  <2>2. Writes \in SUBSET Locs /\ IsFiniteSet(Writes) /\ \A l \in Locs : l \notin Writes => table'[l] = table[l]
    <3>1. Writes \in SUBSET Locs /\ \A l \in Locs : l \notin Writes => table'[l] = table[l]
      BY DEF Writes
    <3> QED
      BY <3>1, FiniteLocs, FS_Subset
  <2>3. /\ data' \in ByteArray
        /\ \A l \in Locs : Read(data', l) = IF l \in Writes THEN table'[l] ELSE Read(data, l)
        /\ \A i \in size_in_bytes .. DataSize - 1 : data'[i] = data[i]
    BY <1>1, <1>2, <2>1, <2>2, StoresLaw
  <2>4. \A l \in Locs : Read(data', l) = table'[l]
    BY <1>2, <2>2, <2>3
  <2>5. \A i \in size_in_bytes .. DataSize - 1 : data'[i] = 0
    BY <1>2, <2>3
  <2> QED
    BY <2>3, <2>4, <2>5 DEF BytesInv
<1>4. CASE UNCHANGED tableVars
  <2>1. data' = data /\ table' = table
    BY <1>4 DEF tableVars, vars
  <2> QED
    BY <1>2, <2>1 DEF BytesInv
<1> QED
  BY <1>3, <1>4

\* The bytes of the filter's table, in any state of the program, hold its
\* fingerprints.
THEOREM BytesInvariance == TableSpec => []BytesInv
<1>1. TableSpec => Spec
  <2>1. TableInit => Init
    BY DEF TableInit
  <2>2. [TableNext]_tableVars => [Next]_vars
    BY DEF TableNext, tableVars
  <2> QED
    BY <2>1, <2>2, PTL DEF TableSpec, Spec
<1> QED
  BY <1>1, BytesBegin, BytesGoOn, FilterInvariance, PTL DEF TableSpec

\* Each slot reads as the fingerprint last written to it, whatever slots share
\* its bytes and its window, and the padding stays zero (read, write).
THEOREM FilterBytesHoldTable == TableSpec => []BytesHoldTable
<1>1. BytesInv => BytesHoldTable
  <2> SUFFICES ASSUME BytesInv PROVE BytesHoldTable
    OBVIOUS
  <2>1. data \in ByteArray /\ size_in_bytes \in Nat /\ DataSize \in Nat
    BY Sizes DEF BytesInv
  <2>2. DOMAIN data = 0 .. DataSize - 1 /\ \A i \in DOMAIN data : data[i] \in 0 .. 2^ByteBits - 1
    BY <2>1 DEF ByteArray, Byte
  <2>3. \A i \in DOMAIN data : i >= size_in_bytes => data[i] = 0
    BY <2>1, <2>2 DEF BytesInv
  <2> QED
    BY <2>2, <2>3 DEF BytesHoldTable, BytesInv
<1> QED
  BY <1>1, BytesInvariance, PTL

=============================================================================
